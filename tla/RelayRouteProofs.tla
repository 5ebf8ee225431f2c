--------------------------- MODULE RelayRouteProofs ---------------------------
(***************************************************************************)
(* Proofs about the remote route: the replay set and the revocation gate   *)
(* of the relay, and the order of the frames the bridge writes.  The two   *)
(* halves share no state, and each has an inductive invariant of its own.  *)
(***************************************************************************)
EXTENDS RelayRoute, TLAPS

\* A leaf is tried with Zenon, then with SMT, for at most so many seconds.
USE ZenonT(5), SMTT(20)

-----------------------------------------------------------------------------
(* The tickets and their verification.                                     *)

Keys == Processes \cup {NoKey}
Ticket == [route : Int, endpoint : {"agent", "client"}, minted : Int, expires : Int,
           epoch : Int, key : Keys, asOf : Int]
Check == [at : {"idle", "replay", "sign"}, id : Nat, read : Int]

\* A state of the identity store, by the one field the relay reads.
Whole(st) == st = [f \in {"authorized", "counter", "epoch"} |-> st[f]] /\ st.epoch \in Int

StoreTypes ==
  /\ Whole(file) /\ store = [p \in Processes |-> store[p]] /\ \A p \in Processes : Whole(store[p])
  /\ manager = [f \in {"epoch", "pending", "active"} |-> manager[f]] /\ manager.epoch \in Int

KeyTypes == keyFile \in Keys /\ proc = [p \in Processes |-> proc[p]] /\ key \in [Processes -> Keys]

TicketTypes ==
  /\ clock \in Int
  /\ tickets \in Seq(Ticket) /\ accepted \in Seq(Nat) /\ Len(accepted) = Len(tickets)
  /\ replay \subseteq [id : 1..Len(tickets), at : Int]
  /\ check \in [Checks -> Check]

\* Time: a ticket was minted, and is tracked, in the past, and a verification
\* that is about to look at the replay set read the clock a short while ago.
Timely ==
  /\ \A id \in 1..Len(tickets) : tickets[id].minted <= clock
  /\ \A e \in replay : tickets[e.id].minted <= e.at
  /\ \A c \in Checks :
        /\ check[c].at # "idle" => check[c].id \in 1..Len(tickets)
        /\ check[c].at = "replay" =>
              check[c].read <= tickets[check[c].id].expires /\ clock <= check[c].read + MaxPause
  /\ proc["relay"] # "up" => replay = {} /\ \A c \in Checks : check[c].at = "idle"

\* The check c has ticket id in the replay set and looks at its signature.
Signing(c, id) == check[c].at = "sign" /\ check[c].id = id

\* A ticket whose lifetime leaves room in the replay window.
Short(id) == tickets[id].expires + MaxPause <= tickets[id].minted + TTL

\* One at a time: the check that looks at the signature of a short ticket is the
\* only one, and the first; and the ticket is tracked until nobody can present it.
Exclusively ==
  \A id \in 1..Len(tickets) : Short(id) =>
     /\ accepted[id] <= 1
     /\ \A c \in Checks : Signing(c, id) =>
           accepted[id] = 0 /\ \A d \in Checks : Signing(d, id) => d = c
     /\ proc["relay"] = "up" /\ (accepted[id] > 0 \/ \E c \in Checks : Signing(c, id)) =>
           (\E e \in replay : e.id = id) \/ clock > tickets[id].expires + MaxPause

\* An entry belongs to a ticket that was accepted or whose signature is looked at.
Owned == \A e \in replay : accepted[e.id] > 0 \/ \E c \in Checks : Signing(c, e.id)

Gated ==
  \A id \in 1..Len(tickets) :
     accepted[id] > 0 => tickets[id].epoch >= store["relay"].epoch /\ tickets[id].epoch > 0

\* The gate: a relay that serves has read the epoch of an identity file.
Epochs ==
  /\ file.epoch >= 0 /\ \A p \in Processes : store[p].epoch >= -1
  /\ proc["relay"] = "up" => store["relay"].epoch >= 0

\* The Agent is the only writer of the file while it runs, so that the epoch in the
\* file only grows and no copy of it, and no stamp made from a copy, is ahead.
Ordered ==
  /\ \A p \in Processes : store[p].epoch <= file.epoch
  /\ proc["agent"] # "down" => store["agent"].epoch = file.epoch
  /\ manager.epoch <= file.epoch
  /\ \A id \in 1..Len(tickets) : tickets[id].epoch <= tickets[id].asOf

TicketInv == StoreTypes /\ KeyTypes /\ TicketTypes /\ Timely /\ Exclusively /\ Owned /\ Gated

-----------------------------------------------------------------------------
(* A connection and its frames.                                            *)

Fields == {"pc", "local", "stream", "joined", "ctx", "watch", "sent", "wire", "pump", "hold", "buf",
           "a", "b", "take", "got"}
Frames == {"sent", "wire", "pump", "hold", "buf", "b", "take", "got"}
Shape(c) == c = [f \in Fields |-> c[f]]
Typed(c) ==
  /\ c.sent \in Nat /\ c.hold \in Nat /\ c.take \in Nat
  /\ c.wire \in Seq(Nat) /\ c.buf \in Seq(Nat) /\ c.got \in Seq(Nat)

\* The frames that left the buffer of the stream, and those that left its wire.
Out(c) == Len(c.got) + (IF c.b = "write" THEN 1 ELSE 0)
Off(c) == Out(c) + Len(c.buf) + (IF c.pump = "hold" THEN 1 ELSE 0)

\* While local is open the frames in the hands of the two goroutines, in the
\* buffer and on the wire continue what was written without a gap; an error is
\* the last thing readPump puts into the buffer.
Streaming(c) ==
  /\ c.b = "write" => c.take = Len(c.got) + 1
  /\ c.pump = "hold" /\ c.hold # 0 => c.hold = Out(c) + Len(c.buf) + 1
  /\ \A i \in 1..Len(c.buf) : c.buf[i] = Out(c) + i \/ (c.buf[i] = 0 /\ c.pump = "off" /\ i = Len(c.buf))
  /\ c.pump = "read" \/ (c.pump = "hold" /\ c.hold # 0) =>
        /\ \A i \in 1..Len(c.wire) : c.wire[i] = Off(c) + i
        /\ c.sent = Off(c) + Len(c.wire)

\* Nothing moves before the dial, and nothing is written after the bridge returned.
Early(c) == c.pc \in {"none", "local", "connect", "dial"}
Late(c) == ~Early(c) /\ c.pc # "bridge"
InOrder(c) ==
  /\ Shape(c) /\ Typed(c)
  /\ \A i \in 1..Len(c.got) : c.got[i] = i
  /\ Early(c) => /\ c.stream = "none" /\ c.pump = "off" /\ c.b = "off" /\ c.a = "off" /\ c.sent = 0
                 /\ Len(c.wire) = 0 /\ Len(c.buf) = 0 /\ Len(c.got) = 0
  /\ Late(c) => c.b \in {"off", "done"}
  /\ c.local = "open" /\ c.b \in {"read", "write"} => Streaming(c)

ConnInv == conn = [r \in Routes |-> conn[r]] /\ \A r \in Routes : InOrder(conn[r])

\* A step that leaves the frames alone: local is not opened while the bridge runs.
LEMMA SameFrames ==
  ASSUME NEW c, InOrder(c), NEW x, Shape(x),
         \A f \in Frames : x[f] = c[f],
         x.local = "open" => c.local = "open" \/ Early(c),
         Early(x) => Early(c) /\ x.stream = c.stream /\ x.a = c.a,
         Late(x) => Late(c) \/ c.b \in {"off", "done"}
  PROVE  InOrder(x)
<1>1. /\ x.sent = c.sent /\ x.wire = c.wire /\ x.pump = c.pump /\ x.hold = c.hold /\ x.buf = c.buf
      /\ x.b = c.b /\ x.take = c.take /\ x.got = c.got
  BY DEF Frames
<1>2. Streaming(c) => Streaming(x)
  <2>1. Out(x) = Out(c)
    BY <1>1 DEF Out
  <2>2. Off(x) = Off(c)
    BY <1>1, <2>1 DEF Off
  <2>. QED
    BY <1>1, <2>1, <2>2, Zenon DEF Streaming
<1>3. Early(c) => c.b # "read" /\ c.b # "write"
  BY DEF InOrder
<1>4. x.local = "open" /\ x.b \in {"read", "write"} => Streaming(x)
  BY <1>1, <1>2, <1>3 DEF InOrder
<1>5. Typed(x)
  BY <1>1 DEF InOrder, Typed
<1>6. Early(x) => /\ x.stream = "none" /\ x.pump = "off" /\ x.b = "off" /\ x.a = "off" /\ x.sent = 0
                  /\ Len(x.wire) = 0 /\ Len(x.buf) = 0 /\ Len(x.got) = 0
  BY <1>1 DEF InOrder
<1>7. Late(x) => x.b \in {"off", "done"}
  BY <1>1 DEF InOrder
<1>. QED
  BY <1>1, <1>4, <1>5, <1>6, <1>7 DEF InOrder

\* Once the bridge no longer reads, frames are not written any more.
LEMMA NoMoreFrames ==
  ASSUME NEW x, Shape(x), Typed(x), ~Early(x), x.b \in {"off", "done"}, \A i \in 1..Len(x.got) : x.got[i] = i
  PROVE  InOrder(x)
BY DEF InOrder

\* Dial: the pumps start on an empty stream.
LEMMA DialInOrder ==
  ASSUME NEW c, InOrder(c), c.pc = "dial"
  PROVE  InOrder([c EXCEPT !.pc = "bridge", !.stream = "open", !.pump = "read", !.a = "read", !.b = "read"])
<1>. DEFINE x == [c EXCEPT !.pc = "bridge", !.stream = "open", !.pump = "read", !.a = "read", !.b = "read"]
<1>1. Shape(c) /\ Typed(c) /\ Len(c.wire) = 0 /\ Len(c.buf) = 0 /\ Len(c.got) = 0 /\ c.sent = 0
  BY DEF InOrder, Early
<1>2. Shape(x)
  BY <1>1 DEF Shape
<1>3. /\ x.pc = "bridge" /\ x.pump = "read" /\ x.b = "read" /\ x.sent = c.sent
      /\ x.wire = c.wire /\ x.buf = c.buf /\ x.got = c.got /\ x.hold = c.hold /\ x.take = c.take
  BY <1>1 DEF Shape, Fields
<1>. HIDE DEF x
<1>4. Typed(x)
  BY <1>1, <1>3 DEF Typed
<1>5. Streaming(x)
  <2>1. Len(x.got) = 0 /\ Len(x.buf) = 0 /\ Len(x.wire) = 0 /\ x.sent = 0
    BY <1>1, <1>3
  <2>2. x.b # "write" /\ x.pump # "hold"
    BY <1>3
  <2>3. Out(x) = 0 /\ Off(x) = 0
    BY <2>1, <2>2 DEF Out, Off
  <2>. QED
    BY <2>1, <2>2, <2>3 DEF Streaming
<1>6. ~Early(x) /\ ~Late(x)
  BY <1>3 DEF Early, Late
<1>7. \A i \in 1..Len(x.got) : x.got[i] = i
  BY <1>1, <1>3
<1>. QED
  BY <1>2, <1>4, <1>5, <1>6, <1>7 DEF InOrder, x

\* A step that moves frames while the bridge is as far as it was.
LEMMA FramesMoved ==
  ASSUME NEW c, InOrder(c), ~Early(c), NEW x, Shape(x), Typed(x), x.pc = c.pc,
         x.b = c.b \/ x.b = "done" \/ (x.b \in {"read", "write"} /\ c.b \in {"read", "write"}),
         \A i \in 1..Len(x.got) : x.got[i] = i,
         x.local = "open" /\ x.b \in {"read", "write"} => Streaming(x)
  PROVE  InOrder(x)
<1>1. ~Early(x) /\ (Late(x) <=> Late(c))
  BY DEF Early, Late
<1>2. Late(x) => x.b \in {"off", "done"}
  BY <1>1 DEF InOrder
<1>. QED
  BY <1>1, <1>2 DEF InOrder

\* Taking the first element of a sequence.
LEMMA FirstTaken ==
  ASSUME NEW s \in Seq(Nat), s # <<>>
  PROVE  /\ Head(s) \in Nat /\ Head(s) = s[1] /\ 1 \in 1..Len(s)
         /\ Tail(s) \in Seq(Nat) /\ Len(Tail(s)) \in Nat /\ Len(Tail(s)) + 1 = Len(s)
         /\ \A i \in 1..Len(Tail(s)) : i \in Nat /\ i + 1 \in 1..Len(s) /\ Tail(s)[i] = s[i + 1]
OBVIOUS

\* Adding an element.
LEMMA LastAdded ==
  ASSUME NEW s \in Seq(Nat), NEW n \in Nat
  PROVE  /\ Append(s, n) \in Seq(Nat) /\ Len(s) \in Nat /\ Len(Append(s, n)) = Len(s) + 1
         /\ \A i \in 1..Len(Append(s, n)) :
               \/ i \in 1..Len(s) /\ Append(s, n)[i] = s[i]
               \/ i = Len(s) + 1 /\ Append(s, n)[i] = n
OBVIOUS

LEMMA Counts ==
  ASSUME NEW c, Typed(c)
  PROVE  Out(c) \in Nat /\ Off(c) \in Nat /\ Len(c.got) \in Nat /\ Len(c.buf) \in Nat /\ Len(c.wire) \in Nat
<1>1. Len(c.got) \in Nat /\ Len(c.buf) \in Nat /\ Len(c.wire) \in Nat
  BY DEF Typed
<1>2. Out(c) = Len(c.got) + 1 \/ Out(c) = Len(c.got) + 0
  BY DEF Out
<1>3. Off(c) = Out(c) + Len(c.buf) + 1 \/ Off(c) = Out(c) + Len(c.buf) + 0
  BY DEF Off
<1>4. Out(c) \in Nat
  BY <1>1, <1>2
<1>. QED
  BY <1>1, <1>3, <1>4

\* readPump has the next frame.
LEMMA PumpReads ==
  ASSUME NEW c, Typed(c), Streaming(c), c.pump = "read", c.wire # <<>>, NEW x,
         x.pump = "hold", x.hold = Head(c.wire), x.wire = Tail(c.wire),
         x.sent = c.sent, x.buf = c.buf, x.b = c.b, x.take = c.take, x.got = c.got
  PROVE  Streaming(x)
<1>1. /\ \A i \in 1..Len(c.wire) : c.wire[i] = Off(c) + i
      /\ c.sent = Off(c) + Len(c.wire)
  BY DEF Streaming
<1>2. /\ Head(c.wire) = c.wire[1] /\ 1 \in 1..Len(c.wire)
      /\ Len(Tail(c.wire)) \in Nat /\ Len(Tail(c.wire)) + 1 = Len(c.wire)
      /\ \A i \in 1..Len(Tail(c.wire)) : i \in Nat /\ i + 1 \in 1..Len(c.wire) /\ Tail(c.wire)[i] = c.wire[i + 1]
  BY FirstTaken DEF Typed
<1>3. Out(c) \in Nat /\ Off(c) \in Nat /\ Len(c.buf) \in Nat
  BY Counts
<1>4. Out(x) = Out(c)
  BY DEF Out
<1>5. Off(c) = Out(c) + Len(c.buf)
  BY <1>3 DEF Off
<1>6. Off(x) = Off(c) + 1
  BY <1>3, <1>4, <1>5 DEF Off
<1>7. x.hold = Out(x) + Len(x.buf) + 1
  BY <1>1, <1>2, <1>4, <1>5
<1>8. \A i \in 1..Len(x.wire) : x.wire[i] = Off(x) + i
  BY <1>1, <1>2, <1>3, <1>6
<1>9. x.sent = Off(x) + Len(x.wire)
  BY <1>1, <1>2, <1>3, <1>6
<1>10. \A i \in 1..Len(x.buf) : x.buf[i] = Out(x) + i
  BY <1>4 DEF Streaming
<1>11. x.b = "write" => x.take = Len(x.got) + 1
  BY DEF Streaming
<1>. QED
  BY <1>7, <1>8, <1>9, <1>10, <1>11 DEF Streaming

\* readPump has an error, or gives up.
LEMMA PumpEnds ==
  ASSUME NEW c, Typed(c), Streaming(c), c.pump # "off", NEW x,
         x.pump = "off" \/ (x.pump = "hold" /\ x.hold = 0),
         x.buf = c.buf \/ (x.pump = "off" /\ x.buf = Append(c.buf, 0)),
         x.b = c.b, x.take = c.take, x.got = c.got
  PROVE  Streaming(x)
<1>1. Out(x) = Out(c) /\ Out(c) \in Nat
  BY Counts DEF Out
<1>2. \A i \in 1..Len(c.buf) : c.buf[i] = Out(c) + i
  BY DEF Streaming
<1>3. /\ c.buf \in Seq(Nat) /\ Len(Append(c.buf, 0)) = Len(c.buf) + 1
      /\ \A i \in 1..Len(Append(c.buf, 0)) :
               \/ i \in 1..Len(c.buf) /\ Append(c.buf, 0)[i] = c.buf[i]
               \/ i = Len(c.buf) + 1 /\ Append(c.buf, 0)[i] = 0
  BY LastAdded DEF Typed
<1>4. \A i \in 1..Len(x.buf) : x.buf[i] = Out(x) + i \/ (x.buf[i] = 0 /\ x.pump = "off" /\ i = Len(x.buf))
  <2>1. CASE x.buf = c.buf
    BY <1>1, <1>2, <2>1
  <2>2. CASE x.pump = "off" /\ x.buf = Append(c.buf, 0)
    BY <1>1, <1>2, <1>3, <2>2
  <2>. QED
    BY <2>1, <2>2
<1>5. x.pump # "read" /\ ~(x.pump = "hold" /\ x.hold # 0)
  OBVIOUS
<1>6. x.b = "write" => x.take = Len(x.got) + 1
  BY DEF Streaming
<1>. QED
  BY <1>4, <1>5, <1>6 DEF Streaming

\* readPump hands a frame on.
LEMMA PumpDelivers ==
  ASSUME NEW c, Typed(c), Streaming(c), c.pump = "hold", c.hold # 0, NEW x,
         x.pump = "read", x.buf = Append(c.buf, c.hold),
         x.wire = c.wire, x.sent = c.sent, x.b = c.b, x.take = c.take, x.got = c.got
  PROVE  Streaming(x)
<1>1. /\ \A i \in 1..Len(c.wire) : c.wire[i] = Off(c) + i
      /\ c.sent = Off(c) + Len(c.wire)
      /\ c.hold = Out(c) + Len(c.buf) + 1
      /\ \A i \in 1..Len(c.buf) : c.buf[i] = Out(c) + i
  BY DEF Streaming
<1>2. /\ Len(x.buf) = Len(c.buf) + 1 /\ Len(c.buf) \in Nat
      /\ \A i \in 1..Len(x.buf) :
               \/ i \in 1..Len(c.buf) /\ x.buf[i] = c.buf[i]
               \/ i = Len(c.buf) + 1 /\ x.buf[i] = c.hold
  BY LastAdded DEF Typed
<1>3. Out(x) = Out(c) /\ Out(c) \in Nat
  BY Counts DEF Out
<1>4. Off(x) = Out(x) + Len(x.buf) + 0 /\ Off(c) = Out(c) + Len(c.buf) + 1
  BY DEF Off
<1>5. Off(x) = Off(c)
  BY <1>2, <1>3, <1>4
<1>6. \A i \in 1..Len(x.buf) : x.buf[i] = Out(x) + i
  BY <1>1, <1>2, <1>3
<1>7. x.b = "write" => x.take = Len(x.got) + 1
  BY DEF Streaming
<1>. QED
  BY <1>1, <1>5, <1>6, <1>7 DEF Streaming

\* The bridge takes a frame out of the buffer.
LEMMA BridgeTakes ==
  ASSUME NEW c, Typed(c), Streaming(c), c.b = "read", c.buf # <<>>, Head(c.buf) # 0, NEW x,
         x.b = "write", x.take = Head(c.buf), x.buf = Tail(c.buf),
         x.pump = c.pump, x.hold = c.hold, x.wire = c.wire, x.sent = c.sent, x.got = c.got
  PROVE  Streaming(x)
<1>1. /\ Head(c.buf) = c.buf[1] /\ 1 \in 1..Len(c.buf)
      /\ Len(x.buf) \in Nat /\ Len(x.buf) + 1 = Len(c.buf)
      /\ \A i \in 1..Len(x.buf) : i \in Nat /\ i + 1 \in 1..Len(c.buf) /\ x.buf[i] = c.buf[i + 1]
  BY FirstTaken DEF Typed
<1>2. Out(c) = Len(c.got) + 0 /\ Out(x) = Len(c.got) + 1
  BY DEF Out
<1>3. Len(c.got) \in Nat /\ Out(c) \in Nat /\ Out(x) = Out(c) + 1
  BY <1>2, Counts
<1>4. \A i \in 1..Len(c.buf) : c.buf[i] = Out(c) + i \/ (c.buf[i] = 0 /\ c.pump = "off" /\ i = Len(c.buf))
  BY DEF Streaming
<1>5. x.take = Len(x.got) + 1
  BY <1>1, <1>2, <1>3, <1>4
<1>6. \A i \in 1..Len(x.buf) : x.buf[i] = Out(x) + i \/ (x.buf[i] = 0 /\ x.pump = "off" /\ i = Len(x.buf))
  <2>1. ASSUME NEW i \in 1..Len(x.buf), x.buf[i] = Out(c) + (i + 1)
        PROVE  x.buf[i] = Out(x) + i
    BY <1>1, <1>3, <2>1
  <2>2. ASSUME NEW i \in 1..Len(x.buf), i + 1 = Len(c.buf)
        PROVE  i = Len(x.buf)
    BY <1>1, <2>2
  <2>. QED
    BY <1>1, <1>4, <2>1, <2>2
<1>7. Out(x) + Len(x.buf) = Out(c) + Len(c.buf)
  BY <1>1, <1>3
<1>8. Off(x) = Off(c)
  BY <1>7 DEF Off
<1>9. c.pump = "hold" /\ c.hold # 0 => x.hold = Out(x) + Len(x.buf) + 1
  BY <1>7 DEF Streaming
<1>10. c.pump = "read" \/ (c.pump = "hold" /\ c.hold # 0) =>
          /\ \A i \in 1..Len(x.wire) : x.wire[i] = Off(x) + i
          /\ x.sent = Off(x) + Len(x.wire)
  BY <1>8 DEF Streaming
<1>. QED
  BY <1>5, <1>6, <1>9, <1>10 DEF Streaming

\* The bridge writes it to local.
LEMMA BridgeWrites ==
  ASSUME NEW c, Typed(c), Streaming(c), c.b = "write", \A i \in 1..Len(c.got) : c.got[i] = i, NEW x,
         x.b = "read", x.got = Append(c.got, c.take),
         x.pump = c.pump, x.hold = c.hold, x.wire = c.wire, x.sent = c.sent, x.buf = c.buf
  PROVE  Streaming(x) /\ \A i \in 1..Len(x.got) : x.got[i] = i
<1>1. c.take = Len(c.got) + 1
  BY DEF Streaming
<1>2. /\ Len(x.got) = Len(c.got) + 1
      /\ \A i \in 1..Len(x.got) :
               \/ i \in 1..Len(c.got) /\ x.got[i] = c.got[i]
               \/ i = Len(c.got) + 1 /\ x.got[i] = c.take
  BY LastAdded DEF Typed
<1>3. \A i \in 1..Len(x.got) : x.got[i] = i
  BY <1>1, <1>2
<1>4. Out(x) = Len(x.got) + 0 /\ Out(c) = Len(c.got) + 1 /\ Len(c.got) \in Nat
  BY Counts DEF Out
<1>5. Out(x) = Out(c)
  BY <1>2, <1>4
<1>6. Off(x) = Off(c)
  BY <1>5 DEF Off
<1>. QED
  BY <1>3, <1>5, <1>6 DEF Streaming

\* The client sends the next frame.
LEMMA WireGrows ==
  ASSUME NEW c, Typed(c), Streaming(c), NEW x,
         x.wire = Append(c.wire, c.sent + 1), x.sent = c.sent + 1,
         x.pump = c.pump, x.hold = c.hold, x.buf = c.buf, x.b = c.b, x.take = c.take, x.got = c.got
  PROVE  Streaming(x)
<1>1. c.sent + 1 \in Nat /\ c.wire \in Seq(Nat) /\ c.sent \in Nat
  BY DEF Typed
<1>2. /\ Len(x.wire) = Len(c.wire) + 1
      /\ \A i \in 1..Len(x.wire) :
               \/ i \in 1..Len(c.wire) /\ x.wire[i] = c.wire[i]
               \/ i = Len(c.wire) + 1 /\ x.wire[i] = c.sent + 1
  BY <1>1, LastAdded
<1>3. Out(x) = Out(c)
  BY DEF Out
<1>4. Off(x) = Off(c) /\ Off(c) \in Nat /\ Len(c.wire) \in Nat
  BY <1>3, Counts DEF Off
<1>5. ASSUME c.pump = "read" \/ (c.pump = "hold" /\ c.hold # 0)
      PROVE  /\ \A i \in 1..Len(x.wire) : x.wire[i] = Off(x) + i
             /\ x.sent = Off(x) + Len(x.wire)
  <2>1. /\ \A i \in 1..Len(c.wire) : c.wire[i] = Off(c) + i
        /\ c.sent = Off(c) + Len(c.wire)
    BY <1>5 DEF Streaming
  <2>2. x.sent = Off(x) + Len(x.wire)
    BY <1>2, <1>4, <2>1
  <2>3. c.sent + 1 = Off(c) + (Len(c.wire) + 1)
    BY <1>4, <2>1
  <2>. QED
    BY <1>2, <1>4, <2>1, <2>2, <2>3
<1>. QED
  BY <1>3, <1>5 DEF Streaming

\* Set, for whatever route.
LEMMA SetInv ==
  ASSUME ConnInv, NEW r, NEW x, Set(r, x), r \in Routes => InOrder(x)
  PROVE  ConnInv'
<1>1. conn' = [q \in Routes |-> IF q = r THEN x ELSE conn[q]]
  BY DEF ConnInv, Set
<1>2. \A q \in Routes : InOrder(conn'[q])
  BY <1>1 DEF ConnInv
<1>3. conn' = [q \in Routes |-> conn'[q]]
  BY <1>1
<1>. QED
  BY <1>2, <1>3 DEF ConnInv

\* A step of one route that leaves its frames alone.
LEMMA UnframedInv ==
  ASSUME ConnInv, NEW r, NEW x, Set(r, x), Shape(conn[r]) => Shape(x),
         r \in Routes => \A f \in Frames : x[f] = conn[r][f],
         x.local = "open" => conn[r].local = "open" \/ Early(conn[r]),
         Early(x) => Early(conn[r]) /\ (conn[r].stream = "none" => x.stream = "none") /\ x.a = conn[r].a,
         Late(x) => Late(conn[r]) \/ conn[r].b \in {"off", "done"}
  PROVE  ConnInv'
<1>1. SUFFICES ASSUME r \in Routes PROVE InOrder(x)
  BY SetInv
<1>2. InOrder(conn[r])
  BY <1>1 DEF ConnInv
<1>3. Shape(x) /\ (Early(x) => x.stream = conn[r].stream)
  BY <1>2 DEF InOrder
<1>. QED
  BY <1>1, <1>2, <1>3, SameFrames

\* What the goroutine of a route does to its connection besides dialling, and
\* the steps of the bridge and of the other ends that move no frame.
LEMMA QuietConn ==
  ASSUME ConnInv, NEW r \in Routes,
         \/ LocalFails(r) \/ LocalOpens(r) \/ Connect(r) \/ ConnectRefused(r)
         \/ DialFails(r) \/ BridgeReturns(r) \/ Cancels(r) \/ CancelRoute(r) \/ LocalRead(r)
         \/ LocalSends(r) \/ LocalEnds(r) \/ Watch(r) \/ RemoteWrite(r)
  PROVE  ConnInv'
<1>1. InOrder(conn[r]) /\ Shape(conn[r])
  BY DEF ConnInv, InOrder
<1>2. Early(conn[r]) => conn[r].b = "off" /\ conn[r].a = "off" /\ conn[r].stream = "none"
  BY <1>1 DEF InOrder
<1>3. CASE LocalFails(r)
  <2>. DEFINE x == [conn[r] EXCEPT !.pc = "failed"]
  <2>1. conn[r].pc = "local" /\ Set(r, x)
    BY <1>3 DEF LocalFails, RouteStep
  <2>2. Shape(x) /\ \A f \in Frames : x[f] = conn[r][f]
    BY <1>1 DEF Shape, Fields, Frames
  <2>3. x.pc = "failed" /\ x.local = conn[r].local
    BY <1>1 DEF Shape, Fields
  <2>. HIDE DEF x
  <2>. QED
    BY <1>1, <1>2, <2>1, <2>2, <2>3, UnframedInv DEF Early, Late
<1>4. CASE LocalOpens(r)
  <2>. DEFINE x == [conn[r] EXCEPT !.pc = "connect", !.local = "open"]
  <2>1. conn[r].pc = "local" /\ Set(r, x)
    BY <1>4 DEF LocalOpens, RouteStep
  <2>2. Shape(x) /\ \A f \in Frames : x[f] = conn[r][f]
    BY <1>1 DEF Shape, Fields, Frames
  <2>3. x.pc = "connect" /\ x.stream = conn[r].stream /\ x.a = conn[r].a
    BY <1>1 DEF Shape, Fields
  <2>. HIDE DEF x
  <2>. QED
    BY <1>1, <1>2, <2>1, <2>2, <2>3, UnframedInv DEF Early, Late
<1>5. CASE Connect(r)
  <2>. DEFINE x == [conn[r] EXCEPT !.pc = "dial", !.watch = TRUE]
  <2>1. conn[r].pc = "connect" /\ Set(r, x)
    BY <1>5 DEF Connect, RouteStep
  <2>2. Shape(x) /\ \A f \in Frames : x[f] = conn[r][f]
    BY <1>1 DEF Shape, Fields, Frames
  <2>3. x.pc = "dial" /\ x.local = conn[r].local /\ x.stream = conn[r].stream /\ x.a = conn[r].a
    BY <1>1 DEF Shape, Fields
  <2>. HIDE DEF x
  <2>. QED
    BY <1>1, <1>2, <2>1, <2>2, <2>3, UnframedInv DEF Early, Late
<1>6. CASE ConnectRefused(r)
  <2>. DEFINE x == [conn[r] EXCEPT !.pc = "failed"]
  <2>1. conn[r].pc = "connect" /\ Set(r, x)
    BY <1>6 DEF ConnectRefused, RouteStep
  <2>2. Shape(x) /\ \A f \in Frames : x[f] = conn[r][f]
    BY <1>1 DEF Shape, Fields, Frames
  <2>3. x.pc = "failed" /\ x.local = conn[r].local
    BY <1>1 DEF Shape, Fields
  <2>. HIDE DEF x
  <2>. QED
    BY <1>1, <1>2, <2>1, <2>2, <2>3, UnframedInv DEF Early, Late
<1>7. CASE DialFails(r)
  <2>. DEFINE x == [conn[r] EXCEPT !.pc = "ended"]
  <2>1. conn[r].pc = "dial" /\ Set(r, x)
    BY <1>7 DEF DialFails, RouteStep
  <2>2. Shape(x) /\ \A f \in Frames : x[f] = conn[r][f]
    BY <1>1 DEF Shape, Fields, Frames
  <2>3. x.pc = "ended" /\ x.local = conn[r].local
    BY <1>1 DEF Shape, Fields
  <2>. HIDE DEF x
  <2>. QED
    BY <1>1, <1>2, <2>1, <2>2, <2>3, UnframedInv DEF Early, Late
<1>8. CASE BridgeReturns(r)
  <2>. DEFINE x == [conn[r] EXCEPT !.pc = "ended", !.stream = Closed(@), !.joined = FALSE]
  <2>1. conn[r].b = "done" /\ Set(r, x)
    BY <1>8 DEF BridgeReturns, RouteStep
  <2>2. Shape(x) /\ \A f \in Frames : x[f] = conn[r][f]
    BY <1>1 DEF Shape, Fields, Frames
  <2>3. x.pc = "ended" /\ x.local = conn[r].local
    BY <1>1 DEF Shape, Fields
  <2>. HIDE DEF x
  <2>. QED
    BY <1>1, <1>2, <2>1, <2>2, <2>3, UnframedInv DEF Early, Late
<1>9. CASE Cancels(r)
  <2>. DEFINE x == [conn[r] EXCEPT !.pc = "cancelled", !.ctx = TRUE]
  <2>1. conn[r].pc = "ended" /\ Set(r, x)
    BY <1>9 DEF Cancels, RouteStep
  <2>2. Shape(x) /\ \A f \in Frames : x[f] = conn[r][f]
    BY <1>1 DEF Shape, Fields, Frames
  <2>3. x.pc = "cancelled" /\ x.local = conn[r].local
    BY <1>1 DEF Shape, Fields
  <2>. HIDE DEF x
  <2>. QED
    BY <1>1, <1>2, <2>1, <2>2, <2>3, UnframedInv DEF Early, Late
<1>10. CASE CancelRoute(r)
  <2>. DEFINE x == [conn[r] EXCEPT !.ctx = TRUE]
  <2>1. Set(r, x)
    BY <1>10 DEF CancelRoute, RouteStep
  <2>2. Shape(x) /\ \A f \in Frames : x[f] = conn[r][f]
    BY <1>1 DEF Shape, Fields, Frames
  <2>3. /\ x.pc = conn[r].pc /\ x.local = conn[r].local /\ x.stream = conn[r].stream
        /\ x.a = conn[r].a
    BY <1>1 DEF Shape, Fields
  <2>. HIDE DEF x
  <2>. QED
    BY <1>1, <1>2, <2>1, <2>2, <2>3, UnframedInv DEF Early, Late
<1>11. CASE LocalRead(r)
  <2>. DEFINE x == [conn[r] EXCEPT !.a = "done", !.stream = Closed(@), !.joined = FALSE]
  <2>1. conn[r].a = "read" /\ Set(r, x)
    BY <1>11 DEF LocalRead, RouteStep
  <2>2. Shape(x) /\ \A f \in Frames : x[f] = conn[r][f]
    BY <1>1 DEF Shape, Fields, Frames
  <2>3. x.pc = conn[r].pc /\ x.local = conn[r].local
    BY <1>1 DEF Shape, Fields
  <2>. HIDE DEF x
  <2>. QED
    BY <1>1, <1>2, <2>1, <2>2, <2>3, UnframedInv DEF Early, Late
<1>12. CASE LocalSends(r)
  <2>. DEFINE x == [conn[r] EXCEPT !.a = "write"]
  <2>1. conn[r].a = "read" /\ Set(r, x)
    BY <1>12 DEF LocalSends, RouteStep
  <2>2. Shape(x) /\ \A f \in Frames : x[f] = conn[r][f]
    BY <1>1 DEF Shape, Fields, Frames
  <2>3. x.pc = conn[r].pc /\ x.local = conn[r].local
    BY <1>1 DEF Shape, Fields
  <2>. HIDE DEF x
  <2>. QED
    BY <1>1, <1>2, <2>1, <2>2, <2>3, UnframedInv DEF Early, Late
<1>13. CASE LocalEnds(r)
  <2>. DEFINE x == [conn[r] EXCEPT !.local = "gone"]
  <2>1. Set(r, x)
    BY <1>13 DEF LocalEnds, RouteStep
  <2>2. Shape(x) /\ \A f \in Frames : x[f] = conn[r][f]
    BY <1>1 DEF Shape, Fields, Frames
  <2>3. x.pc = conn[r].pc /\ x.local = "gone" /\ x.stream = conn[r].stream /\ x.a = conn[r].a
    BY <1>1 DEF Shape, Fields
  <2>. HIDE DEF x
  <2>. QED
    BY <1>1, <1>2, <2>1, <2>2, <2>3, UnframedInv DEF Early, Late
<1>14. CASE Watch(r)
  <2>. DEFINE x == [conn[r] EXCEPT !.watch = FALSE, !.local = Closed(@)]
              y == [conn[r] EXCEPT !.watch = FALSE]
  <2>1. (Set(r, x) \/ Set(r, y))
    BY <1>14 DEF Watch, RouteStep
  <2>2. Shape(x) /\ \A f \in Frames : x[f] = conn[r][f]
    BY <1>1 DEF Shape, Fields, Frames
  <2>3. x.pc = conn[r].pc /\ x.local # "open" /\ x.stream = conn[r].stream /\ x.a = conn[r].a
    BY <1>1 DEF Shape, Fields, Closed
  <2>4. Shape(y) /\ \A f \in Frames : y[f] = conn[r][f]
    BY <1>1 DEF Shape, Fields, Frames
  <2>5. /\ y.pc = conn[r].pc /\ y.local = conn[r].local /\ y.stream = conn[r].stream
        /\ y.a = conn[r].a
    BY <1>1 DEF Shape, Fields
  <2>. HIDE DEF x, y
  <2>6. CASE Set(r, x)
    BY <1>1, <1>2, <2>1, <2>2, <2>3, <2>6, UnframedInv DEF Early, Late
  <2>7. CASE Set(r, y)
    BY <1>1, <1>2, <2>1, <2>4, <2>5, <2>7, UnframedInv DEF Early, Late
  <2>. QED
    BY <2>1, <2>6, <2>7
<1>15. CASE RemoteWrite(r)
  <2>. DEFINE x == [conn[r] EXCEPT !.a = "read"]
              y == [conn[r] EXCEPT !.a = "done", !.stream = "closed", !.local = Closed(@), !.joined = FALSE]
  <2>1. conn[r].a = "write" /\ (Set(r, x) \/ Set(r, y))
    BY <1>15 DEF RemoteWrite, RouteStep
  <2>2. Shape(x) /\ \A f \in Frames : x[f] = conn[r][f]
    BY <1>1 DEF Shape, Fields, Frames
  <2>3. x.pc = conn[r].pc /\ x.local = conn[r].local
    BY <1>1 DEF Shape, Fields
  <2>4. Shape(y) /\ \A f \in Frames : y[f] = conn[r][f]
    BY <1>1 DEF Shape, Fields, Frames
  <2>5. y.pc = conn[r].pc /\ y.local # "open"
    BY <1>1 DEF Shape, Fields, Closed
  <2>. HIDE DEF x, y
  <2>6. CASE Set(r, x)
    BY <1>1, <1>2, <2>1, <2>2, <2>3, <2>6, UnframedInv DEF Early, Late
  <2>7. CASE Set(r, y)
    BY <1>1, <1>2, <2>1, <2>4, <2>5, <2>7, UnframedInv DEF Early, Late
  <2>. QED
    BY <2>1, <2>6, <2>7
<1>. QED
  BY <1>3, <1>4, <1>5, <1>6, <1>7, <1>8, <1>9, <1>10, <1>11, <1>12, <1>13, <1>14, <1>15

\* A route that was given up: what is left of its frames goes nowhere.
LEMMA ReturnsConn ==
  ASSUME ConnInv, NEW r \in Routes, ConnectReturns(r)
  PROVE  ConnInv'
<1>. DEFINE c == conn[r]
            x == [c EXCEPT !.pc = "done", !.wire = <<>>, !.buf = <<>>, !.got = <<>>, !.sent = 0]
<1>1. c.pc = "cancelled" /\ Set(r, x)
  BY DEF ConnectReturns, RouteStep
<1>2. InOrder(c) /\ Shape(c) /\ Typed(c)
  BY DEF ConnInv, InOrder
<1>3. Shape(x)
  BY <1>2 DEF Shape
<1>4. /\ x.pc = "done" /\ x.wire = <<>> /\ x.buf = <<>> /\ x.got = <<>> /\ x.sent = 0
      /\ x.hold = c.hold /\ x.take = c.take /\ x.b = c.b
  BY <1>2 DEF Shape, Fields
<1>. HIDE DEF x, c
<1>5. <<>> \in Seq(Nat) /\ 0 \in Nat /\ Len(<<>>) = 0
  OBVIOUS
<1>6. Typed(x)
  BY <1>2, <1>4, <1>5 DEF Typed
<1>7. c.b \in {"off", "done"}
  BY <1>1, <1>2 DEF InOrder, Late, Early
<1>8. ~Early(x)
  BY <1>4 DEF Early
<1>9. \A i \in 1..Len(x.got) : x.got[i] = i
  BY <1>4, <1>5
<1>10. InOrder(x)
  BY <1>3, <1>4, <1>6, <1>7, <1>8, <1>9, NoMoreFrames
<1>. QED
  BY <1>1, <1>10, SetInv

\* readPump: a frame leaves the wire, is handed on or dropped, or an error is.
LEMMA PumpConn ==
  ASSUME ConnInv, NEW r \in Routes, ReadPump(r) \/ Delivers(r)
  PROVE  ConnInv'
<1>. DEFINE c == conn[r]
            failed == [c EXCEPT !.pump = "hold", !.hold = 0]
            read == [c EXCEPT !.pump = "hold", !.hold = Head(c.wire), !.wire = Tail(@)]
            put == [c EXCEPT !.pump = IF c.hold = 0 THEN "off" ELSE "read", !.hold = 0, !.buf = Append(@, c.hold)]
            drop == [c EXCEPT !.pump = "off", !.hold = 0]
<1>1. /\ c.pump # "off"
      /\ \/ Set(r, failed)
         \/ c.pump = "read" /\ c.wire # <<>> /\ Set(r, read)
         \/ c.pump = "hold" /\ Set(r, put)
         \/ Set(r, drop)
  BY DEF ReadPump, Delivers, RouteStep
<1>2. InOrder(c) /\ Shape(c) /\ Typed(c) /\ \A i \in 1..Len(c.got) : c.got[i] = i
  BY DEF ConnInv, InOrder
<1>3. ~Early(c)
  BY <1>1, <1>2 DEF InOrder
<1>4. c.local = "open" /\ c.b \in {"read", "write"} => Streaming(c)
  BY <1>2 DEF InOrder
<1>5. CASE Set(r, failed) \/ Set(r, drop)
  <2>1. ASSUME NEW x, x = failed \/ x = drop
        PROVE  InOrder(x)
    <3>1. Shape(x)
      BY <1>2, <2>1 DEF Shape
    <3>2. /\ x.pump = "off" \/ (x.pump = "hold" /\ x.hold = 0)
          /\ x.hold = 0 /\ x.pc = c.pc /\ x.sent = c.sent /\ x.wire = c.wire
      <4>1. CASE x = failed
        BY <1>2, <4>1 DEF Shape, Fields
      <4>2. CASE x = drop
        BY <1>2, <4>2 DEF Shape, Fields
      <4>. QED
        BY <2>1, <4>1, <4>2
    <3>3. /\ x.buf = c.buf /\ x.b = c.b /\ x.take = c.take /\ x.got = c.got /\ x.local = c.local
      BY <1>2, <2>1 DEF Shape, Fields
    <3>. HIDE DEF c, failed, drop
    <3>4. Typed(x)
      BY <1>2, <3>2, <3>3 DEF Typed
    <3>5. Streaming(c) => Streaming(x)
      BY <1>1, <1>2, <3>2, <3>3, PumpEnds
    <3>. QED
      BY <1>2, <1>3, <1>4, <3>1, <3>2, <3>3, <3>4, <3>5, FramesMoved
  <2>. QED
    BY <1>5, <2>1, SetInv
<1>6. CASE c.pump = "read" /\ c.wire # <<>> /\ Set(r, read)
  <2>. DEFINE x == read
  <2>1. Shape(x)
    BY <1>2 DEF Shape
  <2>2. /\ x.pump = "hold" /\ x.hold = Head(c.wire) /\ x.wire = Tail(c.wire) /\ x.pc = c.pc /\ x.sent = c.sent
        /\ x.buf = c.buf /\ x.b = c.b /\ x.take = c.take /\ x.got = c.got /\ x.local = c.local
    BY <1>2 DEF Shape, Fields
  <2>. HIDE DEF c, read, x
  <2>3. Head(c.wire) \in Nat /\ Tail(c.wire) \in Seq(Nat)
    BY <1>2, <1>6, FirstTaken DEF Typed
  <2>4. Typed(x)
    BY <1>2, <2>2, <2>3 DEF Typed
  <2>5. Streaming(c) => Streaming(x)
    BY <1>2, <1>6, <2>2, PumpReads
  <2>6. InOrder(x)
    BY <1>2, <1>3, <1>4, <2>1, <2>2, <2>4, <2>5, FramesMoved
  <2>. QED
    BY <1>6, <2>6, SetInv DEF x
<1>7. CASE c.pump = "hold" /\ Set(r, put)
  <2>. DEFINE x == put
  <2>1. Shape(x)
    BY <1>2 DEF Shape
  <2>2. /\ x.pump = (IF c.hold = 0 THEN "off" ELSE "read") /\ x.buf = Append(c.buf, c.hold) /\ x.hold = 0
        /\ x.pc = c.pc /\ x.sent = c.sent /\ x.wire = c.wire
        /\ x.b = c.b /\ x.take = c.take /\ x.got = c.got /\ x.local = c.local
    BY <1>2 DEF Shape, Fields
  <2>. HIDE DEF c, put, x
  <2>3. Append(c.buf, c.hold) \in Seq(Nat) /\ 0 \in Nat
    BY <1>2, LastAdded DEF Typed
  <2>4. Typed(x)
    BY <1>2, <2>2, <2>3 DEF Typed
  <2>5. Streaming(c) => Streaming(x)
    <3>1. CASE c.hold = 0
      BY <1>1, <1>2, <2>2, <3>1, PumpEnds
    <3>2. CASE c.hold # 0
      BY <1>2, <1>7, <2>2, <3>2, PumpDelivers
    <3>. QED
      BY <3>1, <3>2
  <2>6. InOrder(x)
    BY <1>2, <1>3, <1>4, <2>1, <2>2, <2>4, <2>5, FramesMoved
  <2>. QED
    BY <1>7, <2>6, SetInv DEF x
<1>. QED
  BY <1>1, <1>5, <1>6, <1>7

\* The bridge's way from the relay to local.
LEMMA BridgeConn ==
  ASSUME ConnInv, NEW r \in Routes, RemoteRead(r) \/ LocalWrite(r)
  PROVE  ConnInv'
<1>. DEFINE c == conn[r]
            failed == [c EXCEPT !.b = "done", !.local = Closed(@)]
            took == [c EXCEPT !.b = "write", !.take = Head(c.buf), !.buf = Tail(@)]
            wrote == [c EXCEPT !.b = "read", !.take = 0,
                               !.got = IF c.local = "open" THEN Append(@, c.take) ELSE @]
            gone == [c EXCEPT !.b = "done", !.take = 0, !.stream = Closed(@), !.joined = FALSE]
<1>1. \/ /\ c.b = "read"
         /\ \/ Set(r, failed)
            \/ c.buf # <<>> /\ Set(r, [failed EXCEPT !.buf = Tail(@)])
            \/ c.buf # <<>> /\ Head(c.buf) # 0 /\ Set(r, took)
      \/ c.b = "write" /\ (Set(r, wrote) \/ Set(r, gone))
  BY DEF RemoteRead, LocalWrite, RouteStep
<1>2. InOrder(c) /\ Shape(c) /\ Typed(c) /\ \A i \in 1..Len(c.got) : c.got[i] = i
  BY DEF ConnInv, InOrder
<1>3. ~Early(c)
  BY <1>1, <1>2 DEF InOrder
<1>4. c.local = "open" /\ c.b \in {"read", "write"} => Streaming(c)
  BY <1>2 DEF InOrder
<1>5. ASSUME NEW x, \/ x = failed \/ x = gone
                    \/ c.buf # <<>> /\ x = [failed EXCEPT !.buf = Tail(@)]
      PROVE  InOrder(x)
  <2>1. Shape(x)
    BY <1>2, <1>5 DEF Shape
  <2>2. /\ x.b = "done" /\ x.pc = c.pc /\ x.sent = c.sent /\ x.wire = c.wire /\ x.hold = c.hold /\ x.got = c.got
        /\ x.take = c.take \/ x.take = 0
        /\ x.buf = c.buf \/ (c.buf # <<>> /\ x.buf = Tail(c.buf))
    <3>1. CASE x = failed
      BY <1>2, <3>1 DEF Shape, Fields
    <3>2. CASE x = gone
      BY <1>2, <3>2 DEF Shape, Fields
    <3>3. CASE c.buf # <<>> /\ x = [failed EXCEPT !.buf = Tail(@)]
      BY <1>2, <3>3 DEF Shape, Fields
    <3>. QED
      BY <1>5, <3>1, <3>2, <3>3
  <2>. HIDE DEF c, failed, gone
  <2>3. (c.buf # <<>> => Tail(c.buf) \in Seq(Nat)) /\ 0 \in Nat
    BY <1>2, FirstTaken DEF Typed
  <2>4. Typed(x)
    BY <1>2, <2>2, <2>3 DEF Typed
  <2>. QED
    BY <1>2, <1>3, <2>1, <2>2, <2>4, FramesMoved
<1>6. CASE c.b = "read" /\ c.buf # <<>> /\ Head(c.buf) # 0 /\ Set(r, took)
  <2>. DEFINE x == took
  <2>1. Shape(x)
    BY <1>2 DEF Shape
  <2>2. /\ x.b = "write" /\ x.take = Head(c.buf) /\ x.buf = Tail(c.buf) /\ x.pc = c.pc /\ x.sent = c.sent
        /\ x.wire = c.wire /\ x.pump = c.pump /\ x.hold = c.hold /\ x.got = c.got /\ x.local = c.local
    BY <1>2 DEF Shape, Fields
  <2>. HIDE DEF c, took, x
  <2>3. Head(c.buf) \in Nat /\ Tail(c.buf) \in Seq(Nat)
    BY <1>2, <1>6, FirstTaken DEF Typed
  <2>4. Typed(x)
    BY <1>2, <2>2, <2>3 DEF Typed
  <2>5. Streaming(c) => Streaming(x)
    BY <1>2, <1>6, <2>2, BridgeTakes
  <2>6. InOrder(x)
    BY <1>2, <1>3, <1>4, <1>6, <2>1, <2>2, <2>4, <2>5, FramesMoved
  <2>. QED
    BY <1>6, <2>6, SetInv DEF x
<1>7. CASE c.b = "write" /\ Set(r, wrote)
  <2>. DEFINE x == wrote
  <2>1. Shape(x)
    BY <1>2 DEF Shape
  <2>2. /\ x.b = "read" /\ x.take = 0 /\ x.pc = c.pc /\ x.sent = c.sent /\ x.buf = c.buf
        /\ x.wire = c.wire /\ x.pump = c.pump /\ x.hold = c.hold /\ x.local = c.local
        /\ x.got = IF c.local = "open" THEN Append(c.got, c.take) ELSE c.got
    BY <1>2 DEF Shape, Fields
  <2>. HIDE DEF c, wrote, x
  <2>3. Append(c.got, c.take) \in Seq(Nat) /\ 0 \in Nat
    BY <1>2, LastAdded DEF Typed
  <2>4. Typed(x)
    BY <1>2, <2>2, <2>3 DEF Typed
  <2>5. ASSUME c.local = "open"
        PROVE  InOrder(x)
    <3>1. Streaming(x) /\ \A i \in 1..Len(x.got) : x.got[i] = i
      BY <1>2, <1>4, <1>7, <2>2, <2>5, BridgeWrites
    <3>. QED
      BY <1>2, <1>3, <1>7, <2>1, <2>2, <2>4, <3>1, FramesMoved
  <2>6. ASSUME c.local # "open"
        PROVE  InOrder(x)
    BY <1>2, <1>3, <1>7, <2>1, <2>2, <2>4, <2>6, FramesMoved
  <2>7. InOrder(x)
    BY <2>5, <2>6
  <2>. QED
    BY <1>7, <2>7, SetInv DEF x
<1>. QED
  BY <1>1, <1>5, <1>6, <1>7, SetInv

\* The client's end.
LEMMA ClientConn ==
  ASSUME ConnInv, NEW r \in Routes, ClientSends(r)
  PROVE  ConnInv'
<1>. DEFINE c == conn[r]
            x == [c EXCEPT !.sent = @ + 1, !.wire = Append(@, c.sent + 1)]
<1>1. c.stream = "open" /\ Set(r, x)
  BY DEF ClientSends, RouteStep
<1>2. InOrder(c) /\ Shape(c) /\ Typed(c) /\ \A i \in 1..Len(c.got) : c.got[i] = i
  BY DEF ConnInv, InOrder
<1>3. ~Early(c) /\ (c.local = "open" /\ c.b \in {"read", "write"} => Streaming(c))
  BY <1>1, <1>2 DEF InOrder
<1>4. Shape(x)
  BY <1>2 DEF Shape
<1>5. /\ x.sent = c.sent + 1 /\ x.wire = Append(c.wire, c.sent + 1) /\ x.pc = c.pc /\ x.buf = c.buf
      /\ x.pump = c.pump /\ x.hold = c.hold /\ x.b = c.b /\ x.take = c.take /\ x.got = c.got /\ x.local = c.local
  BY <1>2 DEF Shape, Fields
<1>. HIDE DEF c, x
<1>6. c.sent + 1 \in Nat /\ c.wire \in Seq(Nat)
  BY <1>2 DEF Typed
<1>7. Append(c.wire, c.sent + 1) \in Seq(Nat)
  BY <1>6, LastAdded
<1>8. Typed(x)
  BY <1>2, <1>5, <1>6, <1>7 DEF Typed
<1>9. Streaming(c) => Streaming(x)
  BY <1>2, <1>5, WireGrows
<1>10. InOrder(x)
  BY <1>2, <1>3, <1>4, <1>5, <1>8, <1>9, FramesMoved
<1>. QED
  BY <1>1, <1>10, SetInv

\* The connection of a route that nobody provisioned, or whose process is gone.
LEMMA NoConnInOrder == InOrder(NoConn) /\ InOrder([NoConn EXCEPT !.pc = "done"])
<1>1. ASSUME NEW x, x = NoConn \/ x = [NoConn EXCEPT !.pc = "done"]
      PROVE  InOrder(x)
  <2>1. Shape(x)
    BY <1>1 DEF Shape, Fields, NoConn
  <2>2. /\ x.wire = <<>> /\ x.buf = <<>> /\ x.got = <<>> /\ x.sent = 0 /\ x.hold = 0 /\ x.take = 0
        /\ x.b = "off" /\ x.a = "off" /\ x.pump = "off" /\ x.stream = "none"
    BY <1>1 DEF NoConn
  <2>3. <<>> \in Seq(Nat) /\ 0 \in Nat /\ Len(<<>>) = 0
    OBVIOUS
  <2>4. Typed(x)
    BY <2>2, <2>3 DEF Typed
  <2>5. \A i \in 1..Len(x.got) : x.got[i] = i
    BY <2>2, <2>3
  <2>. QED
    BY <2>1, <2>2, <2>3, <2>4, <2>5 DEF InOrder
<1>. QED
  BY <1>1

\* What the relay and the two processes do to the connections.
LEMMA OutsideConn ==
  ASSUME ConnInv,
         \/ ManagerClose \/ AgentExits \/ RelayStops
         \/ \E r \in Routes : Dial(r) \/ Provision(r) \/ ClientLeaves(r) \/ \E c \in Checks : AgentPresents(r, c)
         \/ \E id, accepts : Answer(id, accepts)
  PROVE  ConnInv' \/ conn' = conn
<1>1. ASSUME NEW c, InOrder(c)
      PROVE  /\ InOrder(HungUp(c)) /\ \A v : InOrder([c EXCEPT !.joined = v]) /\ InOrder([c EXCEPT !.ctx = v])
             /\ c.pc = "none" => InOrder([c EXCEPT !.pc = "local"])
  <2>1. Shape(c) /\ (Early(c) => c.stream # "open")
    BY <1>1 DEF InOrder
  <2>2. InOrder(HungUp(c))
    <3>. DEFINE x == HungUp(c)
    <3>1. Shape(x) /\ \A f \in Frames : x[f] = c[f]
      BY <2>1 DEF Shape, Fields, Frames, HungUp
    <3>2. x.local = c.local /\ x.pc = c.pc /\ x.a = c.a /\ x.stream = IF c.stream = "open" THEN "gone" ELSE c.stream
      BY <2>1 DEF Shape, Fields, HungUp
    <3>. HIDE DEF x
    <3>. QED
      BY <1>1, <2>1, <3>1, <3>2, SameFrames DEF Early, Late, x
  <2>3. ASSUME NEW v, NEW x, \/ x = [c EXCEPT !.joined = v] \/ x = [c EXCEPT !.ctx = v]
                             \/ c.pc = "none" /\ x = [c EXCEPT !.pc = "local"]
        PROVE  InOrder(x)
    <3>1. Shape(x) /\ \A f \in Frames : x[f] = c[f]
      BY <2>1, <2>3 DEF Shape, Fields, Frames
    <3>2. /\ x.local = c.local /\ x.a = c.a /\ x.stream = c.stream
          /\ x.pc = c.pc \/ (c.pc = "none" /\ x.pc = "local")
      BY <2>1, <2>3 DEF Shape, Fields
    <3>. QED
      BY <1>1, <2>1, <3>1, <3>2, SameFrames DEF Early, Late
  <2>. QED
    BY <2>2, <2>3
<1>2. \A r \in Routes : InOrder(conn[r])
  BY DEF ConnInv
<1>3. CASE ManagerClose
  <2>1. conn' = [r \in Routes |-> [conn[r] EXCEPT !.ctx = conn[r].ctx \/ r \in manager.active]]
    BY <1>3 DEF ManagerClose
  <2>. QED
    BY <1>1, <1>2, <2>1 DEF ConnInv
<1>4. CASE AgentExits
  <2>1. conn' = [r \in Routes |-> IF conn[r].pc = "none" THEN NoConn ELSE [NoConn EXCEPT !.pc = "done"]]
    BY <1>4 DEF AgentExits
  <2>2. InOrder(NoConn) /\ InOrder([NoConn EXCEPT !.pc = "done"])
    BY NoConnInOrder
  <2>. QED
    BY <2>1, <2>2 DEF ConnInv
<1>5. CASE RelayStops
  <2>1. conn' = [r \in Routes |-> HungUp(conn[r])]
    BY <1>5 DEF RelayStops
  <2>. QED
    BY <1>1, <1>2, <2>1 DEF ConnInv
<1>6. ASSUME NEW r \in Routes, Dial(r) \/ Provision(r) \/ ClientLeaves(r) \/ \E c \in Checks : AgentPresents(r, c)
      PROVE  ConnInv' \/ conn' = conn
  <2>1. CASE Dial(r)
    BY <1>2, <2>1, DialInOrder, SetInv DEF Dial, RouteStep
  <2>2. CASE Provision(r)
    BY <1>1, <1>2, <2>2, SetInv DEF Provision, Fresh
  <2>3. CASE ClientLeaves(r)
    BY <1>1, <1>2, <2>3, SetInv DEF ClientLeaves
  <2>4. ASSUME NEW c \in Checks, AgentPresents(r, c)
        PROVE  ConnInv' \/ conn' = conn
    BY <1>1, <1>2, <2>4, SetInv DEF AgentPresents, RouteStep, routeVars
  <2>. QED
    BY <1>6, <2>1, <2>2, <2>3, <2>4
<1>7. ASSUME NEW id, NEW accepts, Answer(id, accepts)
      PROVE  ConnInv' \/ conn' = conn
  <2>. DEFINE r == tickets[id].route
  <2>1. \/ conn' = conn
        \/ Set(r, [conn[r] EXCEPT !.joined = (conn[r].stream = "open")])
        \/ Set(r, HungUp(conn[r]))
    BY <1>7 DEF Answer
  <2>. HIDE DEF r
  <2>. QED
    BY <1>1, <1>2, <2>1, SetInv
<1>. QED
  BY <1>3, <1>4, <1>5, <1>6, <1>7

LEMMA NextConn == ConnInv /\ [Next]_vars => ConnInv'
<1>1. SUFFICES ASSUME ConnInv, [Next]_vars PROVE ConnInv'
  OBVIOUS
<1>2. conn' = conn => ConnInv'
  BY <1>1 DEF ConnInv
<1>3. ASSUME \/ AgentOpens \/ NewManager \/ RelayReadsKey \/ RelayUp \/ RevokeDevice \/ Tick
             \/ ProvisionRefused \/ AdminIssues \/ \E p \in Processes : WritesKey(p)
             \/ \E c \in Checks : ClientPresents(c) \/ (RecordReplay(c) /\ UNCHANGED routeVars)
      PROVE  conn' = conn
  BY <1>3 DEF AgentOpens, NewManager, RelayReadsKey, RelayUp, RevokeDevice, Tick, ProvisionRefused,
              AdminIssues, WritesKey, ClientPresents, routeVars
<1>4. ASSUME NEW c \in Checks, Verifies(c)
      PROVE  ConnInv'
  BY <1>1, <1>2, <1>3, <1>4, OutsideConn DEF Verifies
<1>5. CASE ManagerClose \/ AgentExits \/ RelayStops
  BY <1>1, <1>2, <1>5, OutsideConn
<1>6. ASSUME NEW r \in Routes,
             \/ Provision(r) \/ Goroutine(r) \/ Watch(r) \/ CancelRoute(r)
             \/ ReadPump(r) \/ Delivers(r) \/ LocalRead(r) \/ RemoteWrite(r)
             \/ RemoteRead(r) \/ LocalWrite(r)
             \/ LocalSends(r) \/ LocalEnds(r) \/ ClientSends(r) \/ ClientLeaves(r)
             \/ \E c \in Checks : AgentPresents(r, c)
      PROVE  ConnInv'
  <2>1. CASE Provision(r) \/ ClientLeaves(r) \/ Dial(r) \/ \E c \in Checks : AgentPresents(r, c)
    BY <1>1, <1>2, <2>1, OutsideConn
  <2>2. CASE Goroutine(r)
    BY <1>1, <2>1, <2>2, QuietConn, ReturnsConn DEF Goroutine
  <2>3. CASE \/ Watch(r) \/ CancelRoute(r) \/ LocalRead(r) \/ RemoteWrite(r) \/ LocalSends(r) \/ LocalEnds(r)
    BY <1>1, <2>3, QuietConn
  <2>4. CASE ReadPump(r) \/ Delivers(r) \/ RemoteRead(r) \/ LocalWrite(r) \/ ClientSends(r)
    BY <1>1, <2>4, PumpConn, BridgeConn, ClientConn
  <2>. QED
    BY <1>6, <2>1, <2>2, <2>3, <2>4
<1>7. CASE UNCHANGED vars
  BY <1>2, <1>7 DEF vars, routeVars
<1>. QED
  BY <1>1, <1>2, <1>3, <1>4, <1>5, <1>6, <1>7 DEF Next

\* What the bridge wrote to local is a prefix of what the client sent, for any
\* number of routes and frames and any depth of the buffer, whichever goroutine
\* of BridgeWebSocket or of the stream meets the end of the connection first.
THEOREM BridgeInOrderHolds == Spec => []BridgeInOrder
<1>1. Init => ConnInv
  BY NoConnInOrder DEF Init, ConnInv
<1>2. ConnInv => BridgeInOrder
  <2>1. SUFFICES ASSUME ConnInv, NEW r \in Routes, NEW i \in DOMAIN conn[r].got PROVE conn[r].got[i] = i
    BY DEF BridgeInOrder
  <2>2. InOrder(conn[r])
    BY <2>1 DEF ConnInv
  <2>3. DOMAIN conn[r].got = 1..Len(conn[r].got)
    BY <2>2 DEF InOrder, Typed
  <2>. QED
    BY <2>2, <2>3 DEF InOrder
<1>. QED
  BY <1>1, <1>2, NextConn, PTL DEF Spec

-----------------------------------------------------------------------------
(* The store, the keys and the tickets.                                    *)

\* What Authorize and Revoke make of a state has the epoch the relay compares.
LEMMA WholeStates ==
  /\ Whole(NoState) /\ Whole(GenerateState)
  /\ \A st : Whole(st) => (\A d : Whole(Authorized(st, d))) /\ (\A id : Whole(Revoked(st, id)))
<1>1. ASSUME NEW st, st = NoState \/ st = GenerateState
      PROVE  Whole(st)
  <2>1. st = [f \in {"authorized", "counter", "epoch"} |-> st[f]]
    BY <1>1 DEF NoState, GenerateState
  <2>2. st.epoch = -1 \/ st.epoch = 0
    BY <1>1 DEF NoState, GenerateState
  <2>. QED
    BY <2>1, <2>2 DEF Whole
<1>2. ASSUME NEW st, Whole(st), NEW d
      PROVE  Whole(Authorized(st, d))
  BY <1>2 DEF Whole, Authorized
<1>3. ASSUME NEW st, Whole(st), NEW id
      PROVE  Whole(Revoked(st, id))
  <2>. DEFINE x == Revoked(st, id)
  <2>1. st = [f \in {"authorized", "counter", "epoch"} |-> st[f]]
    BY <1>3 DEF Whole
  <2>2. x = [f \in {"authorized", "counter", "epoch"} |-> x[f]]
    <3>. DEFINE i == IndexOf(st, id)
                most == [st EXCEPT !.counter = @ + 1, !.epoch = @ + 1,
                                   !.authorized[i].version = st.counter + 1,
                                   !.authorized[i].state = "revoked"]
    <3>1. x = [most EXCEPT !.authorized[i].epoch = st.epoch + 1]
      BY DEF Revoked
    <3>2. DOMAIN x = DOMAIN st
      BY DEF Revoked
    <3>. HIDE DEF x, most, i
    <3>3. x = [f \in DOMAIN x |-> x[f]]
      BY <3>1
    <3>4. DOMAIN st = {"authorized", "counter", "epoch"}
      BY <2>1
    <3>. QED
      BY <3>2, <3>3, <3>4
  <2>3. x.epoch = st.epoch + 1
    BY <2>1 DEF Revoked
  <2>. HIDE DEF x
  <2>4. x.epoch \in Int
    BY <1>3, <2>3 DEF Whole
  <2>. QED
    BY <2>2, <2>4 DEF Whole, x
<1>. QED
  BY <1>1, <1>2, <1>3

\* A step that is none of the relay's.
LEMMA SameTickets ==
  ASSUME TicketInv, StoreTypes', KeyTypes', UNCHANGED <<clock, tickets, replay, check, accepted>>,
         proc'["relay"] = "up" <=> proc["relay"] = "up",
         store'["relay"].epoch = store["relay"].epoch
  PROVE  TicketInv'
<1>1. TicketTypes'
  BY DEF TicketInv, TicketTypes
<1>2. Timely'
  BY DEF TicketInv, Timely
<1>3. Exclusively'
  BY DEF TicketInv, Exclusively, Short, Signing
<1>4. Owned' /\ Gated'
  BY DEF TicketInv, Owned, Gated, Signing
<1>. QED
  BY <1>1, <1>2, <1>3, <1>4 DEF TicketInv

\* The keys and the life of the two processes.
LEMMA ProcessTickets ==
  ASSUME TicketInv,
         \/ AgentOpens \/ NewManager \/ RelayReadsKey \/ ManagerClose \/ AgentExits \/ RevokeDevice
         \/ \E p \in Processes : WritesKey(p)
  PROVE  TicketInv'
<1>1. StoreTypes /\ KeyTypes /\ "agent" \in Processes /\ "relay" \in Processes
  BY ProcessAssumption DEF TicketInv
<1>2. ASSUME NEW p \in Processes, ReadKey(p), keyFile' = keyFile
      PROVE  KeyTypes' /\ (proc'["relay"] = "up" <=> proc["relay"] = "up")
  BY <1>1, <1>2 DEF KeyTypes, ReadKey, Keys
<1>3. CASE AgentOpens
  <2>1. /\ ReadKey("agent") /\ keyFile' = keyFile /\ LoadOrCreate("agent") /\ manager' = manager
        /\ UNCHANGED <<clock, tickets, replay, check, accepted>>
    BY <1>3 DEF AgentOpens, routeVars
  <2>2. KeyTypes' /\ (proc'["relay"] = "up" <=> proc["relay"] = "up")
    BY <1>1, <1>2, <2>1
  <2>3. Whole(file') /\ store' = [store EXCEPT !["agent"] = file']
    BY <1>1, <2>1, WholeStates DEF LoadOrCreate, StoreTypes
  <2>4. StoreTypes' /\ store'["relay"] = store["relay"]
    BY <1>1, <2>1, <2>3 DEF StoreTypes
  <2>. QED
    BY <2>1, <2>2, <2>4, SameTickets
<1>4. CASE RelayReadsKey
  <2>1. /\ ReadKey("relay") /\ keyFile' = keyFile /\ UNCHANGED <<file, store, manager>>
        /\ UNCHANGED <<clock, tickets, replay, check, accepted>>
    BY <1>4 DEF RelayReadsKey, routeVars, storeVars
  <2>2. KeyTypes' /\ (proc'["relay"] = "up" <=> proc["relay"] = "up")
    BY <1>1, <1>2, <2>1
  <2>3. StoreTypes' /\ store' = store
    BY <1>1, <2>1 DEF StoreTypes
  <2>. QED
    BY <2>1, <2>2, <2>3, SameTickets
<1>5. ASSUME NEW p \in Processes, WritesKey(p)
      PROVE  TicketInv'
  <2>1. /\ WriteKey(p) /\ key' = key /\ UNCHANGED <<file, store, manager>>
        /\ UNCHANGED <<clock, tickets, replay, check, accepted>>
    BY <1>5 DEF WritesKey, routeVars, storeVars
  <2>2. KeyTypes' /\ (proc'["relay"] = "up" <=> proc["relay"] = "up")
    BY <1>1, <2>1 DEF KeyTypes, WriteKey
  <2>3. StoreTypes' /\ store' = store
    BY <1>1, <2>1 DEF StoreTypes
  <2>. QED
    BY <2>1, <2>2, <2>3, SameTickets
<1>6. CASE NewManager
  <2>1. /\ proc' = [proc EXCEPT !["agent"] = "up"] /\ UNCHANGED <<keyFile, key, file, store>>
        /\ manager' = [epoch |-> store["agent"].epoch, pending |-> {}, active |-> {}]
        /\ UNCHANGED <<clock, tickets, replay, check, accepted>>
    BY <1>6 DEF NewManager, storeVars
  <2>2. KeyTypes' /\ proc'["relay"] = proc["relay"]
    BY <1>1, <2>1 DEF KeyTypes
  <2>3. manager' = [f \in {"epoch", "pending", "active"} |-> manager'[f]] /\ manager'.epoch \in Int
    BY <1>1, <2>1 DEF StoreTypes, Whole
  <2>4. StoreTypes'
    BY <1>1, <2>1, <2>3 DEF StoreTypes
  <2>. QED
    BY <2>1, <2>2, <2>4, SameTickets
<1>7. CASE ManagerClose
  <2>1. /\ proc' = [proc EXCEPT !["agent"] = "closing"] /\ UNCHANGED <<keyFile, key, file, store>>
        /\ manager' = [manager EXCEPT !.pending = {}, !.active = {}]
        /\ UNCHANGED <<clock, tickets, replay, check, accepted>>
    BY <1>7 DEF ManagerClose, storeVars
  <2>2. KeyTypes' /\ proc'["relay"] = proc["relay"]
    BY <1>1, <2>1 DEF KeyTypes
  <2>3. StoreTypes'
    BY <1>1, <2>1 DEF StoreTypes
  <2>. QED
    BY <2>1, <2>2, <2>3, SameTickets
<1>8. CASE AgentExits
  <2>1. /\ proc' = [proc EXCEPT !["agent"] = "down"] /\ Close("agent") /\ UNCHANGED <<keyFile, key, manager>>
        /\ UNCHANGED <<clock, tickets, replay, check, accepted>>
    BY <1>8 DEF AgentExits
  <2>2. KeyTypes' /\ proc'["relay"] = proc["relay"]
    BY <1>1, <2>1 DEF KeyTypes
  <2>3. StoreTypes' /\ store'["relay"] = store["relay"]
    BY <1>1, <2>1, WholeStates DEF StoreTypes, Close
  <2>. QED
    BY <2>1, <2>2, <2>3, SameTickets
<1>9. CASE RevokeDevice
  <2>1. /\ Save("agent", Revoked(store["agent"], Device.id)) /\ UNCHANGED <<keyFile, proc, key, manager>>
        /\ UNCHANGED <<clock, tickets, replay, check, accepted>>
    BY <1>9 DEF RevokeDevice, ticketVars, routeVars
  <2>2. Whole(Revoked(store["agent"], Device.id))
    BY <1>1, WholeStates DEF StoreTypes
  <2>3. KeyTypes'
    BY <1>1, <2>1 DEF KeyTypes
  <2>4. StoreTypes' /\ store'["relay"] = store["relay"]
    BY <1>1, <2>1, <2>2 DEF StoreTypes, Save
  <2>. QED
    BY <2>1, <2>3, <2>4, SameTickets
<1>. QED
  BY <1>3, <1>4, <1>5, <1>6, <1>7, <1>8, <1>9

LEMMA Joined ==
  ASSUME NEW S, NEW s \in Seq(S), NEW t \in Seq(S)
  PROVE  s \o t \in Seq(S) /\ Len(s \o t) = Len(s) + Len(t)
OBVIOUS

\* New tickets, which nobody has presented yet.
LEMMA MintedTickets ==
  ASSUME TicketInv, StoreTypes', UNCHANGED <<clock, keyFile, proc, key, replay, check>>, store' = store,
         NEW new \in Seq(Ticket), NEW zero \in Seq({0}), Len(zero) = Len(new),
         tickets' = tickets \o new, accepted' = accepted \o zero,
         \A i \in 1..Len(new) : new[i].minted = clock
  PROVE  TicketInv'
<1>1. TicketTypes /\ Timely /\ Exclusively /\ Owned /\ Gated
  BY DEF TicketInv
<1>2. /\ tickets \in Seq(Ticket) /\ accepted \in Seq(Nat) /\ zero \in Seq(Nat)
      /\ Len(accepted) = Len(tickets) /\ Len(tickets) \in Nat /\ Len(new) \in Nat
  BY <1>1 DEF TicketTypes
<1>3. /\ tickets' \in Seq(Ticket) /\ accepted' \in Seq(Nat)
      /\ Len(tickets') = Len(tickets) + Len(new) /\ Len(accepted') = Len(tickets) + Len(new)
  <2>1. tickets' \in Seq(Ticket) /\ Len(tickets') = Len(tickets) + Len(new)
    BY <1>2, Joined
  <2>2. accepted' \in Seq(Nat) /\ Len(accepted') = Len(accepted) + Len(zero)
    BY <1>2, Joined
  <2>. QED
    BY <1>2, <2>1, <2>2
<1>4. \A id \in 1..Len(tickets) : /\ id \in 1..Len(tickets')
                                  /\ tickets'[id] = tickets[id] /\ accepted'[id] = accepted[id]
  BY <1>2, <1>3
<1>5. \A id \in 1..Len(tickets') : id \in 1..Len(tickets) \/ (tickets'[id].minted = clock /\ accepted'[id] = 0)
  <2>1. ASSUME NEW id \in 1..Len(tickets'), id \notin 1..Len(tickets)
        PROVE  tickets'[id].minted = clock /\ accepted'[id] = 0
    <3>1. id - Len(tickets) \in 1..Len(new)
      BY <1>2, <1>3, <2>1
    <3>2. tickets'[id] = new[id - Len(tickets)]
      BY <1>2, <1>3, <2>1
    <3>3. accepted'[id] = zero[id - Len(tickets)] /\ zero[id - Len(tickets)] \in {0}
      BY <1>2, <1>3, <2>1
    <3>. QED
      BY <3>1, <3>2, <3>3
  <2>. QED
    BY <2>1
<1>6. ASSUME NEW c \in Checks, check[c].at # "idle"
      PROVE  check[c].id \in 1..Len(tickets)
  BY <1>1, <1>6 DEF Timely
<1>7. \A e \in replay : e.id \in 1..Len(tickets) /\ e.id \in 1..Len(tickets')
  BY <1>1, <1>4 DEF TicketTypes
<1>8. TicketTypes'
  <2>1. Len(accepted') = Len(tickets')
    BY <1>3
  <2>2. replay' \subseteq [id : 1..Len(tickets'), at : Int]
    BY <1>1, <1>4 DEF TicketTypes
  <2>. QED
    BY <1>1, <1>3, <2>1, <2>2 DEF TicketTypes
<1>9. Timely'
  <2>1. \A id \in 1..Len(tickets') : tickets'[id].minted <= clock'
    <3>1. clock <= clock
      BY <1>1 DEF TicketTypes
    <3>. QED
      BY <1>1, <1>4, <1>5, <3>1 DEF Timely
  <2>2. \A e \in replay' : tickets'[e.id].minted <= e.at
    BY <1>1, <1>4, <1>7 DEF Timely
  <2>3. ASSUME NEW c \in Checks
        PROVE  /\ check'[c].at # "idle" => check'[c].id \in 1..Len(tickets')
               /\ check'[c].at = "replay" =>
                     check'[c].read <= tickets'[check'[c].id].expires /\ clock' <= check'[c].read + MaxPause
    BY <1>1, <1>4, <1>6 DEF Timely
  <2>. QED
    BY <1>1, <2>1, <2>2, <2>3 DEF Timely
<1>10. Exclusively'
  <2>1. ASSUME NEW id \in 1..Len(tickets'), id \notin 1..Len(tickets), NEW c \in Checks
        PROVE  ~Signing(c, id)'
    BY <1>6, <2>1 DEF Signing
  <2>2. ASSUME NEW id \in 1..Len(tickets), Short(id)'
        PROVE  Short(id)
    BY <1>4, <2>2 DEF Short
  <2>3. ASSUME NEW id \in 1..Len(tickets'), Short(id)'
        PROVE  /\ accepted'[id] <= 1
               /\ \A c \in Checks : Signing(c, id)' =>
                     accepted'[id] = 0 /\ \A d \in Checks : Signing(d, id)' => d = c
               /\ proc'["relay"] = "up" /\ (accepted'[id] > 0 \/ \E c \in Checks : Signing(c, id)') =>
                     (\E e \in replay' : e.id = id) \/ clock' > tickets'[id].expires + MaxPause
    <3>1. CASE id \in 1..Len(tickets)
      <4>1. /\ accepted[id] <= 1
            /\ \A c \in Checks : Signing(c, id) =>
                  accepted[id] = 0 /\ \A d \in Checks : Signing(d, id) => d = c
            /\ proc["relay"] = "up" /\ (accepted[id] > 0 \/ \E c \in Checks : Signing(c, id)) =>
                  (\E e \in replay : e.id = id) \/ clock > tickets[id].expires + MaxPause
        BY <1>1, <2>2, <2>3, <3>1 DEF Exclusively
      <4>2. \A c \in Checks : Signing(c, id)' <=> Signing(c, id)
        BY DEF Signing
      <4>3. accepted'[id] = accepted[id] /\ tickets'[id] = tickets[id]
        BY <1>4, <3>1
      <4>. QED
        BY <4>1, <4>2, <4>3
    <3>2. CASE id \notin 1..Len(tickets)
      <4>1. accepted'[id] = 0 /\ accepted'[id] <= 1 /\ ~(accepted'[id] > 0)
        <5>1. accepted'[id] = 0
          BY <1>5, <3>2
        <5>. QED
          BY <5>1
      <4>. QED
        BY <2>1, <3>2, <4>1
    <3>. QED
      BY <3>1, <3>2
  <2>. QED
    BY <2>3 DEF Exclusively
<1>11. Owned'
  BY <1>1, <1>4, <1>7 DEF Owned, Signing
<1>12. Gated'
  <2>1. ASSUME NEW id \in 1..Len(tickets'), accepted'[id] > 0
        PROVE  id \in 1..Len(tickets)
    <3>1. ~(0 > 0)
      OBVIOUS
    <3>. QED
      BY <1>5, <2>1, <3>1
  <2>. QED
    BY <1>1, <1>4, <2>1 DEF Gated
<1>13. KeyTypes'
  BY DEF TicketInv, KeyTypes
<1>. QED
  BY <1>8, <1>9, <1>10, <1>11, <1>12, <1>13 DEF TicketInv

\* The Agent mints a pair, the control plane of the relay a single ticket.
LEMMA IssuedTickets ==
  ASSUME TicketInv, AdminIssues \/ \E r \in Routes : Provision(r)
  PROVE  TicketInv'
<1>1. StoreTypes /\ KeyTypes /\ clock \in Int /\ tickets \in Seq(Ticket) /\ accepted \in Seq(Nat)
  BY DEF TicketInv, TicketTypes
<1>2. /\ manager.epoch \in Int /\ store["relay"].epoch \in Int /\ file.epoch \in Int
      /\ key["agent"] \in Keys /\ key["relay"] \in Keys
  BY <1>1, ProcessAssumption DEF StoreTypes, KeyTypes, Whole
<1>3. ASSUME NEW r \in Int, NEW e \in {"agent", "client"}, NEW l \in Int, NEW epoch \in Int, NEW k \in Keys
      PROVE  Issue(r, e, l, epoch, k) \in Ticket /\ Issue(r, e, l, epoch, k).minted = clock
  <2>1. clock + l \in Int
    BY <1>1
  <2>. QED
    BY <1>1, <1>2, <2>1 DEF Issue, Ticket
<1>4. ASSUME NEW r \in Routes, Provision(r)
      PROVE  TicketInv'
  <2>. DEFINE t == Issue(r, "agent", Lifetime, manager.epoch, key["agent"])
              u == Issue(r, "client", Lifetime, manager.epoch, key["agent"])
  <2>1. /\ tickets' = tickets \o <<t, u>> /\ accepted' = accepted \o <<0, 0>>
        /\ manager' = [manager EXCEPT !.pending = @ \cup {r}]
        /\ UNCHANGED <<clock, keyFile, proc, key, replay, check, file, store>>
    BY <1>4 DEF Provision, Pair, storeVars
  <2>2. StoreTypes'
    BY <1>1, <2>1 DEF StoreTypes
  <2>3. r \in Int
    BY DEF Routes
  <2>4. t \in Ticket /\ u \in Ticket /\ t.minted = clock /\ u.minted = clock
    BY <1>2, <1>3, <2>3, LifetimeAssumption
  <2>. HIDE DEF t, u
  <2>5. /\ <<t, u>> \in Seq(Ticket) /\ Len(<<t, u>>) = 2 /\ <<0, 0>> \in Seq({0}) /\ Len(<<0, 0>>) = 2
        /\ \A i \in 1..2 : <<t, u>>[i] = t \/ <<t, u>>[i] = u
    BY <2>4
  <2>6. \A i \in 1..Len(<<t, u>>) : <<t, u>>[i].minted = clock
    BY <2>4, <2>5
  <2>. QED
    BY <2>1, <2>2, <2>5, <2>6, MintedTickets
<1>5. CASE AdminIssues
  <2>1. PICK l \in AdminLifetimes : HandleIssue(0, "client", l)
    BY <1>5 DEF AdminIssues
  <2>. DEFINE t == Issue(0, "client", l, store["relay"].epoch, key["relay"])
  <2>2. /\ tickets' = Append(tickets, t) /\ accepted' = Append(accepted, 0)
        /\ UNCHANGED <<clock, keyFile, proc, key, replay, check, file, store, manager>>
    BY <1>5, <2>1 DEF AdminIssues, HandleIssue, storeVars, routeVars
  <2>3. StoreTypes'
    BY <1>1, <2>2 DEF StoreTypes
  <2>4. t \in Ticket /\ t.minted = clock
    BY <1>2, <1>3, LifetimesAssumption
  <2>. HIDE DEF t
  <2>5. tickets' = tickets \o <<t>>
    BY <1>1, <2>2, <2>4
  <2>6. accepted' = accepted \o <<0>>
    BY <1>1, <2>2
  <2>7. <<t>> \in Seq(Ticket) /\ Len(<<t>>) = 1 /\ <<0>> \in Seq({0}) /\ Len(<<0>>) = 1 /\ \A i \in 1..1 : <<t>>[i] = t
    BY <2>4
  <2>8. \A i \in 1..Len(<<t>>) : <<t>>[i].minted = clock
    BY <2>4, <2>7
  <2>. QED
    BY <2>2, <2>3, <2>5, <2>6, <2>7, <2>8, MintedTickets
<1>. QED
  BY <1>4, <1>5

\* A relay starts with an empty replay set and with nobody's ticket in its hands,
\* and loses both when it ends.
LEMMA RelayTurns ==
  ASSUME TicketInv, RelayUp \/ RelayStops
  PROVE  TicketInv'
<1>1. /\ StoreTypes /\ KeyTypes /\ TicketTypes /\ Timely /\ Exclusively /\ Gated
      /\ "relay" \in Processes /\ "agent" \in Processes
  BY ProcessAssumption DEF TicketInv
<1>2. tickets' = tickets /\ clock' = clock /\ replay' = {} /\ keyFile' = keyFile /\ key' = key /\ manager' = manager
  BY DEF RelayUp, RelayOpens, RelayStops, RelayExits, routeVars
<1>3. \A c \in Checks : check'[c].at = "idle"
  BY <1>1 DEF RelayUp, RelayOpens, RelayStops, RelayExits, Timely, Idle
<1>4. check' \in [Checks -> Check]
  <2>1. Idle \in Check
    BY DEF Idle, Check
  <2>. QED
    BY <1>1, <2>1 DEF RelayUp, RelayOpens, RelayStops, RelayExits, TicketTypes
<1>5. KeyTypes'
  BY <1>1, <1>2 DEF RelayUp, RelayOpens, RelayStops, RelayExits, KeyTypes
<1>6. StoreTypes'
  BY <1>1, <1>2 DEF RelayUp, RelayOpens, RelayStops, RelayExits, StoreTypes, Load, storeVars
<1>7. \/ accepted' = accepted /\ proc'["relay"] = "down" /\ store' = store
      \/ accepted' = [id \in DOMAIN tickets |-> 0]
  BY <1>1 DEF RelayUp, RelayOpens, RelayStops, RelayExits, KeyTypes, storeVars
<1>8. /\ accepted' \in Seq(Nat) /\ Len(accepted') = Len(tickets)
      /\ accepted' # accepted => \A id \in 1..Len(tickets) : accepted'[id] = 0
  <2>1. accepted \in Seq(Nat) /\ Len(accepted) = Len(tickets) /\ DOMAIN tickets = 1..Len(tickets) /\ Len(tickets) \in Nat
    BY <1>1 DEF TicketTypes
  <2>2. CASE accepted' = [id \in DOMAIN tickets |-> 0]
    BY <2>1, <2>2
  <2>. QED
    BY <1>7, <2>1, <2>2
<1>9. TicketTypes'
  BY <1>1, <1>2, <1>4, <1>8 DEF TicketTypes
<1>10. Timely'
  BY <1>1, <1>2, <1>3 DEF Timely
<1>11. \A c \in Checks, id \in 1..Len(tickets) : ~Signing(c, id)'
  BY <1>3 DEF Signing
<1>12. (\A id \in 1..Len(tickets) : accepted'[id] = 0) \/ (accepted' = accepted /\ proc'["relay"] = "down" /\ store' = store)
  <2>1. DOMAIN tickets = 1..Len(tickets)
    BY <1>1 DEF TicketTypes
  <2>. QED
    BY <1>7, <2>1
<1>13. 0 <= 1 /\ ~(0 > 0)
  OBVIOUS
<1>14. Exclusively'
  <2>1. ASSUME NEW id \in 1..Len(tickets), Short(id)'
        PROVE  accepted'[id] <= 1 /\ ~(proc'["relay"] = "up" /\ accepted'[id] > 0)
    <3>1. Short(id)
      BY <1>2, <2>1 DEF Short
    <3>. QED
      BY <1>1, <1>12, <1>13, <3>1 DEF Exclusively
  <2>. QED
    BY <1>2, <1>11, <2>1 DEF Exclusively
<1>15. Owned' /\ Gated'
  BY <1>1, <1>2, <1>12, <1>13 DEF Owned, Gated
<1>. QED
  BY <1>5, <1>6, <1>9, <1>10, <1>14, <1>15 DEF TicketInv

LEMMA TicketFields ==
  ASSUME TicketTypes, NEW id \in 1..Len(tickets)
  PROVE  /\ tickets[id].minted \in Int /\ tickets[id].expires \in Int /\ tickets[id].epoch \in Int
         /\ accepted[id] \in Nat
<1>1. tickets \in Seq(Ticket) /\ accepted \in Seq(Nat) /\ Len(accepted) = Len(tickets)
  BY DEF TicketTypes
<1>2. tickets[id] \in Ticket /\ accepted[id] \in Nat
  BY <1>1
<1>. QED
  BY <1>2 DEF Ticket

\* The clock does not run away from a verification between its two looks at it,
\* and a ticket whose entry was swept stays out of time.
LEMMA TickTickets ==
  ASSUME TicketInv, Tick
  PROVE  TicketInv'
<1>1. StoreTypes /\ KeyTypes /\ TicketTypes /\ Timely /\ Exclusively /\ Owned /\ Gated
  BY DEF TicketInv
<1>2. /\ clock' = clock + 1 /\ UNCHANGED <<keyFile, proc, key, tickets, replay, check, accepted, file, store, manager>>
      /\ \A c \in Checks : check[c].at = "replay" => clock - check[c].read < MaxPause
  BY DEF Tick, storeVars, routeVars
<1>3. clock \in Int /\ clock' \in Int /\ MaxPause \in Int
  BY <1>1, <1>2, ClockAssumption DEF TicketTypes
<1>4. StoreTypes' /\ KeyTypes' /\ TicketTypes' /\ Owned' /\ Gated'
  BY <1>1, <1>2, <1>3 DEF StoreTypes, KeyTypes, TicketTypes, Owned, Gated, Signing
<1>5. \A n \in Int : n <= clock => n <= clock'
  BY <1>2, <1>3
<1>6. Timely'
  <2>1. \A id \in 1..Len(tickets) : tickets[id].minted \in Int
    BY <1>1, TicketFields
  <2>2. \A c \in Checks : check[c].read \in Int
    BY <1>1 DEF TicketTypes, Check
  <2>3. \A id \in 1..Len(tickets) : tickets'[id].minted <= clock'
    BY <1>1, <1>2, <1>5, <2>1 DEF Timely
  <2>4. \A c \in Checks : check[c].at = "replay" => clock' <= check[c].read + MaxPause
    BY <1>2, <1>3, <2>2
  <2>. QED
    BY <1>1, <1>2, <2>3, <2>4 DEF Timely
<1>7. Exclusively'
  <2>1. \A id \in 1..Len(tickets) : tickets[id].expires \in Int
    BY <1>1, TicketFields
  <2>2. \A id \in 1..Len(tickets) : clock > tickets[id].expires + MaxPause => clock' > tickets[id].expires + MaxPause
    BY <1>2, <1>3, <2>1
  <2>. QED
    BY <1>1, <1>2, <2>2 DEF Exclusively, Short, Signing
<1>. QED
  BY <1>4, <1>6, <1>7 DEF TicketInv

\* What the steps of a verification leave alone.
LEMMA VerifyFrame ==
  ASSUME TicketInv, UNCHANGED <<clock, keyFile, proc, key, tickets, file, store, manager>>, TicketTypes', Timely',
         Exclusively', Owned', Gated'
  PROVE  TicketInv'
BY DEF TicketInv, StoreTypes, KeyTypes

\* A ticket is looked at only while it has not expired.
LEMMA BeginTickets ==
  ASSUME TicketInv, NEW k \in Checks, NEW id, BeginVerify(k, id), UNCHANGED <<file, store, manager>>
  PROVE  TicketInv'
<1>1. TicketTypes /\ Timely /\ Exclusively /\ Owned /\ Gated
  BY DEF TicketInv
<1>2. /\ UNCHANGED <<clock, keyFile, proc, key, tickets, replay, accepted>>
      /\ check' = [check EXCEPT ![k] = [at |-> "replay", id |-> id, read |-> clock]]
      /\ check[k] = Idle /\ proc["relay"] = "up" /\ id \in 1..Len(tickets) /\ ~Expired(tickets[id], clock)
  BY <1>1 DEF BeginVerify, TicketTypes
<1>3. clock \in Int /\ id \in Nat /\ tickets[id].expires \in Int /\ check \in [Checks -> Check]
  <2>1. tickets[id].expires \in Int
    BY <1>1, <1>2, TicketFields
  <2>. QED
    BY <1>1, <1>2, <2>1 DEF TicketTypes
<1>4. clock <= tickets[id].expires /\ clock <= clock + MaxPause
  BY <1>2, <1>3, ClockAssumption DEF Expired
<1>5. /\ check'[k].at = "replay" /\ check'[k].id = id /\ check'[k].read = clock
      /\ \A c \in Checks : c # k => check'[c] = check[c]
  BY <1>2, <1>3
<1>6. check' \in [Checks -> Check]
  <2>1. [at |-> "replay", id |-> id, read |-> clock] \in Check
    BY <1>3 DEF Check
  <2>. QED
    BY <1>2, <1>3, <2>1
<1>7. TicketTypes'
  BY <1>1, <1>2, <1>6 DEF TicketTypes
<1>8. Timely'
  <2>1. ASSUME NEW c \in Checks
        PROVE  /\ check'[c].at # "idle" => check'[c].id \in 1..Len(tickets)
               /\ check'[c].at = "replay" =>
                     check'[c].read <= tickets[check'[c].id].expires /\ clock <= check'[c].read + MaxPause
    <3>1. CASE c = k
      BY <1>2, <1>4, <1>5, <3>1
    <3>2. CASE c # k
      BY <1>1, <1>5, <3>2 DEF Timely
    <3>. QED
      BY <3>1, <3>2
  <2>. QED
    BY <1>1, <1>2, <2>1 DEF Timely
<1>9. \A c \in Checks, i \in 1..Len(tickets) : Signing(c, i)' <=> Signing(c, i)
  <2>1. \A i \in 1..Len(tickets) : ~Signing(k, i) /\ ~Signing(k, i)'
    BY <1>2, <1>5 DEF Signing, Idle
  <2>2. \A c \in Checks, i \in 1..Len(tickets) : c # k => (Signing(c, i)' <=> Signing(c, i))
    BY <1>5 DEF Signing
  <2>. QED
    BY <2>1, <2>2
<1>10. Exclusively'
  BY <1>1, <1>2, <1>9 DEF Exclusively, Short
<1>11. Owned' /\ Gated'
  <2>1. \A e \in replay : e.id \in 1..Len(tickets)
    BY <1>1 DEF TicketTypes
  <2>. QED
    BY <1>1, <1>2, <1>9, <2>1 DEF Owned, Gated
<1>. QED
  BY <1>2, <1>7, <1>8, <1>10, <1>11, VerifyFrame

\* Verifications that end, or go on to the signature, by what they do to the
\* check k alone.
LEMMA CheckMoves ==
  ASSUME TicketTypes, Timely, NEW k \in Checks, NEW x, check' = [check EXCEPT ![k] = x],
         \/ x = Idle
         \/ check[k].at = "replay" /\ x = [check[k] EXCEPT !.at = "sign"]
  PROVE  /\ check' \in [Checks -> Check] /\ check'[k] = x /\ check'[k].at # "replay"
         /\ check'[k].at = "sign" => check'[k].id = check[k].id /\ x # Idle
         /\ check'[k].at # "sign" => check'[k].at = "idle" /\ x = Idle
         /\ \A c \in Checks : c # k => check'[c] = check[c]
         /\ \A c \in Checks, id \in 1..Len(tickets) : c # k => (Signing(c, id)' <=> Signing(c, id))
         /\ check[k].at # "idle" => check[k].id \in 1..Len(tickets)
<1>1. check \in [Checks -> Check] /\ check[k] \in Check
  BY DEF TicketTypes
<1>2. x \in Check /\ x.at # "replay" /\ (x.at = "sign" => x.id = check[k].id /\ x # Idle) /\ (x.at # "sign" => x.at = "idle" /\ x = Idle)
  <2>1. CASE x = Idle
    BY <2>1 DEF Idle, Check
  <2>2. CASE check[k].at = "replay" /\ x = [check[k] EXCEPT !.at = "sign"]
    BY <1>1, <2>2 DEF Check, Idle
  <2>. QED
    BY <2>1, <2>2
<1>3. check' \in [Checks -> Check] /\ check'[k] = x /\ \A c \in Checks : c # k => check'[c] = check[c]
  BY <1>1, <1>2
<1>4. \A c \in Checks, id \in 1..Len(tickets) : c # k => (Signing(c, id)' <=> Signing(c, id))
  BY <1>3 DEF Signing
<1>5. check[k].at # "idle" => check[k].id \in 1..Len(tickets)
  BY DEF Timely
<1>. QED
  BY <1>2, <1>3, <1>4, <1>5

\* Its times are kept, when entries are only removed or are new.
LEMMA TimelyMoves ==
  ASSUME TicketTypes, Timely, NEW k \in Checks, check' \in [Checks -> Check],
         UNCHANGED <<clock, proc, tickets>>, proc["relay"] = "up",
         check'[k].at # "replay", check'[k].at = "sign" => check[k].at = "replay" /\ check'[k].id = check[k].id,
         check'[k].at # "sign" => check'[k].at = "idle",
         \A c \in Checks : c # k => check'[c] = check[c],
         \A e \in replay' : e \in replay \/ (e.id \in 1..Len(tickets) /\ e.at = clock)
  PROVE  Timely'
<1>1. \A e \in replay' : tickets[e.id].minted <= e.at
  BY DEF Timely
<1>2. ASSUME NEW c \in Checks
      PROVE  /\ check'[c].at # "idle" => check'[c].id \in 1..Len(tickets)
             /\ check'[c].at = "replay" =>
                   check'[c].read <= tickets[check'[c].id].expires /\ clock <= check'[c].read + MaxPause
  <2>1. CASE c = k
    BY <2>1 DEF Timely
  <2>2. CASE c # k
    BY <2>2 DEF Timely
  <2>. QED
    BY <2>1, <2>2
<1>. QED
  BY <1>1, <1>2 DEF Timely

\* An entry of a short ticket is swept only when nobody can present the ticket.
LEMMA SweptLate ==
  ASSUME TicketTypes, Timely, NEW e \in replay, e \notin Swept(replay, clock), Short(e.id)
  PROVE  clock > tickets[e.id].expires + MaxPause
<1>1. e.id \in 1..Len(tickets) /\ e.at \in Int /\ clock \in Int
  BY DEF TicketTypes
<1>2. tickets[e.id].minted \in Int /\ tickets[e.id].expires \in Int
  BY <1>1, TicketFields
<1>3. e.at < clock - TTL
  BY DEF Swept
<1>4. tickets[e.id].minted <= e.at /\ tickets[e.id].expires + MaxPause <= tickets[e.id].minted + TTL
  BY DEF Timely, Short
<1>. QED
  <2>1. TTL \in Int /\ MaxPause \in Int
    BY ClockAssumption
  <2>2. \A m, x, a, k, t, p \in Int : a < k - t /\ m <= a /\ x + p <= m + t => k > x + p
    OBVIOUS
  <2>. QED
    BY <1>1, <1>2, <1>3, <1>4, <2>1, <2>2

\* The second look at the clock: a ticket that is not tracked was not accepted
\* and is in nobody else's hands.
LEMMA RecordTickets ==
  ASSUME TicketInv, NEW k \in Checks, RecordReplay(k), UNCHANGED <<file, store, manager>>
  PROVE  TicketInv'
<1>. DEFINE id == check[k].id
            new == [id |-> id, at |-> clock]
<1>1. TicketTypes /\ Timely /\ Exclusively /\ Owned /\ Gated
  BY DEF TicketInv
<1>2. /\ check[k].at = "replay" /\ ~Tracked(id) /\ replay' = Swept(replay, clock) \cup {new}
      /\ UNCHANGED <<clock, keyFile, proc, key, tickets, accepted>>
  BY DEF RecordReplay
<1>3. check' = [check EXCEPT ![k] = [check[k] EXCEPT !.at = "sign"]]
  BY <1>1 DEF RecordReplay, TicketTypes
<1>4. /\ check' \in [Checks -> Check] /\ check'[k] = [check[k] EXCEPT !.at = "sign"] /\ check'[k].at # "replay"
      /\ check'[k].at = "sign" => check'[k].id = id
      /\ check'[k].at # "sign" => check'[k].at = "idle"
      /\ \A c \in Checks : c # k => check'[c] = check[c]
      /\ \A c \in Checks, i \in 1..Len(tickets) : c # k => (Signing(c, i)' <=> Signing(c, i))
      /\ id \in 1..Len(tickets)
  BY <1>1, <1>2, <1>3, CheckMoves
<1>5. check'[k].at = "sign"
  BY <1>1, <1>3 DEF TicketTypes, Check
<1>6. proc["relay"] = "up"
  BY <1>1, <1>2 DEF Timely
<1>. HIDE DEF id, new
<1>7. clock \in Int /\ new \in [id : 1..Len(tickets), at : Int] /\ new.id = id /\ new.at = clock
  BY <1>1, <1>4 DEF TicketTypes, new
<1>8. \A e \in replay' : e \in replay \/ e = new
  BY <1>2 DEF Swept
<1>9. TicketTypes'
  BY <1>1, <1>2, <1>4, <1>7, <1>8 DEF TicketTypes
<1>10. Timely'
  BY <1>1, <1>2, <1>4, <1>6, <1>7, <1>8, TimelyMoves DEF id
<1>11. \A i \in 1..Len(tickets) : ~Signing(k, i) /\ (Signing(k, i)' <=> i = id)
  BY <1>2, <1>4, <1>5 DEF Signing
<1>12. ~(clock > tickets[id].expires + MaxPause)
  <2>1. check[k].read <= tickets[id].expires /\ clock <= check[k].read + MaxPause /\ check[k].read \in Int
    BY <1>1, <1>2 DEF Timely, TicketTypes, Check, id
  <2>2. tickets[id].expires \in Int
    BY <1>1, <1>4, TicketFields
  <2>. QED
    BY <1>7, <2>1, <2>2, ClockAssumption
<1>13. Short(id) => accepted[id] = 0 /\ \A c \in Checks : ~Signing(c, id)
  <2>1. SUFFICES ASSUME Short(id), accepted[id] > 0 \/ \E c \in Checks : Signing(c, id) PROVE FALSE
    BY <1>1, <1>4, TicketFields
  <2>2. PICK e \in replay : e.id = id
    BY <1>1, <1>4, <1>6, <1>12, <2>1 DEF Exclusively
  <2>3. e \notin Swept(replay, clock)
    BY <1>2, <2>2 DEF Tracked
  <2>. QED
    BY <1>1, <1>12, <2>1, <2>2, <2>3, SweptLate
<1>14. Exclusively'
  <2>1. ASSUME NEW i \in 1..Len(tickets), Short(i)'
        PROVE  /\ accepted'[i] <= 1
               /\ \A c \in Checks : Signing(c, i)' =>
                     accepted'[i] = 0 /\ \A d \in Checks : Signing(d, i)' => d = c
               /\ proc'["relay"] = "up" /\ (accepted'[i] > 0 \/ \E c \in Checks : Signing(c, i)') =>
                     (\E e \in replay' : e.id = i) \/ clock' > tickets'[i].expires + MaxPause
    <3>1. Short(i)
      BY <1>2, <2>1 DEF Short
    <3>2. CASE i = id
      <4>1. new \in replay' /\ accepted[i] = 0 /\ accepted'[i] = 0 /\ accepted[i] <= 1
        BY <1>1, <1>2, <1>13, <3>1, <3>2 DEF Exclusively
      <4>. QED
        BY <1>4, <1>7, <1>11, <1>13, <3>1, <3>2, <4>1
    <3>3. CASE i # id
      <4>1. \A c \in Checks : Signing(c, i)' <=> Signing(c, i)
        BY <1>4, <1>11, <3>3
      <4>2. \A e \in replay : e.id = i => e \in replay' \/ clock > tickets[i].expires + MaxPause
        BY <1>1, <1>2, <3>1, SweptLate
      <4>3. /\ accepted[i] <= 1
            /\ \A c \in Checks : Signing(c, i) => accepted[i] = 0 /\ \A d \in Checks : Signing(d, i) => d = c
            /\ proc["relay"] = "up" /\ (accepted[i] > 0 \/ \E c \in Checks : Signing(c, i)) =>
                  (\E e \in replay : e.id = i) \/ clock > tickets[i].expires + MaxPause
        BY <1>1, <3>1 DEF Exclusively
      <4>. QED
        BY <1>2, <4>1, <4>2, <4>3
    <3>. QED
      BY <3>2, <3>3
  <2>. QED
    BY <1>2, <2>1 DEF Exclusively
<1>15. Owned'
  <2>1. ASSUME NEW e \in replay
        PROVE  accepted'[e.id] > 0 \/ \E c \in Checks : Signing(c, e.id)'
    <3>1. e.id \in 1..Len(tickets)
      BY <1>1 DEF TicketTypes
    <3>. QED
      BY <1>1, <1>2, <1>4, <1>11, <3>1 DEF Owned
  <2>2. ASSUME NEW e, e = new
        PROVE  \E c \in Checks : Signing(c, e.id)'
    <3>1. e.id = id /\ e.id \in 1..Len(tickets)
      BY <1>4, <1>7, <2>2
    <3>. QED
      BY <1>11, <3>1
  <2>3. \A e \in replay' : accepted'[e.id] > 0 \/ \E c \in Checks : Signing(c, e.id)'
    BY <1>8, <2>1, <2>2
  <2>. QED
    BY <2>3 DEF Owned
<1>16. Gated'
  BY <1>1, <1>2 DEF Gated
<1>. QED
  BY <1>2, <1>9, <1>10, <1>14, <1>15, <1>16, VerifyFrame

\* A replay is turned away; what is swept on the way is out of time.
LEMMA ReplayedTickets ==
  ASSUME TicketInv, NEW k \in Checks, Replayed(k), UNCHANGED <<file, store, manager>>
  PROVE  TicketInv'
<1>1. TicketTypes /\ Timely /\ Exclusively /\ Owned /\ Gated
  BY DEF TicketInv
<1>2. /\ check[k].at = "replay" /\ replay' = Swept(replay, clock) /\ check' = [check EXCEPT ![k] = Idle]
      /\ UNCHANGED <<clock, keyFile, proc, key, tickets, accepted>>
  BY DEF Replayed
<1>3. /\ check' \in [Checks -> Check] /\ check'[k].at = "idle"
      /\ \A c \in Checks : c # k => check'[c] = check[c]
      /\ \A c \in Checks, i \in 1..Len(tickets) : c # k => (Signing(c, i)' <=> Signing(c, i))
  <2>1. check' \in [Checks -> Check] /\ check'[k] = Idle
    BY <1>1, <1>2, CheckMoves
  <2>. QED
    BY <1>1, <1>2, <2>1, CheckMoves DEF Idle
<1>4. \A c \in Checks, i \in 1..Len(tickets) : Signing(c, i)' <=> Signing(c, i)
  BY <1>2, <1>3 DEF Signing
<1>5. proc["relay"] = "up"
  BY <1>1, <1>2 DEF Timely
<1>6. \A e \in replay' : e \in replay
  BY <1>2 DEF Swept
<1>7. TicketTypes'
  BY <1>1, <1>2, <1>3, <1>6 DEF TicketTypes
<1>8. Timely'
  BY <1>1, <1>2, <1>3, <1>5, <1>6, TimelyMoves
<1>9. Exclusively'
  <2>1. ASSUME NEW i \in 1..Len(tickets), Short(i)'
        PROVE  /\ accepted'[i] <= 1
               /\ \A c \in Checks : Signing(c, i)' =>
                     accepted'[i] = 0 /\ \A d \in Checks : Signing(d, i)' => d = c
               /\ proc'["relay"] = "up" /\ (accepted'[i] > 0 \/ \E c \in Checks : Signing(c, i)') =>
                     (\E e \in replay' : e.id = i) \/ clock' > tickets'[i].expires + MaxPause
    <3>1. Short(i)
      BY <1>2, <2>1 DEF Short
    <3>2. \A e \in replay : e.id = i => e \in replay' \/ clock > tickets[i].expires + MaxPause
      BY <1>1, <1>2, <3>1, SweptLate
    <3>3. /\ accepted[i] <= 1
          /\ \A c \in Checks : Signing(c, i) => accepted[i] = 0 /\ \A d \in Checks : Signing(d, i) => d = c
          /\ proc["relay"] = "up" /\ (accepted[i] > 0 \/ \E c \in Checks : Signing(c, i)) =>
                (\E e \in replay : e.id = i) \/ clock > tickets[i].expires + MaxPause
      BY <1>1, <3>1 DEF Exclusively
    <3>. QED
      BY <1>2, <1>4, <3>2, <3>3
  <2>. QED
    BY <1>2, <2>1 DEF Exclusively
<1>10. Owned'
  <2>1. \A e \in replay : e.id \in 1..Len(tickets)
    BY <1>1 DEF TicketTypes
  <2>2. \A e \in replay' : accepted'[e.id] > 0 \/ \E c \in Checks : Signing(c, e.id)'
    BY <1>1, <1>2, <1>4, <1>6, <2>1 DEF Owned
  <2>. QED
    BY <2>2 DEF Owned
<1>11. Gated'
  BY <1>1, <1>2 DEF Gated
<1>. QED
  BY <1>2, <1>7, <1>8, <1>9, <1>10, <1>11, VerifyFrame

\* The end of a verification, whichever way it went: k gives its ticket up.
LEMMA SignedMoves ==
  ASSUME TicketTypes, Timely, NEW k \in Checks, check[k].at = "sign", check' = [check EXCEPT ![k] = Idle]
  PROVE  /\ check' \in [Checks -> Check] /\ check'[k].at = "idle"
         /\ \A c \in Checks : c # k => check'[c] = check[c]
         /\ \A c \in Checks, i \in 1..Len(tickets) : Signing(c, i)' <=> Signing(c, i) /\ c # k
         /\ \A i \in 1..Len(tickets) : Signing(k, i) <=> i = check[k].id
         /\ check[k].id \in 1..Len(tickets) /\ proc["relay"] = "up"
<1>1. /\ check' \in [Checks -> Check] /\ check'[k] = Idle
      /\ \A c \in Checks : c # k => check'[c] = check[c]
      /\ \A c \in Checks, i \in 1..Len(tickets) : c # k => (Signing(c, i)' <=> Signing(c, i))
      /\ check[k].id \in 1..Len(tickets)
  BY CheckMoves
<1>2. check'[k].at = "idle"
  BY <1>1 DEF Idle
<1>3. \A i \in 1..Len(tickets) : ~Signing(k, i)'
  BY <1>2 DEF Signing
<1>4. \A i \in 1..Len(tickets) : Signing(k, i) <=> i = check[k].id
  BY DEF Signing
<1>5. proc["relay"] = "up"
  BY DEF Timely
<1>. QED
  BY <1>1, <1>2, <1>3, <1>4, <1>5

LEMMA OneMore ==
  ASSUME NEW s \in Seq(Nat), NEW i \in 1..Len(s)
  PROVE  LET t == [s EXCEPT ![i] = @ + 1]
         IN  /\ t \in Seq(Nat) /\ Len(t) = Len(s) /\ t[i] = s[i] + 1 /\ s[i] \in Nat
             /\ \A j \in 1..Len(s) : j # i => t[j] = s[j]
OBVIOUS

\* A ticket is accepted by the only verification that signs it.
LEMMA AcceptTickets ==
  ASSUME TicketInv, Epochs, NEW k \in Checks, AcceptTicket(k), UNCHANGED <<file, store, manager>>
  PROVE  TicketInv'
<1>. DEFINE id == check[k].id
<1>1. TicketTypes /\ Timely /\ Exclusively /\ Owned /\ Gated /\ StoreTypes
  BY DEF TicketInv
<1>2. /\ check[k].at = "sign" /\ accepted' = [accepted EXCEPT ![id] = @ + 1] /\ check' = [check EXCEPT ![k] = Idle]
      /\ Authorizes(tickets[id].epoch)
      /\ UNCHANGED <<clock, keyFile, proc, key, tickets, replay>>
  BY DEF AcceptTicket
<1>3. /\ check' \in [Checks -> Check] /\ check'[k].at = "idle"
      /\ \A c \in Checks : c # k => check'[c] = check[c]
      /\ \A c \in Checks, i \in 1..Len(tickets) : Signing(c, i)' <=> Signing(c, i) /\ c # k
      /\ \A i \in 1..Len(tickets) : Signing(k, i) <=> i = id
      /\ id \in 1..Len(tickets) /\ proc["relay"] = "up"
  BY <1>1, <1>2, SignedMoves
<1>4. accepted \in Seq(Nat) /\ Len(accepted) = Len(tickets)
  BY <1>1 DEF TicketTypes
<1>. HIDE DEF id
<1>5. /\ accepted' \in Seq(Nat) /\ Len(accepted') = Len(tickets)
      /\ accepted'[id] = accepted[id] + 1 /\ accepted[id] \in Nat
      /\ \A i \in 1..Len(tickets) : i # id => accepted'[i] = accepted[i]
  BY <1>2, <1>3, <1>4, OneMore
<1>6. accepted'[id] > 0
  BY <1>5
<1>7. TicketTypes'
  BY <1>1, <1>2, <1>3, <1>5 DEF TicketTypes
<1>8. Timely'
  BY <1>1, <1>2, <1>3, TimelyMoves
<1>9. Exclusively'
  <2>1. ASSUME NEW i \in 1..Len(tickets), Short(i)'
        PROVE  /\ accepted'[i] <= 1
               /\ \A c \in Checks : Signing(c, i)' =>
                     accepted'[i] = 0 /\ \A d \in Checks : Signing(d, i)' => d = c
               /\ proc'["relay"] = "up" /\ (accepted'[i] > 0 \/ \E c \in Checks : Signing(c, i)') =>
                     (\E e \in replay' : e.id = i) \/ clock' > tickets'[i].expires + MaxPause
    <3>1. Short(i)
      BY <1>2, <2>1 DEF Short
    <3>2. /\ accepted[i] <= 1
          /\ \A c \in Checks : Signing(c, i) => accepted[i] = 0 /\ \A d \in Checks : Signing(d, i) => d = c
          /\ (accepted[i] > 0 \/ \E c \in Checks : Signing(c, i)) =>
                (\E e \in replay : e.id = i) \/ clock > tickets[i].expires + MaxPause
      BY <1>1, <1>3, <3>1 DEF Exclusively
    <3>3. CASE i = id
      <4>1. accepted[id] = 0 /\ \A d \in Checks : Signing(d, i) => d = k
        BY <1>3, <3>2, <3>3
      <4>2. accepted'[id] <= 1
        BY <1>5, <4>1
      <4>3. (\E e \in replay : e.id = i) \/ clock > tickets[i].expires + MaxPause
        BY <1>3, <3>2, <3>3
      <4>. QED
        BY <1>2, <1>3, <3>3, <4>1, <4>2, <4>3
    <3>4. CASE i # id
      <4>1. accepted'[i] = accepted[i] /\ \A c \in Checks : Signing(c, i)' <=> Signing(c, i)
        BY <1>3, <1>5, <3>4
      <4>. QED
        BY <1>2, <3>2, <4>1
    <3>. QED
      BY <3>3, <3>4
  <2>. QED
    BY <1>2, <2>1 DEF Exclusively
<1>10. Owned'
  <2>1. ASSUME NEW e \in replay
        PROVE  accepted'[e.id] > 0 \/ \E c \in Checks : Signing(c, e.id)'
    <3>1. e.id \in 1..Len(tickets)
      BY <1>1 DEF TicketTypes
    <3>2. CASE e.id = id
      BY <1>6, <3>2
    <3>3. CASE e.id # id
      BY <1>1, <1>3, <1>5, <3>1, <3>3 DEF Owned
    <3>. QED
      BY <3>2, <3>3
  <2>. QED
    BY <1>2, <2>1 DEF Owned
<1>11. tickets[id].epoch >= store["relay"].epoch /\ tickets[id].epoch > 0
  <2>1. tickets[id].epoch \in Int
    BY <1>1, <1>3, TicketFields
  <2>2. store["relay"].epoch \in Int
    BY <1>1, ProcessAssumption DEF StoreTypes, Whole
  <2>. QED
    BY <1>2, <1>3, <2>1, <2>2 DEF Authorizes, Epochs
<1>12. Gated'
  <2>1. \A i \in 1..Len(tickets) : accepted'[i] > 0 =>
           tickets[i].epoch >= store["relay"].epoch /\ tickets[i].epoch > 0
    BY <1>1, <1>5, <1>11 DEF Gated
  <2>. QED
    BY <1>2, <2>1 DEF Gated
<1>. QED
  BY <1>2, <1>7, <1>8, <1>9, <1>10, <1>12, VerifyFrame

\* A rejected ticket takes its entry with it, which was nobody else's.
LEMMA RejectTickets ==
  ASSUME TicketInv, NEW k \in Checks, RejectTicket(k), UNCHANGED <<file, store, manager>>
  PROVE  TicketInv'
<1>. DEFINE id == check[k].id
<1>1. TicketTypes /\ Timely /\ Exclusively /\ Owned /\ Gated
  BY DEF TicketInv
<1>2. /\ check[k].at = "sign" /\ replay' = {e \in replay : e.id # id} /\ check' = [check EXCEPT ![k] = Idle]
      /\ UNCHANGED <<clock, keyFile, proc, key, tickets, accepted>>
  BY DEF RejectTicket
<1>3. /\ check' \in [Checks -> Check] /\ check'[k].at = "idle"
      /\ \A c \in Checks : c # k => check'[c] = check[c]
      /\ \A c \in Checks, i \in 1..Len(tickets) : Signing(c, i)' <=> Signing(c, i) /\ c # k
      /\ \A i \in 1..Len(tickets) : Signing(k, i) <=> i = id
      /\ id \in 1..Len(tickets) /\ proc["relay"] = "up"
  BY <1>1, <1>2, SignedMoves
<1>. HIDE DEF id
<1>4. \A e \in replay' : e \in replay /\ e.id # id
  BY <1>2
<1>5. TicketTypes'
  BY <1>1, <1>2, <1>3, <1>4 DEF TicketTypes
<1>6. Timely'
  BY <1>1, <1>2, <1>3, <1>4, TimelyMoves
<1>7. ~(0 > 0)
  OBVIOUS
<1>8. Exclusively'
  <2>1. ASSUME NEW i \in 1..Len(tickets), Short(i)'
        PROVE  /\ accepted'[i] <= 1
               /\ \A c \in Checks : Signing(c, i)' =>
                     accepted'[i] = 0 /\ \A d \in Checks : Signing(d, i)' => d = c
               /\ proc'["relay"] = "up" /\ (accepted'[i] > 0 \/ \E c \in Checks : Signing(c, i)') =>
                     (\E e \in replay' : e.id = i) \/ clock' > tickets'[i].expires + MaxPause
    <3>1. Short(i)
      BY <1>2, <2>1 DEF Short
    <3>2. /\ accepted[i] <= 1
          /\ \A c \in Checks : Signing(c, i) => accepted[i] = 0 /\ \A d \in Checks : Signing(d, i) => d = c
          /\ (accepted[i] > 0 \/ \E c \in Checks : Signing(c, i)) =>
                (\E e \in replay : e.id = i) \/ clock > tickets[i].expires + MaxPause
      BY <1>1, <1>3, <3>1 DEF Exclusively
    <3>3. CASE i = id
      <4>1. accepted[i] = 0 /\ \A d \in Checks : ~Signing(d, i)'
        BY <1>3, <3>2, <3>3
      <4>. QED
        BY <1>2, <1>7, <3>2, <4>1
    <3>4. CASE i # id
      <4>1. \A c \in Checks : Signing(c, i)' <=> Signing(c, i)
        BY <1>3, <3>4
      <4>2. \A e \in replay : e.id = i => e \in replay'
        BY <1>2, <3>4
      <4>. QED
        BY <1>2, <3>2, <4>1, <4>2
    <3>. QED
      BY <3>3, <3>4
  <2>. QED
    BY <1>2, <2>1 DEF Exclusively
<1>9. Owned'
  <2>1. \A e \in replay : e.id \in 1..Len(tickets)
    BY <1>1 DEF TicketTypes
  <2>2. \A e \in replay' : accepted'[e.id] > 0 \/ \E c \in Checks : Signing(c, e.id)'
    BY <1>1, <1>2, <1>3, <1>4, <2>1 DEF Owned
  <2>. QED
    BY <2>2 DEF Owned
<1>10. Gated'
  BY <1>1, <1>2 DEF Gated
<1>. QED
  BY <1>2, <1>5, <1>6, <1>8, <1>9, <1>10, VerifyFrame

\* The steps of the goroutines of a route and of its other ends touch no ticket.
LEMMA RouteSteps ==
  ASSUME NEW r \in Routes,
         \/ Goroutine(r) \/ Watch(r) \/ CancelRoute(r)
         \/ ReadPump(r) \/ Delivers(r) \/ LocalRead(r) \/ RemoteWrite(r)
         \/ RemoteRead(r) \/ LocalWrite(r)
         \/ LocalSends(r) \/ LocalEnds(r) \/ ClientSends(r) \/ ClientLeaves(r)
  PROVE  /\ UNCHANGED <<ticketVars, storeVars>>
         /\ \/ manager' = manager
            \/ manager' = [manager EXCEPT !.pending = @ \ {r}, !.active = @ \cup {r}]
            \/ manager' = [manager EXCEPT !.active = @ \ {r}]
<1>1. UNCHANGED <<ticketVars, storeVars>>
  <2>1. ASSUME NEW c, RouteStep(r, c) PROVE UNCHANGED <<ticketVars, storeVars>>
    BY <2>1 DEF RouteStep
  <2>2. CASE Goroutine(r)
    BY <2>1, <2>2 DEF Goroutine, LocalFails, LocalOpens, Connect, ConnectRefused, Dial, DialFails, BridgeReturns,
                      Cancels, ConnectReturns
  <2>3. CASE \/ Watch(r) \/ CancelRoute(r) \/ LocalRead(r) \/ RemoteWrite(r) \/ LocalSends(r) \/ LocalEnds(r)
             \/ ClientSends(r) \/ ClientLeaves(r)
    BY <2>1, <2>3 DEF Watch, CancelRoute, LocalRead, RemoteWrite, LocalSends, LocalEnds, ClientSends, ClientLeaves
  <2>4. CASE ReadPump(r) \/ Delivers(r) \/ RemoteRead(r) \/ LocalWrite(r)
    BY <2>1, <2>4 DEF ReadPump, Delivers, RemoteRead, LocalWrite
  <2>. QED
    BY <2>2, <2>3, <2>4
<1>2. \/ manager' = manager
      \/ manager' = [manager EXCEPT !.pending = @ \ {r}, !.active = @ \cup {r}]
      \/ manager' = [manager EXCEPT !.active = @ \ {r}]
  <2>1. CASE Goroutine(r)
    BY <2>1 DEF Goroutine, LocalFails, LocalOpens, Connect, ConnectRefused, Dial, DialFails, BridgeReturns,
                Cancels, ConnectReturns
  <2>2. CASE \/ Watch(r) \/ CancelRoute(r) \/ LocalRead(r) \/ RemoteWrite(r) \/ LocalSends(r) \/ LocalEnds(r)
             \/ ClientSends(r) \/ ClientLeaves(r)
    BY <2>2 DEF Watch, CancelRoute, LocalRead, RemoteWrite, LocalSends, LocalEnds, ClientSends, ClientLeaves
  <2>3. CASE ReadPump(r) \/ Delivers(r) \/ RemoteRead(r) \/ LocalWrite(r)
    BY <2>3 DEF ReadPump, Delivers, RemoteRead, LocalWrite
  <2>. QED
    BY <2>1, <2>2, <2>3
<1>. QED
  BY <1>1, <1>2

LEMMA RouteTickets ==
  ASSUME TicketInv, UNCHANGED <<ticketVars, storeVars>>,
         \/ manager' = manager
         \/ \E r \in Routes : \/ manager' = [manager EXCEPT !.pending = @ \ {r}, !.active = @ \cup {r}]
                              \/ manager' = [manager EXCEPT !.active = @ \ {r}]
  PROVE  TicketInv'
<1>1. StoreTypes /\ KeyTypes
  BY DEF TicketInv
<1>2. UNCHANGED <<clock, keyFile, proc, key, tickets, replay, check, accepted, file, store>>
  BY DEF ticketVars, storeVars
<1>3. manager' = [f \in {"epoch", "pending", "active"} |-> manager'[f]] /\ manager'.epoch = manager.epoch
  BY <1>1 DEF StoreTypes
<1>4. StoreTypes' /\ KeyTypes'
  BY <1>1, <1>2, <1>3 DEF StoreTypes, KeyTypes
<1>. QED
  BY <1>2, <1>4, SameTickets

LEMMA NextTickets == TicketInv /\ Epochs /\ [Next]_vars => TicketInv'
<1>1. SUFFICES ASSUME TicketInv, Epochs, [Next]_vars PROVE TicketInv'
  OBVIOUS
<1>2. CASE \/ AgentOpens \/ NewManager \/ RelayReadsKey \/ ManagerClose \/ AgentExits \/ RevokeDevice
           \/ RelayUp \/ RelayStops \/ Tick \/ AdminIssues \/ \E p \in Processes : WritesKey(p)
  BY <1>1, <1>2, ProcessTickets, RelayTurns, TickTickets, IssuedTickets
<1>3. CASE ProvisionRefused \/ UNCHANGED vars
  <2>1. UNCHANGED <<ticketVars, storeVars>> /\ manager' = manager
    BY <1>3 DEF ProvisionRefused, vars, routeVars
  <2>. QED
    BY <1>1, <2>1, RouteTickets
<1>4. ASSUME NEW c \in Checks, Verifies(c)
      PROVE  TicketInv'
  <2>1. UNCHANGED <<file, store, manager>>
    BY <1>4 DEF Verifies, Answer, storeVars, routeVars
  <2>. QED
    BY <1>1, <1>4, <2>1, RecordTickets, ReplayedTickets, AcceptTickets, RejectTickets DEF Verifies
<1>5. ASSUME NEW c \in Checks, NEW id, BeginVerify(c, id), UNCHANGED <<storeVars, routeVars>>
      PROVE  TicketInv'
  <2>1. UNCHANGED <<file, store, manager>>
    BY <1>5 DEF storeVars, routeVars
  <2>. QED
    BY <1>1, <1>5, <2>1, BeginTickets
<1>6. ASSUME NEW c \in Checks, ClientPresents(c)
      PROVE  TicketInv'
  BY <1>5, <1>6 DEF ClientPresents
<1>7. ASSUME NEW r \in Routes, NEW c \in Checks, AgentPresents(r, c)
      PROVE  TicketInv'
  <2>1. \/ BeginVerify(c, TicketOf(r, "agent")) /\ UNCHANGED <<storeVars, routeVars>>
        \/ UNCHANGED <<ticketVars, storeVars>> /\ manager' = manager
    BY <1>7 DEF AgentPresents, RouteStep
  <2>. QED
    BY <1>1, <1>5, <2>1, RouteTickets
<1>8. ASSUME NEW r \in Routes,
             \/ Goroutine(r) \/ Watch(r) \/ CancelRoute(r)
             \/ ReadPump(r) \/ Delivers(r) \/ LocalRead(r) \/ RemoteWrite(r)
             \/ RemoteRead(r) \/ LocalWrite(r)
             \/ LocalSends(r) \/ LocalEnds(r) \/ ClientSends(r) \/ ClientLeaves(r)
      PROVE  TicketInv'
  BY <1>1, <1>8, RouteSteps, RouteTickets
<1>9. ASSUME NEW r \in Routes, Provision(r)
      PROVE  TicketInv'
  BY <1>1, <1>9, IssuedTickets
<1>. QED
  BY <1>1, <1>2, <1>3, <1>4, <1>6, <1>7, <1>8, <1>9 DEF Next

\* Authorize leaves the epoch alone and Revoke counts it up.
LEMMA EpochOf ==
  ASSUME NEW st, Whole(st)
  PROVE  (\A d : Authorized(st, d).epoch = st.epoch) /\ (\A id : Revoked(st, id).epoch = st.epoch + 1)
BY DEF Whole, Authorized, Revoked

LEMMA NextEpochs == TicketInv /\ Epochs /\ [Next]_vars => Epochs'
<1>1. SUFFICES ASSUME TicketInv, Epochs, [Next]_vars PROVE Epochs'
  OBVIOUS
<1>2. StoreTypes /\ KeyTypes /\ "agent" \in Processes /\ "relay" \in Processes
  BY <1>1, ProcessAssumption DEF TicketInv
<1>3. UNCHANGED <<file, store>> /\ (proc'["relay"] = "up" => proc["relay"] = "up") => Epochs'
  BY <1>1 DEF Epochs
<1>4. CASE AgentOpens
  <2>1. ReadKey("agent") /\ LoadOrCreate("agent")
    BY <1>4 DEF AgentOpens
  <2>2. proc'["relay"] = proc["relay"]
    BY <1>2, <2>1 DEF ReadKey, KeyTypes
  <2>3. GenerateState.epoch >= 0
    BY DEF GenerateState
  <2>4. file'.epoch >= 0 /\ store' = [store EXCEPT !["agent"] = file']
    BY <1>1, <2>1, <2>3 DEF LoadOrCreate, Epochs
  <2>5. file'.epoch >= -1
    <3>1. file'.epoch = file.epoch \/ file'.epoch = 0
      BY <2>1 DEF LoadOrCreate, GenerateState
    <3>. QED
      BY <1>2, <2>4, <3>1 DEF StoreTypes, Whole
  <2>. QED
    BY <1>1, <1>2, <2>2, <2>4, <2>5 DEF Epochs, StoreTypes
<1>5. CASE AgentExits
  <2>1. proc' = [proc EXCEPT !["agent"] = "down"] /\ store' = [store EXCEPT !["agent"] = NoState] /\ file' = file
    BY <1>5 DEF AgentExits, Close
  <2>2. NoState.epoch >= -1
    BY DEF NoState
  <2>3. proc'["relay"] = proc["relay"]
    BY <1>2, <2>1 DEF KeyTypes
  <2>. QED
    BY <1>1, <1>2, <2>1, <2>2, <2>3 DEF Epochs, StoreTypes
<1>6. CASE RevokeDevice
  <2>. DEFINE x == Revoked(store["agent"], Device.id)
  <2>1. file' = x /\ store' = [store EXCEPT !["agent"] = x] /\ proc' = proc
    BY <1>6 DEF RevokeDevice, Save, ticketVars
  <2>2. x.epoch = store["agent"].epoch + 1 /\ store["agent"].epoch \in Int
    BY <1>2, EpochOf DEF StoreTypes, Whole
  <2>. HIDE DEF x
  <2>3. x.epoch >= 0 /\ x.epoch >= -1
    BY <1>1, <1>2, <2>2 DEF Epochs
  <2>. QED
    BY <1>1, <1>2, <2>1, <2>3 DEF Epochs, StoreTypes
<1>7. CASE RelayUp
  <2>1. store' = [store EXCEPT !["relay"] = file] /\ file' = file
    BY <1>7 DEF RelayUp, RelayOpens, Load
  <2>2. file.epoch >= -1
    BY <1>1, <1>2 DEF Epochs, StoreTypes, Whole
  <2>. QED
    BY <1>1, <1>2, <2>1, <2>2 DEF Epochs, StoreTypes
<1>8. CASE NewManager \/ RelayReadsKey \/ ManagerClose \/ RelayStops \/ \E p \in Processes : WritesKey(p)
  <2>1. UNCHANGED <<file, store>>
    BY <1>8 DEF NewManager, RelayReadsKey, ManagerClose, RelayStops, RelayExits, WritesKey, storeVars
  <2>2. proc'["relay"] = "up" => proc["relay"] = "up"
    BY <1>2, <1>8 DEF NewManager, RelayReadsKey, ReadKey, ManagerClose, RelayStops, RelayExits, WritesKey, WriteKey,
                      KeyTypes
  <2>. QED
    BY <1>3, <2>1, <2>2
<1>9. CASE Tick \/ ProvisionRefused \/ AdminIssues \/ UNCHANGED vars \/ \E r \in Routes : Provision(r)
  BY <1>3, <1>9 DEF Tick, ProvisionRefused, AdminIssues, Provision, vars, storeVars, ticketVars
<1>10. ASSUME NEW c \in Checks, ClientPresents(c) \/ Verifies(c)
       PROVE  Epochs'
  BY <1>3, <1>10 DEF ClientPresents, Verifies, BeginVerify, RecordReplay, Replayed, AcceptTicket, RejectTicket,
                     Answer, storeVars
<1>11. ASSUME NEW r \in Routes,
              \/ Goroutine(r) \/ Watch(r) \/ CancelRoute(r)
              \/ ReadPump(r) \/ Delivers(r) \/ LocalRead(r) \/ RemoteWrite(r)
              \/ RemoteRead(r) \/ LocalWrite(r)
              \/ LocalSends(r) \/ LocalEnds(r) \/ ClientSends(r) \/ ClientLeaves(r)
              \/ \E c \in Checks : AgentPresents(r, c)
       PROVE  Epochs'
  <2>1. CASE \E c \in Checks : AgentPresents(r, c)
    BY <1>3, <2>1 DEF AgentPresents, BeginVerify, RouteStep, storeVars, ticketVars
  <2>2. CASE UNCHANGED <<ticketVars, storeVars>>
    BY <1>3, <2>2 DEF ticketVars, storeVars
  <2>. QED
    BY <1>11, <2>1, <2>2, RouteSteps
<1>. QED
  BY <1>1, <1>4, <1>5, <1>6, <1>7, <1>8, <1>9, <1>10, <1>11 DEF Next

LEMMA InitTickets == Init => TicketInv /\ Epochs
<1>1. SUFFICES ASSUME Init PROVE TicketInv /\ Epochs
  OBVIOUS
<1>. DEFINE one == Authorized(GenerateState, Device)
            two == Revoked(Authorized(GenerateState, Old), Old.id)
            three == Authorized(two, Device)
<1>2. Whole(one) /\ Whole(two) /\ Whole(three) /\ Whole(Authorized(GenerateState, Old))
  BY WholeStates
<1>3. GenerateState.epoch = 0 /\ NoState.epoch = -1
  BY DEF GenerateState, NoState
<1>4. one.epoch = 0
  BY <1>3, WholeStates, EpochOf
<1>5. two.epoch = 1
  BY <1>2, <1>3, WholeStates, EpochOf
<1>6. three.epoch = 1
  BY <1>2, <1>5, EpochOf
<1>7. file = one \/ file = three
  BY <1>1 DEF Init
<1>. HIDE DEF one, two, three
<1>8. "agent" \in Processes /\ "relay" \in Processes
  BY ProcessAssumption
<1>9. StoreTypes
  BY <1>1, <1>2, <1>7, WholeStates DEF Init, StoreTypes
<1>10. KeyTypes
  BY <1>1 DEF Init, KeyTypes, Keys
<1>11. tickets = <<>> /\ replay = {} /\ accepted = <<>> /\ clock = 0 /\ check = [c \in Checks |-> Idle]
  BY <1>1 DEF Init
<1>12. Len(tickets) = 0 /\ 1..Len(tickets) = {}
  BY <1>11
<1>13. TicketTypes
  BY <1>11, <1>12 DEF TicketTypes, Check, Idle
<1>14. Timely
  BY <1>11, <1>12 DEF Timely, Idle
<1>15. Exclusively /\ Owned /\ Gated
  BY <1>11, <1>12 DEF Exclusively, Owned, Gated
<1>16. Epochs
  <2>1. file.epoch >= 0
    <3>1. file.epoch = 0 \/ file.epoch = 1
      BY <1>4, <1>6, <1>7
    <3>. QED
      BY <3>1
  <2>2. \A p \in Processes : store[p].epoch = -1 /\ proc[p] = "down"
    BY <1>1, <1>3 DEF Init
  <2>3. \A p \in Processes : store[p].epoch >= -1
    BY <2>2
  <2>. QED
    BY <1>8, <2>1, <2>2, <2>3 DEF Epochs
<1>. QED
  BY <1>9, <1>10, <1>13, <1>14, <1>15, <1>16 DEF TicketInv

\* Only the two ways to mint make tickets, and each stamps the epoch of a copy.
LEMMA StampsInOrder ==
  ASSUME TicketInv, Ordered, AdminIssues \/ \E r \in Routes : Provision(r)
  PROVE  Ordered'
<1>1. StoreTypes /\ "relay" \in Processes /\ tickets \in Seq(Ticket)
  BY ProcessAssumption DEF TicketInv, TicketTypes
<1>2. store["relay"].epoch <= file.epoch /\ manager.epoch <= file.epoch
  BY <1>1 DEF Ordered
<1>3. \A id \in 1..Len(tickets) : tickets[id].epoch <= tickets[id].asOf
  BY DEF Ordered
<1>4. ASSUME NEW r, NEW e, NEW l, NEW epoch, NEW k
      PROVE  Issue(r, e, l, epoch, k).epoch = epoch /\ Issue(r, e, l, epoch, k).asOf = file.epoch
  BY DEF Issue
<1>5. ASSUME NEW r \in Routes, Provision(r)
      PROVE  Ordered'
  <2>. DEFINE t == Issue(r, "agent", Lifetime, manager.epoch, key["agent"])
              u == Issue(r, "client", Lifetime, manager.epoch, key["agent"])
  <2>1. /\ tickets' = tickets \o <<t, u>> /\ UNCHANGED <<proc, file, store>>
        /\ manager' = [manager EXCEPT !.pending = @ \cup {r}]
    BY <1>5 DEF Provision, Pair, storeVars
  <2>2. t.epoch <= t.asOf /\ u.epoch <= u.asOf
    BY <1>2, <1>4
  <2>. HIDE DEF t, u
  <2>3. ASSUME NEW id \in 1..Len(tickets')
        PROVE  (id \in 1..Len(tickets) /\ tickets'[id] = tickets[id]) \/ tickets'[id] = t \/ tickets'[id] = u
    BY <1>1, <2>1, <2>3
  <2>4. \A id \in 1..Len(tickets') : tickets'[id].epoch <= tickets'[id].asOf
    BY <1>3, <2>2, <2>3
  <2>5. manager'.epoch = manager.epoch
    BY <1>1, <2>1 DEF StoreTypes
  <2>. QED
    BY <2>1, <2>4, <2>5 DEF Ordered
<1>6. CASE AdminIssues
  <2>1. PICK l \in AdminLifetimes : HandleIssue(0, "client", l)
    BY <1>6 DEF AdminIssues
  <2>. DEFINE t == Issue(0, "client", l, store["relay"].epoch, key["relay"])
  <2>2. tickets' = Append(tickets, t) /\ UNCHANGED <<proc, file, store, manager>>
    BY <1>6, <2>1 DEF AdminIssues, HandleIssue, storeVars, routeVars
  <2>3. t.epoch <= t.asOf
    BY <1>2, <1>4
  <2>. HIDE DEF t
  <2>4. ASSUME NEW id \in 1..Len(tickets')
        PROVE  (id \in 1..Len(tickets) /\ tickets'[id] = tickets[id]) \/ tickets'[id] = t
    BY <1>1, <2>2, <2>4
  <2>5. \A id \in 1..Len(tickets') : tickets'[id].epoch <= tickets'[id].asOf
    BY <1>3, <2>3, <2>4
  <2>. QED
    BY <2>2, <2>5 DEF Ordered
<1>. QED
  BY <1>5, <1>6

LEMMA NextOrdered == TicketInv /\ Epochs /\ Ordered /\ [Next]_vars => Ordered'
<1>1. SUFFICES ASSUME TicketInv, Epochs, Ordered, [Next]_vars PROVE Ordered'
  OBVIOUS
<1>2. StoreTypes /\ KeyTypes /\ "agent" \in Processes /\ "relay" \in Processes
  BY <1>1, ProcessAssumption DEF TicketInv
<1>3. /\ \A p \in Processes : store[p].epoch <= file.epoch /\ store[p].epoch \in Int
      /\ file.epoch \in Int /\ file.epoch >= 0 /\ manager.epoch <= file.epoch /\ manager.epoch \in Int
      /\ proc["agent"] # "down" => store["agent"].epoch = file.epoch
  BY <1>1, <1>2 DEF Ordered, Epochs, StoreTypes, Whole
<1>4. ASSUME UNCHANGED <<file, store, tickets>>, manager'.epoch = manager.epoch,
             proc'["agent"] # "down" => proc["agent"] # "down"
      PROVE  Ordered'
  BY <1>1, <1>4 DEF Ordered
<1>5. CASE AgentOpens
  <2>1. file' = IF file = NoState THEN GenerateState ELSE file
    BY <1>5 DEF AgentOpens, LoadOrCreate
  <2>2. NoState.epoch = -1
    BY DEF NoState
  <2>3. file # NoState
    BY <1>3, <2>2
  <2>4. file' = file /\ store' = [store EXCEPT !["agent"] = file] /\ UNCHANGED <<tickets, manager>>
    BY <1>5, <2>1, <2>3 DEF AgentOpens, LoadOrCreate, routeVars
  <2>5. store'["agent"].epoch = file.epoch /\ \A p \in Processes : store'[p].epoch <= file.epoch
    BY <1>2, <1>3, <2>4 DEF StoreTypes
  <2>. QED
    BY <1>1, <2>4, <2>5 DEF Ordered
<1>6. CASE AgentExits
  <2>1. /\ proc' = [proc EXCEPT !["agent"] = "down"] /\ store' = [store EXCEPT !["agent"] = NoState]
        /\ UNCHANGED <<file, tickets, manager>>
    BY <1>6 DEF AgentExits, Close
  <2>2. NoState.epoch = -1
    BY DEF NoState
  <2>3. -1 <= file.epoch
    BY <1>3
  <2>4. proc'["agent"] = "down" /\ \A p \in Processes : store'[p].epoch <= file.epoch
    BY <1>2, <1>3, <2>1, <2>2, <2>3 DEF StoreTypes, KeyTypes
  <2>. QED
    BY <1>1, <2>1, <2>4 DEF Ordered
<1>7. CASE RevokeDevice
  <2>. DEFINE x == Revoked(store["agent"], Device.id)
  <2>1. file' = x /\ store' = [store EXCEPT !["agent"] = x] /\ UNCHANGED <<proc, tickets, manager>>
    BY <1>7 DEF RevokeDevice, Save, ticketVars, routeVars
  <2>2. x.epoch = store["agent"].epoch + 1
    BY <1>2, EpochOf DEF StoreTypes, Whole
  <2>3. proc["agent"] = "up"
    BY <1>7 DEF RevokeDevice
  <2>. HIDE DEF x
  <2>4. x.epoch = file.epoch + 1
    BY <1>3, <2>2, <2>3
  <2>5. ASSUME NEW n \in Int, n <= file.epoch
        PROVE  n <= x.epoch
    BY <1>3, <2>4, <2>5
  <2>6. manager.epoch <= x.epoch /\ x.epoch <= x.epoch
    BY <1>3, <2>4, <2>5
  <2>7. store'["agent"] = x /\ \A p \in Processes : store'[p] = x \/ store'[p] = store[p]
    BY <1>2, <2>1 DEF StoreTypes
  <2>8. \A p \in Processes : store'[p].epoch <= x.epoch
    BY <1>3, <2>5, <2>6, <2>7
  <2>. QED
    BY <1>1, <2>1, <2>6, <2>7, <2>8 DEF Ordered
<1>8. CASE RelayUp
  <2>1. /\ store' = [store EXCEPT !["relay"] = file] /\ UNCHANGED <<file, tickets, manager>>
        /\ proc' = [proc EXCEPT !["relay"] = "up"]
    BY <1>8 DEF RelayUp, RelayOpens, Load, routeVars
  <2>2. proc'["agent"] = proc["agent"] /\ store'["agent"] = store["agent"]
    BY <1>2, <2>1 DEF StoreTypes, KeyTypes
  <2>3. \A p \in Processes : store'[p].epoch <= file.epoch
    BY <1>2, <1>3, <2>1 DEF StoreTypes
  <2>. QED
    BY <1>1, <2>1, <2>2, <2>3 DEF Ordered
<1>9. CASE NewManager
  <2>1. /\ UNCHANGED <<file, store, tickets>> /\ proc' = [proc EXCEPT !["agent"] = "up"]
        /\ manager' = [epoch |-> store["agent"].epoch, pending |-> {}, active |-> {}]
        /\ proc["agent"] = "keyed"
    BY <1>9 DEF NewManager, storeVars
  <2>2. manager'.epoch <= file.epoch
    BY <1>2, <1>3, <2>1
  <2>. QED
    BY <1>1, <1>3, <2>1, <2>2 DEF Ordered
<1>10. CASE RelayReadsKey \/ ManagerClose \/ RelayStops \/ \E p \in Processes : WritesKey(p)
  <2>1. UNCHANGED <<file, store, tickets>>
    BY <1>10 DEF RelayReadsKey, ManagerClose, RelayStops, RelayExits, WritesKey, storeVars
  <2>2. manager'.epoch = manager.epoch
    BY <1>2, <1>10 DEF RelayReadsKey, ManagerClose, RelayStops, WritesKey, routeVars, StoreTypes
  <2>3. proc'["agent"] # "down" => proc["agent"] # "down"
    BY <1>2, <1>10 DEF RelayReadsKey, ReadKey, ManagerClose, RelayStops, RelayExits, WritesKey, WriteKey, KeyTypes
  <2>. QED
    BY <1>4, <2>1, <2>2, <2>3
<1>11. CASE Tick \/ ProvisionRefused \/ UNCHANGED vars
  BY <1>4, <1>11 DEF Tick, ProvisionRefused, vars, storeVars, ticketVars, routeVars
<1>12. CASE AdminIssues \/ \E r \in Routes : Provision(r)
  BY <1>1, <1>12, StampsInOrder
<1>13. ASSUME NEW c \in Checks, ClientPresents(c) \/ Verifies(c)
       PROVE  Ordered'
  BY <1>4, <1>13 DEF ClientPresents, Verifies, BeginVerify, RecordReplay, Replayed, AcceptTicket, RejectTicket,
                     Answer, storeVars, routeVars
<1>14. ASSUME NEW r \in Routes, NEW c \in Checks, AgentPresents(r, c)
       PROVE  Ordered'
  BY <1>4, <1>14 DEF AgentPresents, BeginVerify, RouteStep, storeVars, ticketVars, routeVars
<1>15. ASSUME NEW r \in Routes,
              \/ Goroutine(r) \/ Watch(r) \/ CancelRoute(r)
              \/ ReadPump(r) \/ Delivers(r) \/ LocalRead(r) \/ RemoteWrite(r)
              \/ RemoteRead(r) \/ LocalWrite(r)
              \/ LocalSends(r) \/ LocalEnds(r) \/ ClientSends(r) \/ ClientLeaves(r)
       PROVE  Ordered'
  <2>1. UNCHANGED <<file, store, tickets, proc>>
    BY <1>15, RouteSteps DEF ticketVars, storeVars
  <2>2. manager'.epoch = manager.epoch
    BY <1>2, <1>15, RouteSteps DEF StoreTypes
  <2>. QED
    BY <1>4, <2>1, <2>2
<1>. QED
  BY <1>1, <1>5, <1>6, <1>7, <1>8, <1>9, <1>10, <1>11, <1>12, <1>13, <1>14, <1>15 DEF Next

\* The replay set, the verifications and the clock agree in every state.
LEMMA TicketsAgree == Spec => [](TicketInv /\ Epochs)
<1>1. TicketInv /\ Epochs /\ [Next]_vars => (TicketInv /\ Epochs)'
  BY NextTickets, NextEpochs
<1>. QED
  BY <1>1, InitTickets, PTL DEF Spec

\* A process of the relay accepts a ticket at most once, however many connections
\* present it at the same time, whatever is swept from and rolled back in the
\* replay set meanwhile, when the ticket's lifetime and the longest pause between
\* the two clock reads of Verify fit into the replay window.
THEOREM AcceptedOnceHolds == Spec => []AcceptedOnce
<1>1. TicketInv => AcceptedOnce
  <2>1. SUFFICES ASSUME TicketInv, NEW id \in DOMAIN tickets, Short(id) PROVE accepted[id] <= 1
    BY DEF AcceptedOnce, Short
  <2>2. id \in 1..Len(tickets)
    BY <2>1 DEF TicketInv, TicketTypes
  <2>. QED
    BY <2>1, <2>2 DEF TicketInv, Exclusively
<1>. QED
  BY <1>1, TicketsAgree, PTL

\* A ticket that is turned down for its signature or its epoch is forgotten: what
\* the replay set holds was accepted or is being verified.
THEOREM ReplayIsExactHolds == Spec => []ReplayIsExact
<1>1. TicketInv => ReplayIsExact
  BY DEF TicketInv, Owned, Signing, ReplayIsExact
<1>. QED
  BY <1>1, TicketsAgree, PTL

LEMMA InitOrdered == Init => Ordered
<1>1. SUFFICES ASSUME Init PROVE Ordered
  OBVIOUS
<1>2. "agent" \in Processes /\ file.epoch \in Int /\ file.epoch >= 0
  BY <1>1, InitTickets, ProcessAssumption DEF TicketInv, StoreTypes, Whole, Epochs
<1>3. NoState.epoch = -1 /\ -1 <= file.epoch /\ 0 <= file.epoch
  BY <1>2 DEF NoState
<1>4. /\ store = [p \in Processes |-> NoState] /\ proc = [p \in Processes |-> "down"]
      /\ manager = [epoch |-> 0, pending |-> {}, active |-> {}] /\ tickets = <<>>
  BY <1>1 DEF Init
<1>. QED
  BY <1>2, <1>3, <1>4 DEF Ordered

\* No relay accepts a ticket minted before a revocation that was in the identity
\* file when the relay started, for any number of restarts of either process, of
\* tickets and of revocations: the two processes copy the epoch at different times,
\* but only the Agent writes it.
THEOREM RevokedTicketsStayOutHolds == Spec => []RevokedTicketsStayOut
<1>1. TicketInv /\ Ordered => RevokedTicketsStayOut
  <2>1. SUFFICES ASSUME TicketInv, Ordered, NEW id \in DOMAIN tickets, accepted[id] > 0
                 PROVE  tickets[id].asOf >= store["relay"].epoch
    BY DEF RevokedTicketsStayOut
  <2>2. id \in 1..Len(tickets) /\ tickets[id] \in Ticket
    BY <2>1 DEF TicketInv, TicketTypes
  <2>3. tickets[id].epoch \in Int /\ tickets[id].asOf \in Int
    BY <2>2 DEF Ticket
  <2>4. store["relay"].epoch \in Int
    BY <2>1, ProcessAssumption DEF TicketInv, StoreTypes, Whole
  <2>5. tickets[id].epoch >= store["relay"].epoch
    BY <2>1, <2>2 DEF TicketInv, Gated
  <2>6. tickets[id].epoch <= tickets[id].asOf
    BY <2>1, <2>2 DEF Ordered
  <2>. QED
    BY <2>3, <2>4, <2>5, <2>6
<1>2. TicketInv /\ Epochs /\ Ordered /\ [Next]_vars => Ordered'
  BY NextOrdered
<1>. QED
  BY <1>1, <1>2, InitOrdered, TicketsAgree, PTL DEF Spec
=============================================================================

------------------------ MODULE SessionResumeProofs ------------------------
(***************************************************************************)
(* Proofs about what a terminal shows across reconnections, for any number *)
(* of browsers, connections, sessions and chunks and any replay buffer.    *)
(* Link says what the two ends of a connection know of each other, Order   *)
(* where a browser's chunks are relative to each other and to the replay,  *)
(* and Follows what the browser that attached last has when it has taken   *)
(* everything that was numbered for it.  With Buffer and Count, which are  *)
(* about the session, they are the inductive invariant IInv.               *)
(***************************************************************************)
EXTENDS SessionResume, Integers, TLAPS

\* A leaf is tried with Zenon, then with SMT, for at most so many seconds.
USE ZenonT(5), SMTT(20)

TypeInv ==
  /\ produced \in Nat /\ generation \in Nat /\ nextOutbound \in Nat \ {0} /\ lastDetached \in Nat
  /\ live \in BOOLEAN /\ broken \in BOOLEAN /\ truncated \in BOOLEAN /\ checkpoint \in BOOLEAN
  /\ client \in Browser \cup {None}
  /\ replay \in Seq(Nat)
  /\ socket \in [Browser -> {"closed", "attaching", "open"}]
  /\ wire \in [Browser -> Seq(Envelope)]
  /\ bound \in [Browser -> BOOLEAN]
  /\ highest \in [Browser -> Nat]
  /\ cursor \in [Browser -> [gen : Nat, seq : Nat]]
  /\ view \in [Browser -> Seq(Nat)]
  /\ connections \in Nat
  /\ conn \in [Browser -> Nat] /\ taken \in [Browser -> Nat]
  /\ stale \in [Browser -> BOOLEAN]

\* The SessionStatus of the connection was written and not received.
Pending(b) == Len(wire[b]) > 0 /\ ~bound[b]

\* One connection: its envelopes are numbered on from what the browser has, they
\* begin with the SessionStatus, and the Agent goes on where they end.
Link(b) ==
  /\ socket[b] # "open" => Len(wire[b]) = 0
  /\ socket[b] = "attaching" => ~bound[b] /\ highest[b] = 1
  /\ bound[b] => cursor[b].seq = highest[b] /\ taken[b] = conn[b]
  /\ Pending(b) => taken[b] < conn[b]
  /\ \A i \in 1..Len(wire[b]) :
       /\ wire[b][i].seq = highest[b] + i
       /\ wire[b][i].kind = "status" <=> i = 1 /\ ~bound[b]
       /\ wire[b][i].kind = "status" <=> wire[b][i].disposition # "none"
       /\ wire[b][i].gen = Head(wire[b]).gen
       /\ bound[b] => wire[b][i].gen = cursor[b].gen
  /\ client = b /\ socket[b] = "open" /\ ~broken =>
       /\ nextOutbound = highest[b] + Len(wire[b]) + 1
       /\ bound[b] => cursor[b].gen = generation
       /\ ~bound[b] => Len(wire[b]) > 0
       /\ Len(wire[b]) > 0 => Head(wire[b]).gen = generation

Sorted(s) == \A i, j \in 1..Len(s) : i < j => s[i] < s[j]

\* What a browser shows comes before what is on its way to it, and both before
\* what is kept for the next attachment.
Order(b) ==
  /\ Sorted(view[b])
  /\ \A i, j \in 1..Len(wire[b]) :
       wire[b][i].kind = "output" /\ wire[b][j].kind = "output" /\ i < j => wire[b][i].chunk < wire[b][j].chunk
  /\ \A c \in Shown(b), d \in Coming(b) : c < d
  /\ \A c \in Shown(b) \cup Coming(b) : c <= produced /\ \A i \in 1..Len(replay) : c < replay[i]

Kept == {replay[i] : i \in 1..Len(replay)}

\* A set of chunks goes on to chunk p; it has no gap.
Reaches(S, p) == \A c \in S, z \in Nat : c <= z /\ z <= p => z \in S
NoGap(S) == \A c, d \in S, z \in Nat : c <= z /\ z <= d => z \in S

Buffer ==
  /\ Sorted(replay) /\ \A i \in 1..Len(replay) : replay[i] <= produced
  /\ Reaches(Kept, produced)
  /\ client # None => Len(replay) = 0 /\ ~truncated /\ live /\ conn[client] = connections
  /\ live => connections > 0

Count ==
  \A b \in Browser :
    /\ taken[b] <= conn[b] /\ conn[b] <= connections
    /\ \A c \in Browser : conn[b] = conn[c] /\ conn[b] > 0 => b = c
    /\ cursor[b] = NoCursor => Len(view[b]) = 0

\* The terminal will be reset; it is, or will then be, one without a gap.
Resync(b) == Pending(b) /\ Head(wire[b]).disposition = "RESYNC_REQUIRED"
Clean(b) ==
  \/ Resync(b)
  \/ ~stale[b] /\ (Pending(b) /\ Head(wire[b]).disposition = "RESUMED" => conn[b] = taken[b] + 1)

\* What it will show when it has received all that is on its way.
Visible(b) == (IF Resync(b) THEN {} ELSE Shown(b)) \cup Coming(b)

\* The highest number the Agent encoded on the last connection, the browser of
\* that connection, and the highest one that has reached or will reach it.
Top == IF client = None THEN lastDetached ELSE nextOutbound - 1
Latest(b) == live /\ conn[b] = connections /\ connections > 0 /\ (Len(wire[b]) > 0 \/ taken[b] = conn[b])
Newest(b) == IF Len(wire[b]) > 0 THEN highest[b] + Len(wire[b]) ELSE cursor[b].seq

Follows(b) ==
  /\ Pending(b) /\ Head(wire[b]).disposition = "FRESH" => Len(view[b]) = 0
  /\ ~stale[b] => NoGap(Shown(b))
  /\ Clean(b) => NoGap(Visible(b))
  /\ Latest(b) => Newest(b) <= Top
  /\ Latest(b) /\ Newest(b) = Top /\ Clean(b) /\ ~truncated => Reaches(Visible(b) \cup Kept, produced)

IInv ==
  /\ TypeInv /\ Buffer /\ Count
  /\ \A b \in Browser : Link(b) /\ Order(b) /\ Follows(b)

-----------------------------------------------------------------------------
(* Sequences.                                                              *)

LEMMA NotLess == \A x, y \in Nat : x <= y => ~(y < x)
  OBVIOUS

LEMMA Taken ==
  ASSUME NEW T, NEW s \in Seq(T), s # <<>>
  PROVE  /\ Head(s) = s[1] /\ s[1] \in T /\ Len(s) \in Nat /\ Len(s) > 0
         /\ Tail(s) \in Seq(T) /\ Len(Tail(s)) = Len(s) - 1
         /\ \A i \in 1..Len(Tail(s)) : i + 1 \in 1..Len(s) /\ Tail(s)[i] = s[i + 1]
<1>1. Len(s) \in Nat \ {0}
  OBVIOUS
<1>. QED
  BY <1>1

LEMMA Put ==
  ASSUME NEW T, NEW s \in Seq(T), NEW e \in T
  PROVE  /\ Append(s, e) \in Seq(T) /\ Len(s) \in Nat /\ Len(Append(s, e)) = Len(s) + 1
         /\ Append(s, e)[Len(s) + 1] = e
         /\ \A i \in 1..Len(s) : Append(s, e)[i] = s[i]
         /\ Head(Append(s, e)) = IF Len(s) > 0 THEN Head(s) ELSE e
  OBVIOUS

LEMMA PutOne ==
  ASSUME NEW T, NEW s \in Seq(T), NEW e \in T
  PROVE  s \o <<e>> = Append(s, e)
  OBVIOUS

\* A part of a sequence.
LEMMA Part ==
  ASSUME NEW T, NEW s \in Seq(T), NEW m \in 1..Len(s) + 1, NEW n \in 0..Len(s), m <= n + 1
  PROVE  /\ SubSeq(s, m, n) \in Seq(T) /\ Len(SubSeq(s, m, n)) = n - m + 1
         /\ \A i \in 1..(n - m + 1) : SubSeq(s, m, n)[i] = s[m + i - 1]
  OBVIOUS

LEMMA Suffix ==
  ASSUME NEW T, NEW s \in Seq(T), NEW m \in 0..Len(s)
  PROVE  /\ SubSeq(s, m + 1, Len(s)) \in Seq(T) /\ Len(SubSeq(s, m + 1, Len(s))) = Len(s) - m
         /\ \A i \in 1..(Len(s) - m) : SubSeq(s, m + 1, Len(s))[i] = s[m + i]
  OBVIOUS

LEMMA Fields ==
  ASSUME NEW m, NEW g, NEW d, NEW c
  PROVE  /\ Status(m, g, d).seq = m /\ Status(m, g, d).gen = g
         /\ Status(m, g, d).kind = "status" /\ Status(m, g, d).disposition = d
         /\ Output(m, g, c).seq = m /\ Output(m, g, c).gen = g
         /\ Output(m, g, c).kind = "output" /\ Output(m, g, c).disposition = "none" /\ Output(m, g, c).chunk = c
  BY DEF Status, Output

LEMMA Envelopes ==
  ASSUME NEW n \in Nat, NEW g \in Nat
  PROVE  /\ \A d \in Dispositions : Status(n, g, d) \in Envelope
         /\ \A c \in Nat : Output(n, g, c) \in Envelope
         /\ \A k \in {"acknowledgement", "processExit"} : Notice(n, g, k) \in Envelope
  BY DEF Status, Output, Notice, Envelope, Dispositions

\* What attachProtocolV1 writes.
LEMMA Attaching ==
  ASSUME NEW g \in Nat, NEW d \in Dispositions, NEW s \in Seq(Nat)
  PROVE  /\ AttachEnvelopes(g, d, s) \in Seq(Envelope) /\ Len(AttachEnvelopes(g, d, s)) = Len(s) + 1
         /\ AttachEnvelopes(g, d, s)[1] = Status(2, g, d)
         /\ \A i \in 2..(Len(s) + 1) : AttachEnvelopes(g, d, s)[i] = Output(i + 1, g, s[i - 1])
<1>. DEFINE outputs == [i \in 1..Len(s) |-> Output(i + 2, g, s[i])]
<1>1. Len(s) \in Nat /\ \A i \in 1..Len(s) : s[i] \in Nat
  OBVIOUS
<1>2. \A i \in 1..Len(s) : Output(i + 2, g, s[i]) \in Envelope
  BY <1>1, Envelopes
<1>3. /\ outputs \in Seq(Envelope) /\ Len(outputs) = Len(s)
      /\ \A i \in 1..Len(s) : outputs[i] = Output(i + 2, g, s[i])
  BY <1>1, <1>2
<1>4. Status(2, g, d) \in Envelope
  BY Envelopes
<1>. HIDE DEF outputs
<1>5. /\ <<Status(2, g, d)>> \o outputs \in Seq(Envelope) /\ Len(<<Status(2, g, d)>> \o outputs) = Len(s) + 1
      /\ (<<Status(2, g, d)>> \o outputs)[1] = Status(2, g, d)
      /\ \A i \in 2..(Len(s) + 1) : (<<Status(2, g, d)>> \o outputs)[i] = outputs[i - 1]
  BY <1>1, <1>3, <1>4
<1>6. \A i \in 2..(Len(s) + 1) : outputs[i - 1] = Output(i + 1, g, s[i - 1])
  <2>1. Len(s) \in Nat
    BY <1>1
  <2>2. \A i \in 2..(Len(s) + 1) : i - 1 \in 1..Len(s) /\ (i - 1) + 2 = i + 1
    BY <2>1
  <2>. QED
    BY <1>3, <2>2
<1>. QED
  BY <1>5, <1>6 DEF AttachEnvelopes, outputs

\* The chunks of a sequence of envelopes; Coming(b) are those of wire[b].
Outputs(s) == {s[i].chunk : i \in {j \in 1..Len(s) : s[j].kind = "output"}}

LEMMA OutputsPut ==
  ASSUME NEW s \in Seq(Envelope), NEW e \in Envelope
  PROVE  Outputs(Append(s, e)) = Outputs(s) \cup (IF e.kind = "output" THEN {e.chunk} ELSE {})
<1>1. /\ Len(s) \in Nat /\ Len(Append(s, e)) = Len(s) + 1 /\ Append(s, e)[Len(s) + 1] = e
      /\ \A i \in 1..Len(s) : Append(s, e)[i] = s[i]
  BY Put
<1>2. 1..(Len(s) + 1) = 1..Len(s) \cup {Len(s) + 1}
  BY <1>1
<1>. QED
  BY <1>1, <1>2 DEF Outputs

LEMMA OutputsTail ==
  ASSUME NEW s \in Seq(Envelope), Len(s) > 0
  PROVE  Outputs(s) = Outputs(Tail(s)) \cup (IF Head(s).kind = "output" THEN {Head(s).chunk} ELSE {})
<1>1. /\ Head(s) = s[1] /\ Len(s) \in Nat /\ Len(Tail(s)) = Len(s) - 1
      /\ \A i \in 1..Len(Tail(s)) : i + 1 \in 1..Len(s) /\ Tail(s)[i] = s[i + 1]
  BY Taken
<1>2. \A i \in 1..Len(s) : i = 1 \/ (i - 1 \in 1..Len(Tail(s)) /\ Tail(s)[i - 1] = s[i])
  BY <1>1
<1>3. 1 \in 1..Len(s)
  BY <1>1
<1>. QED
  BY <1>1, <1>2, <1>3 DEF Outputs

LEMMA ShownPut ==
  ASSUME NEW s \in Seq(Nat), NEW c \in Nat
  PROVE  {Append(s, c)[i] : i \in 1..Len(Append(s, c))} = {s[i] : i \in 1..Len(s)} \cup {c}
<1>1. /\ Len(s) \in Nat /\ Len(Append(s, c)) = Len(s) + 1 /\ Append(s, c)[Len(s) + 1] = c
      /\ \A i \in 1..Len(s) : Append(s, c)[i] = s[i]
  BY Put
<1>2. 1..(Len(s) + 1) = 1..Len(s) \cup {Len(s) + 1}
  BY <1>1
<1>. QED
  BY <1>1, <1>2

LEMMA SortedPut ==
  ASSUME NEW s \in Seq(Nat), NEW c \in Nat, Sorted(s), \A i \in 1..Len(s) : s[i] < c
  PROVE  Sorted(Append(s, c))
<1>1. /\ Len(s) \in Nat /\ Len(Append(s, c)) = Len(s) + 1 /\ Append(s, c)[Len(s) + 1] = c
      /\ \A i \in 1..Len(s) : Append(s, c)[i] = s[i]
  BY Put
<1>2. ASSUME NEW i \in 1..Len(s) + 1, NEW j \in 1..Len(s) + 1, i < j
      PROVE  Append(s, c)[i] < Append(s, c)[j]
  <2>1. i \in 1..Len(s) /\ Append(s, c)[i] = s[i]
    BY <1>1, <1>2
  <2>2. CASE j = Len(s) + 1
    BY <1>1, <2>1, <2>2
  <2>3. CASE j \in 1..Len(s)
    BY <1>1, <1>2, <2>1, <2>3 DEF Sorted
  <2>. QED
    BY <1>1, <2>2, <2>3
<1>. QED
  BY <1>1, <1>2 DEF Sorted

\* The lower part of chunks without a gap.
LEMMA FirstPart ==
  ASSUME NEW S \in SUBSET Nat, NEW T \in SUBSET Nat, NoGap(S \cup T), \A c \in S, d \in T : c < d
  PROVE  NoGap(S)
<1>1. SUFFICES ASSUME NEW c \in S, NEW d \in S, NEW z \in Nat, c <= z, z <= d
               PROVE  z \in S
  BY DEF NoGap
<1>2. z \in S \cup T
  BY <1>1 DEF NoGap
<1>3. z \in T => d < z
  OBVIOUS
<1>. QED
  BY <1>1, <1>2, <1>3

\* Consecutive elements of a sorted sequence that goes on to p.
LEMMA PartOfSorted ==
  ASSUME NEW r \in Seq(Nat), NEW p \in Nat, Sorted(r), \A i \in 1..Len(r) : r[i] <= p,
         Reaches({r[i] : i \in 1..Len(r)}, p), NEW n \in 0..Len(r), NEW k \in 0..(Len(r) - n)
  PROVE  /\ NoGap({r[n + i] : i \in 1..k})
         /\ k = Len(r) - n => Reaches({r[n + i] : i \in 1..k}, p)
<1>1. Len(r) \in Nat /\ \A i \in 1..Len(r) : r[i] \in Nat
  OBVIOUS
<1>2. ASSUME NEW i \in 1..k, NEW z \in Nat, r[n + i] <= z, z <= p
      PROVE  \E m \in 1..(Len(r) - n) : z = r[n + m]
  <2>1. n + i \in 1..Len(r)
    BY <1>1
  <2>2. PICK j \in 1..Len(r) : z = r[j]
    BY <1>2, <2>1 DEF Reaches
  <2>3. ~(j < n + i)
    <3>1. j < n + i => r[j] < r[n + i]
      BY <2>1 DEF Sorted
    <3>2. r[n + i] \in Nat /\ r[j] \in Nat
      BY <1>1, <2>1
    <3>3. r[n + i] <= r[j]
      BY <1>2, <2>2
    <3>4. ~(r[j] < r[n + i])
      BY <3>2, <3>3, NotLess
    <3>. QED
      BY <3>1, <3>4
  <2>4. j - n \in 1..(Len(r) - n) /\ n + (j - n) = j
    BY <1>1, <2>1, <2>3
  <2>. QED
    BY <2>2, <2>4
<1>3. ASSUME NEW i \in 1..k, NEW m \in 1..(Len(r) - n), r[n + m] <= r[n + i]
      PROVE  m \in 1..k
  <2>1. n + i \in 1..Len(r) /\ n + m \in 1..Len(r)
    BY <1>1
  <2>2. n + i < n + m => r[n + i] < r[n + m]
    BY <2>1 DEF Sorted
  <2>3. r[n + i] \in Nat /\ r[n + m] \in Nat
    BY <1>1, <2>1
  <2>4. ~(r[n + i] < r[n + m])
    <3>1. r[n + m] <= r[n + i]
      BY <1>3
    <3>. QED
      BY <2>3, <3>1, NotLess
  <2>5. ~(n + i < n + m) /\ Len(r) \in Nat
    BY <1>1, <2>2, <2>4
  <2>. QED
    BY <2>5
<1>4. \A i \in 1..k : n + i \in 1..Len(r) /\ r[n + i] <= p /\ r[n + i] \in Nat
  BY <1>1
<1>5. NoGap({r[n + i] : i \in 1..k})
  <2>. DEFINE S == {r[n + i] : i \in 1..k}
  <2>1. SUFFICES ASSUME NEW c \in S, NEW d \in S, NEW z \in Nat, c <= z, z <= d
                 PROVE  z \in S
    BY DEF NoGap
  <2>2. PICK i \in 1..k : c = r[n + i]
    OBVIOUS
  <2>3. PICK j \in 1..k : d = r[n + j]
    OBVIOUS
  <2>4. d \in Nat /\ d <= p
    BY <1>4, <2>3
  <2>5. z <= p
    BY <2>1, <2>4
  <2>6. PICK m \in 1..(Len(r) - n) : z = r[n + m]
    BY <1>2, <2>1, <2>2, <2>5
  <2>. QED
    BY <1>3, <2>1, <2>3, <2>6
<1>6. ASSUME k = Len(r) - n
      PROVE  Reaches({r[n + i] : i \in 1..k}, p)
  <2>. DEFINE S == {r[n + i] : i \in 1..k}
  <2>1. SUFFICES ASSUME NEW c \in S, NEW z \in Nat, c <= z, z <= p
                 PROVE  z \in S
    BY DEF Reaches
  <2>2. PICK i \in 1..k : c = r[n + i]
    OBVIOUS
  <2>3. PICK m \in 1..(Len(r) - n) : z = r[n + m]
    BY <1>2, <2>1, <2>2
  <2>4. m \in 1..k
    BY <1>6
  <2>. QED
    BY <2>3, <2>4
<1>. QED
  BY <1>5, <1>6

\* Chunks V that a sorted sequence goes on from: with a beginning of it they have
\* no gap either.
Onward(V, r, p) ==
  /\ r \in Seq(Nat) /\ p \in Nat /\ Sorted(r) /\ \A i \in 1..Len(r) : r[i] <= p
  /\ V \in SUBSET Nat /\ \A c \in V : c <= p /\ \A i \in 1..Len(r) : c < r[i]
  /\ Reaches(V \cup {r[i] : i \in 1..Len(r)}, p)

LEMMA BeginningOfSorted ==
  ASSUME NEW V, NEW r, NEW p, Onward(V, r, p), NEW k \in 0..Len(r)
  PROVE  NoGap(V \cup {r[i] : i \in 1..k})
<1>0. /\ r \in Seq(Nat) /\ p \in Nat /\ Sorted(r) /\ \A i \in 1..Len(r) : r[i] <= p
      /\ V \in SUBSET Nat /\ \A c \in V : c <= p /\ \A i \in 1..Len(r) : c < r[i]
      /\ Reaches(V \cup {r[i] : i \in 1..Len(r)}, p)
  BY DEF Onward
<1>1. Len(r) \in Nat /\ 1..k \subseteq 1..Len(r) /\ \A i \in 1..Len(r) : r[i] \in Nat
  BY <1>0
<1>. DEFINE S == V \cup {r[i] : i \in 1..k}
<1>2. SUFFICES ASSUME NEW c \in S, NEW d \in S, NEW z \in Nat, c <= z, z <= d
               PROVE  z \in S
  BY DEF NoGap
<1>3. c \in V \cup {r[i] : i \in 1..Len(r)} /\ d \in Nat /\ d <= p
  <2>1. \A i \in 1..k : i \in 1..Len(r) /\ r[i] \in Nat /\ r[i] <= p
    BY <1>0, <1>1
  <2>. QED
    BY <1>0, <2>1
<1>4. z <= p /\ z <= d /\ d \in Nat
  <2>1. p \in Nat
    BY <1>0
  <2>. QED
    BY <1>2, <1>3, <2>1
<1>5. z \in V \/ \E j \in 1..Len(r) : z = r[j]
  <2>1. \A x \in V \cup {r[i] : i \in 1..Len(r)}, y \in Nat :
          x <= y /\ y <= p => y \in V \cup {r[i] : i \in 1..Len(r)}
    BY <1>0 DEF Reaches
  <2>2. z \in V \cup {r[i] : i \in 1..Len(r)}
    BY <1>2, <1>3, <1>4, <2>1
  <2>. QED
    BY <2>2
<1>6. ASSUME NEW j \in 1..Len(r), z = r[j]
      PROVE  z \in S
  <2>1. d \notin V
    <3>1. d \in V => d < z
      BY <1>0, <1>6
    <3>. QED
      BY <1>4, <3>1
  <2>2. PICK m \in 1..k : d = r[m]
    BY <2>1
  <2>3. m \in 1..Len(r) /\ r[m] \in Nat /\ r[j] \in Nat
    BY <1>1
  <2>4. m < j => r[m] < r[j]
    BY <1>0, <2>3 DEF Sorted
  <2>5. ~(r[m] < r[j])
    <3>1. r[j] <= r[m]
      BY <1>4, <1>6, <2>2
    <3>. QED
      BY <2>3, <3>1, NotLess
  <2>6. ~(m < j)
    BY <2>4, <2>5
  <2>7. j \in 1..k
    <3>1. Len(r) \in Nat
      BY <1>1
    <3>. QED
      BY <2>6, <3>1
  <2>. QED
    BY <1>6, <2>7
<1>. QED
  BY <1>5, <1>6

\* Chunks without a gap up to p, and the next one.
LEMMA GoesOn ==
  ASSUME NEW S \in SUBSET Nat, NEW p \in Nat, Reaches(S, p), \A c \in S : c <= p
  PROVE  NoGap(S) /\ NoGap(S \cup {p + 1}) /\ Reaches(S \cup {p + 1}, p + 1)
  BY DEF Reaches, NoGap

-----------------------------------------------------------------------------
(* What a step leaves alone.                                               *)

\* Nothing of this browser changes.
Still(b) ==
  /\ socket'[b] = socket[b] /\ wire'[b] = wire[b] /\ bound'[b] = bound[b] /\ highest'[b] = highest[b]
  /\ cursor'[b] = cursor[b] /\ view'[b] = view[b] /\ conn'[b] = conn[b] /\ taken'[b] = taken[b]
  /\ stale'[b] = stale[b]

LEMMA Chunks ==
  ASSUME TypeInv, NEW b \in Browser
  PROVE  Shown(b) \subseteq Nat /\ Coming(b) \subseteq Nat
<1>1. view[b] \in Seq(Nat) /\ wire[b] \in Seq(Envelope)
  BY DEF TypeInv
<1>2. \A e \in Envelope : e.chunk \in Nat
  BY DEF Envelope
<1>. QED
  BY <1>1, <1>2 DEF Shown, Coming

LEMMA LinkStill ==
  ASSUME NEW b \in Browser, Link(b), Still(b),
         client' = b /\ ~broken' /\ socket[b] = "open" =>
           client = b /\ ~broken /\ nextOutbound' = nextOutbound /\ generation' = generation
  PROVE  Link(b)'
<1>1. /\ socket'[b] = socket[b] /\ wire'[b] = wire[b] /\ bound'[b] = bound[b] /\ highest'[b] = highest[b]
      /\ cursor'[b] = cursor[b] /\ conn'[b] = conn[b] /\ taken'[b] = taken[b]
  BY DEF Still
<1>2. /\ socket'[b] # "open" => Len(wire'[b]) = 0
      /\ socket'[b] = "attaching" => ~bound'[b] /\ highest'[b] = 1
      /\ bound'[b] => cursor'[b].seq = highest'[b] /\ taken'[b] = conn'[b]
  BY <1>1 DEF Link
<1>3. Len(wire'[b]) > 0 /\ ~bound'[b] => taken'[b] < conn'[b]
  BY <1>1 DEF Link, Pending
<1>4. \A i \in 1..Len(wire'[b]) :
        /\ wire'[b][i].seq = highest'[b] + i
        /\ wire'[b][i].kind = "status" <=> i = 1 /\ ~bound'[b]
        /\ wire'[b][i].kind = "status" <=> wire'[b][i].disposition # "none"
        /\ wire'[b][i].gen = Head(wire'[b]).gen
        /\ bound'[b] => wire'[b][i].gen = cursor'[b].gen
  <2>1. \A i \in 1..Len(wire[b]) :
          /\ wire[b][i].seq = highest[b] + i
          /\ wire[b][i].kind = "status" <=> i = 1 /\ ~bound[b]
          /\ wire[b][i].kind = "status" <=> wire[b][i].disposition # "none"
          /\ wire[b][i].gen = Head(wire[b]).gen
          /\ bound[b] => wire[b][i].gen = cursor[b].gen
    BY DEF Link
  <2>. QED
    BY <1>1, <2>1
<1>5. ASSUME client' = b, socket'[b] = "open", ~broken'
      PROVE  /\ nextOutbound' = highest'[b] + Len(wire'[b]) + 1
             /\ bound'[b] => cursor'[b].gen = generation'
             /\ ~bound'[b] => Len(wire'[b]) > 0
             /\ Len(wire'[b]) > 0 => Head(wire'[b]).gen = generation'
  <2>1. client = b /\ socket[b] = "open" /\ ~broken /\ nextOutbound' = nextOutbound /\ generation' = generation
    BY <1>1, <1>5
  <2>2. /\ nextOutbound = highest[b] + Len(wire[b]) + 1
        /\ bound[b] => cursor[b].gen = generation
        /\ ~bound[b] => Len(wire[b]) > 0
        /\ Len(wire[b]) > 0 => Head(wire[b]).gen = generation
    BY <2>1 DEF Link
  <2>. QED
    BY <1>1, <2>1, <2>2
<1>. QED
  BY <1>2, <1>3, <1>4, <1>5 DEF Link, Pending

\* The replay only gains chunks that are new.
LEMMA OrderStill ==
  ASSUME TypeInv, NEW b \in Browser, Order(b), Still(b), produced' \in Nat, produced <= produced', replay' \in Seq(Nat),
         \A i \in 1..Len(replay') : replay'[i] > produced \/ \E j \in 1..Len(replay) : replay'[i] = replay[j]
  PROVE  Order(b)'
<1>1. Shown(b)' = Shown(b) /\ Coming(b)' = Coming(b)
  BY DEF Still, Shown, Coming
<1>2. Shown(b) \cup Coming(b) \subseteq Nat
  BY Chunks
<1>3. ASSUME NEW c \in Shown(b) \cup Coming(b)
      PROVE  c <= produced' /\ \A i \in 1..Len(replay') : c < replay'[i]
  <2>1. c \in Nat /\ c <= produced /\ produced \in Nat /\ \A i \in 1..Len(replay) : c < replay[i]
    BY <1>2 DEF Order, TypeInv
  <2>2. replay' \in Seq(Nat)
    OBVIOUS
  <2>. QED
    BY <2>1, <2>2
<1>. QED
  BY <1>1, <1>3 DEF Order, Still

\* The Agent's numbers move on, or the browser keeps up with what it produces.
LEMMA FollowsStill ==
  ASSUME TypeInv, NEW b \in Browser, Follows(b), Still(b),
         Latest(b)' => Top' \in Int /\ Latest(b) /\
           \/ Top < Top'
           \/ /\ Top' = Top
              /\ ~truncated' => /\ ~truncated
                                /\ \/ produced' = produced /\ Kept' = Kept
                                   \/ produced' = produced + 1 /\ Kept' = Kept \cup {produced + 1}
  PROVE  Follows(b)'
<1>1. /\ Shown(b)' = Shown(b) /\ Coming(b)' = Coming(b) /\ Resync(b)' = Resync(b) /\ Clean(b)' = Clean(b)
      /\ Newest(b)' = Newest(b) /\ Pending(b)' = Pending(b) /\ Head(wire'[b]) = Head(wire[b]) /\ view'[b] = view[b]
      /\ stale'[b] = stale[b]
  BY DEF Still, Shown, Coming, Resync, Clean, Newest, Pending
<1>2. Visible(b)' = Visible(b)
  BY <1>1 DEF Visible
<1>3. Newest(b) \in Nat /\ Top \in Int /\ produced \in Nat
  <2>1. /\ wire[b] \in Seq(Envelope) /\ highest[b] \in Nat /\ cursor[b].seq \in Nat
        /\ lastDetached \in Nat /\ nextOutbound \in Nat /\ produced \in Nat
    BY DEF TypeInv
  <2>2. Len(wire[b]) \in Nat
    BY <2>1
  <2>3. \A h, l \in Nat : h + l \in Nat /\ h - 1 \in Int /\ h \in Int
    OBVIOUS
  <2>. QED
    BY <2>1, <2>2, <2>3 DEF Newest, Top
<1>4. Latest(b)' => Newest(b) <= Top'
  BY <1>3 DEF Follows
<1>5. ASSUME Latest(b)', Newest(b) = Top', Clean(b), ~truncated'
      PROVE  Reaches(Visible(b) \cup Kept', produced')
  <2>1. Latest(b) /\ Top' = Top /\ ~truncated
    BY <1>3, <1>5 DEF Follows
  <2>2. Reaches(Visible(b) \cup Kept, produced)
    BY <1>5, <2>1 DEF Follows
  <2>3. CASE produced' = produced /\ Kept' = Kept
    BY <2>2, <2>3
  <2>4. CASE produced' = produced + 1 /\ Kept' = Kept \cup {produced + 1}
    BY <1>3, <2>2, <2>4 DEF Reaches
  <2>. QED
    BY <1>3, <1>5, <2>1, <2>3, <2>4
<1>6. (Pending(b) /\ Head(wire[b]).disposition = "FRESH" => view[b] = <<>>) /\ (~stale[b] => NoGap(Shown(b)))
  BY DEF Follows
<1>7. Clean(b) => NoGap(Visible(b))
  BY DEF Follows
<1>. QED
  BY <1>1, <1>2, <1>4, <1>5, <1>6, <1>7 DEF Follows

-----------------------------------------------------------------------------
(* Types.                                                                  *)

LEMMA Disposition ==
  ASSUME NEW q, NEW created, NEW complete
  PROVE  ResumeDisposition(q, created, complete) \in Dispositions
  BY DEF ResumeDisposition, Dispositions

\* What the buffer holds after append.
LEMMA Buffered ==
  ASSUME TypeInv, NEW n \in 0..Len(replay), NEW c \in Nat, BufferOutput(c, n)
  PROVE  /\ replay' \in Seq(Nat) /\ truncated' \in BOOLEAN
         /\ \E m \in 0..Len(replay) + 1 :
              /\ Len(replay') = Len(replay) + 1 - m
              /\ \A i \in 1..Len(replay') : replay'[i] = IF m + i = Len(replay) + 1 THEN c ELSE replay[m + i]
              /\ ~truncated' => m = 0 /\ ~truncated
<1>. DEFINE kept == Append(PruneExpired(replay, n), c)
<1>1. replay \in Seq(Nat) /\ Len(replay) \in Nat /\ ReplayCapacity \in Nat /\ truncated \in BOOLEAN
  BY CapacityAssumption DEF TypeInv
<1>2. /\ PruneExpired(replay, n) \in Seq(Nat) /\ Len(PruneExpired(replay, n)) = Len(replay) - n
      /\ \A i \in 1..(Len(replay) - n) : PruneExpired(replay, n)[i] = replay[n + i]
  BY <1>1, Suffix DEF PruneExpired
<1>3. /\ kept \in Seq(Nat) /\ Len(kept) = Len(replay) - n + 1
      /\ \A i \in 1..Len(kept) : kept[i] = IF n + i = Len(replay) + 1 THEN c ELSE replay[n + i]
  BY <1>1, <1>2
<1>4. replay' = DropOverflow(kept) /\ truncated' = (truncated \/ n > 0 \/ Len(kept) > ReplayCapacity)
  BY DEF BufferOutput
<1>. HIDE DEF kept
<1>5. \E k \in 0..Len(kept) :
        /\ replay' \in Seq(Nat) /\ Len(replay') = Len(kept) - k
        /\ \A i \in 1..Len(replay') : replay'[i] = kept[k + i]
        /\ k > 0 => truncated'
  <2>1. Len(kept) \in Nat
    BY <1>3
  <2>2. CASE Len(kept) > ReplayCapacity
    <3>. DEFINE k == Len(kept) - ReplayCapacity
    <3>1. k \in 0..Len(kept)
      BY <1>1, <2>1, <2>2
    <3>2. replay' = SubSeq(kept, k + 1, Len(kept)) /\ truncated'
      BY <1>4, <2>2 DEF DropOverflow
    <3>. HIDE DEF k
    <3>a. /\ SubSeq(kept, k + 1, Len(kept)) \in Seq(Nat) /\ Len(SubSeq(kept, k + 1, Len(kept))) = Len(kept) - k
          /\ \A i \in 1..(Len(kept) - k) : SubSeq(kept, k + 1, Len(kept))[i] = kept[k + i]
      <4>1. kept \in Seq(Nat)
        BY <1>3
      <4>. QED
        BY ONLY <3>1, <4>1, Suffix
    <3>3. replay' \in Seq(Nat) /\ Len(replay') = Len(kept) - k
      BY Zenon, <3>2, <3>a
    <3>4. \A i \in 1..Len(replay') : replay'[i] = kept[k + i]
      BY Zenon, <3>2, <3>3, <3>a
    <3>. QED
      BY <3>1, <3>2, <3>3, <3>4
  <2>3. CASE ~(Len(kept) > ReplayCapacity)
    <3>1. replay' = kept
      BY <1>4, <2>3 DEF DropOverflow
    <3>2. 0 \in 0..Len(kept) /\ Len(kept) = Len(kept) - 0 /\ ~(0 > 0)
      BY <2>1
    <3>3. \A i \in 1..Len(kept) : kept[i] = kept[0 + i]
      BY <2>1
    <3>. QED
      BY <1>3, <3>1, <3>2, <3>3
  <2>. QED
    BY <2>2, <2>3
<1>6. PICK k \in 0..Len(kept) :
        /\ replay' \in Seq(Nat) /\ Len(replay') = Len(kept) - k
        /\ \A i \in 1..Len(replay') : replay'[i] = kept[k + i]
        /\ k > 0 => truncated'
  BY <1>5
<1>. DEFINE m == n + k
<1>7. m \in 0..Len(replay) + 1 /\ Len(replay') = Len(replay) + 1 - m /\ (m = 0 => n = 0 /\ k = 0) /\ (m # 0 => n > 0 \/ k > 0)
  BY <1>1, <1>3, <1>6
<1>8. ASSUME NEW i \in 1..Len(replay')
      PROVE  replay'[i] = IF m + i = Len(replay) + 1 THEN c ELSE replay[m + i]
  <2>1. k + i \in 1..Len(kept) /\ n + (k + i) = m + i
    BY <1>1, <1>3, <1>6
  <2>2. replay'[i] = kept[k + i]
    BY <1>6
  <2>. QED
    BY <1>3, <2>1, <2>2
<1>9. ~truncated' => m = 0 /\ ~truncated
  BY <1>4, <1>6, <1>7
<1>. HIDE DEF m
<1>. QED
  BY <1>1, <1>4, <1>6, <1>7, <1>8, <1>9

-----------------------------------------------------------------------------
(* The Agent numbers an envelope for the attached browser.                 *)

Speaks(e) ==
  /\ client # None /\ e \in Envelope /\ Send(e)
  /\ e.seq = nextOutbound /\ e.gen = generation /\ e.kind # "status" /\ e.disposition = "none"
  /\ UNCHANGED <<generation, replay, truncated, checkpoint, lastDetached, socket, bound, highest, cursor, view, auxVars>>
  /\ \/ e.kind # "output" /\ produced' = produced
     \/ e.kind = "output" /\ e.chunk = produced + 1 /\ produced' = produced + 1
  /\ \/ client' = client /\ broken' = broken /\ live' = live
     \/ client' = None /\ broken' = FALSE /\ live' = FALSE

LEMMA SendWire ==
  ASSUME TypeInv, NEW e, Speaks(e)
  PROVE  /\ client \in Browser /\ nextOutbound' = nextOutbound + 1
         /\ wire' \in [Browser -> Seq(Envelope)]
         /\ \A b \in Browser \ {client} : Still(b)
         /\ ~(socket[client] = "open" /\ ~broken) => Still(client)
         /\ socket[client] = "open" /\ ~broken => wire'[client] = Append(wire[client], e)
<1>1. client \in Browser /\ wire \in [Browser -> Seq(Envelope)] /\ e \in Envelope
  BY DEF TypeInv, Speaks
<1>2. nextOutbound' = nextOutbound + 1 /\ Deliver(client, <<e>>)
  BY DEF Speaks, Send
<1>3. UNCHANGED <<socket, bound, highest, cursor, view, conn, taken, stale>>
  BY DEF Speaks, auxVars
<1>4. CASE socket[client] = "open" /\ ~broken
  <2>1. wire' = [wire EXCEPT ![client] = Append(wire[client], e)]
    BY <1>1, <1>2, <1>4, PutOne DEF Deliver
  <2>2. Append(wire[client], e) \in Seq(Envelope)
    BY <1>1, Put
  <2>. QED
    BY <1>1, <1>2, <1>3, <1>4, <2>1, <2>2 DEF Still
<1>5. CASE ~(socket[client] = "open" /\ ~broken)
  <2>1. wire' = wire
    BY <1>2, <1>5 DEF Deliver
  <2>. QED
    BY <1>1, <1>2, <1>3, <1>5, <2>1 DEF Still
<1>. QED
  BY <1>4, <1>5

LEMMA SpeaksLink ==
  ASSUME IInv, NEW e, Speaks(e), NEW b \in Browser
  PROVE  Link(b)'
<1>1. TypeInv /\ Link(b)
  BY DEF IInv
<1>2. CASE Still(b)
  <2>1. ~(client = b /\ socket[b] = "open" /\ ~broken)
    <3>1. SUFFICES ASSUME client = b, socket[b] = "open", ~broken PROVE FALSE
      OBVIOUS
    <3>2. wire'[b] = Append(wire[b], e) /\ wire'[b] = wire[b]
      BY <1>1, <1>2, <3>1, SendWire DEF Still
    <3>3. wire[b] \in Seq(Envelope) /\ e \in Envelope
      BY <1>1 DEF TypeInv, Speaks
    <3>4. Len(wire[b]) \in Nat /\ Len(Append(wire[b], e)) = Len(wire[b]) + 1
      BY <3>3, Put
    <3>. QED
      BY <3>2, <3>4
  <2>2. ~(client' = b /\ ~broken' /\ socket[b] = "open")
    BY <2>1, NoneAssumption DEF Speaks
  <2>. QED
    BY <1>1, <1>2, <2>2, LinkStill
<1>3. CASE ~Still(b)
  <2>1. client = b /\ socket[b] = "open" /\ ~broken /\ wire'[b] = Append(wire[b], e) /\ nextOutbound' = nextOutbound + 1
    BY <1>1, <1>3, SendWire
  <2>2. /\ socket'[b] = socket[b] /\ bound'[b] = bound[b] /\ highest'[b] = highest[b] /\ cursor'[b] = cursor[b]
        /\ conn'[b] = conn[b] /\ taken'[b] = taken[b] /\ generation' = generation
    BY DEF Speaks, auxVars
  <2>3. wire[b] \in Seq(Envelope) /\ e \in Envelope /\ highest[b] \in Nat /\ bound[b] \in BOOLEAN
    BY <1>1 DEF TypeInv, Speaks
  <2>4. /\ Len(wire'[b]) = Len(wire[b]) + 1 /\ Len(wire[b]) \in Nat /\ wire'[b][Len(wire[b]) + 1] = e
        /\ \A i \in 1..Len(wire[b]) : wire'[b][i] = wire[b][i]
        /\ Head(wire'[b]) = IF Len(wire[b]) > 0 THEN Head(wire[b]) ELSE e
    BY <2>1, <2>3, Put
  <2>5. /\ nextOutbound = highest[b] + Len(wire[b]) + 1
        /\ bound[b] => cursor[b].gen = generation
        /\ ~bound[b] => Len(wire[b]) > 0
        /\ Len(wire[b]) > 0 => Head(wire[b]).gen = generation
    BY <1>1, <2>1 DEF Link
  <2>6. Head(wire'[b]).gen = generation /\ (Len(wire[b]) > 0 => Head(wire'[b]) = Head(wire[b]))
    BY <2>3, <2>4, <2>5 DEF Speaks
  <2>7. /\ e.seq = highest[b] + (Len(wire[b]) + 1) /\ e.kind # "status" /\ e.disposition = "none" /\ e.gen = generation
        /\ ~(Len(wire[b]) + 1 = 1 /\ ~bound[b])
    BY <2>3, <2>4, <2>5 DEF Speaks
  <2>8. ASSUME NEW i \in 1..Len(wire'[b])
        PROVE  /\ wire'[b][i].seq = highest[b] + i
               /\ wire'[b][i].kind = "status" <=> i = 1 /\ ~bound[b]
               /\ wire'[b][i].kind = "status" <=> wire'[b][i].disposition # "none"
               /\ wire'[b][i].gen = Head(wire'[b]).gen
               /\ bound[b] => wire'[b][i].gen = cursor[b].gen
    <3>1. CASE i = Len(wire[b]) + 1
      BY <2>4, <2>5, <2>6, <2>7, <3>1
    <3>2. CASE i \in 1..Len(wire[b])
      <4>1. wire'[b][i] = wire[b][i] /\ Len(wire[b]) > 0
        BY <2>4, <3>2
      <4>2. /\ wire[b][i].seq = highest[b] + i
            /\ wire[b][i].kind = "status" <=> i = 1 /\ ~bound[b]
            /\ wire[b][i].kind = "status" <=> wire[b][i].disposition # "none"
            /\ wire[b][i].gen = Head(wire[b]).gen
            /\ bound[b] => wire[b][i].gen = cursor[b].gen
        BY <1>1, <3>2 DEF Link
      <4>3. Head(wire'[b]).gen = Head(wire[b]).gen
        BY <2>6, <4>1
      <4>. QED
        BY Zenon, <4>1, <4>2, <4>3
    <3>. QED
      BY <2>4, <3>1, <3>2
  <2>9. Len(wire'[b]) > 0 /\ nextOutbound' = highest[b] + Len(wire'[b]) + 1
    <3>1. Len(wire'[b]) = Len(wire[b]) + 1 /\ Len(wire[b]) \in Nat
      BY <2>4
    <3>2. nextOutbound' = nextOutbound + 1 /\ nextOutbound = highest[b] + Len(wire[b]) + 1 /\ highest[b] \in Nat
      BY <2>1, <2>3, <2>5
    <3>3. \A h, l \in Nat : l + 1 > 0 /\ (h + l + 1) + 1 = h + (l + 1) + 1
      OBVIOUS
    <3>. QED
      BY <3>1, <3>2, <3>3
  <2>10. /\ bound[b] => cursor[b].seq = highest[b] /\ taken[b] = conn[b]
         /\ ~bound[b] => taken[b] < conn[b]
    BY <1>1, <2>5 DEF Link, Pending
  <2>. QED
    BY <2>1, <2>2, <2>5, <2>6, <2>8, <2>9, <2>10 DEF Link, Pending
<1>. QED
  BY <1>2, <1>3

LEMMA SpeaksOrder ==
  ASSUME IInv, NEW e, Speaks(e), NEW b \in Browser
  PROVE  Order(b)'
<1>1. TypeInv /\ Order(b) /\ Buffer
  BY DEF IInv
<1>2. /\ produced \in Nat /\ produced' \in Nat /\ produced <= produced' /\ replay' = replay /\ replay \in Seq(Nat)
      /\ Len(replay) = 0
  <2>1. produced \in Nat /\ replay \in Seq(Nat)
    BY <1>1 DEF TypeInv
  <2>2. Len(replay) = 0 /\ replay' = replay /\ (produced' = produced \/ produced' = produced + 1)
    BY <1>1 DEF Speaks, Buffer
  <2>. QED
    BY <2>1, <2>2
<1>3. CASE Still(b)
  <2>1. \A i \in 1..Len(replay') : \E j \in 1..Len(replay) : replay'[i] = replay[j]
    BY <1>2
  <2>. QED
    BY <1>1, <1>2, <1>3, <2>1, OrderStill
<1>4. CASE ~Still(b)
  <2>1. wire'[b] = Append(wire[b], e) /\ view'[b] = view[b]
    BY <1>1, <1>4, SendWire DEF Speaks
  <2>2. wire[b] \in Seq(Envelope) /\ e \in Envelope
    BY <1>1 DEF TypeInv, Speaks
  <2>3. /\ Len(wire'[b]) = Len(wire[b]) + 1 /\ Len(wire[b]) \in Nat /\ wire'[b][Len(wire[b]) + 1] = e
        /\ \A i \in 1..Len(wire[b]) : wire'[b][i] = wire[b][i]
    BY <2>1, <2>2, Put
  <2>4. Shown(b)' = Shown(b) /\ Coming(b)' = Coming(b) \cup (IF e.kind = "output" THEN {e.chunk} ELSE {})
    BY <2>1, <2>2, OutputsPut DEF Shown, Coming, Outputs
  <2>5. Shown(b) \subseteq Nat /\ Coming(b) \subseteq Nat
    BY <1>1, Chunks
  <2>6. \A c \in Shown(b) \cup Coming(b) : c \in Nat /\ c <= produced
    BY <1>1, <2>5 DEF Order
  <2>7. e.kind = "output" => e.chunk = produced + 1 /\ produced' = produced + 1
    BY DEF Speaks
  <2>8. ASSUME NEW i \in 1..Len(wire'[b]), NEW j \in 1..Len(wire'[b]),
               wire'[b][i].kind = "output", wire'[b][j].kind = "output", i < j
        PROVE  wire'[b][i].chunk < wire'[b][j].chunk
    <3>1. i \in 1..Len(wire[b]) /\ wire'[b][i] = wire[b][i]
      BY <2>3, <2>8
    <3>2. CASE j \in 1..Len(wire[b])
      BY <1>1, <2>3, <2>8, <3>1, <3>2 DEF Order
    <3>3. CASE j = Len(wire[b]) + 1
      <4>1. wire[b][i].chunk \in Coming(b)
        BY <2>8, <3>1 DEF Coming
      <4>2. wire'[b][i].chunk = wire[b][i].chunk /\ wire[b][i].chunk \in Nat /\ wire[b][i].chunk <= produced
        BY <2>6, <3>1, <4>1
      <4>3. wire'[b][j].chunk = produced + 1
        BY <2>3, <2>7, <2>8, <3>3
      <4>4. produced \in Nat
        BY <1>2
      <4>5. \A c \in Nat : c <= produced => c < produced + 1
        BY <4>4
      <4>. QED
        BY <4>2, <4>3, <4>5
    <3>. QED
      BY <2>3, <3>2, <3>3
  <2>9. \A c \in Shown(b)', d \in Coming(b)' : c < d
    BY <1>1, <1>2, <2>4, <2>6, <2>7 DEF Order
  <2>10. \A c \in Shown(b)' \cup Coming(b)' : c <= produced'
    BY <1>2, <2>4, <2>6, <2>7
  <2>11. Sorted(view[b])
    BY <1>1 DEF Order
  <2>12. \A i \in 1..Len(replay') : FALSE
    BY <1>2
  <2>. QED
    BY <2>1, <2>8, <2>9, <2>10, <2>11, <2>12 DEF Order
<1>. QED
  BY <1>3, <1>4

LEMMA SpeaksFollows ==
  ASSUME IInv, NEW e, Speaks(e), NEW b \in Browser
  PROVE  Follows(b)'
<1>1. TypeInv /\ Follows(b) /\ Buffer /\ Link(b) /\ Order(b)
  BY DEF IInv
<1>2. /\ nextOutbound' = nextOutbound + 1 /\ nextOutbound \in Nat /\ lastDetached \in Nat /\ live /\ Top = nextOutbound - 1
      /\ replay' = replay /\ Len(replay) = 0 /\ ~truncated /\ truncated' = truncated /\ conn[client] = connections
      /\ connections > 0 /\ client \in Browser /\ produced \in Nat
  BY <1>1, SendWire DEF Speaks, TypeInv, Buffer, Top
<1>3. /\ conn' = conn /\ connections' = connections /\ taken' = taken /\ cursor' = cursor /\ highest' = highest
      /\ bound' = bound /\ stale' = stale /\ view' = view
  BY DEF Speaks, auxVars
<1>4. live' => client' = client /\ Top' = Top + 1
  BY <1>2 DEF Speaks, Top
<1>5. CASE Still(b)
  <2>1. Latest(b)' => live' /\ Latest(b)
    BY <1>2, <1>3, <1>5 DEF Latest, Still
  <2>2. live' => Top' \in Int /\ Top < Top'
    BY <1>2, <1>4
  <2>. QED
    BY <1>1, <1>5, <2>1, <2>2, FollowsStill
<1>6. CASE ~Still(b)
  <2>1. client = b /\ socket[b] = "open" /\ ~broken /\ wire'[b] = Append(wire[b], e)
    BY <1>1, <1>6, SendWire
  <2>2. wire[b] \in Seq(Envelope) /\ e \in Envelope /\ highest[b] \in Nat /\ bound[b] \in BOOLEAN
    BY <1>1 DEF TypeInv, Speaks
  <2>3. /\ Len(wire'[b]) = Len(wire[b]) + 1 /\ Len(wire[b]) \in Nat
        /\ Len(wire[b]) > 0 => Head(wire'[b]) = Head(wire[b])
    BY <2>1, <2>2, Put
  <2>4. /\ nextOutbound = highest[b] + Len(wire[b]) + 1
        /\ ~bound[b] => Len(wire[b]) > 0
        /\ bound[b] => cursor[b].seq = highest[b] /\ taken[b] = conn[b]
    BY <1>1, <2>1 DEF Link
  <2>5. Pending(b)' = Pending(b) /\ (Pending(b) => Head(wire'[b]) = Head(wire[b]))
    BY <1>3, <2>2, <2>3, <2>4 DEF Pending
  <2>6. Resync(b)' = Resync(b) /\ Clean(b)' = Clean(b)
    BY <1>3, <2>5 DEF Resync, Clean
  <2>7. Shown(b)' = Shown(b) /\ Coming(b)' = Coming(b) \cup (IF e.kind = "output" THEN {e.chunk} ELSE {})
    BY <1>3, <2>1, <2>2, OutputsPut DEF Shown, Coming, Outputs
  <2>8. Visible(b)' = Visible(b) \cup (IF e.kind = "output" THEN {e.chunk} ELSE {})
    BY <2>6, <2>7 DEF Visible
  <2>9. Latest(b) /\ Newest(b) = Top
    BY <1>2, <2>1, <2>2, <2>3, <2>4 DEF Latest, Newest
  <2>10. Kept = {} /\ Kept' = {}
    BY <1>2 DEF Kept
  <2>11. Clean(b) => Reaches(Visible(b), produced)
    BY <1>1, <1>2, <2>9, <2>10 DEF Follows
  <2>12. Visible(b) \subseteq Nat /\ \A c \in Visible(b) : c <= produced
    BY <1>1, Chunks DEF Visible, Order
  <2>13. Clean(b) => NoGap(Visible(b)') /\ Reaches(Visible(b)', produced')
    <3>1. CASE e.kind = "output"
      <4>1. Visible(b)' = Visible(b) \cup {produced + 1} /\ produced' = produced + 1
        BY <2>8, <3>1 DEF Speaks
      <4>2. produced \in Nat /\ Visible(b) \in SUBSET Nat
        BY <1>2, <2>12
      <4>3. Clean(b) => NoGap(Visible(b) \cup {produced + 1}) /\ Reaches(Visible(b) \cup {produced + 1}, produced + 1)
        BY Zenon, <2>11, <2>12, <4>2, GoesOn
      <4>. QED
        BY Zenon, <4>1, <4>3
    <3>2. CASE e.kind # "output"
      <4>1. Visible(b)' = Visible(b) /\ produced' = produced
        BY <2>8, <3>2 DEF Speaks
      <4>2. produced \in Nat /\ Visible(b) \in SUBSET Nat
        BY <1>2, <2>12
      <4>3. Clean(b) => NoGap(Visible(b))
        BY Zenon, <2>11, <2>12, <4>2, GoesOn
      <4>. QED
        BY Zenon, <2>11, <4>1, <4>3
    <3>. QED
      BY <3>1, <3>2
  <2>14. live' => Newest(b)' <= Top'
    <3>1. \A h, l \in Nat : l + 1 > 0 /\ h + (l + 1) <= ((h + l + 1) - 1) + 1
      OBVIOUS
    <3>2. Newest(b)' = highest[b] + (Len(wire[b]) + 1)
      BY <1>3, <2>3, <3>1, <2>2 DEF Newest
    <3>3. live' => Top' = ((highest[b] + Len(wire[b]) + 1) - 1) + 1
      BY <1>2, <1>4, <2>4
    <3>. QED
      BY <2>2, <2>3, <3>1, <3>2, <3>3
  <2>15. /\ Pending(b) /\ Head(wire[b]).disposition = "FRESH" => Len(view[b]) = 0
         /\ ~stale[b] => NoGap(Shown(b))
    BY <1>1 DEF Follows
  <2>. QED
    BY <1>3, <2>5, <2>6, <2>7, <2>10, <2>13, <2>14, <2>15 DEF Follows, Latest
<1>. QED
  BY <1>5, <1>6

LEMMA SpeaksInv ==
  ASSUME IInv, NEW e, Speaks(e)
  PROVE  IInv'
<1>1. TypeInv /\ Buffer /\ Count
  BY DEF IInv
<1>2. UNCHANGED <<replay, truncated, conn, taken, cursor, view, connections>> /\ (live' => live)
      /\ Len(replay) = 0 /\ (client' # None => client' = client /\ live') /\ ~truncated
  BY <1>1 DEF Speaks, Buffer, auxVars
<1>3. TypeInv'
  <2>1. wire' \in [Browser -> Seq(Envelope)] /\ nextOutbound' = nextOutbound + 1
    BY <1>1, SendWire
  <2>5. nextOutbound' \in Nat \ {0}
    BY <1>1, <2>1 DEF TypeInv
  <2>2. produced' \in Nat
    BY <1>1 DEF Speaks, TypeInv
  <2>3. client' \in Browser \cup {None} /\ broken' \in BOOLEAN /\ live' \in BOOLEAN
    BY <1>1 DEF Speaks, TypeInv
  <2>4. UNCHANGED <<generation, replay, truncated, checkpoint, lastDetached, socket, bound, highest, cursor, view,
                    connections, conn, taken, stale>>
    BY DEF Speaks, auxVars
  <2>. QED
    BY <1>1, <2>1, <2>2, <2>3, <2>4, <2>5 DEF TypeInv
<1>4. Buffer'
  <2>1. \A i \in 1..Len(replay) : FALSE
    BY <1>2
  <2>2. Kept' = {}
    BY <1>2, <2>1 DEF Kept
  <2>3. client' # None => conn'[client'] = connections'
    BY <1>1, <1>2 DEF Buffer, Speaks
  <2>. QED
    BY <1>1, <1>2, <2>1, <2>2, <2>3 DEF Buffer, Sorted, Reaches
<1>5. Count'
  BY <1>1, <1>2 DEF Count
<1>. QED
  BY <1>3, <1>4, <1>5, SpeaksLink, SpeaksOrder, SpeaksFollows DEF IInv

-----------------------------------------------------------------------------
(* The session, while nothing reaches a browser.                           *)

LEMMA QuietInv ==
  ASSUME IInv, TypeInv', Buffer', UNCHANGED <<browserVars, auxVars>>,
         client' # None /\ ~broken' => client' = client /\ ~broken /\ UNCHANGED <<nextOutbound, generation>>,
         produced <= produced',
         \A i \in 1..Len(replay') : replay'[i] > produced \/ \E j \in 1..Len(replay) : replay'[i] = replay[j],
         live' => /\ live /\ Top' = Top
                  /\ ~truncated' => /\ ~truncated
                                    /\ \/ produced' = produced /\ Kept' = Kept
                                       \/ produced' = produced + 1 /\ Kept' = Kept \cup {produced + 1}
  PROVE  IInv'
<1>1. TypeInv /\ Count /\ \A b \in Browser : Link(b) /\ Order(b) /\ Follows(b)
  BY DEF IInv
<1>2. connections' = connections /\ conn' = conn /\ taken' = taken /\ cursor' = cursor /\ view' = view
  BY DEF browserVars, auxVars
<1>3. \A b \in Browser : Still(b)
  BY DEF Still, browserVars, auxVars
<1>4. Count'
  BY <1>1, <1>2 DEF Count
<1>5. ASSUME NEW b \in Browser
      PROVE  Link(b)'
  <2>1. client' = b /\ ~broken' => client = b /\ ~broken /\ nextOutbound' = nextOutbound /\ generation' = generation
    BY NoneAssumption
  <2>. QED
    BY <1>1, <1>3, <2>1, LinkStill
<1>6. ASSUME NEW b \in Browser
      PROVE  Order(b)'
  <2>1. produced' \in Nat /\ replay' \in Seq(Nat)
    BY DEF TypeInv
  <2>. QED
    BY <1>1, <1>3, <2>1, OrderStill
<1>7. ASSUME NEW b \in Browser
      PROVE  Follows(b)'
  <2>1. Latest(b)' => live' /\ Latest(b)
    BY <1>2, <1>3 DEF Latest, Still
  <2>2. Top \in Int
    BY <1>1 DEF Top, TypeInv
  <2>. QED
    BY <1>1, <1>3, <2>1, <2>2, FollowsStill
<1>. QED
  BY <1>4, <1>5, <1>6, <1>7 DEF IInv

\* Output for which there is no browser.
LEMMA BufferedInv ==
  ASSUME IInv, DeliverOutput, client = None
  PROVE  IInv'
<1>1. TypeInv /\ Buffer
  BY DEF IInv
<1>2. /\ produced' = produced + 1 /\ live /\ client' = client /\ lastDetached' = lastDetached
      /\ UNCHANGED <<generation, live, broken, checkpoint, nextOutbound>>
      /\ UNCHANGED <<browserVars, auxVars>>
  BY DEF DeliverOutput, browserVars
<1>3. produced \in Nat /\ replay \in Seq(Nat) /\ Len(replay) \in Nat /\ produced' \in Nat
  BY <1>1, <1>2 DEF TypeInv
<1>4. PICK n \in 0..Len(replay) : BufferOutput(produced', n)
  BY DEF DeliverOutput
<1>5. replay' \in Seq(Nat) /\ truncated' \in BOOLEAN
  BY <1>1, <1>3, <1>4, Buffered
<1>6. PICK m \in 0..Len(replay) + 1 :
        /\ Len(replay') = Len(replay) + 1 - m
        /\ \A i \in 1..Len(replay') : replay'[i] = IF m + i = Len(replay) + 1 THEN produced' ELSE replay[m + i]
        /\ ~truncated' => m = 0 /\ ~truncated
  BY <1>1, <1>3, <1>4, Buffered
<1>7. TypeInv'
  BY <1>1, <1>2, <1>3, <1>5 DEF TypeInv, browserVars, auxVars
<1>8. \A i \in 1..Len(replay') :
        \/ m + i = Len(replay) + 1 /\ replay'[i] = produced + 1
        \/ m + i \in 1..Len(replay) /\ replay'[i] = replay[m + i]
  <2>1. Len(replay') = Len(replay) + 1 - m
    BY <1>6
  <2>2. ASSUME NEW i \in 1..Len(replay')
        PROVE  m + i = Len(replay) + 1 \/ m + i \in 1..Len(replay)
    BY <1>3, <2>1
  <2>3. \A i \in 1..Len(replay) : i # Len(replay) + 1
    BY <1>3
  <2>. QED
    BY <1>2, <1>6, <2>2, <2>3
<1>9. \A i \in 1..Len(replay) : replay[i] \in Nat /\ replay[i] <= produced
  <2>1. \A i \in 1..Len(replay) : replay[i] <= produced
    BY <1>1 DEF Buffer
  <2>2. replay \in Seq(Nat)
    BY <1>3
  <2>3. \A i \in 1..Len(replay) : replay[i] \in Nat
    BY <2>2
  <2>. QED
    BY <2>1, <2>3
<1>10. \A i, j \in 1..Len(replay) : i < j => replay[i] < replay[j]
  BY <1>1 DEF Buffer, Sorted
<1>11. Sorted(replay') /\ \A i \in 1..Len(replay') : replay'[i] <= produced'
  <2>1. ASSUME NEW i \in 1..Len(replay'), NEW j \in 1..Len(replay'), i < j
        PROVE  replay'[i] < replay'[j]
    <3>0. Len(replay) \in Nat /\ Len(replay') = Len(replay) + 1 - m
      BY <1>3, <1>6
    <3>1. m + i < m + j /\ m + j <= Len(replay) + 1 /\ m + i # Len(replay) + 1
      BY <2>1, <3>0
    <3>2. m + i \in 1..Len(replay) /\ replay'[i] = replay[m + i]
      BY <1>8, <3>1
    <3>3. CASE m + j = Len(replay) + 1 /\ replay'[j] = produced + 1
      <4>1. replay'[i] \in Nat /\ replay'[i] <= produced /\ produced \in Nat
        BY <1>3, <1>9, <3>2
      <4>2. replay'[i] < produced + 1
        BY <4>1
      <4>. QED
        BY <3>3, <4>2
    <3>4. CASE m + j \in 1..Len(replay) /\ replay'[j] = replay[m + j]
      BY <1>10, <3>1, <3>2, <3>4
    <3>. QED
      BY <1>8, <3>3, <3>4
  <2>2. ASSUME NEW i \in 1..Len(replay')
        PROVE  replay'[i] <= produced'
    <3>1. replay'[i] = produced + 1 \/ \E j \in 1..Len(replay) : replay'[i] = replay[j]
      BY <1>8
    <3>2. produced' = produced + 1 /\ produced \in Nat
      BY <1>2, <1>3
    <3>3. \A c \in Nat : c <= produced => c <= produced + 1
      BY <3>2
    <3>4. produced + 1 <= produced + 1
      BY <3>2
    <3>. QED
      BY <1>9, <3>1, <3>2, <3>3, <3>4
  <2>. QED
    BY <2>1, <2>2 DEF Sorted
<1>12. Reaches(Kept', produced')
  <2>1. SUFFICES ASSUME NEW i \in 1..Len(replay'), NEW z \in Nat, replay'[i] <= z, z <= produced + 1
                 PROVE  \E j \in 1..Len(replay') : replay'[j] = z
    BY <1>2 DEF Reaches, Kept
  <2>2. Len(replay') \in 1..Len(replay') /\ replay'[Len(replay')] = produced + 1
    BY <1>2, <1>3, <1>6
  <2>3. CASE z = produced + 1
    BY <2>2, <2>3
  <2>4. CASE z # produced + 1
    <3>1. m + i \in 1..Len(replay) /\ replay'[i] = replay[m + i] /\ z <= produced
      BY <1>3, <1>8, <2>1, <2>4
    <3>2. replay[m + i] \in Kept /\ replay[m + i] <= z
      BY <2>1, <3>1 DEF Kept
    <3>3. z \in Kept
      BY <1>1, <3>1, <3>2 DEF Buffer, Reaches
    <3>4. PICK k \in 1..Len(replay) : z = replay[k]
      BY <3>3 DEF Kept
    <3>5. m + i <= k
      <4>1. k < m + i => z < replay[m + i]
        BY <1>10, <3>1, <3>4
      <4>2. replay[m + i] \in Nat
        BY <1>9, <3>1
      <4>. QED
        BY <3>1, <3>2, <4>1, <4>2
    <3>6. k - m \in 1..Len(replay') /\ m + (k - m) = k /\ k # Len(replay) + 1
      <4>1. Len(replay) \in Nat /\ Len(replay') = Len(replay) + 1 - m
        BY <1>3, <1>6
      <4>. QED
        BY <3>5, <4>1
    <3>7. replay'[k - m] = z
      BY <1>6, <3>4, <3>6
    <3>. QED
      BY <3>6, <3>7
  <2>. QED
    BY <2>3, <2>4
<1>13. Buffer'
  BY <1>1, <1>2, <1>11, <1>12 DEF Buffer, auxVars
<1>14. ~truncated' => ~truncated /\ Kept' = Kept \cup {produced + 1}
  <2>1. SUFFICES ASSUME ~truncated'
                 PROVE  ~truncated /\ Kept' = Kept \cup {produced + 1}
    OBVIOUS
  <2>2. /\ ~truncated /\ m = 0 /\ Len(replay') = Len(replay) + 1 /\ replay'[Len(replay) + 1] = produced + 1
        /\ \A i \in 1..Len(replay) : replay'[i] = replay[i]
    BY <1>2, <1>3, <1>6, <2>1
  <2>3. 1..(Len(replay) + 1) = 1..Len(replay) \cup {Len(replay) + 1}
    BY <1>3
  <2>. QED
    BY <2>2, <2>3 DEF Kept
<1>15. \A i \in 1..Len(replay') : replay'[i] > produced \/ \E j \in 1..Len(replay) : replay'[i] = replay[j]
  BY <1>3, <1>8
<1>16. Top' = Top /\ produced <= produced' /\ client' = None
  BY <1>2, <1>3 DEF Top
<1>. QED
  BY <1>2, <1>7, <1>13, <1>14, <1>15, <1>16, QuietInv

LEMMA SessionInv ==
  ASSUME IInv, DeliverOutput \/ Acknowledge \/ WriteFails \/ Detach \/ ProcessExit
  PROVE  IInv'
<1>1. TypeInv /\ Buffer
  BY DEF IInv
<1>2. nextOutbound \in Nat /\ generation \in Nat /\ produced \in Nat /\ client \in Browser \cup {None}
  BY <1>1 DEF TypeInv
<1>3. CASE DeliverOutput /\ client # None
  <2>1. Output(nextOutbound, generation, produced + 1) \in Envelope
    BY <1>2, Envelopes
  <2>2. Speaks(Output(nextOutbound, generation, produced + 1))
    BY <1>3, <2>1 DEF Speaks, DeliverOutput, Output
  <2>. QED
    BY <2>2, SpeaksInv
<1>4. CASE Acknowledge
  <2>1. Notice(nextOutbound, generation, "acknowledgement") \in Envelope
    BY <1>2, Envelopes
  <2>2. Speaks(Notice(nextOutbound, generation, "acknowledgement"))
    BY <1>4, <2>1 DEF Speaks, Acknowledge, Notice
  <2>. QED
    BY <2>2, SpeaksInv
<1>5. CASE ProcessExit /\ client # None
  <2>1. Notice(nextOutbound, generation, "processExit") \in Envelope
    BY <1>2, Envelopes
  <2>2. Speaks(Notice(nextOutbound, generation, "processExit"))
    BY <1>5, <2>1 DEF Speaks, ProcessExit, Notice
  <2>. QED
    BY <2>2, SpeaksInv
<1>6. CASE WriteFails \/ Detach \/ (ProcessExit /\ client = None)
  <2>1. /\ UNCHANGED <<browserVars, auxVars>> /\ UNCHANGED <<produced, replay, truncated, generation, nextOutbound>>
        /\ live' \in BOOLEAN /\ (live' => live) /\ client' \in {client, None} /\ (client' # None => broken' = TRUE /\ live' = live)
        /\ broken' \in BOOLEAN /\ lastDetached' \in Nat /\ checkpoint' \in BOOLEAN
    <3>1. CASE WriteFails
      BY <1>1, <3>1 DEF WriteFails, TypeInv
    <3>2. CASE Detach
      <4>1. lastDetached' \in Nat
        BY <1>1, <3>2 DEF Detach, TypeInv
      <4>. QED
        BY <1>1, <3>2, <4>1 DEF Detach, TypeInv
    <3>3. CASE ProcessExit /\ client = None
      BY <1>1, <3>3 DEF ProcessExit, TypeInv, browserVars
    <3>. QED
      BY <1>6, <3>1, <3>2, <3>3
  <2>2. TypeInv'
    BY <1>1, <2>1 DEF TypeInv, browserVars, auxVars
  <2>3. Kept' = Kept
    BY <2>1 DEF Kept
  <2>4. Buffer'
    BY <1>1, <2>1, <2>3 DEF Buffer, auxVars
  <2>5. live' => Top' = Top
    BY <1>6 DEF WriteFails, Detach, ProcessExit, Top
  <2>6. \A i \in 1..Len(replay') : \E j \in 1..Len(replay) : replay'[i] = replay[j]
    BY <2>1
  <2>7. produced <= produced'
    BY <1>2, <2>1
  <2>. QED
    BY <2>1, <2>2, <2>3, <2>4, <2>5, <2>6, <2>7, QuietInv
<1>. QED
  BY <1>3, <1>4, <1>5, <1>6, BufferedInv DEF WriteFails

-----------------------------------------------------------------------------
(* The browsers.                                                           *)

\* A browser sees nothing of what another one does.
LEMMA OthersStay ==
  ASSUME IInv, UNCHANGED agentVars, connections' = connections, NEW c \in Browser, Still(c)
  PROVE  Link(c)' /\ Order(c)' /\ Follows(c)'
<1>1. TypeInv /\ Link(c) /\ Order(c) /\ Follows(c)
  BY DEF IInv
<1>2. UNCHANGED <<client, broken, nextOutbound, generation, produced, replay, truncated, live, lastDetached>>
  BY DEF agentVars
<1>3. Link(c)'
  BY <1>1, <1>2, LinkStill
<1>4. Order(c)'
  <2>1. produced \in Nat /\ replay \in Seq(Nat) /\ produced <= produced
    BY <1>1 DEF TypeInv
  <2>2. \A i \in 1..Len(replay') : \E j \in 1..Len(replay) : replay'[i] = replay[j]
    BY <1>2
  <2>. QED
    BY <1>1, <1>2, <2>1, <2>2, OrderStill
<1>5. Follows(c)'
  <2>1. Top' = Top /\ Kept' = Kept /\ (Latest(c)' => Latest(c))
    BY <1>2 DEF Top, Kept, Latest, Still
  <2>2. Top \in Int
    BY <1>1 DEF Top, TypeInv
  <2>. QED
    BY <1>1, <1>2, <2>1, <2>2, FollowsStill
<1>. QED
  BY <1>3, <1>4, <1>5

LEMMA OpenInv ==
  ASSUME IInv, NEW b \in Browser, Open(b)
  PROVE  IInv'
<1>1. TypeInv /\ Buffer /\ Count /\ Link(b) /\ Order(b) /\ Follows(b)
  BY DEF IInv
<1>2. UNCHANGED agentVars /\ UNCHANGED <<wire, cursor, view, connections, conn, taken, stale>>
  BY DEF Open, auxVars
<1>3. /\ socket[b] = "closed" /\ socket' = [socket EXCEPT ![b] = "attaching"]
      /\ bound' = [bound EXCEPT ![b] = FALSE] /\ highest' = [highest EXCEPT ![b] = 1]
  BY DEF Open
<1>4. UNCHANGED <<client, broken, nextOutbound, generation, produced, replay, truncated, live, lastDetached, checkpoint>>
  BY <1>2 DEF agentVars
<1>5. TypeInv'
  BY <1>1, <1>2, <1>3, <1>4 DEF TypeInv
<1>6. Buffer' /\ Count'
  BY <1>1, <1>2, <1>4 DEF Buffer, Count, Kept
<1>7. ASSUME NEW c \in Browser, c # b
      PROVE  Link(c)' /\ Order(c)' /\ Follows(c)'
  <2>1. Still(c)
    BY <1>1, <1>2, <1>3, <1>7 DEF Still, TypeInv
  <2>. QED
    BY <1>2, <2>1, OthersStay
<1>8. socket'[b] = "attaching" /\ ~bound'[b] /\ highest'[b] = 1 /\ wire'[b] = wire[b] /\ Len(wire[b]) = 0
  BY <1>1, <1>2, <1>3 DEF TypeInv, Link
<1>9. ~Pending(b) /\ ~Pending(b)' /\ \A i \in 1..Len(wire[b]) : FALSE
  BY <1>8 DEF Pending
<1>10. Link(b)'
  BY <1>8, <1>9 DEF Link
<1>11. Shown(b)' = Shown(b) /\ Coming(b)' = Coming(b) /\ Kept' = Kept /\ Top' = Top
  BY <1>2, <1>4 DEF Shown, Coming, Kept, Top
<1>12. Order(b)'
  BY <1>1, <1>2, <1>4, <1>11 DEF Order
<1>13. ~Resync(b) /\ ~Resync(b)' /\ Clean(b)' = Clean(b)
  BY <1>1, <1>2, <1>9 DEF Resync, Clean
<1>14. Visible(b)' = Visible(b) /\ Latest(b)' = Latest(b) /\ Newest(b)' = Newest(b)
  <2>1. Visible(b)' = Visible(b)
    BY <1>11, <1>13 DEF Visible
  <2>2. wire'[b] = wire[b] /\ ~(Len(wire[b]) > 0)
    BY <1>8
  <2>3. cursor' = cursor /\ live' = live /\ conn' = conn /\ connections' = connections /\ taken' = taken
    BY <1>2, <1>4
  <2>4. Newest(b)' = Newest(b)
    BY Zenon, <2>2, <2>3 DEF Newest
  <2>5. Latest(b)' = Latest(b)
    BY <2>2, <2>3 DEF Latest
  <2>. QED
    BY <2>1, <2>4, <2>5
<1>15. Follows(b)'
  BY <1>1, <1>2, <1>4, <1>9, <1>11, <1>13, <1>14 DEF Follows
<1>. QED
  BY <1>5, <1>6, <1>7, <1>10, <1>12, <1>15 DEF IInv

\* What was on the wire is lost; the cursor then stays behind.
LEMMA CloseInv ==
  ASSUME IInv, NEW b \in Browser, Close(b)
  PROVE  IInv'
<1>1. TypeInv /\ Buffer /\ Count /\ Link(b) /\ Order(b) /\ Follows(b)
  BY DEF IInv
<1>2. UNCHANGED agentVars /\ UNCHANGED <<bound, highest, cursor, view, connections, conn, taken, stale>>
  BY DEF Close, auxVars
<1>3. socket' = [socket EXCEPT ![b] = "closed"] /\ wire' = [wire EXCEPT ![b] = <<>>]
  BY DEF Close
<1>4. UNCHANGED <<client, broken, nextOutbound, generation, produced, replay, truncated, live, lastDetached, checkpoint>>
  BY <1>2 DEF agentVars
<1>5. TypeInv'
  <2>1. wire' \in [Browser -> Seq(Envelope)] /\ socket' \in [Browser -> {"closed", "attaching", "open"}]
    <3>1. wire \in [Browser -> Seq(Envelope)] /\ socket \in [Browser -> {"closed", "attaching", "open"}]
      BY <1>1 DEF TypeInv
    <3>2. <<>> \in Seq(Envelope)
      OBVIOUS
    <3>3. wire' \in [Browser -> Seq(Envelope)]
      <4>1. wire' = [wire EXCEPT ![b] = <<>>]
        BY <1>3
      <4>. QED
        BY <3>1, <3>2, <4>1
    <3>4. socket' \in [Browser -> {"closed", "attaching", "open"}]
      <4>1. socket' = [socket EXCEPT ![b] = "closed"]
        BY <1>3
      <4>. QED
        BY <3>1, <4>1
    <3>. QED
      BY <3>3, <3>4
  <2>. QED
    BY <1>1, <1>2, <1>4, <2>1 DEF TypeInv
<1>6. Buffer' /\ Count'
  BY <1>1, <1>2, <1>4 DEF Buffer, Count, Kept
<1>7. ASSUME NEW c \in Browser, c # b
      PROVE  Link(c)' /\ Order(c)' /\ Follows(c)'
  <2>1. Still(c)
    BY <1>1, <1>2, <1>3, <1>7 DEF Still, TypeInv
  <2>. QED
    BY <1>2, <2>1, OthersStay
<1>8. socket'[b] = "closed" /\ Len(wire'[b]) = 0 /\ Len(wire[b]) \in Nat
  BY <1>1, <1>3 DEF TypeInv
<1>9. ~Pending(b)' /\ \A i \in 1..Len(wire'[b]) : FALSE
  BY <1>8 DEF Pending
<1>10. Link(b)'
  BY <1>1, <1>2, <1>8, <1>9 DEF Link
<1>11. Shown(b)' = Shown(b) /\ Coming(b)' = {} /\ Kept' = Kept /\ Top' = Top
  BY <1>2, <1>4, <1>9 DEF Shown, Coming, Kept, Top
<1>12. Order(b)'
  BY <1>1, <1>2, <1>4, <1>9, <1>11 DEF Order
<1>13. ~Resync(b)' /\ Clean(b)' = ~stale[b]
  BY <1>1, <1>2, <1>9 DEF Resync, Clean, TypeInv
<1>14. Visible(b)' = Shown(b)
  BY <1>11, <1>13 DEF Visible
<1>15. /\ highest[b] \in Nat /\ cursor[b].seq \in Nat /\ Top \in Int /\ Newest(b)' = cursor[b].seq
       /\ Latest(b)' => Latest(b) /\ taken[b] = conn[b]
  BY <1>1, <1>2, <1>4, <1>8 DEF Newest, Top, Latest, TypeInv
<1>16. Latest(b)' /\ Len(wire[b]) > 0 => Newest(b)' < Newest(b)
  <2>1. taken[b] = conn[b] /\ conn[b] \in Nat /\ Len(wire[b]) > 0 => bound[b]
    <3>1. Len(wire[b]) > 0 /\ ~bound[b] => taken[b] < conn[b]
      BY <1>1 DEF Link, Pending
    <3>2. \A x \in Nat : ~(x < x)
      OBVIOUS
    <3>. QED
      BY <3>1, <3>2
  <2>2. bound[b] => cursor[b].seq = highest[b]
    BY <1>1 DEF Link
  <2>3. conn[b] \in Nat /\ Len(wire[b]) \in Nat
    <3>1. conn[b] \in Nat /\ wire[b] \in Seq(Envelope)
      BY <1>1 DEF TypeInv
    <3>. QED
      BY <3>1
  <2>4. \A h, l \in Nat : l > 0 => h < h + l
    OBVIOUS
  <2>5. Len(wire[b]) > 0 => Newest(b) = highest[b] + Len(wire[b])
    BY DEF Newest
  <2>. QED
    BY <1>15, <2>1, <2>2, <2>3, <2>4, <2>5
<1>17. Len(wire[b]) = 0 => Newest(b)' = Newest(b) /\ Visible(b) = Shown(b) /\ Clean(b) = ~stale[b]
  <2>1. Len(wire[b]) = 0 => ~Pending(b) /\ Coming(b) = {}
    <3>1. ~(0 > 0) /\ \A i \in 1..0 : FALSE
      OBVIOUS
    <3>. QED
      BY <3>1 DEF Pending, Coming
  <2>2. stale[b] \in BOOLEAN
    BY <1>1 DEF TypeInv
  <2>3. ~Pending(b) => ~Resync(b) /\ Clean(b) = ~stale[b]
    BY <2>2 DEF Clean, Resync
  <2>4. Len(wire[b]) = 0 => Newest(b)' = Newest(b)
    BY <1>15 DEF Newest
  <2>. QED
    BY <2>1, <2>3, <2>4 DEF Visible
<1>18. /\ ~stale[b] => NoGap(Shown(b))
       /\ Latest(b) => Newest(b) <= Top
       /\ Latest(b) /\ Newest(b) = Top /\ Clean(b) /\ ~truncated => Reaches(Visible(b) \cup Kept, produced)
  BY <1>1 DEF Follows
<1>19. Newest(b) \in Nat
  BY <1>8, <1>15 DEF Newest
<1>20. /\ Latest(b)' => Newest(b)' <= Top
       /\ Latest(b)' /\ Newest(b)' = Top => Latest(b) /\ Len(wire[b]) = 0
  <2>1. Newest(b)' \in Nat /\ Newest(b) \in Nat /\ Top \in Int
    BY <1>15, <1>19
  <2>2. Latest(b)' => Latest(b) /\ Newest(b) <= Top
    BY <1>15, <1>18
  <2>3. Len(wire[b]) = 0 \/ Len(wire[b]) > 0
    BY <1>8
  <2>4. CASE Len(wire[b]) = 0
    <3>1. Newest(b)' = Newest(b)
      BY <1>17, <2>4
    <3>. QED
      BY <2>2, <2>4, <3>1
  <2>5. CASE Len(wire[b]) > 0
    <3>1. Latest(b)' => Newest(b)' < Newest(b)
      BY <1>16, <2>5
    <3>2. \A x, y \in Nat, t \in Int : x < y /\ y <= t => x <= t /\ x # t
      OBVIOUS
    <3>. QED
      BY <2>1, <2>2, <3>1, <3>2
  <2>. QED
    BY <2>3, <2>4, <2>5
<1>21. Follows(b)'
  BY <1>2, <1>4, <1>9, <1>11, <1>13, <1>14, <1>17, <1>18, <1>20 DEF Follows
<1>. QED
  BY <1>5, <1>6, <1>7, <1>10, <1>12, <1>21 DEF IInv

\* What the handler takes off the wire moves from Coming to Shown; with a
\* SessionStatus, Clean and Visible already said what the terminal becomes.
LEMMA ReceiveInv ==
  ASSUME IInv, NEW b \in Browser, Receive(b)
  PROVE  IInv'
<1>. DEFINE e == Head(wire[b])
<1>1. TypeInv /\ Buffer /\ Count /\ Link(b) /\ Order(b) /\ Follows(b)
  BY DEF IInv
<1>2. UNCHANGED agentVars /\ UNCHANGED <<socket, connections, conn>>
  BY DEF Receive
<1>3. /\ wire[b] # <<>> /\ bound' = [bound EXCEPT ![b] = TRUE] /\ highest' = [highest EXCEPT ![b] = e.seq]
      /\ cursor' = [cursor EXCEPT ![b] = [gen |-> e.gen, seq |-> e.seq]]
      /\ taken' = [taken EXCEPT ![b] = conn[b]] /\ wire' = [wire EXCEPT ![b] = Tail(wire[b])]
  BY DEF Receive
<1>4. /\ view' = [view EXCEPT ![b] = IF e.disposition = "RESYNC_REQUIRED" THEN <<>>
                                      ELSE IF e.kind = "output" THEN Append(view[b], e.chunk) ELSE view[b]]
      /\ stale' = [stale EXCEPT ![b] = \/ stale[b] /\ e.disposition # "RESYNC_REQUIRED"
                                       \/ e.disposition = "RESUMED" /\ conn[b] # taken[b] + 1]
  BY DEF Receive
<1>. HIDE DEF e
<1>5. UNCHANGED <<client, broken, nextOutbound, generation, produced, replay, truncated, live, lastDetached, checkpoint>>
  BY <1>2 DEF agentVars
<1>6. /\ wire[b] \in Seq(Envelope) /\ view[b] \in Seq(Nat) /\ highest[b] \in Nat /\ conn[b] \in Nat /\ taken[b] \in Nat
      /\ stale[b] \in BOOLEAN /\ bound[b] \in BOOLEAN
  BY <1>1 DEF TypeInv
<1>7. /\ e = wire[b][1] /\ e \in Envelope /\ Len(wire[b]) \in Nat /\ Len(wire[b]) > 0
      /\ Tail(wire[b]) \in Seq(Envelope) /\ Len(Tail(wire[b])) = Len(wire[b]) - 1
      /\ \A i \in 1..Len(Tail(wire[b])) : i + 1 \in 1..Len(wire[b]) /\ Tail(wire[b])[i] = wire[b][i + 1]
  BY <1>3, <1>6, Taken DEF e
<1>8. e.seq \in Nat /\ e.gen \in Nat /\ e.chunk \in Nat
  BY <1>7 DEF Envelope
<1>9. /\ bound'[b] = TRUE /\ highest'[b] = e.seq /\ cursor'[b] = [gen |-> e.gen, seq |-> e.seq] /\ taken'[b] = conn[b]
      /\ wire'[b] = Tail(wire[b])
  BY <1>1, <1>3 DEF TypeInv
<1>9a. cursor'[b].gen = e.gen /\ cursor'[b].seq = e.seq
  <2>1. cursor'[b] = [gen |-> e.gen, seq |-> e.seq]
    BY <1>9
  <2>. QED
    BY <2>1
<1>9b. /\ Len(wire'[b]) = Len(wire[b]) - 1
       /\ \A i \in 1..Len(wire'[b]) : i + 1 \in 1..Len(wire[b]) /\ wire'[b][i] = wire[b][i + 1]
  <2>1. wire'[b] = Tail(wire[b])
    BY <1>9
  <2>. QED
    BY <1>7, <2>1
<1>9c. \A i \in 1..Len(wire'[b]) : i \in Nat \ {0} /\ i + 1 # 1 /\ 1 < i + 1
  <2>1. Len(wire[b]) \in Nat /\ Len(wire[b]) > 0
    BY <1>7
  <2>2. Len(wire'[b]) \in Nat
    BY <1>9b, <2>1
  <2>. QED
    BY <2>2
<1>10. /\ view'[b] = IF e.disposition = "RESYNC_REQUIRED" THEN <<>>
                     ELSE IF e.kind = "output" THEN Append(view[b], e.chunk) ELSE view[b]
       /\ stale'[b] = (\/ stale[b] /\ e.disposition # "RESYNC_REQUIRED"
                       \/ e.disposition = "RESUMED" /\ conn[b] # taken[b] + 1)
  BY <1>1, <1>4 DEF TypeInv
<1>11. TypeInv'
  <2>1. view'[b] \in Seq(Nat)
    BY <1>6, <1>8, <1>10
  <2>2. view' \in [Browser -> Seq(Nat)]
    BY <1>1, <1>4, <1>10, <2>1 DEF TypeInv
  <2>3. stale' \in [Browser -> BOOLEAN] /\ bound' \in [Browser -> BOOLEAN]
    BY <1>1, <1>3, <1>4 DEF TypeInv
  <2>4. highest' \in [Browser -> Nat] /\ taken' \in [Browser -> Nat]
    BY <1>1, <1>3, <1>6, <1>8 DEF TypeInv
  <2>5. wire' \in [Browser -> Seq(Envelope)]
    BY <1>1, <1>3, <1>7 DEF TypeInv
  <2>6. cursor' \in [Browser -> [gen : Nat, seq : Nat]]
    BY <1>1, <1>3, <1>8 DEF TypeInv
  <2>. QED
    BY <1>1, <1>2, <1>5, <2>2, <2>3, <2>4, <2>5, <2>6 DEF TypeInv
<1>12. ASSUME NEW c \in Browser, c # b
       PROVE  Still(c)
  BY <1>1, <1>2, <1>3, <1>4, <1>12 DEF Still, TypeInv
<1>13. ASSUME NEW c \in Browser, c # b
       PROVE  Link(c)' /\ Order(c)' /\ Follows(c)'
  BY <1>2, <1>12, <1>13, OthersStay
<1>14. /\ e.seq = highest[b] + 1 /\ (e.kind = "status" <=> ~bound[b])
       /\ (e.kind = "status" <=> e.disposition # "none")
  <2>1. 1 \in 1..Len(wire[b])
    BY <1>7
  <2>. QED
    BY <1>1, <1>7, <2>1 DEF Link
<1>15. Count' /\ Buffer'
  <2>1. cursor'[b] # NoCursor
    BY <1>6, <1>9, <1>14 DEF NoCursor
  <2>2. Kept' = Kept
    BY <1>5 DEF Kept
  <2>3. Buffer'
    BY <1>1, <1>2, <1>5, <2>2 DEF Buffer
  <2>4. \A c \in Browser : conn[c] \in Nat /\ conn[c] <= conn[c]
    BY <1>1 DEF TypeInv
  <2>5. ASSUME NEW c \in Browser
        PROVE  taken'[c] <= conn'[c] /\ (cursor'[c] = NoCursor => Len(view'[c]) = 0)
    <3>1. CASE c = b
      BY <1>2, <1>9, <2>1, <2>4, <3>1
    <3>2. CASE c # b
      BY <1>1, <1>12, <3>2 DEF Still, Count
    <3>. QED
      BY <3>1, <3>2
  <2>. QED
    BY <1>1, <1>2, <2>3, <2>5 DEF Count
<1>16. Link(b)'
  <2>1. socket[b] = "open" /\ socket'[b] = "open"
    <3>1. socket[b] # "open" => Len(wire[b]) = 0
      BY <1>1 DEF Link
    <3>2. ~(0 > 0)
      OBVIOUS
    <3>3. Len(wire[b]) > 0 /\ socket' = socket
      BY <1>2, <1>7
    <3>. QED
      BY <3>1, <3>2, <3>3
  <2>2. ASSUME NEW i \in 1..Len(wire'[b])
        PROVE  /\ wire'[b][i].seq = e.seq + i
               /\ wire'[b][i].kind # "status" /\ wire'[b][i].disposition = "none"
               /\ wire'[b][i].gen = e.gen
    <3>1. i + 1 \in 1..Len(wire[b]) /\ wire'[b][i] = wire[b][i + 1] /\ i \in Nat /\ i + 1 # 1
      BY <1>9b, <1>9c
    <3>2. /\ wire[b][i + 1].seq = highest[b] + (i + 1)
          /\ wire[b][i + 1].kind = "status" <=> i + 1 = 1 /\ ~bound[b]
          /\ wire[b][i + 1].kind = "status" <=> wire[b][i + 1].disposition # "none"
          /\ wire[b][i + 1].gen = e.gen
      BY <1>1, <3>1 DEF Link, e
    <3>3. highest[b] \in Nat /\ e.seq = highest[b] + 1
      BY <1>6, <1>14
    <3>4. \A h, j \in Nat : h + (j + 1) = (h + 1) + j
      OBVIOUS
    <3>5. wire[b][i + 1].seq = e.seq + i
      BY <3>1, <3>2, <3>3, <3>4
    <3>6. wire[b][i + 1].kind # "status" /\ wire[b][i + 1].disposition = "none"
      BY <3>1, <3>2
    <3>. QED
      BY <3>1, <3>2, <3>5, <3>6
  <2>3. Len(wire'[b]) > 0 => Head(wire'[b]).gen = e.gen
    <3>1. Len(wire'[b]) > 0 => Head(wire'[b]) = wire'[b][1] /\ 1 \in 1..Len(wire'[b])
      <4>1. \A q \in Seq(Envelope) : Len(q) > 0 => Head(q) = q[1] /\ 1 \in 1..Len(q)
        OBVIOUS
      <4>2. wire'[b] \in Seq(Envelope)
        BY <1>7, <1>9
      <4>. QED
        BY Zenon, <4>1, <4>2
    <3>. QED
      BY <2>2, <3>1
  <2>4. \A i \in 1..Len(wire'[b]) : Len(wire'[b]) > 0
    BY <1>7, <1>9
  <2>5. client = b /\ ~broken => nextOutbound = e.seq + Len(wire'[b]) + 1 /\ e.gen = generation
    <3>1. client = b /\ ~broken => nextOutbound = highest[b] + Len(wire[b]) + 1 /\ e.gen = generation
      BY <1>1, <1>7, <2>1 DEF Link, e
    <3>2. highest[b] \in Nat /\ Len(wire[b]) \in Nat /\ e.seq = highest[b] + 1 /\ Len(wire'[b]) = Len(wire[b]) - 1
      BY <1>6, <1>7, <1>9b, <1>14
    <3>3. \A h, l \in Nat : h + l + 1 = (h + 1) + (l - 1) + 1
      OBVIOUS
    <3>. QED
      BY <3>1, <3>2, <3>3
  <2>. QED
    <3>1. ASSUME NEW i \in 1..Len(wire'[b])
          PROVE  /\ wire'[b][i].seq = highest'[b] + i
                 /\ wire'[b][i].kind = "status" <=> i = 1 /\ ~bound'[b]
                 /\ wire'[b][i].kind = "status" <=> wire'[b][i].disposition # "none"
                 /\ wire'[b][i].gen = Head(wire'[b]).gen
                 /\ wire'[b][i].gen = cursor'[b].gen
      <4>1. highest'[b] = e.seq /\ bound'[b] /\ cursor'[b].gen = e.gen
        BY <1>9, <1>9a
      <4>2. Head(wire'[b]).gen = e.gen
        BY <2>3, <2>4
      <4>3. /\ wire'[b][i].seq = e.seq + i /\ wire'[b][i].gen = e.gen
            /\ wire'[b][i].kind # "status" /\ wire'[b][i].disposition = "none"
        BY <2>2
      <4>. QED
        BY <4>1, <4>2, <4>3
    <3>2. client' = b /\ ~broken' =>
            /\ nextOutbound' = highest'[b] + Len(wire'[b]) + 1
            /\ cursor'[b].gen = generation'
            /\ Len(wire'[b]) > 0 => Head(wire'[b]).gen = generation'
      BY <1>5, <1>9, <1>9a, <2>3, <2>5
    <3>3. bound'[b] /\ cursor'[b].seq = highest'[b] /\ taken'[b] = conn'[b]
      BY <1>2, <1>9, <1>9a
    <3>. QED
      BY <2>1, <3>1, <3>2, <3>3 DEF Link, Pending
<1>17. Coming(b) = Coming(b)' \cup (IF e.kind = "output" THEN {e.chunk} ELSE {})
  <2>1. Coming(b) = Outputs(wire[b]) /\ Coming(b)' = Outputs(Tail(wire[b]))
    BY <1>9 DEF Coming, Outputs
  <2>. QED
    BY <1>6, <1>7, <2>1, OutputsTail DEF e
<1>18. Shown(b)' = IF e.disposition = "RESYNC_REQUIRED" THEN {}
                   ELSE IF e.kind = "output" THEN Shown(b) \cup {e.chunk} ELSE Shown(b)
  <2>1. CASE e.disposition = "RESYNC_REQUIRED"
    BY <1>10, <2>1 DEF Shown
  <2>2. CASE e.disposition # "RESYNC_REQUIRED" /\ e.kind = "output"
    <3>1. view'[b] = Append(view[b], e.chunk)
      BY <1>10, <2>2
    <3>2. {Append(view[b], e.chunk)[i] : i \in 1..Len(Append(view[b], e.chunk))} = Shown(b) \cup {e.chunk}
      BY <1>6, <1>8, ShownPut DEF Shown
    <3>. QED
      BY <2>2, <3>1, <3>2 DEF Shown
  <2>3. CASE e.disposition # "RESYNC_REQUIRED" /\ e.kind # "output"
    BY <1>10, <2>3 DEF Shown
  <2>. QED
    BY <2>1, <2>2, <2>3
<1>19. Shown(b) \subseteq Nat /\ Coming(b) \subseteq Nat
  BY <1>1, Chunks
<1>20. e.kind = "output" => e.disposition # "RESYNC_REQUIRED" /\ e.chunk \in Coming(b)
  BY <1>14, <1>17
<1>21. ASSUME e.kind = "output"
       PROVE  \A d \in Coming(b)' : e.chunk < d
  <2>1. SUFFICES ASSUME NEW i \in 1..Len(wire'[b]), wire'[b][i].kind = "output"
                 PROVE  e.chunk < wire'[b][i].chunk
    BY DEF Coming
  <2>2. i + 1 \in 1..Len(wire[b]) /\ wire'[b][i] = wire[b][i + 1] /\ 1 < i + 1
    BY <1>9b, <1>9c
  <2>3. 1 \in 1..Len(wire[b]) /\ e = wire[b][1]
    <3>1. Len(wire[b]) \in Nat /\ Len(wire[b]) > 0
      BY <1>7
    <3>. QED
      BY <1>7, <3>1
  <2>4. \A m, j \in 1..Len(wire[b]) :
          wire[b][m].kind = "output" /\ wire[b][j].kind = "output" /\ m < j => wire[b][m].chunk < wire[b][j].chunk
    BY <1>1 DEF Order
  <2>. QED
    BY <1>21, <2>1, <2>2, <2>3, <2>4
<1>22. Sorted(view'[b])
  <2>1. CASE e.kind = "output"
    <3>1. view'[b] = Append(view[b], e.chunk) /\ Sorted(view[b])
      BY <1>1, <1>10, <1>20, <2>1 DEF Order
    <3>2. \A i \in 1..Len(view[b]) : view[b][i] < e.chunk
      BY <1>1, <1>20, <2>1 DEF Order, Shown
    <3>. QED
      BY <1>6, <1>8, <3>1, <3>2, SortedPut
  <2>2. CASE e.kind # "output"
    <3>1. view'[b] = <<>> \/ view'[b] = view[b]
      BY <1>10, <2>2
    <3>2. Sorted(<<>>)
      BY DEF Sorted
    <3>3. Sorted(view[b])
      BY <1>1 DEF Order
    <3>. QED
      BY <3>1, <3>2, <3>3
  <2>. QED
    BY <2>1, <2>2
<1>23. \A c \in Shown(b)', d \in Coming(b)' : c < d
  <2>1. \A c \in Shown(b), d \in Coming(b) : c < d
    BY <1>1 DEF Order
  <2>. QED
    BY <1>17, <1>18, <1>21, <2>1
<1>24. Shown(b)' \cup Coming(b)' \subseteq Shown(b) \cup Coming(b)
  BY <1>17, <1>18
<1>25. Order(b)'
  <2>1. ASSUME NEW i \in 1..Len(wire'[b]), NEW j \in 1..Len(wire'[b]),
               wire'[b][i].kind = "output", wire'[b][j].kind = "output", i < j
        PROVE  wire'[b][i].chunk < wire'[b][j].chunk
    <3>1. /\ i + 1 \in 1..Len(wire[b]) /\ wire'[b][i] = wire[b][i + 1]
          /\ j + 1 \in 1..Len(wire[b]) /\ wire'[b][j] = wire[b][j + 1] /\ i + 1 < j + 1
      <4>1. i \in Nat /\ j \in Nat /\ i < j
        BY <1>9c, <2>1
      <4>2. i + 1 < j + 1
        BY <4>1
      <4>. QED
        BY <1>9b, <4>2
    <3>. QED
      BY <1>1, <2>1, <3>1 DEF Order
  <2>2. \A c \in Shown(b)' \cup Coming(b)' : c <= produced' /\ \A i \in 1..Len(replay') : c < replay'[i]
    BY <1>1, <1>5, <1>24 DEF Order
  <2>. QED
    BY <1>22, <1>23, <2>1, <2>2 DEF Order
<1>26. ~Pending(b)' /\ ~Resync(b)' /\ Clean(b)' = ~stale'[b] /\ (Pending(b) <=> e.kind = "status")
  <2>1. stale'[b] \in BOOLEAN
    BY <1>11 DEF TypeInv
  <2>2. ~Pending(b)' /\ (Pending(b) <=> e.kind = "status")
    BY <1>7, <1>9, <1>14 DEF Pending
  <2>. QED
    BY <2>1, <2>2 DEF Resync, Clean
<1>27. (Resync(b) <=> e.disposition = "RESYNC_REQUIRED") /\ (Clean(b) <=> ~stale'[b])
  BY <1>6, <1>10, <1>14, <1>26 DEF Resync, Clean, e
<1>28. Visible(b)' = Visible(b)
  BY <1>17, <1>18, <1>20, <1>26, <1>27 DEF Visible
<1>29. Newest(b)' = Newest(b)
  <2>1. Len(wire'[b]) = Len(wire[b]) - 1 /\ highest'[b] = highest[b] + 1 /\ cursor'[b].seq = highest[b] + 1
    BY <1>9, <1>9a, <1>9b, <1>14
  <2>2. Newest(b) = highest[b] + Len(wire[b])
    BY <1>7 DEF Newest
  <2>3. Newest(b)' = IF Len(wire'[b]) > 0 THEN highest'[b] + Len(wire'[b]) ELSE cursor'[b].seq
    BY DEF Newest
  <2>4. highest[b] \in Nat /\ Len(wire[b]) \in Nat /\ Len(wire[b]) > 0
    BY <1>6, <1>7
  <2>5. \A h, l \in Nat : l > 0 => h + l = IF l - 1 > 0 THEN (h + 1) + (l - 1) ELSE h + 1
    OBVIOUS
  <2>. QED
    BY <2>1, <2>2, <2>3, <2>4, <2>5
<1>30. Top' = Top /\ Kept' = Kept /\ (Latest(b)' => Latest(b))
  BY <1>2, <1>5, <1>7 DEF Top, Kept, Latest
<1>31. ~stale'[b] => NoGap(Shown(b)')
  <2>1. ~stale'[b] => NoGap(Shown(b)' \cup Coming(b)')
    BY <1>1, <1>26, <1>27, <1>28 DEF Follows, Visible
  <2>2. Shown(b)' \subseteq Nat /\ Coming(b)' \subseteq Nat
    BY <1>19, <1>24
  <2>. QED
    BY <1>23, <2>1, <2>2, FirstPart
<1>32. Follows(b)'
  <2>1. /\ Clean(b) => NoGap(Visible(b))
        /\ Latest(b) => Newest(b) <= Top
        /\ Latest(b) /\ Newest(b) = Top /\ Clean(b) /\ ~truncated => Reaches(Visible(b) \cup Kept, produced)
    BY <1>1 DEF Follows
  <2>. QED
    BY <1>5, <1>26, <1>27, <1>28, <1>29, <1>30, <1>31, <2>1 DEF Follows
<1>. QED
  BY <1>11, <1>13, <1>15, <1>16, <1>25, <1>32 DEF IInv

-----------------------------------------------------------------------------
(* The attachment.                                                         *)

\* The envelopes attachProtocolV1 writes: the status and the buffered chunks that
\* have not expired, as far as the writes succeed.
Attached(b, n, k, d) ==
  LET g == IF live THEN generation ELSE generation + 1
      r == IF live THEN replay ELSE <<>>
  IN  /\ n \in 0..Len(r) /\ k \in 0..(Len(r) - n) + 1
      /\ broken' = (k < Len(r) - n + 1) /\ nextOutbound' = IF k < Len(r) - n + 1 THEN k + 3 ELSE k + 2
      /\ wire' = [wire EXCEPT ![b] = SubSeq(AttachEnvelopes(g, d, SubSeq(r, n + 1, Len(r))), 1, k)]
      /\ generation' = g
      /\ d \in Dispositions
      /\ d = "FRESH" => ~live /\ cursor[b] = NoCursor
      /\ d = "RESUMED" => live /\ ~truncated /\ n = 0 /\ cursor[b].seq = lastDetached

LEMMA AttachStep ==
  ASSUME TypeInv, NEW b \in Browser, Attach(b)
  PROVE  \E n, k, d : Attached(b, n, k, d)
<1>. DEFINE created == ~live
            g == IF created THEN generation + 1 ELSE generation
            entries == IF created THEN <<>> ELSE replay
            disposition(n) == ResumeDisposition(cursor[b], created, created \/ ~(truncated \/ n > 0))
            envelopes(n) == AttachEnvelopes(g, disposition(n), PruneExpired(entries, n))
<1>1. PICK n \in 0..Len(entries) :
        /\ \E k \in 0..Len(envelopes(n)) :
             /\ broken' = (k < Len(envelopes(n)))
             /\ wire' = [wire EXCEPT ![b] = SubSeq(envelopes(n), 1, k)]
             /\ nextOutbound' = IF k < Len(envelopes(n)) THEN k + 3 ELSE k + 2
        /\ generation' = g
  BY DEF Attach
<1>2. PICK k \in 0..Len(envelopes(n)) :
        /\ broken' = (k < Len(envelopes(n)))
        /\ wire' = [wire EXCEPT ![b] = SubSeq(envelopes(n), 1, k)]
        /\ nextOutbound' = IF k < Len(envelopes(n)) THEN k + 3 ELSE k + 2
  BY <1>1
<1>3. entries \in Seq(Nat) /\ g \in Nat /\ Len(entries) \in Nat
  BY DEF TypeInv
<1>4. disposition(n) \in Dispositions
  BY Disposition
<1>5. PruneExpired(entries, n) = SubSeq(entries, n + 1, Len(entries))
  BY DEF PruneExpired
<1>6. PruneExpired(entries, n) \in Seq(Nat) /\ Len(PruneExpired(entries, n)) = Len(entries) - n
  <2>. HIDE DEF entries
  <2>1. entries \in Seq(Nat) /\ n \in 0..Len(entries)
    BY <1>3
  <2>2. SubSeq(entries, n + 1, Len(entries)) \in Seq(Nat) /\ Len(SubSeq(entries, n + 1, Len(entries))) = Len(entries) - n
    BY <2>1, Suffix
  <2>. QED
    BY <1>5, <2>2
<1>7. Len(envelopes(n)) = Len(entries) - n + 1
  <2>. DEFINE d == disposition(n)
              s == PruneExpired(entries, n)
  <2>1. g \in Nat /\ d \in Dispositions /\ s \in Seq(Nat) /\ Len(s) = Len(entries) - n
    BY <1>3, <1>4, <1>6
  <2>2. envelopes(n) = AttachEnvelopes(g, d, s)
    OBVIOUS
  <2>. HIDE DEF d, s, g, entries, disposition, envelopes
  <2>3. Len(AttachEnvelopes(g, d, s)) = Len(s) + 1
    BY <2>1, Attaching
  <2>. QED
    BY <2>1, <2>2, <2>3
<1>8. /\ disposition(n) = "FRESH" => ~live /\ cursor[b] = NoCursor
      /\ disposition(n) = "RESUMED" => live /\ ~truncated /\ n = 0 /\ cursor[b].seq = lastDetached
  <2>1. n \in Nat
    BY <1>3
  <2>. QED
    BY <2>1 DEF ResumeDisposition
<1>9. g = IF live THEN generation ELSE generation + 1
  OBVIOUS
<1>10. entries = IF live THEN replay ELSE <<>>
  OBVIOUS
<1>11. Attached(b, n, k, disposition(n))
  <2>. DEFINE d == disposition(n)
  <2>1. wire' = [wire EXCEPT ![b] = SubSeq(AttachEnvelopes(g, d, SubSeq(entries, n + 1, Len(entries))), 1, k)]
    BY <1>2, <1>5
  <2>2. k \in 0..(Len(entries) - n) + 1 /\ broken' = (k < Len(entries) - n + 1)
        /\ nextOutbound' = IF k < Len(entries) - n + 1 THEN k + 3 ELSE k + 2
    BY <1>2, <1>7
  <2>3. d \in Dispositions /\ (d = "FRESH" => ~live /\ cursor[b] = NoCursor)
        /\ (d = "RESUMED" => live /\ ~truncated /\ n = 0 /\ cursor[b].seq = lastDetached)
    BY <1>4, <1>8
  <2>4. generation' = g /\ n \in 0..Len(entries)
    BY <1>1
  <2>. HIDE DEF d, g, entries, disposition, envelopes
  <2>5. Attached(b, n, k, d)
    BY <1>9, <1>10, <2>1, <2>2, <2>3, <2>4 DEF Attached
  <2>. QED
    BY <2>5 DEF d
<1>. QED
  BY <1>11

LEMMA AttachInv ==
  ASSUME IInv, NEW b \in Browser, Attach(b)
  PROVE  IInv'
<1>1. TypeInv /\ Buffer /\ Count /\ Link(b) /\ Order(b) /\ Follows(b)
  BY DEF IInv
<1>2. /\ socket[b] = "attaching" /\ client = None /\ live' = TRUE /\ client' = b /\ replay' = <<>> /\ truncated' = FALSE
      /\ socket' = [socket EXCEPT ![b] = "open"] /\ connections' = connections + 1
      /\ conn' = [conn EXCEPT ![b] = connections + 1]
      /\ UNCHANGED <<produced, bound, highest, cursor, view, taken, stale>>
      /\ checkpoint' \in BOOLEAN /\ lastDetached' \in Nat
  <2>1. /\ socket[b] = "attaching" /\ client = None /\ live' = TRUE /\ client' = b /\ replay' = <<>> /\ truncated' = FALSE
        /\ socket' = [socket EXCEPT ![b] = "open"] /\ connections' = connections + 1
        /\ conn' = [conn EXCEPT ![b] = connections + 1]
        /\ UNCHANGED <<produced, bound, highest, cursor, view, taken, stale>>
    BY DEF Attach, Drain
  <2>2. checkpoint' = (checkpoint /\ live) /\ (lastDetached' = 0 \/ lastDetached' = lastDetached)
    BY DEF Attach
  <2>3. checkpoint' \in BOOLEAN
    BY <2>2
  <2>4. lastDetached \in Nat
    BY <1>1 DEF TypeInv
  <2>5. lastDetached' \in Nat
    BY <2>2, <2>4
  <2>. QED
    BY <2>1, <2>3, <2>5
<1>2a. produced' = produced /\ bound' = bound /\ highest' = highest /\ cursor' = cursor /\ view' = view
       /\ taken' = taken /\ stale' = stale
  BY <1>2
<1>3. PICK n, k, d : Attached(b, n, k, d)
  BY <1>1, AttachStep
<1>. DEFINE g == IF live THEN generation ELSE generation + 1
            r == IF live THEN replay ELSE <<>>
            left == SubSeq(r, n + 1, Len(r))
            sent == AttachEnvelopes(g, d, left)
<1>4. /\ n \in 0..Len(r) /\ k \in 0..(Len(r) - n) + 1
      /\ broken' = (k < Len(r) - n + 1) /\ nextOutbound' = IF k < Len(r) - n + 1 THEN k + 3 ELSE k + 2
      /\ wire' = [wire EXCEPT ![b] = SubSeq(sent, 1, k)]
      /\ generation' = g
  BY <1>3 DEF Attached
<1>5. /\ d \in Dispositions
      /\ d = "FRESH" => ~live /\ cursor[b] = NoCursor
      /\ d = "RESUMED" => live /\ ~truncated /\ n = 0 /\ cursor[b].seq = lastDetached
  BY <1>3 DEF Attached
<1>6. r \in Seq(Nat) /\ Len(r) \in Nat /\ g \in Nat /\ produced \in Nat /\ connections \in Nat
  BY <1>1 DEF TypeInv
<1>7. /\ Sorted(r) /\ \A i \in 1..Len(r) : r[i] <= produced
      /\ Reaches({r[i] : i \in 1..Len(r)}, produced)
      /\ \A c \in Shown(b), i \in 1..Len(r) : c < r[i]
  <2>1. CASE live
    BY <1>1, <2>1 DEF Buffer, Kept, Order
  <2>2. CASE ~live
    <3>1. \A i \in 1..Len(r) : FALSE
      BY <2>2
    <3>. QED
      BY <3>1 DEF Sorted, Reaches
  <2>. QED
    BY <2>1, <2>2
<1>8. r = IF live THEN replay ELSE <<>>
  OBVIOUS
<1>. HIDE DEF r, g
<1>9. left \in Seq(Nat) /\ Len(left) = Len(r) - n /\ \A i \in 1..(Len(r) - n) : left[i] = r[n + i]
  BY <1>4, <1>6, Suffix
<1>. HIDE DEF left
<1>10. /\ sent \in Seq(Envelope) /\ Len(sent) = Len(r) - n + 1 /\ sent[1] = Status(2, g, d)
       /\ \A i \in 2..(Len(r) - n + 1) : sent[i] = Output(i + 1, g, left[i - 1])
  <2>1. /\ sent \in Seq(Envelope) /\ Len(sent) = Len(left) + 1 /\ sent[1] = Status(2, g, d)
        /\ \A i \in 2..(Len(left) + 1) : sent[i] = Output(i + 1, g, left[i - 1])
    <3>1. g \in Nat /\ d \in Dispositions /\ left \in Seq(Nat)
      BY <1>5, <1>6, <1>9
    <3>. QED
      BY <3>1, Attaching, Zenon
  <2>2. Len(left) + 1 = Len(r) - n + 1
    BY <1>9
  <2>. QED
    BY <2>1, <2>2
<1>11. \A i \in 2..(Len(r) - n + 1) : sent[i] = Output(i + 1, g, r[n + (i - 1)])
  <2>1. \A i \in 2..(Len(r) - n + 1) : i - 1 \in 1..(Len(r) - n)
    BY <1>4, <1>6
  <2>. QED
    BY <1>9, <1>10, <2>1
<1>12. sent[1] = Status(2, g, d) /\ sent \in Seq(Envelope) /\ Len(sent) = Len(r) - n + 1
  BY <1>10
<1>. HIDE DEF sent
<1>13. /\ wire' \in [Browser -> Seq(Envelope)] /\ wire'[b] \in Seq(Envelope) /\ Len(wire'[b]) = k /\ k \in Nat
       /\ \A i \in 1..k : wire'[b][i] = sent[i]
  <2>1. k \in 0..Len(sent) /\ 1 \in 1..Len(sent) + 1 /\ 1 <= k + 1 /\ k - 1 + 1 = k
    BY <1>4, <1>6, <1>12
  <2>2. /\ SubSeq(sent, 1, k) \in Seq(Envelope) /\ Len(SubSeq(sent, 1, k)) = k
        /\ \A i \in 1..k : SubSeq(sent, 1, k)[i] = sent[1 + i - 1]
    BY <1>12, <2>1, Part
  <2>3. wire'[b] = SubSeq(sent, 1, k) /\ wire' \in [Browser -> Seq(Envelope)]
    BY <1>1, <1>4, <2>2 DEF TypeInv
  <2>4. \A i \in 1..k : 1 + i - 1 = i
    BY <2>1
  <2>. QED
    BY <1>4, <1>6, <2>2, <2>3, <2>4
<1>14. TypeInv'
  <2>1. broken' \in BOOLEAN /\ nextOutbound' \in Nat \ {0} /\ generation' \in Nat
    BY <1>4, <1>6, <1>13
  <2>2. socket' \in [Browser -> {"closed", "attaching", "open"}] /\ conn' \in [Browser -> Nat] /\ connections' \in Nat
    BY <1>1, <1>2, <1>6 DEF TypeInv
  <2>3. replay' \in Seq(Nat)
    BY <1>2
  <2>. QED
    BY <1>1, <1>2, <1>13, <2>1, <2>2, <2>3 DEF TypeInv
<1>15. conn'[b] = connections + 1 /\ socket'[b] = "open" /\ \A c \in Browser : c # b => conn'[c] = conn[c]
  BY <1>1, <1>2 DEF TypeInv
<1>16. Count'
  <2>1. \A c \in Browser : taken[c] \in Nat /\ conn[c] \in Nat /\ taken[c] <= conn[c] /\ conn[c] <= connections
    BY <1>1 DEF Count, TypeInv
  <2>2. \A c \in Browser : taken'[c] <= conn'[c] /\ conn'[c] <= connections'
    BY <1>2, <1>6, <1>15, <2>1
  <2>3. \A c \in Browser : c # b => conn'[c] # conn'[b]
    BY <1>6, <1>15, <2>1
  <2>4. \A c, e \in Browser : conn'[c] = conn'[e] /\ conn'[c] > 0 => c = e
    BY <1>1, <1>15, <2>3 DEF Count
  <2>. QED
    BY <1>1, <1>2, <2>2, <2>4 DEF Count
<1>17. taken[b] \in Nat /\ taken[b] <= connections /\ conn[b] \in Nat /\ conn[b] <= connections /\ taken[b] <= conn[b]
  BY <1>1, <1>6 DEF Count, TypeInv
<1>18. Len(replay') = 0 /\ Kept' = {} /\ \A i \in 1..Len(replay') : FALSE
  BY <1>2 DEF Kept
<1>19. Buffer'
  BY <1>2, <1>6, <1>15, <1>18 DEF Buffer, Sorted, Reaches
<1>20. ASSUME NEW c \in Browser, c # b
       PROVE  Link(c)' /\ Order(c)' /\ Follows(c)'
  <2>1. Link(c) /\ Order(c) /\ Follows(c) /\ conn[c] \in Nat /\ conn[c] <= connections
    BY <1>1 DEF IInv, Count, TypeInv
  <2>2. Still(c)
    BY <1>1, <1>2, <1>4, <1>15, <1>20 DEF Still, TypeInv
  <2>3. Link(c)'
    BY <1>2, <1>20, <2>1, <2>2, LinkStill
  <2>4. Order(c)'
    <3>1. produced' \in Nat /\ produced <= produced' /\ replay' \in Seq(Nat)
      BY <1>2, <1>6
    <3>. QED
      BY <1>1, <1>18, <2>1, <2>2, <3>1, OrderStill
  <2>5. ~Latest(c)'
    BY <1>2, <1>6, <1>15, <1>20, <2>1 DEF Latest
  <2>. QED
    BY <1>1, <2>1, <2>2, <2>3, <2>4, <2>5, FollowsStill
<1>21. Len(wire[b]) = 0 /\ ~bound[b] /\ highest[b] = 1
  BY <1>1, <1>2 DEF Link
<1>22. k > 0 => Head(wire'[b]) = Status(2, g, d) /\ Head(wire'[b]).gen = g /\ Head(wire'[b]).disposition = d
  <2>1. k > 0 => 1 \in 1..k /\ Head(wire'[b]) = wire'[b][1]
    BY <1>13
  <2>2. Status(2, g, d).gen = g /\ Status(2, g, d).disposition = d
    BY Fields
  <2>. QED
    BY <1>12, <1>13, <2>1, <2>2
<1>23. ASSUME NEW i \in 1..k
       PROVE  \/ i = 1 /\ wire'[b][i] = Status(2, g, d)
              \/ i \in 2..(Len(r) - n + 1) /\ i # 1 /\ wire'[b][i] = Output(i + 1, g, r[n + (i - 1)])
  <2>1. i = 1 \/ (i \in 2..(Len(r) - n + 1) /\ i # 1)
    BY <1>4, <1>6, <1>13
  <2>. QED
    BY <1>11, <1>12, <1>13, <2>1
<1>23a. ASSUME NEW i \in 1..k, wire'[b][i].kind = "output"
        PROVE  i - 1 \in 1..(k - 1) /\ wire'[b][i].chunk = r[n + (i - 1)]
  <2>1. Status(2, g, d).kind # "output"
    <3>1. Status(2, g, d).kind = "status"
      BY Fields
    <3>. QED
      BY <3>1
  <2>2. i # 1 /\ wire'[b][i] = Output(i + 1, g, r[n + (i - 1)])
    BY <1>23, <1>23a, <2>1
  <2>3. Output(i + 1, g, r[n + (i - 1)]).chunk = r[n + (i - 1)]
    BY Fields
  <2>4. \A l \in Nat : \A j \in 1..l : j # 1 => j - 1 \in 1..(l - 1)
    OBVIOUS
  <2>5. k \in Nat
    BY <1>13
  <2>. QED
    BY <2>2, <2>3, <2>4, <2>5
<1>24. Link(b)'
  <2>1. ASSUME NEW i \in 1..Len(wire'[b])
        PROVE  /\ wire'[b][i].seq = highest'[b] + i
               /\ wire'[b][i].kind = "status" <=> i = 1 /\ ~bound'[b]
               /\ wire'[b][i].kind = "status" <=> wire'[b][i].disposition # "none"
               /\ wire'[b][i].gen = Head(wire'[b]).gen
    <3>1. i \in 1..k /\ i \in Nat /\ k > 0
      BY <1>13
    <3>2. highest'[b] = 1 /\ ~bound'[b] /\ Head(wire'[b]).gen = g
      BY <1>2a, <1>21, <1>22, <3>1
    <3>3. CASE i = 1 /\ wire'[b][i] = Status(2, g, d)
      <4>1. /\ Status(2, g, d).seq = 2 /\ Status(2, g, d).gen = g
            /\ Status(2, g, d).kind = "status" /\ Status(2, g, d).disposition = d
        BY ONLY Fields
      <4>2. d # "none" /\ 1 + 1 = 2
        BY <1>5 DEF Dispositions
      <4>. QED
        BY <3>2, <3>3, <4>1, <4>2
    <3>4. CASE i # 1 /\ wire'[b][i] = Output(i + 1, g, r[n + (i - 1)])
      <4>. DEFINE o == Output(i + 1, g, r[n + (i - 1)])
      <4>1. o.seq = i + 1 /\ o.gen = g /\ o.kind = "output" /\ o.disposition = "none"
        BY Fields
      <4>2. i + 1 = 1 + i
        BY <3>1
      <4>3. "output" # "status"
        OBVIOUS
      <4>. QED
        BY <3>2, <3>4, <4>1, <4>2, <4>3
    <3>. QED
      BY <1>23, <3>1, <3>3, <3>4
  <2>2. ~broken' => nextOutbound' = highest'[b] + Len(wire'[b]) + 1 /\ Len(wire'[b]) > 0 /\ Head(wire'[b]).gen = generation'
    <3>1. ~broken' => k = Len(r) - n + 1 /\ nextOutbound' = k + 2 /\ k > 0
      <4>1. n \in Nat /\ n <= Len(r) /\ k \in Nat /\ k <= Len(r) - n + 1
        BY <1>4, <1>6
      <4>2. broken' = (k < Len(r) - n + 1) /\ nextOutbound' = IF k < Len(r) - n + 1 THEN k + 3 ELSE k + 2
        BY <1>4
      <4>3. ~(k < Len(r) - n + 1) => k = Len(r) - n + 1 /\ k > 0
        BY <1>6, <4>1
      <4>. QED
        BY <4>2, <4>3
    <3>2. generation' = g /\ Len(wire'[b]) = k /\ k \in Nat /\ highest'[b] = 1
      BY <1>2a, <1>4, <1>13, <1>21
    <3>3. \A l \in Nat : l + 2 = 1 + l + 1
      OBVIOUS
    <3>. QED
      BY <1>22, <3>1, <3>2, <3>3
  <2>3. taken'[b] < conn'[b]
    BY <1>2, <1>6, <1>15, <1>17
  <2>. QED
    BY <1>2, <1>15, <1>21, <2>1, <2>2, <2>3 DEF Link, Pending
<1>. DEFINE C == {r[n + i] : i \in 1..(k - 1)}
<1>25. Shown(b)' = Shown(b) /\ Coming(b) = {} /\ Shown(b) \subseteq Nat
  <2>1. Shown(b) \subseteq Nat
    BY <1>1, Chunks
  <2>2. view'[b] = view[b] /\ \A i \in 1..Len(wire[b]) : FALSE
    BY <1>1, <1>2, <1>21
  <2>3. Shown(b)' = Shown(b)
    BY <2>2 DEF Shown
  <2>4. Coming(b) = {}
    BY <2>2 DEF Coming
  <2>. QED
    BY <2>1, <2>3, <2>4
<1>26. Coming(b)' = C
  <2>2. ASSUME NEW j \in 1..(k - 1)
        PROVE  j + 1 \in 1..k /\ wire'[b][j + 1].kind = "output" /\ wire'[b][j + 1].chunk = r[n + j]
    <3>1. j + 1 \in 1..k /\ j + 1 # 1 /\ (j + 1) - 1 = j
      BY <1>13
    <3>2. wire'[b][j + 1] = Output((j + 1) + 1, g, r[n + ((j + 1) - 1)])
      BY <1>23, <3>1
    <3>3. wire'[b][j + 1] = Output((j + 1) + 1, g, r[n + j])
      BY <3>1, <3>2
    <3>4. Output((j + 1) + 1, g, r[n + j]).kind = "output" /\ Output((j + 1) + 1, g, r[n + j]).chunk = r[n + j]
      BY Fields
    <3>. QED
      BY <3>1, <3>3, <3>4
  <2>3. Coming(b)' = {wire'[b][i].chunk : i \in {j \in 1..k : wire'[b][j].kind = "output"}}
    BY <1>13 DEF Coming
  <2>4. Coming(b)' \subseteq C
    BY <1>23a, <2>3
  <2>5. C \subseteq Coming(b)'
    BY <2>2, <2>3
  <2>. QED
    BY <2>4, <2>5
<1>27. \A j \in 1..(k - 1) : n + j \in 1..Len(r)
  BY <1>4, <1>6
<1>28. C \subseteq Nat /\ \A c \in C : c <= produced
  <2>1. \A i \in 1..Len(r) : r[i] \in Nat
    BY <1>6
  <2>2. \A i \in 1..Len(r) : r[i] <= produced
    BY <1>7
  <2>. QED
    BY <1>27, <2>1, <2>2
<1>29. \A c \in Shown(b), e \in C : c < e
  BY <1>7, <1>27
<1>30. Order(b)'
  <2>1. ASSUME NEW i \in 1..Len(wire'[b]), NEW j \in 1..Len(wire'[b]),
               wire'[b][i].kind = "output", wire'[b][j].kind = "output", i < j
        PROVE  wire'[b][i].chunk < wire'[b][j].chunk
    <3>1. i \in 1..k /\ j \in 1..k
      BY <1>13
    <3>3. /\ n + (i - 1) \in 1..Len(r) /\ wire'[b][i].chunk = r[n + (i - 1)]
          /\ n + (j - 1) \in 1..Len(r) /\ wire'[b][j].chunk = r[n + (j - 1)]
      BY <1>23a, <1>27, <2>1, <3>1
    <3>4. n \in Nat
      BY <1>4, <1>6
    <3>5. n + (i - 1) < n + (j - 1)
      <4>1. i \in Nat /\ j \in Nat /\ i < j
        BY <1>13, <2>1, <3>1
      <4>. QED
        BY <3>4, <4>1
    <3>6. \A p, q \in 1..Len(r) : p < q => r[p] < r[q]
      BY <1>7 DEF Sorted
    <3>. QED
      BY <3>3, <3>5, <3>6
  <2>2. Sorted(view'[b]) /\ \A c \in Shown(b) : c <= produced
    BY <1>1, <1>2 DEF Order
  <2>. QED
    BY <1>2, <1>18, <1>25, <1>26, <1>28, <1>29, <2>1, <2>2 DEF Order
<1>31. (Pending(b)' <=> k > 0) /\ ~Pending(b) /\ ~Resync(b) /\ Visible(b) = Shown(b)
  <2>1. ~bound'[b] /\ Len(wire'[b]) = k
    BY <1>2, <1>13, <1>21
  <2>2. ~Pending(b) /\ (Pending(b)' <=> k > 0)
    BY <1>21, <2>1 DEF Pending
  <2>3. ~Resync(b)
    BY <2>2 DEF Resync
  <2>. QED
    BY <1>25, <2>2, <2>3 DEF Visible
<1>32. stale[b] \in BOOLEAN /\ Top = lastDetached /\ Newest(b) = cursor[b].seq
  BY <1>1, <1>2, <1>21 DEF TypeInv, Top, Newest
<1>33. /\ ~stale[b] => NoGap(Shown(b))
       /\ Latest(b) /\ Newest(b) = Top /\ Clean(b) /\ ~truncated => Reaches(Shown(b) \cup Kept, produced)
  BY <1>1, <1>31 DEF Follows
<1>34. k = 0 => C = {}
  BY <1>13
<1>35. Clean(b)' => NoGap(Visible(b)') /\ (k = Len(r) - n + 1 => Reaches(Visible(b)', produced))
  <2>1. n \in Nat /\ n <= Len(r) /\ k \in Nat /\ k <= Len(r) - n + 1
    BY <1>4, <1>6
  <2>2. CASE k = 0
    <3>1. Visible(b)' = Shown(b) /\ (Clean(b)' => ~stale[b]) /\ k # Len(r) - n + 1
      <4>1. ~Pending(b)'
        <5>1. ~(0 > 0)
          OBVIOUS
        <5>. QED
          BY <1>31, <2>2, <5>1
      <4>2. ~Resync(b)' /\ Coming(b)' = {} /\ Shown(b)' = Shown(b)
        BY <1>25, <1>26, <1>34, <2>2, <4>1 DEF Resync
      <4>3. Visible(b)' = Shown(b)
        <5>1. Visible(b)' = Shown(b)' \cup Coming(b)'
          BY <4>2 DEF Visible
        <5>. QED
          BY <4>2, <5>1
      <4>4. Clean(b)' => ~stale[b]
        BY <1>2a, <4>2 DEF Clean
      <4>5. Len(r) \in Nat
        BY <1>6
      <4>6. k # Len(r) - n + 1
        BY <2>1, <2>2, <4>5
      <4>. QED
        BY <4>3, <4>4, <4>6
    <3>. QED
      BY <1>33, <3>1
  <2>3. CASE k > 0 /\ d = "RESYNC_REQUIRED"
    <3>1. Visible(b)' = C
      <4>1. Head(wire'[b]).disposition = d /\ Pending(b)'
        BY <1>22, <1>31, <2>3
      <4>2. Resync(b)'
        BY <2>3, <4>1 DEF Resync
      <4>. QED
        BY <1>26, <4>2 DEF Visible
    <3>2. k - 1 \in 0..(Len(r) - n) /\ (k = Len(r) - n + 1 => k - 1 = Len(r) - n)
      BY <1>6, <2>1, <2>3
    <3>3. NoGap(C) /\ (k - 1 = Len(r) - n => Reaches(C, produced))
      BY <1>4, <1>6, <1>7, <3>2, PartOfSorted
    <3>. QED
      BY <3>1, <3>2, <3>3
  <2>4. CASE k > 0 /\ d = "RESUMED"
    <3>0. Pending(b)' /\ Head(wire'[b]).disposition = "RESUMED" /\ ~Resync(b)'
      <4>1. Pending(b)' /\ Head(wire'[b]).disposition = "RESUMED"
        BY <1>22, <1>31, <2>4
      <4>. QED
        BY <4>1 DEF Resync
    <3>1. Visible(b)' = Shown(b) \cup C
      BY <1>25, <1>26, <3>0 DEF Visible
    <3>2. live /\ ~truncated /\ n = 0 /\ cursor[b].seq = lastDetached /\ r = replay
      BY <1>5, <1>8, <2>4
    <3>3. Clean(b)' => ~stale[b] /\ connections + 1 = taken[b] + 1
      <4>1. Clean(b)' => ~stale'[b] /\ conn'[b] = taken'[b] + 1
        BY <3>0 DEF Clean
      <4>. QED
        BY <1>2a, <1>15, <4>1
    <3>4. Clean(b)' => taken[b] = conn[b] /\ conn[b] = connections
      <4>1. /\ taken[b] \in Nat /\ conn[b] \in Nat /\ connections \in Nat
            /\ taken[b] <= conn[b] /\ conn[b] <= connections
        BY <1>6, <1>17
      <4>2. \A x, y, z \in Nat : x <= y /\ y <= z /\ z + 1 = x + 1 => x = y /\ y = z
        OBVIOUS
      <4>. QED
        BY <3>3, <4>1, <4>2
    <3>5. connections > 0
      BY <1>1, <3>2 DEF Buffer
    <3>6. Clean(b)' => Latest(b) /\ Newest(b) = Top /\ Clean(b)
      BY <1>31, <1>32, <3>2, <3>3, <3>4, <3>5 DEF Latest, Clean
    <3>7. Clean(b)' => Reaches(Shown(b) \cup {r[i] : i \in 1..Len(r)}, produced)
      BY <1>33, <3>2, <3>6 DEF Kept
    <3>8. C = {r[i] : i \in 1..(k - 1)}
      <4>1. \A i \in 1..(k - 1) : n + i = i
        BY <2>1, <3>2
      <4>. QED
        BY <4>1
    <3>9. k - 1 \in 0..Len(r) /\ (k = Len(r) - n + 1 => k - 1 = Len(r))
      BY <1>6, <2>1, <2>4, <3>2
    <3>10. Clean(b)' => NoGap(Shown(b) \cup {r[i] : i \in 1..(k - 1)})
      <4>1. \A c \in Shown(b) : c <= produced /\ \A i \in 1..Len(r) : c < r[i]
        BY <1>1, <1>7 DEF Order
      <4>2. Clean(b)' => Onward(Shown(b), r, produced)
        BY <1>6, <1>7, <1>25, <3>7, <4>1 DEF Onward
      <4>3. k - 1 \in 0..Len(r)
        BY <3>9
      <4>. QED
        BY <4>2, <4>3, BeginningOfSorted
    <3>. HIDE DEF C
    <3>. QED
      BY <3>1, <3>7, <3>8, <3>9, <3>10
  <2>5. CASE k > 0 /\ d = "FRESH"
    <3>1. r = <<>> /\ Len(view[b]) = 0
      BY <1>1, <1>5, <1>8, <2>5 DEF Count
    <3>2. Shown(b) = {} /\ \A i \in 1..(k - 1) : FALSE
      BY <1>27, <3>1 DEF Shown
    <3>3. Visible(b)' = {}
      BY <1>25, <1>26, <3>2 DEF Visible
    <3>. QED
      BY <3>3 DEF NoGap, Reaches
  <2>6. k = 0 \/ k > 0
    BY <2>1
  <2>. QED
    BY <1>5, <2>2, <2>3, <2>4, <2>5, <2>6 DEF Dispositions
<1>36. Latest(b)' => Newest(b)' <= Top' /\ (Newest(b)' = Top' => k = Len(r) - n + 1)
  <2>1. taken'[b] # conn'[b]
    BY <1>2, <1>6, <1>15, <1>17
  <2>2. Latest(b)' => k > 0
    BY <1>13, <2>1 DEF Latest
  <2>3. k > 0 => Newest(b)' = 1 + k
    <3>1. Len(wire'[b]) = k /\ highest'[b] = 1
      BY <1>2a, <1>13, <1>21
    <3>. QED
      BY <3>1 DEF Newest
  <2>4. Top' = nextOutbound' - 1
    BY <1>2, NoneAssumption DEF Top
  <2>5. n \in Nat /\ n <= Len(r) /\ k <= Len(r) - n + 1
        /\ nextOutbound' = IF k < Len(r) - n + 1 THEN k + 3 ELSE k + 2
    BY <1>4, <1>6
  <2>6. nextOutbound' = k + 3 \/ (nextOutbound' = k + 2 /\ k = Len(r) - n + 1)
    <3>1. k \in Nat /\ Len(r) \in Nat
      BY <1>6, <1>13
    <3>2. ~(k < Len(r) - n + 1) => k = Len(r) - n + 1
      BY <2>5, <3>1
    <3>. QED
      BY <2>5, <3>2
  <2>7. k \in Nat
    BY <1>13
  <2>8. \A l \in Nat : 1 + l <= (l + 3) - 1 /\ 1 + l # (l + 3) - 1 /\ 1 + l <= (l + 2) - 1
    OBVIOUS
  <2>. QED
    BY <2>2, <2>3, <2>4, <2>6, <2>7, <2>8
<1>37. Pending(b)' /\ Head(wire'[b]).disposition = "FRESH" => Len(view'[b]) = 0
  <2>1. Pending(b)' /\ Head(wire'[b]).disposition = "FRESH" => cursor[b] = NoCursor
    BY <1>5, <1>22, <1>31
  <2>2. cursor[b] = NoCursor => Len(view[b]) = 0
    BY <1>1 DEF Count
  <2>. QED
    BY <1>2a, <2>1, <2>2
<1>38. Follows(b)'
  <2>1. ~stale'[b] => NoGap(Shown(b)')
    BY <1>2, <1>25, <1>33
  <2>. QED
    BY <1>2, <1>18, <1>35, <1>36, <1>37, <2>1 DEF Follows
<1>. QED
  BY <1>14, <1>16, <1>19, <1>20, <1>24, <1>30, <1>38 DEF IInv

-----------------------------------------------------------------------------
(* Theorems.                                                               *)

LEMMA InitInv == Init => IInv
<1>1. SUFFICES ASSUME Init PROVE IInv
  OBVIOUS
<1>2. TypeInv
  <2>1. NoCursor \in [gen : Nat, seq : Nat] /\ \A S : <<>> \in Seq(S)
    BY DEF NoCursor
  <2>2. /\ wire \in [Browser -> Seq(Envelope)] /\ view \in [Browser -> Seq(Nat)] /\ replay \in Seq(Nat)
        /\ cursor \in [Browser -> [gen : Nat, seq : Nat]]
    BY <1>1, <2>1 DEF Init
  <2>3. /\ highest \in [Browser -> Nat] /\ conn \in [Browser -> Nat] /\ taken \in [Browser -> Nat]
        /\ bound \in [Browser -> BOOLEAN] /\ stale \in [Browser -> BOOLEAN]
        /\ socket \in [Browser -> {"closed", "attaching", "open"}]
    BY <1>1 DEF Init
  <2>4. produced = 0 /\ generation = 0 /\ nextOutbound = 2 /\ lastDetached = 0 /\ connections = 0
    BY <1>1 DEF Init
  <2>5. produced \in Nat /\ generation \in Nat /\ nextOutbound \in Nat \ {0} /\ lastDetached \in Nat /\ connections \in Nat
    BY <2>4
  <2>6. /\ live \in BOOLEAN /\ broken \in BOOLEAN /\ truncated \in BOOLEAN /\ checkpoint \in BOOLEAN
        /\ client \in Browser \cup {None}
    BY <1>1 DEF Init
  <2>. QED
    BY <2>2, <2>3, <2>5, <2>6 DEF TypeInv
<1>3. \A i \in 1..0 : FALSE
  OBVIOUS
<1>4. Len(replay) = 0 /\ Kept = {} /\ client = None /\ ~live
  BY <1>1, <1>3 DEF Init, Kept
<1>5. Buffer
  BY <1>3, <1>4 DEF Buffer, Sorted, Reaches
<1>6. ASSUME NEW b \in Browser
      PROVE  /\ Len(wire[b]) = 0 /\ Len(view[b]) = 0 /\ socket[b] = "closed" /\ ~bound[b] /\ conn[b] = 0 /\ taken[b] = 0
             /\ connections = 0
  BY <1>1 DEF Init
<1>7. Count
  <2>1. ASSUME NEW b \in Browser
        PROVE  taken[b] <= conn[b] /\ conn[b] <= connections /\ ~(conn[b] > 0)
    <3>1. taken[b] = 0 /\ conn[b] = 0 /\ connections = 0
      BY <1>6
    <3>. QED
      BY <3>1
  <2>. QED
    BY <1>6, <2>1 DEF Count
<1>8. ASSUME NEW b \in Browser
      PROVE  Link(b) /\ Order(b) /\ Follows(b)
  <2>1. ~Pending(b) /\ Shown(b) = {} /\ Coming(b) = {} /\ ~Latest(b)
    <3>1. Len(wire[b]) = 0 /\ Len(view[b]) = 0 /\ ~(0 > 0)
      BY <1>6
    <3>2. ~Pending(b) /\ ~Latest(b)
      BY <1>4, <3>1 DEF Pending, Latest
    <3>3. Shown(b) = {}
      BY <1>3, <3>1 DEF Shown
    <3>4. Coming(b) = {}
      BY <1>3, <3>1 DEF Coming
    <3>. QED
      BY <3>2, <3>3, <3>4
  <2>2. Link(b)
    BY <1>3, <1>4, <1>6, <2>1, NoneAssumption DEF Link
  <2>3. Order(b)
    BY <1>3, <1>6, <2>1 DEF Order, Sorted
  <2>4. Visible(b) = {}
    BY <2>1 DEF Visible
  <2>. QED
    BY <2>1, <2>2, <2>3, <2>4 DEF Follows, NoGap
<1>. QED
  BY <1>2, <1>5, <1>7, <1>8 DEF IInv

LEMMA NextInv == IInv /\ [Next]_vars => IInv'
<1>1. SUFFICES ASSUME IInv, [Next]_vars PROVE IInv'
  OBVIOUS
<1>2. CASE DeliverOutput \/ Acknowledge \/ WriteFails \/ Detach \/ ProcessExit
  BY <1>1, <1>2, SessionInv
<1>3. ASSUME NEW b \in Browser, Attach(b) \/ Open(b) \/ Close(b) \/ Receive(b)
      PROVE  IInv'
  BY <1>1, <1>3, AttachInv, OpenInv, CloseInv, ReceiveInv
<1>4. CASE UNCHANGED vars
  <2>1. TypeInv' /\ Buffer' /\ UNCHANGED <<browserVars, auxVars>> /\ UNCHANGED <<client, broken, nextOutbound, generation>>
    <3>1. UNCHANGED agentVars /\ UNCHANGED <<browserVars, auxVars>>
      BY <1>4 DEF vars
    <3>2. TypeInv /\ Buffer
      BY <1>1 DEF IInv
    <3>3. TypeInv'
      BY <3>1, <3>2 DEF TypeInv, agentVars, browserVars, auxVars
    <3>4. Buffer'
      BY <3>1, <3>2 DEF Buffer, Kept, agentVars, browserVars, auxVars
    <3>. QED
      BY <3>1, <3>3, <3>4 DEF agentVars
  <2>2. UNCHANGED <<produced, replay, live, truncated>> /\ Top' = Top /\ Kept' = Kept /\ produced \in Nat
    <3>1. UNCHANGED <<client, lastDetached, nextOutbound, produced, replay, live, truncated>>
      BY <1>4 DEF vars, agentVars
    <3>2. Top' = Top
      BY <3>1 DEF Top
    <3>3. Kept' = Kept
      BY <3>1 DEF Kept
    <3>4. produced \in Nat
      BY <1>1 DEF IInv, TypeInv
    <3>. QED
      BY <3>1, <3>2, <3>3, <3>4
  <2>3. produced <= produced' /\ \A i \in 1..Len(replay') : \E j \in 1..Len(replay) : replay'[i] = replay[j]
    BY <2>2
  <2>. QED
    BY <1>1, <2>1, <2>2, <2>3, QuietInv
<1>. QED
  BY <1>1, <1>2, <1>3, <1>4 DEF Next

\* Whatever the browsers, the connections and the failed writes: the invariant.
THEOREM Invariance == Spec => []IInv
  BY InitInv, NextInv, PTL DEF Spec

\* Both ends of every connection count alike (Acceptable is acceptAgentMessage's
\* check of the sequence and of the session binding).
THEOREM StreamsAgreeHolds == Spec => []StreamsAgree
<1>1. IInv => StreamsAgree
  <2>1. SUFFICES ASSUME IInv, NEW b \in Browser, wire[b] # <<>> PROVE Acceptable(b, Head(wire[b]))
    BY DEF StreamsAgree
  <2>2. TypeInv /\ Link(b)
    BY <2>1 DEF IInv
  <2>3. wire[b] \in Seq(Envelope) /\ bound[b] \in BOOLEAN
    BY <2>2 DEF TypeInv
  <2>4. Head(wire[b]) = wire[b][1] /\ 1 \in 1..Len(wire[b])
    BY <2>1, <2>3
  <2>5. /\ wire[b][1].seq = highest[b] + 1
        /\ wire[b][1].kind = "status" <=> ~bound[b]
        /\ bound[b] => wire[b][1].gen = cursor[b].gen
    BY <2>2, <2>4 DEF Link
  <2>. QED
    BY <2>3, <2>4, <2>5 DEF Acceptable
<1>. QED
  BY <1>1, Invariance, PTL

\* No chunk is shown twice or out of order.
THEOREM NoDuplicateOutputHolds == Spec => []NoDuplicateOutput
<1>1. IInv => NoDuplicateOutput
  <2>1. SUFFICES ASSUME IInv, NEW b \in Browser, NEW i \in 1..Len(view[b]) - 1 PROVE view[b][i] < view[b][i + 1]
    BY DEF NoDuplicateOutput, Increasing
  <2>2. view[b] \in Seq(Nat) /\ Sorted(view[b])
    BY <2>1 DEF IInv, TypeInv, Order
  <2>3. i \in 1..Len(view[b]) /\ i + 1 \in 1..Len(view[b]) /\ i < i + 1
    BY <2>2
  <2>. QED
    BY <2>2, <2>3 DEF Sorted
<1>. QED
  BY <1>1, Invariance, PTL

\* A terminal resumed only from the connection before shows the output without a
\* gap, and what the attached one has and will receive goes on to the last chunk.
THEOREM ResumedWithoutGapHolds == Spec => []ResumedWithoutGap
<1>1. IInv => ResumedWithoutGap
  <2>1. SUFFICES ASSUME IInv, NEW b \in Browser, ~stale[b]
                 PROVE  /\ Contiguous(view[b])
                        /\ client = b /\ ~broken /\ socket[b] = "open" /\ bound[b]
                           => \A c \in Shown(b) \cup Coming(b) : c..produced \subseteq Shown(b) \cup Coming(b)
    BY DEF ResumedWithoutGap
  <2>2. TypeInv /\ Buffer /\ Link(b) /\ Order(b) /\ Follows(b)
    BY <2>1 DEF IInv
  <2>3. view[b] \in Seq(Nat) /\ Sorted(view[b]) /\ NoGap(Shown(b))
    BY <2>1, <2>2 DEF TypeInv, Order, Follows
  <2>4. Contiguous(view[b])
    <3>1. SUFFICES ASSUME NEW i \in 1..Len(view[b]) - 1 PROVE view[b][i + 1] = view[b][i] + 1
      BY DEF Contiguous
    <3>2. /\ i \in 1..Len(view[b]) /\ i + 1 \in 1..Len(view[b]) /\ i < i + 1
          /\ view[b][i] \in Nat /\ view[b][i + 1] \in Nat
      BY <2>3
    <3>3. view[b][i] < view[b][i + 1] /\ view[b][i] \in Shown(b) /\ view[b][i + 1] \in Shown(b)
      BY <2>3, <3>2 DEF Sorted, Shown
    <3>4. view[b][i] + 1 \in Nat /\ view[b][i] <= view[b][i] + 1 /\ view[b][i] + 1 <= view[b][i + 1]
      BY <3>2, <3>3
    <3>5. view[b][i] + 1 \in Shown(b)
      BY <2>3, <3>3, <3>4 DEF NoGap
    <3>6. PICK m \in 1..Len(view[b]) : view[b][m] = view[b][i] + 1
      BY <3>5 DEF Shown
    <3>7. (m < i => view[b][m] < view[b][i]) /\ (i + 1 < m => view[b][i + 1] < view[b][m])
      BY <2>3, <3>2 DEF Sorted
    <3>8. ~(m < i) /\ m # i /\ ~(i + 1 < m)
      BY <3>2, <3>4, <3>6, <3>7
    <3>9. m = i + 1
      BY <3>2, <3>8
    <3>. QED
      BY <3>6, <3>9
  <2>5. ASSUME client = b, ~broken, socket[b] = "open", bound[b]
        PROVE  \A c \in Shown(b) \cup Coming(b) : c..produced \subseteq Shown(b) \cup Coming(b)
    <3>1. ~Pending(b) /\ ~Resync(b) /\ Clean(b) /\ Visible(b) = Shown(b) \cup Coming(b)
      BY <2>1, <2>5 DEF Pending, Resync, Clean, Visible
    <3>2. /\ client # None /\ Len(replay) = 0 /\ ~truncated /\ live /\ conn[b] = connections /\ connections > 0
      BY <2>2, <2>5, NoneAssumption DEF Buffer
    <3>3. Latest(b) /\ Kept = {}
      <4>1. taken[b] = conn[b]
        BY <2>2, <2>5 DEF Link
      <4>2. \A i \in 1..0 : FALSE
        OBVIOUS
      <4>3. Kept = {}
        BY <3>2, <4>2 DEF Kept
      <4>. QED
        BY <3>2, <4>1, <4>3 DEF Latest
    <3>4. nextOutbound = highest[b] + Len(wire[b]) + 1 /\ cursor[b].seq = highest[b]
      BY <2>2, <2>5 DEF Link
    <3>5. highest[b] \in Nat /\ Len(wire[b]) \in Nat /\ produced \in Nat
      BY <2>2 DEF TypeInv
    <3>6. Newest(b) = Top
      <4>1. Top = nextOutbound - 1
        BY <3>2 DEF Top
      <4>2. \A h, l \in Nat : (h + l + 1) - 1 = h + l /\ (~(l > 0) => h + l = h)
        OBVIOUS
      <4>3. Newest(b) = highest[b] + Len(wire[b])
        BY <3>4, <3>5, <4>2 DEF Newest
      <4>. QED
        BY <3>4, <3>5, <4>1, <4>2, <4>3
    <3>7. Reaches(Shown(b) \cup Coming(b), produced)
      BY <2>2, <3>1, <3>2, <3>3, <3>6 DEF Follows
    <3>8. Shown(b) \cup Coming(b) \subseteq Nat
      BY <2>2, Chunks
    <3>9. \A c \in Nat : \A z \in c..produced : z \in Nat /\ c <= z /\ z <= produced
      BY <3>5
    <3>. QED
      BY <3>7, <3>8, <3>9 DEF Reaches
  <2>. QED
    BY <2>4, <2>5
<1>. QED
  BY <1>1, Invariance, PTL
============================================================================

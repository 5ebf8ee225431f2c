---------------------------- MODULE PairingProofs ----------------------------
(***************************************************************************)
(* Proofs about pairing, for any number of phones, invitations, crashes    *)
(* and failed writes.  The flow and its invitation (FlowInv, Answered) do  *)
(* not depend on how the recover commands are run; what the file keeps     *)
(* (FileInv) does: revoke-all beside a serving process undoes it.          *)
(***************************************************************************)
EXTENDS Pairing, TLAPS

\* A leaf is tried with Zenon, then with SMT, for at most so many seconds.
USE ZenonT(5), SMTT(20)

-----------------------------------------------------------------------------
(* The store.                                                              *)

Records(st) == {st.authorized[i] : i \in DOMAIN st.authorized}
Descriptors == {Client[c] : c \in Connections}
Record == [d : Descriptors, version : Nat, state : {"authorized", "revoked"}, epoch : Int]

\* A state of the store, or NoState: one record for a device, each with a version
\* the counter has passed.
Kept(st) ==
  /\ st = [f \in {"authorized", "counter", "epoch"} |-> st[f]]
  /\ st.authorized \in Seq(Record) /\ st.counter \in -1..MaxUint /\ st.epoch \in Int
  /\ \A i, j \in DOMAIN st.authorized : st.authorized[i].d.id = st.authorized[j].d.id => i = j
  /\ \A r \in Records(st) : r.version \in 1..st.counter

\* A state with nobody the user did not allow.
Fit(st, al) == Kept(st) /\ \A r \in Records(st) : r.d \in al

StoreInv ==
  /\ host \in {"none", "agent", "recover"} /\ store = [p \in Processes |-> store[p]]
  /\ Fit(file, allowed) /\ \A p \in Processes : Fit(store[p], allowed)

\* With revoke-all run by itself, one process has the file open.
Alone ==
  /\ \A p \in Processes \ {"recover"} : p # host => store[p] = NoState
  /\ host \notin {"none", "recover"} => store["recover"] = NoState
  /\ host # "none" => store[host] # NoState
  /\ todo # <<>> => host = "none" /\ store["recover"] # NoState

Out(st, id) == \E r \in Records(st) : r.d.id = id /\ r.state = "revoked"

\* A state holds what was granted (g), or something later, and what was reported
\* as revoked (a).
Carries(st, g, a) ==
  /\ \A c \in Connections : g[c] \in Nat /\ (g[c] > 0 =>
        \E r \in Records(st) : r.d.id = Client[c].id /\ r.version >= g[c])
  /\ \A id \in a : Out(st, id)

\* The file f is never behind a copy of it.
Ahead(st, f) == \A r \in Records(st) : \E s \in Records(f) : s.d.id = r.d.id /\ s.version >= r.version

Covered ==
  /\ Carries(file, granted, acked)
  /\ \A p \in Processes : Ahead(store[p], file) /\ (store[p] # NoState => Carries(store[p], granted, acked))

FileInv == Alone /\ Covered

-----------------------------------------------------------------------------
(* The flow.                                                               *)

Shaped(w) == w = [f \in {"inv", "flow", "dec", "spent"} |-> w[f]]

\* An invitation is reserved for the active flow, and not spent while it is active.
Sound(w) ==
  /\ Shaped(w) /\ now \in Int /\ w.inv.exp \in Int
  /\ w.inv = [f \in {"id", "exp", "res"} |-> w.inv[f]]
  /\ w.flow = [f \in {"id", "phase", "exp"} |-> w.flow[f]]
  /\ w.dec = [c \in Connections |-> w.dec[c]] /\ w.spent = [i \in 1..MaxInvitations |-> w.spent[i]]
  /\ w.flow = NoFlow \/ w.flow.id \in Connections
  /\ w.inv.res # "none" => w.flow.id = w.inv.res
  /\ w.inv # NoInvitation => w.inv.id \in 1..Len(expires) /\ w.spent[w.inv.id] = 0
  /\ \A i \in 1..MaxInvitations : w.spent[i] \in {0, 1} /\ (i > Len(expires) => w.spent[i] = 0)

\* The flow ended with an error, its reservation with it, or nothing happened to it.
Ended(w, x) ==
  /\ Sound(x)
  /\ \A c \in Connections :
        /\ x.flow.id = c => w.flow.id = c
        /\ x.dec[c] = w.dec[c] \/ (w.flow.id = c /\ x.flow = NoFlow /\ x.dec[c] = "error")

FlowInv == Sound(World) /\ expires \in Seq(Int) /\ Len(expires) \in 0..MaxInvitations

\* A phone is told what was decided, and what was decided is what was granted: at
\* is where the handler of c is, g the version granted, t and d what was told and
\* decided, id the connection of the active flow.
Fine(c, at, g, t, d, id) ==
  /\ at \in {"none", "open"} => g = 0 /\ t = "none" /\ d = "none"
  /\ t # "none" => at = "closed"
  /\ id = c => at \in {"started", "pending"} /\ g = 0 /\ d = "none"
  /\ d = "approved" \/ t = "approved" => g > 0
  /\ d = "rejected" \/ t = "rejected" => g = 0

Answered ==
  /\ conn = [c \in Connections |-> conn[c]] /\ told = [c \in Connections |-> told[c]]
  /\ granted = [c \in Connections |-> granted[c]]
  /\ \A c \in Connections : /\ conn[c] = [f \in {"at", "inv", "exp"} |-> conn[c][f]]
                            /\ Fine(c, conn[c].at, granted[c], told[c], dec[c], flow.id)

-----------------------------------------------------------------------------
(* Sequences: a member replaced or added.                                  *)

LEMMA Replaced ==
  ASSUME NEW S, NEW q \in Seq(S), NEW e \in S, NEW i \in DOMAIN q
  PROVE  /\ [q EXCEPT ![i] = e] \in Seq(S) /\ DOMAIN [q EXCEPT ![i] = e] = DOMAIN q
         /\ \A j \in DOMAIN q : [q EXCEPT ![i] = e][j] = IF j = i THEN e ELSE q[j]
OBVIOUS

LEMMA Added ==
  ASSUME NEW S, NEW q \in Seq(S), NEW e \in S
  PROVE  /\ Append(q, e) \in Seq(S) /\ DOMAIN Append(q, e) = DOMAIN q \cup {Len(q) + 1}
         /\ Len(q) + 1 \notin DOMAIN q
         /\ Append(q, e)[Len(q) + 1] = e /\ \A i \in DOMAIN q : Append(q, e)[i] = q[i]
OBVIOUS

-----------------------------------------------------------------------------
(* What a change of the store does.                                        *)

\* The index of a device is that of its one record, and 0 without one.
LEMMA Indexed ==
  ASSUME NEW st, Kept(st), NEW id
  PROVE  \/ /\ IndexOf(st, id) = 0 /\ AuthorizedDevice(st, id) = "unknown"
            /\ \A r \in Records(st) : r.d.id # id
         \/ \E r \in Records(st) :
              /\ IndexOf(st, id) \in DOMAIN st.authorized /\ IndexOf(st, id) # 0
              /\ r = st.authorized[IndexOf(st, id)] /\ r.d.id = id /\ AuthorizedDevice(st, id) = r.state
              /\ \A s \in Records(st) : s.d.id = id => s = r
<1>. DEFINE at == {i \in DOMAIN st.authorized : st.authorized[i].d.id = id}
<1>1. st.authorized \in Seq(Record) /\ DOMAIN st.authorized = 1..Len(st.authorized) /\ Len(st.authorized) \in Nat
  BY DEF Kept
<1>2. CASE at = {}
  BY <1>1, <1>2 DEF IndexOf, Records, AuthorizedDevice
<1>3. CASE at # {}
  <2>1. PICK i : i \in at
    BY <1>3
  <2>2. i \in DOMAIN st.authorized /\ i # 0 /\ st.authorized[i].d.id = id
    BY <1>1, <2>1
  <2>3. \A j \in DOMAIN st.authorized : st.authorized[j].d.id = id => j = i
    BY <2>2 DEF Kept
  <2>4. at = {i}
    BY <1>1, <2>1, <2>3
  <2>5. IndexOf(st, id) = CHOOSE k \in at : \A j \in at : k <= j
    BY <1>3 DEF IndexOf
  <2>6. i <= i /\ i \in Nat
    BY <1>1, <2>2
  <2>. HIDE DEF at
  <2>7. (CHOOSE k \in at : \A j \in at : k <= j) = i
    BY <2>4, <2>6
  <2>8. IndexOf(st, id) = i
    BY <2>5, <2>7
  <2>9. AuthorizedDevice(st, id) = st.authorized[i].state
    BY <2>2, <2>8 DEF AuthorizedDevice
  <2>. QED
    BY <2>2, <2>3, <2>8, <2>9 DEF Records
<1>. QED
  BY <1>2, <1>3

\* What AuthorizedDevice says, by the records.
LEMMA RevokedIsOut ==
  ASSUME NEW st, Kept(st), NEW id
  PROVE  Out(st, id) <=> AuthorizedDevice(st, id) = "revoked"
BY Indexed DEF Out

\* Authorize and Revoke write one record, of the device they are about, with the
\* next version.
Rewrites(st, next, rec) ==
  /\ Kept(next) /\ rec \in Record /\ rec.version = st.counter + 1 /\ st.counter \in Int
  /\ rec \in Records(next)
  /\ \A r \in Records(next) : r = rec \/ (r \in Records(st) /\ r.d.id # rec.d.id)
  /\ \A r \in Records(st) : r.d.id # rec.d.id => r \in Records(next)
  /\ \A r \in Records(st) : r.version \in Nat /\ r.version < rec.version

LEMMA WriteRecord ==
  ASSUME NEW st, Kept(st), NEW rec \in Record, NEW next,
         next = [f \in {"authorized", "counter", "epoch"} |-> next[f]],
         next.counter = st.counter + 1, st.counter + 1 \in 1..MaxUint, next.epoch \in Int,
         rec.version = st.counter + 1,
         LET i == IndexOf(st, rec.d.id)
         IN  next.authorized = IF i = 0 THEN Append(st.authorized, rec) ELSE [st.authorized EXCEPT ![i] = rec]
  PROVE  Rewrites(st, next, rec)
<1>. DEFINE i == IndexOf(st, rec.d.id)
            old == st.authorized
            new == next.authorized
<1>1. old \in Seq(Record) /\ st.counter \in Int /\ st.counter \in -1..MaxUint
  BY DEF Kept
<1>2. /\ new \in Seq(Record)
      /\ \E k \in DOMAIN new :
        /\ new[k] = rec /\ (k \in DOMAIN old => old[k].d.id = rec.d.id)
        /\ \A j \in DOMAIN new : j = k \/ (j \in DOMAIN old /\ new[j] = old[j])
        /\ \A j \in DOMAIN old : j \in DOMAIN new /\ (j = k \/ new[j] = old[j])
        /\ \A j \in DOMAIN old : old[j].d.id = rec.d.id => j = k
  <2>1. CASE i = 0
    <3>1. new = Append(old, rec) /\ \A j \in DOMAIN old : old[j].d.id # rec.d.id
      BY <2>1, Indexed DEF Records
    <3>. HIDE DEF old, new
    <3>2. /\ new \in Seq(Record) /\ DOMAIN new = DOMAIN old \cup {Len(old) + 1} /\ new[Len(old) + 1] = rec
          /\ Len(old) + 1 \notin DOMAIN old /\ \A j \in DOMAIN old : new[j] = old[j]
      BY <1>1, <3>1, Added
    <3>. QED
      BY <3>1, <3>2
  <2>2. CASE i # 0
    <3>1. i \in DOMAIN old /\ old[i].d.id = rec.d.id
      BY <2>2, Indexed
    <3>2. (\A j \in DOMAIN old : old[j].d.id = rec.d.id => j = i) /\ new = [old EXCEPT ![i] = rec]
      BY <2>2, <3>1 DEF Kept
    <3>. HIDE DEF old, new, i
    <3>3. new \in Seq(Record) /\ DOMAIN new = DOMAIN old /\ new[i] = rec /\ \A j \in DOMAIN old : j = i \/ new[j] = old[j]
      BY <1>1, <3>1, <3>2, Replaced
    <3>. QED
      BY <3>1, <3>2, <3>3
  <2>. QED
    BY <2>1, <2>2
<1>3. PICK k \in DOMAIN new :
        /\ new[k] = rec /\ (k \in DOMAIN old => old[k].d.id = rec.d.id)
        /\ \A j \in DOMAIN new : j = k \/ (j \in DOMAIN old /\ new[j] = old[j])
        /\ \A j \in DOMAIN old : j \in DOMAIN new /\ (j = k \/ new[j] = old[j])
        /\ \A j \in DOMAIN old : old[j].d.id = rec.d.id => j = k
  BY <1>2
<1>4. rec \in Records(next)
  BY <1>3 DEF Records
<1>5. \A r \in Records(next) : r = rec \/ (r \in Records(st) /\ r.d.id # rec.d.id)
  BY <1>3 DEF Records
<1>6. \A r \in Records(st) : r.d.id # rec.d.id => r \in Records(next)
  BY <1>3 DEF Records
<1>7. \A r \in Records(st) : r.version \in 1..st.counter
  BY DEF Kept
<1>8. \A r \in Records(st) : r.version \in Nat /\ r.version < rec.version /\ r.version \in 1..next.counter
  BY <1>1, <1>7
<1>9. rec.version \in 1..next.counter /\ next.counter \in -1..MaxUint
  BY <1>1
<1>10. \A a, b \in DOMAIN new : new[a].d.id = new[b].d.id => a = b
  <2>1. \A a, b \in DOMAIN old : old[a].d.id = old[b].d.id => a = b
    BY DEF Kept
  <2>. QED
    BY <1>3, <2>1
<1>11. \A r \in Records(next) : r.version \in 1..next.counter
  BY <1>5, <1>8, <1>9
<1>12. Kept(next)
  BY <1>2, <1>9, <1>10, <1>11 DEF Kept
<1>. QED
  BY <1>1, <1>4, <1>5, <1>6, <1>8, <1>12 DEF Rewrites

LEMMA WordGrows ==
  ASSUME NEW n \in -1..MaxUint, Word(n + 1) # 0
  PROVE  Word(n + 1) = n + 1 /\ n + 1 \in 1..MaxUint
<1>1. n \in Int /\ n + 1 \in 0..MaxUint + 1 /\ MaxUint + 1 > 0
  BY CounterAssumption
<1>2. n + 1 # MaxUint + 1
  BY <1>1, CounterAssumption DEF Word
<1>3. n + 1 \in 0..MaxUint
  BY <1>1, <1>2, CounterAssumption
<1>4. (n + 1) % (MaxUint + 1) = n + 1
  BY <1>3, CounterAssumption
<1>. QED
  BY <1>3, <1>4 DEF Word

LEMMA AuthorizeRewrites ==
  ASSUME NEW st, Kept(st), NEW d \in Descriptors, Word(st.counter + 1) # 0
  PROVE  \E rec : /\ Rewrites(st, Authorized(st, d), rec) /\ rec.d = d
                  /\ Authorized(st, d).authorized[IndexOf(Authorized(st, d), d.id)] = rec
<1>. DEFINE i == IndexOf(st, d.id)
            next == Authorized(st, d)
            rec == [d |-> d, version |-> Word(st.counter + 1), state |-> "authorized", epoch |-> 0]
<1>1. /\ st = [f \in {"authorized", "counter", "epoch"} |-> st[f]] /\ st.counter \in -1..MaxUint /\ st.epoch \in Int
      /\ st.authorized \in Seq(Record)
  BY DEF Kept
<1>2. Word(st.counter + 1) = st.counter + 1 /\ st.counter + 1 \in 1..MaxUint
  BY <1>1, WordGrows
<1>3. rec \in Record
  BY <1>2 DEF Record
<1>4. rec.d = d /\ rec.version = st.counter + 1
  BY <1>2
<1>5. next = [f \in {"authorized", "counter", "epoch"} |-> next[f]]
  BY <1>1 DEF Authorized
<1>6. next.counter = st.counter + 1 /\ next.epoch = st.epoch
  BY <1>1, <1>2 DEF Authorized
<1>7. next.authorized = IF i = 0 THEN Append(st.authorized, rec) ELSE [st.authorized EXCEPT ![i] = rec]
  BY <1>1 DEF Authorized
<1>. HIDE DEF next, rec
<1>8. Rewrites(st, next, rec)
  BY <1>1, <1>2, <1>3, <1>4, <1>5, <1>6, <1>7, WriteRecord
<1>9. next.authorized[IndexOf(next, d.id)] = rec
  <2>1. Kept(next) /\ rec \in Records(next) /\ rec.d.id = d.id
    BY <1>4, <1>8 DEF Rewrites
  <2>. QED
    BY <2>1, Indexed
<1>. QED
  BY <1>4, <1>8, <1>9 DEF next

LEMMA RevokeRewrites ==
  ASSUME NEW st, Kept(st), NEW id, CanRevoke(st, id)
  PROVE  \E rec : /\ Rewrites(st, Revoked(st, id), rec) /\ rec.d.id = id /\ rec.state = "revoked"
                  /\ \E r \in Records(st) : rec.d = r.d
<1>. DEFINE i == IndexOf(st, id)
            next == Revoked(st, id)
            A == st.authorized
            most == [st EXCEPT !.counter = @ + 1, !.epoch = @ + 1, !.authorized[i].version = st.counter + 1,
                               !.authorized[i].state = "revoked"]
            B == [[[A EXCEPT ![i].version = st.counter + 1] EXCEPT ![i].state = "revoked"]
                    EXCEPT ![i].epoch = st.epoch + 1]
            rec == [[[A[i] EXCEPT !.version = st.counter + 1] EXCEPT !.state = "revoked"]
                      EXCEPT !.epoch = st.epoch + 1]
<1>1. /\ st = [f \in {"authorized", "counter", "epoch"} |-> st[f]] /\ st.counter \in -1..MaxUint /\ st.epoch \in Int
      /\ A \in Seq(Record) /\ A \in [DOMAIN A -> Record]
  BY DEF Kept
<1>2. i \in DOMAIN A /\ i # 0 /\ A[i] \in Records(st) /\ A[i].d.id = id /\ A[i] \in Record
  BY <1>1, Indexed DEF CanRevoke, AuthorizedDevice
<1>3. st.counter < MaxUint
  BY DEF CanRevoke
<1>4. A[i].version \in 1..st.counter
  BY <1>2 DEF Kept
<1>5. st.counter + 1 \in 1..MaxUint /\ st.counter + 1 \in Nat /\ st.epoch + 1 \in Int
  BY <1>1, <1>3, <1>4, CounterAssumption
<1>. HIDE DEF i
<1>6. next.authorized = B /\ next.counter = st.counter + 1 /\ next.epoch = st.epoch + 1
  <2>1. next.authorized = B
    BY <1>1 DEF Revoked, i
  <2>2. next.counter = st.counter + 1
    BY <1>1 DEF Revoked
  <2>3. next.epoch = st.epoch + 1
    BY <1>1 DEF Revoked
  <2>. QED
    BY <2>1, <2>2, <2>3
<1>7. next = [f \in {"authorized", "counter", "epoch"} |-> next[f]]
  <2>1. next = [most EXCEPT !.authorized[i].epoch = st.epoch + 1]
    BY DEF Revoked, i
  <2>2. DOMAIN next = DOMAIN st
    BY DEF Revoked
  <2>. HIDE DEF next, most
  <2>3. next = [f \in DOMAIN next |-> next[f]]
    BY <2>1
  <2>4. DOMAIN st = {"authorized", "counter", "epoch"}
    BY <1>1
  <2>. QED
    BY <2>2, <2>3, <2>4
<1>8. B = [A EXCEPT ![i] = rec]
  BY <1>1, <1>2
<1>9. rec \in Record /\ rec.d = A[i].d /\ rec.version = st.counter + 1 /\ rec.state = "revoked"
  <2>1. rec \in Record
    BY <1>2, <1>5 DEF Record
  <2>2. rec.d = A[i].d /\ rec.version = st.counter + 1 /\ rec.state = "revoked"
    BY <1>2 DEF Record
  <2>. QED
    BY <2>1, <2>2
<1>10. next.authorized = [A EXCEPT ![i] = rec]
  BY <1>6, <1>8
<1>. HIDE DEF next, rec, B
<1>11. IndexOf(st, rec.d.id) = i
  BY <1>2, <1>9 DEF i
<1>12. Rewrites(st, next, rec)
  BY <1>1, <1>2, <1>5, <1>6, <1>7, <1>9, <1>10, <1>11, WriteRecord
<1>. QED
  BY <1>2, <1>9, <1>12 DEF next

\* What survives a rewrite: a device that was granted a version keeps one at least
\* as new, and another device keeps its record.
LEMMA Survives ==
  ASSUME NEW st, NEW next, NEW rec, Rewrites(st, next, rec), NEW r \in Records(st)
  PROVE  \E s \in Records(next) : s.d.id = r.d.id /\ s.version >= r.version /\ (r.d.id # rec.d.id => s = r)
<1>1. CASE r.d.id = rec.d.id
  <2>1. rec.version >= r.version
    BY DEF Rewrites, Record
  <2>. QED
    BY <1>1, <2>1 DEF Rewrites
<1>2. CASE r.d.id # rec.d.id
  <2>1. r.version >= r.version
    BY DEF Rewrites
  <2>. QED
    BY <1>2, <2>1 DEF Rewrites
<1>. QED
  BY <1>1, <1>2

LEMMA NoRecords == Kept(NoState) /\ Records(NoState) = {} /\ Kept(GenerateState) /\ Records(GenerateState) = {}
<1>1. Records(NoState) = {} /\ Records(GenerateState) = {}
  BY DEF NoState, GenerateState, Records
<1>2. ASSUME NEW st, st = NoState \/ st = GenerateState PROVE Kept(st)
  <2>1. st = [f \in {"authorized", "counter", "epoch"} |-> st[f]]
    BY <1>2 DEF NoState, GenerateState
  <2>2. st.authorized = <<>> /\ (st.counter = -1 \/ st.counter = 0) /\ (st.epoch = -1 \/ st.epoch = 0)
    BY <1>2 DEF NoState, GenerateState
  <2>3. st.authorized \in Seq(Record) /\ DOMAIN st.authorized = {}
    BY <2>2
  <2>4. st.counter \in -1..MaxUint /\ st.epoch \in Int
    BY <2>2, CounterAssumption
  <2>. QED
    BY <1>1, <1>2, <2>1, <2>3, <2>4 DEF Kept
<1>. QED
  BY <1>1, <1>2

-----------------------------------------------------------------------------
(* The operations of the manager and the coordinator.                      *)

\* What leaves the flow alone or ends it, and the invitation at most unreserved.
LEMMA Reduced ==
  ASSUME NEW w, Sound(w), NEW x, Shaped(x), x.spent = w.spent, x.dec = [c \in Connections |-> x.dec[c]],
         \/ x.inv = w.inv \/ x.inv = NoInvitation
         \/ w.inv # NoInvitation /\ x.inv = [w.inv EXCEPT !.res = "none"],
         \/ x.flow = w.flow \/ x.flow = NoFlow
         \/ w.flow.id \in Connections /\ x.flow = [w.flow EXCEPT !.phase = "pending"],
         x.inv.res # "none" => x.flow.id = x.inv.res
  PROVE  Sound(x)
<1>1. NoFlow = [f \in {"id", "phase", "exp"} |-> NoFlow[f]] /\ NoInvitation = [f \in {"id", "exp", "res"} |-> NoInvitation[f]]
  BY DEF NoFlow, NoInvitation
<1>2. x.flow = [f \in {"id", "phase", "exp"} |-> x.flow[f]] /\ (x.flow = NoFlow \/ x.flow.id \in Connections)
  <2>1. w.flow = [f \in {"id", "phase", "exp"} |-> w.flow[f]] /\ (w.flow = NoFlow \/ w.flow.id \in Connections)
    BY DEF Sound
  <2>. QED
    BY <1>1, <2>1
<1>3. w.inv = [f \in {"id", "exp", "res"} |-> w.inv[f]]
  BY DEF Sound
<1>4. /\ x.inv = [f \in {"id", "exp", "res"} |-> x.inv[f]]
      /\ x.inv = NoInvitation \/ (w.inv # NoInvitation /\ x.inv.id = w.inv.id)
  BY <1>1, <1>3
<1>5. x.inv.exp = w.inv.exp \/ x.inv.exp = 0
  BY <1>3 DEF NoInvitation
<1>. QED
  BY <1>2, <1>4, <1>5 DEF Sound

LEMMA Unchanged ==
  ASSUME NEW w, Sound(w)
  PROVE  Ended(w, w)
BY DEF Ended

LEMMA EndedAgain ==
  ASSUME NEW w, NEW x, NEW y, Ended(w, x), Ended(x, y)
  PROVE  Ended(w, y)
<1>1. NoFlow.id = "none" /\ "none" \notin Connections
  BY ConnectionAssumption DEF NoFlow
<1>2. y.flow = NoFlow \/ y.flow.id \in Connections
  BY DEF Ended, Sound
<1>. QED
  BY <1>1, <1>2 DEF Ended

LEMMA CheckedEnded ==
  ASSUME NEW w, Sound(w)
  PROVE  Ended(w, Checked(w)) /\ Checked(w).flow = w.flow /\ Checked(w).dec = w.dec
<1>. DEFINE x == Checked(w)
<1>1. Shaped(w) /\ w.dec = [c \in Connections |-> w.dec[c]]
  BY DEF Sound
<1>2. Shaped(x) /\ x.flow = w.flow /\ x.dec = w.dec /\ x.spent = w.spent /\ (x.inv = w.inv \/ x.inv = NoInvitation)
  BY <1>1 DEF Checked, ClearActive, Shaped
<1>3. NoInvitation.res = "none"
  BY DEF NoInvitation
<1>. HIDE DEF x
<1>4. x.inv.res # "none" => x.flow.id = x.inv.res
  BY <1>2, <1>3 DEF Sound
<1>5. Sound(x)
  BY <1>1, <1>2, <1>4, Reduced
<1>. QED
  BY <1>2, <1>5 DEF Ended, x

\* The decision of a flow that ends; the first one stays.
Left(w, x, d) ==
  \A c \in Connections : x.dec[c] = IF c = w.flow.id /\ w.dec[c] = "none" THEN d ELSE w.dec[c]

\* cancelFlow gives the reservation back, unless the invitation has lapsed.
LEMMA CancelSound ==
  ASSUME NEW w, Sound(w), w.flow.id \in Connections, NEW d
  PROVE  Sound(CancelFlow(w, d)) /\ CancelFlow(w, d).flow = NoFlow /\ Left(w, CancelFlow(w, d), d)
<1>. DEFINE c == w.flow.id
            u == Release(w, c)
            x == CancelFlow(w, d)
<1>1. Shaped(w) /\ w.dec = [b \in Connections |-> w.dec[b]] /\ w.inv = [f \in {"id", "exp", "res"} |-> w.inv[f]]
  BY DEF Sound
<1>2. /\ Shaped(u) /\ u.flow = w.flow /\ u.dec = w.dec /\ u.spent = w.spent
      /\ \/ u.inv = NoInvitation
         \/ w.inv # NoInvitation /\ u.inv = [w.inv EXCEPT !.res = "none"]
         \/ u.inv = w.inv /\ ~ValidReservation(w, c) /\ ~Lapsed(w)
  BY <1>1 DEF Release, Checked, ClearActive, Shaped, ValidReservation
<1>3. u.inv.res = "none"
  <2>1. NoInvitation.res = "none"
    BY DEF NoInvitation
  <2>2. CASE u.inv = w.inv /\ ~ValidReservation(w, c) /\ ~Lapsed(w)
    <3>1. CASE w.inv = NoInvitation
      BY <2>1, <2>2, <3>1
    <3>2. CASE w.inv # NoInvitation
      <4>1. w.inv.res # c
        <5>1. now \in Int /\ w.inv.exp \in Int
          BY DEF Sound
        <5>2. now < w.inv.exp \/ now >= w.inv.exp
          BY <5>1
        <5>. QED
          BY <2>2, <3>2, <5>2 DEF ValidReservation, Lapsed
      <4>. QED
        BY <2>2, <4>1 DEF Sound
    <3>. QED
      BY <3>1, <3>2
  <2>3. CASE u.inv = [w.inv EXCEPT !.res = "none"]
    BY <1>1, <2>3
  <2>. QED
    BY <1>2, <2>1, <2>2, <2>3
<1>. HIDE DEF u
<1>4. Shaped(x) /\ x.flow = NoFlow /\ x.inv = u.inv /\ x.spent = u.spent
      /\ x.dec = [u.dec EXCEPT ![c] = IF @ = "none" THEN d ELSE @]
  BY <1>2 DEF CancelFlow, Decide, Shaped, u
<1>. HIDE DEF x
<1>5. x.dec = [b \in Connections |-> x.dec[b]] /\ Left(w, x, d)
  <2>1. x.dec = [w.dec EXCEPT ![c] = IF @ = "none" THEN d ELSE @] /\ w.dec = [b \in Connections |-> w.dec[b]]
    BY <1>1, <1>2, <1>4
  <2>. HIDE DEF c
  <2>2. /\ x.dec = [b \in Connections |-> x.dec[b]]
        /\ \A b \in Connections : x.dec[b] = IF b = c /\ w.dec[b] = "none" THEN d ELSE w.dec[b]
    BY <2>1
  <2>. QED
    BY <2>2 DEF Left, c
<1>6. Sound(x)
  <2>1. x.spent = w.spent /\ x.inv.res = "none"
    BY <1>2, <1>3, <1>4
  <2>2. \/ x.inv = w.inv \/ x.inv = NoInvitation
        \/ w.inv # NoInvitation /\ x.inv = [w.inv EXCEPT !.res = "none"]
    BY <1>2, <1>4
  <2>. HIDE DEF c
  <2>. QED
    BY <1>4, <1>5, <2>1, <2>2, Reduced
<1>. QED
  BY <1>4, <1>5, <1>6 DEF x

LEMMA CancelEnded ==
  ASSUME NEW w, Sound(w), w.flow.id \in Connections
  PROVE  Ended(w, CancelFlow(w, "error"))
<1>. DEFINE x == CancelFlow(w, "error")
<1>1. Sound(x) /\ x.flow = NoFlow /\ Left(w, x, "error")
  BY CancelSound
<1>2. NoFlow.id \notin Connections
  BY ConnectionAssumption DEF NoFlow
<1>. HIDE DEF x
<1>3. Ended(w, x)
  BY <1>1, <1>2 DEF Ended, Left
<1>. QED
  BY <1>3 DEF x

LEMMA ExpireEnded ==
  ASSUME NEW w, Sound(w)
  PROVE  Ended(w, ExpireFlow(w))
<1>1. w.flow = NoFlow \/ w.flow.id \in Connections
  BY DEF Sound
<1>. QED
  BY <1>1, CancelEnded, Unchanged DEF ExpireFlow

LEMMA OwnEnded ==
  ASSUME NEW w, Sound(w), NEW c \in Connections
  PROVE  Ended(w, CancelOwn(w, c)) /\ CancelOwn(w, c).flow.id # c
<1>1. CASE w.flow.id = c
  <2>1. CancelOwn(w, c).flow = NoFlow
    BY <1>1, CancelSound DEF CancelOwn
  <2>. QED
    BY <1>1, <2>1, CancelEnded, ConnectionAssumption DEF CancelOwn, NoFlow
<1>2. CASE w.flow.id # c
  BY <1>2, Unchanged DEF CancelOwn
<1>. QED
  BY <1>1, <1>2

\* An accepted start reserves the invitation for the new flow.
LEMMA StartSound ==
  ASSUME NEW w0, Sound(w0), NEW c \in Connections, NEW m
  PROVE  \/ Ended(w0, StartFlow(w0, c, m))
         \/ /\ Sound(StartFlow(w0, c, m)) /\ StartFlow(w0, c, m).flow.id = c
            /\ \E w : Ended(w0, w) /\ w.flow = NoFlow /\ StartFlow(w0, c, m).dec = w.dec
<1>. DEFINE w == ExpireFlow(w0)
            x == StartFlow(w0, c, m)
            exp == IF now + ApprovalTimeout < w.inv.exp THEN now + ApprovalTimeout ELSE w.inv.exp
            new == [id |-> c, phase |-> "handshaking", exp |-> exp]
<1>1. Ended(w0, w) /\ Sound(w)
  BY ExpireEnded DEF Ended
<1>2. \/ x = w \/ x = Checked(w)
      \/ w.flow = NoFlow /\ CanBegin(w, m.ctx.inv) /\ x = [Begin(w, c) EXCEPT !.flow = new]
  BY DEF StartFlow
<1>3. CASE x = w \/ x = Checked(w)
  BY <1>1, <1>3, CheckedEnded, EndedAgain
<1>4. CASE w.flow = NoFlow /\ CanBegin(w, m.ctx.inv) /\ x = [Begin(w, c) EXCEPT !.flow = new]
  <2>1. /\ Shaped(w) /\ now \in Int /\ w.inv.exp \in Int /\ w.inv = [f \in {"id", "exp", "res"} |-> w.inv[f]]
        /\ w.dec = [b \in Connections |-> w.dec[b]] /\ w.spent = [i \in 1..MaxInvitations |-> w.spent[i]]
        /\ w.inv # NoInvitation /\ w.inv.id \in 1..Len(expires) /\ w.spent[w.inv.id] = 0
        /\ \A i \in 1..MaxInvitations : w.spent[i] \in {0, 1} /\ (i > Len(expires) => w.spent[i] = 0)
    BY <1>1, <1>4 DEF Sound, CanBegin
  <2>2. new = [f \in {"id", "phase", "exp"} |-> new[f]] /\ new.id = c
    OBVIOUS
  <2>. HIDE DEF w, new
  <2>3. /\ Shaped(x) /\ x.flow = new /\ x.dec = w.dec /\ x.spent = w.spent /\ x.inv = [w.inv EXCEPT !.res = c]
    BY <1>4, <2>1 DEF Begin, Shaped
  <2>. HIDE DEF x
  <2>4. /\ x.inv = [f \in {"id", "exp", "res"} |-> x.inv[f]] /\ x.inv.res = c /\ x.inv.id = w.inv.id
        /\ x.inv.exp = w.inv.exp
    BY <2>1, <2>3
  <2>5. Sound(x)
    BY <2>1, <2>2, <2>3, <2>4 DEF Sound
  <2>. QED
    BY <1>1, <1>4, <2>2, <2>3, <2>5 DEF x
<1>. QED
  BY <1>2, <1>3, <1>4

LEMMA FinishEnded ==
  ASSUME NEW w0, Sound(w0), NEW c \in Connections, NEW m
  PROVE  Ended(w0, FinishFlow(w0, c, m))
<1>. DEFINE w == ExpireFlow(w0)
            x == FinishFlow(w0, c, m)
<1>1. Ended(w0, w) /\ Sound(w)
  BY ExpireEnded DEF Ended
<1>2. \/ x = w
      \/ w.flow.id = c /\ x = [w EXCEPT !.flow.phase = "pending"]
      \/ w.flow.id = c /\ x = CancelFlow(w, "error")
  BY DEF FinishFlow
<1>3. CASE x = w
  BY <1>1, <1>3
<1>4. CASE w.flow.id = c /\ x = [w EXCEPT !.flow.phase = "pending"]
  <2>. HIDE DEF w
  <2>1. Shaped(w) /\ w.dec = [b \in Connections |-> w.dec[b]] /\ w.flow = [f \in {"id", "phase", "exp"} |-> w.flow[f]]
    BY <1>1 DEF Sound
  <2>2. /\ Shaped(x) /\ x.flow = [w.flow EXCEPT !.phase = "pending"] /\ x.dec = w.dec /\ x.spent = w.spent
        /\ x.inv = w.inv
    BY <1>4, <2>1 DEF Shaped
  <2>. HIDE DEF x
  <2>3. x.flow.id = w.flow.id
    BY <2>1, <2>2
  <2>4. x.inv.res # "none" => x.flow.id = x.inv.res
    BY <1>1, <2>2, <2>3 DEF Sound
  <2>5. Sound(x)
    <3>1. x.dec = [b \in Connections |-> x.dec[b]] /\ w.flow.id \in Connections /\ Sound(w)
      BY <1>1, <1>4, <2>1, <2>2
    <3>. QED
      BY <2>2, <2>4, <3>1, Reduced
  <2>6. Ended(w, x)
    BY <2>2, <2>3, <2>5 DEF Ended
  <2>. QED
    BY <1>1, <2>6, EndedAgain DEF x
<1>5. CASE w.flow.id = c /\ x = CancelFlow(w, "error")
  BY <1>1, <1>5, CancelEnded, EndedAgain
<1>. QED
  BY <1>2, <1>3, <1>4, <1>5

\* A decision spends the invitation, which was not spent before.
LEMMA SpendSound ==
  ASSUME NEW w, Sound(w), Len(expires) \in 0..MaxInvitations, NEW c \in Connections, w.flow.id = c,
         ValidReservation(w, c), NEW d
  PROVE  LET x == CompleteFlow(Spend(w, c), d) IN Sound(x) /\ x.flow = NoFlow /\ Left(w, x, d)
<1>. DEFINE u == Spend(w, c)
            x == CompleteFlow(u, d)
<1>1. /\ Shaped(w) /\ w.dec = [b \in Connections |-> w.dec[b]] /\ now \in Int
      /\ w.spent = [i \in 1..MaxInvitations |-> w.spent[i]] /\ w.inv.id \in 1..Len(expires) /\ w.spent[w.inv.id] = 0
      /\ \A i \in 1..MaxInvitations : w.spent[i] \in {0, 1} /\ (i > Len(expires) => w.spent[i] = 0)
  BY DEF Sound, ValidReservation
<1>2. w.inv.id \in 1..MaxInvitations /\ ~(w.inv.id > Len(expires))
  BY <1>1, TimeAssumption
<1>3. /\ Shaped(u) /\ u.flow = w.flow /\ u.dec = w.dec /\ u.inv = NoInvitation
      /\ u.spent = [w.spent EXCEPT ![w.inv.id] = @ + 1]
  BY <1>1 DEF Spend, ClearActive, Shaped
<1>. HIDE DEF u
<1>4. /\ Shaped(x) /\ x.flow = NoFlow /\ x.inv = u.inv /\ x.spent = u.spent
      /\ x.dec = [u.dec EXCEPT ![c] = IF @ = "none" THEN d ELSE @]
  BY <1>3 DEF CompleteFlow, Decide, Shaped
<1>. HIDE DEF x
<1>5. x.dec = [b \in Connections |-> x.dec[b]] /\ Left(w, x, d)
  BY <1>1, <1>3, <1>4 DEF Left
<1>6. /\ x.spent = [i \in 1..MaxInvitations |-> x.spent[i]]
      /\ x.spent[w.inv.id] = 1 /\ \A i \in 1..MaxInvitations : i = w.inv.id \/ x.spent[i] = w.spent[i]
  <2>1. w.spent[w.inv.id] + 1 = 1
    BY <1>1
  <2>2. x.spent = [w.spent EXCEPT ![w.inv.id] = 1]
    BY <1>3, <1>4, <2>1
  <2>3. w.spent = [i \in 1..MaxInvitations |-> w.spent[i]]
    BY <1>1
  <2>. QED
    BY <1>2, <2>2, <2>3
<1>7. \A i \in 1..MaxInvitations : x.spent[i] \in {0, 1} /\ (i > Len(expires) => x.spent[i] = 0)
  BY <1>1, <1>2, <1>6
<1>8. /\ x.inv = NoInvitation /\ x.inv.res = "none" /\ x.inv.exp = 0
      /\ x.inv = [f \in {"id", "exp", "res"} |-> x.inv[f]] /\ x.flow = [f \in {"id", "phase", "exp"} |-> x.flow[f]]
  BY <1>3, <1>4 DEF NoInvitation, NoFlow
<1>9. Sound(x)
  BY <1>1, <1>4, <1>5, <1>6, <1>7, <1>8 DEF Sound
<1>. QED
  BY <1>4, <1>5, <1>9 DEF x, u

LEMMA RejectSound ==
  ASSUME NEW w0, Sound(w0), Len(expires) \in 0..MaxInvitations, NEW c \in Connections
  PROVE  \/ Ended(w0, RejectFlow(w0, c))
         \/ \E w : /\ Ended(w0, w) /\ w.flow.id = c /\ Sound(RejectFlow(w0, c)) /\ RejectFlow(w0, c).flow = NoFlow
                   /\ Left(w, RejectFlow(w0, c), "rejected")
<1>. DEFINE w == ExpireFlow(w0)
            x == RejectFlow(w0, c)
<1>1. Ended(w0, w) /\ Sound(w)
  BY ExpireEnded DEF Ended
<1>2. \/ x = w
      \/ w.flow.id = c /\ ValidReservation(w, c) /\ x = CompleteFlow(Spend(w, c), "rejected")
      \/ w.flow.id = c /\ x = CancelFlow(Checked(w), "error")
  BY DEF RejectFlow, CanDecide
<1>3. CASE x = w
  BY <1>1, <1>3
<1>4. CASE w.flow.id = c /\ ValidReservation(w, c) /\ x = CompleteFlow(Spend(w, c), "rejected")
  BY <1>1, <1>4, SpendSound
<1>5. CASE w.flow.id = c /\ x = CancelFlow(Checked(w), "error")
  <2>1. Ended(w, Checked(w)) /\ Checked(w).flow.id = c /\ Sound(Checked(w))
    BY <1>1, <1>5, CheckedEnded DEF Ended
  <2>2. Ended(Checked(w), x)
    BY <1>5, <2>1, CancelEnded
  <2>. QED
    BY <1>1, <2>1, <2>2, EndedAgain
<1>. QED
  BY <1>2, <1>3, <1>4, <1>5

-----------------------------------------------------------------------------
(* The steps, seen by the flow and by the phones.                          *)

LEMMA BecomesSound ==
  ASSUME NEW x, Sound(x), Becomes(x), UNCHANGED <<now, expires>>
  PROVE  Sound(World)'
<1>1. World' = x
  BY DEF World, Becomes, Sound, Shaped
<1>. QED
  BY <1>1 DEF Sound

\* The flow ended, if it did, and nobody looked yet.
LEMMA EndedAnswers ==
  ASSUME Answered, NEW x, Ended(World, x), dec' = x.dec, flow' = x.flow, UNCHANGED <<conn, told, granted>>
  PROVE  Answered'
<1>1. \A c \in Connections : /\ x.flow.id = c => flow.id = c
                             /\ x.dec[c] = dec[c] \/ (flow.id = c /\ x.flow.id # c /\ x.dec[c] = "error")
  BY ConnectionAssumption DEF Ended, World, NoFlow
<1>2. dec' = x.dec /\ flow' = x.flow
  OBVIOUS
<1>3. ASSUME NEW c \in Connections
      PROVE  Fine(c, conn[c].at, granted[c], told[c], x.dec[c], x.flow.id)
  <2>1. Fine(c, conn[c].at, granted[c], told[c], dec[c], flow.id)
    BY DEF Answered
  <2>. QED
    BY <1>1, <2>1 DEF Fine
<1>. QED
  BY <1>2, <1>3 DEF Answered

\* The handler of c returns, and may have told the phone what was decided.
LEMMA LeaveAnswers ==
  ASSUME Answered, Sound(World), NEW c \in Connections, NEW w, Ended(World, w), Leave(w, c), UNCHANGED <<now, expires>>,
         granted' = granted,
         \/ told' = told
         \/ conn[c].at = "pending" /\ told' = [told EXCEPT ![c] = dec[c]]
  PROVE  Answered' /\ Sound(World)'
<1>. DEFINE y == CancelOwn(w, c)
            z == [y EXCEPT !.dec[c] = "none"]
<1>1. Ended(World, y) /\ y.flow.id # c /\ Sound(y)
  <2>1. Ended(w, y) /\ y.flow.id # c
    BY OwnEnded DEF Ended
  <2>. QED
    BY <2>1, EndedAgain DEF Ended
<1>2. conn' = [conn EXCEPT ![c] = Closed] /\ Becomes(z)
  BY DEF Leave
<1>. HIDE DEF y
<1>3. Shaped(y) /\ y.dec = [b \in Connections |-> y.dec[b]]
  BY <1>1 DEF Sound
<1>4. Shaped(z) /\ z.flow = y.flow /\ z.inv = y.inv /\ z.spent = y.spent /\ z.dec = [y.dec EXCEPT ![c] = "none"]
  BY <1>3 DEF Shaped
<1>. HIDE DEF z
<1>5. z.dec = [b \in Connections |-> z.dec[b]] /\ z.dec[c] = "none" /\ \A b \in Connections : b # c => z.dec[b] = y.dec[b]
  BY <1>3, <1>4
<1>6. Sound(z)
  <2>1. z.inv.res # "none" => z.flow.id = z.inv.res
    BY <1>1, <1>4 DEF Sound
  <2>. QED
    BY <1>1, <1>4, <1>5, <2>1, Reduced
<1>7. Sound(World)'
  BY <1>2, <1>6, BecomesSound
<1>8. \A b \in Connections : /\ y.flow.id = b => flow.id = b
                             /\ y.dec[b] = dec[b] \/ (flow.id = b /\ y.flow.id # b /\ y.dec[b] = "error")
  BY <1>1, ConnectionAssumption DEF Ended, World, NoFlow
<1>9. dec' = z.dec /\ flow' = y.flow
  BY <1>2, <1>4 DEF Becomes
<1>10. /\ conn = [b \in Connections |-> conn[b]] /\ told = [b \in Connections |-> told[b]]
       /\ \A b \in Connections : /\ conn[b] = [f \in {"at", "inv", "exp"} |-> conn[b][f]]
                                 /\ Fine(b, conn[b].at, granted[b], told[b], dec[b], flow.id)
  BY DEF Answered
<1>11. Closed.at = "closed" /\ Closed = [f \in {"at", "inv", "exp"} |-> Closed[f]]
  BY DEF Closed
<1>12. /\ conn' = [b \in Connections |-> conn'[b]] /\ conn'[c] = Closed
       /\ told' = [b \in Connections |-> told'[b]] /\ (told'[c] = told[c] \/ (conn[c].at = "pending" /\ told'[c] = dec[c]))
       /\ \A b \in Connections : b # c => conn'[b] = conn[b] /\ told'[b] = told[b]
  BY <1>2, <1>10
<1>13. ASSUME NEW b \in Connections
       PROVE  Fine(b, conn'[b].at, granted[b], told'[b], z.dec[b], y.flow.id)
  <2>1. Fine(b, conn[b].at, granted[b], told[b], dec[b], flow.id)
    BY <1>10
  <2>2. CASE b = c
    BY <1>1, <1>5, <1>11, <1>12, <2>1, <2>2 DEF Fine
  <2>3. CASE b # c
    BY <1>5, <1>8, <1>12, <2>1, <2>3 DEF Fine
  <2>. QED
    BY <2>2, <2>3
<1>14. \A b \in Connections : conn'[b] = [f \in {"at", "inv", "exp"} |-> conn'[b][f]]
  BY <1>10, <1>11, <1>12
<1>15. granted = [b \in Connections |-> granted[b]]
  BY DEF Answered
<1>. QED
  BY <1>7, <1>9, <1>12, <1>13, <1>14, <1>15 DEF Answered

\* The handler of c goes on with its flow.
LEMMA MovesAnswers ==
  ASSUME Answered, NEW c \in Connections, NEW a, NEW x, Becomes(x), UNCHANGED <<told, granted>>,
         conn' = [b \in Connections |-> conn'[b]], conn'[c].at = a,
         conn'[c] = [f \in {"at", "inv", "exp"} |-> conn'[c][f]],
         \A b \in Connections : b # c => conn'[b] = conn[b],
         x.flow.id = c, a \in {"started", "pending"}, conn[c].at # "closed",
         granted[c] = 0, dec[c] = "none", x.dec[c] = "none",
         \A b \in Connections : x.dec[b] = dec[b] \/ (flow.id = b /\ x.flow.id # b /\ x.dec[b] = "error")
  PROVE  Answered'
<1>1. dec' = x.dec /\ flow' = x.flow
  BY DEF Becomes
<1>2. /\ told = [b \in Connections |-> told[b]] /\ granted = [b \in Connections |-> granted[b]]
      /\ \A b \in Connections : /\ conn[b] = [f \in {"at", "inv", "exp"} |-> conn[b][f]]
                                /\ Fine(b, conn[b].at, granted[b], told[b], dec[b], flow.id)
  BY DEF Answered
<1>3. ASSUME NEW b \in Connections
      PROVE  Fine(b, conn'[b].at, granted[b], told[b], x.dec[b], x.flow.id)
  <2>1. Fine(b, conn[b].at, granted[b], told[b], dec[b], flow.id)
    BY <1>2
  <2>2. CASE b = c
    BY <2>1, <2>2 DEF Fine
  <2>3. CASE b # c
    BY <2>1, <2>3 DEF Fine
  <2>. QED
    BY <2>2, <2>3
<1>4. ASSUME NEW b \in Connections
      PROVE  conn'[b] = [f \in {"at", "inv", "exp"} |-> conn'[b][f]]
  <2>1. CASE b = c
    BY <2>1
  <2>2. CASE b # c
    <3>1. conn'[b] = conn[b]
      BY <2>2
    <3>2. conn[b] = [f \in {"at", "inv", "exp"} |-> conn[b][f]]
      BY <1>2
    <3>. QED
      BY <3>1, <3>2
  <2>. QED
    BY <2>1, <2>2
<1>. QED
  BY <1>1, <1>2, <1>3, <1>4 DEF Answered

\* The flow of c is decided: the channel was empty and takes the decision.
LEMMA DecidedAnswers ==
  ASSUME Answered, NEW c \in Connections, NEW w, Ended(World, w), w.flow.id = c, NEW x, NEW d, Left(w, x, d),
         x.flow = NoFlow, Becomes(x), UNCHANGED <<conn, told>>,
         \/ d = "rejected" /\ granted' = granted
         \/ d = "approved" /\ \E v : v > 0 /\ v # 0 /\ granted' = [granted EXCEPT ![c] = v]
  PROVE  Answered'
<1>1. dec' = x.dec /\ flow' = NoFlow /\ \A b \in Connections : NoFlow.id # b
  BY ConnectionAssumption DEF Becomes, NoFlow
<1>2. /\ conn = [b \in Connections |-> conn[b]] /\ told = [b \in Connections |-> told[b]]
      /\ granted = [b \in Connections |-> granted[b]]
      /\ \A b \in Connections : /\ conn[b] = [f \in {"at", "inv", "exp"} |-> conn[b][f]]
                                /\ Fine(b, conn[b].at, granted[b], told[b], dec[b], flow.id)
  BY DEF Answered
<1>3. flow.id = c /\ \A b \in Connections : w.dec[b] = dec[b]
  BY <1>1 DEF Ended, World
<1>4. x.dec[c] = d /\ \A b \in Connections : b # c => x.dec[b] = dec[b]
  BY <1>2, <1>3 DEF Left, Fine
<1>5. /\ granted' = [b \in Connections |-> granted'[b]]
      /\ (d = "rejected" /\ granted'[c] = granted[c]) \/ (d = "approved" /\ granted'[c] > 0 /\ granted'[c] # 0)
      /\ \A b \in Connections : b # c => granted'[b] = granted[b]
  <2>1. granted = [b \in Connections |-> granted[b]]
    BY <1>2
  <2>2. CASE d = "rejected" /\ granted' = granted
    BY <2>1, <2>2
  <2>3. CASE d = "approved" /\ \E v : v > 0 /\ v # 0 /\ granted' = [granted EXCEPT ![c] = v]
    <3>1. PICK v : v > 0 /\ v # 0 /\ granted' = [granted EXCEPT ![c] = v]
      BY <2>3
    <3>. QED
      BY <2>1, <2>3, <3>1
  <2>. QED
    BY <2>2, <2>3
<1>6. ASSUME NEW b \in Connections
      PROVE  Fine(b, conn[b].at, granted'[b], told[b], x.dec[b], NoFlow.id)
  <2>1. Fine(b, conn[b].at, granted[b], told[b], dec[b], flow.id)
    BY <1>2
  <2>2. CASE b = c
    BY <1>1, <1>3, <1>4, <1>5, <2>1, <2>2 DEF Fine
  <2>3. CASE b # c
    BY <1>1, <1>4, <1>5, <2>1, <2>3 DEF Fine
  <2>. QED
    BY <2>2, <2>3
<1>. QED
  BY <1>1, <1>2, <1>5, <1>6 DEF Answered

-----------------------------------------------------------------------------
(* What Approve and Revoke do to the store, by the record they write.      *)

LEMMA ApproveResult ==
  ASSUME NEW c \in Connections, NEW w, w.flow.id = c, Kept(store[host]), ApproveFlow(w, c)
  PROVE  LET done == Becomes(CompleteFlow(Spend(w, c), "approved")) /\ acked' = acked \ {Client[c].id}
         IN  \/ /\ UNCHANGED <<file, store>> /\ done
                /\ \E r \in Records(store[host]) : r.d = Client[c] /\ granted' = [granted EXCEPT ![c] = r.version]
             \/ \E next, rec :
                  /\ Rewrites(store[host], next, rec) /\ rec.d = Client[c]
                  /\ \/ Save(host, next) /\ done /\ granted' = [granted EXCEPT ![c] = rec.version]
                     \/ /\ file' \in {file, next} /\ store' = store
                        /\ Becomes(w) /\ granted' = granted /\ acked' = acked \ {Client[c].id}
             \/ Becomes(w) /\ UNCHANGED <<file, store, granted, acked>>
<1>. DEFINE d == Client[c]
            st == store[host]
            done == Becomes(CompleteFlow(Spend(w, c), "approved")) /\ acked' = acked \ {Client[c].id}
<1>1. \/ /\ AlreadyAuthorized(st, d) /\ done /\ UNCHANGED storeVars
         /\ granted' = [granted EXCEPT ![c] = st.authorized[IndexOf(st, d.id)].version]
      \/ /\ CanAuthorize(st, d)
         /\ \/ /\ Save(host, Authorized(st, d)) /\ done
               /\ granted' = [granted EXCEPT ![c] = Authorized(st, d).authorized[IndexOf(Authorized(st, d), d.id)].version]
            \/ /\ SaveFails(host, Authorized(st, d)) /\ Becomes(w) /\ granted' = granted /\ acked' = acked \ {d.id}
      \/ Becomes(w) /\ granted' = granted /\ UNCHANGED <<storeVars, acked>>
  BY DEF ApproveFlow
<1>. HIDE DEF done
<1>2. d \in Descriptors
  BY DEF Descriptors
<1>3. CASE /\ AlreadyAuthorized(st, d) /\ done /\ UNCHANGED storeVars
           /\ granted' = [granted EXCEPT ![c] = st.authorized[IndexOf(st, d.id)].version]
  <2>1. AuthorizedDevice(st, d.id) = "authorized" /\ st.authorized[IndexOf(st, d.id)].d = d
    BY <1>3 DEF AlreadyAuthorized
  <2>2. st.authorized[IndexOf(st, d.id)] \in Records(st)
    BY <2>1, Indexed
  <2>. QED
    BY <1>3, <2>1, <2>2 DEF done, storeVars
<1>4. CASE /\ CanAuthorize(st, d)
           /\ \/ /\ Save(host, Authorized(st, d)) /\ done
                 /\ granted' = [granted EXCEPT ![c] =
                                  Authorized(st, d).authorized[IndexOf(Authorized(st, d), d.id)].version]
              \/ /\ SaveFails(host, Authorized(st, d)) /\ Becomes(w) /\ granted' = granted /\ acked' = acked \ {d.id}
  <2>1. Word(st.counter + 1) # 0
    BY <1>4 DEF CanAuthorize
  <2>2. PICK rec : /\ Rewrites(st, Authorized(st, d), rec) /\ rec.d = d
                   /\ Authorized(st, d).authorized[IndexOf(Authorized(st, d), d.id)] = rec
    BY <1>2, <2>1, AuthorizeRewrites
  <2>3. \/ Save(host, Authorized(st, d)) /\ done /\ granted' = [granted EXCEPT ![c] = rec.version]
        \/ /\ file' \in {file, Authorized(st, d)} /\ store' = store
           /\ Becomes(w) /\ granted' = granted /\ acked' = acked \ {d.id}
    BY <1>4, <2>2 DEF SaveFails
  <2>. QED
    BY <2>2, <2>3 DEF done
<1>5. CASE Becomes(w) /\ granted' = granted /\ UNCHANGED <<storeVars, acked>>
  BY <1>5 DEF storeVars
<1>. QED
  BY <1>1, <1>3, <1>4, <1>5

LEMMA RevokeResult ==
  ASSUME NEW p, Kept(store[p]), NEW id, RevokeBy(p, id)
  PROVE  \/ UNCHANGED <<file, store, acked>>
         \/ \E next, rec :
              /\ Rewrites(store[p], next, rec) /\ rec.d.id = id /\ rec.state = "revoked"
              /\ \E r \in Records(store[p]) : rec.d = r.d
              /\ \/ Save(p, next) /\ acked' = acked \cup {id}
                 \/ file' \in {file, next} /\ store' = store /\ acked' = acked
<1>1. CASE UNCHANGED <<storeVars, acked>>
  BY <1>1 DEF storeVars
<1>2. CASE /\ CanRevoke(store[p], id)
           /\ \/ Save(p, Revoked(store[p], id)) /\ acked' = acked \cup {id}
              \/ SaveFails(p, Revoked(store[p], id)) /\ UNCHANGED acked
  <2>1. PICK rec : /\ Rewrites(store[p], Revoked(store[p], id), rec) /\ rec.d.id = id /\ rec.state = "revoked"
                   /\ \E r \in Records(store[p]) : rec.d = r.d
    BY <1>2, RevokeRewrites
  <2>2. \/ Save(p, Revoked(store[p], id)) /\ acked' = acked \cup {id}
        \/ file' \in {file, Revoked(store[p], id)} /\ store' = store /\ acked' = acked
    BY <1>2 DEF SaveFails
  <2>. QED
    BY <2>1, <2>2
<1>. QED
  BY <1>1, <1>2 DEF RevokeBy

-----------------------------------------------------------------------------
(* The handlers.                                                           *)

PhoneInv == FlowInv /\ Answered

LEMMA SameFlow ==
  ASSUME PhoneInv, UNCHANGED <<flowVars, now, expires, connVars, granted>>
  PROVE  PhoneInv'
BY DEF PhoneInv, FlowInv, Answered, Sound, World, flowVars, connVars

\* The phone connects, and its handler waits for the first frame.
LEMMA ScanPhone ==
  ASSUME PhoneInv, NEW c \in Connections, Scan(c)
  PROVE  PhoneInv'
<1>1. PICK id : conn' = [conn EXCEPT ![c] = [at |-> "open", inv |-> id, exp |-> 0]]
  BY DEF Scan
<1>2. conn[c] = Idle /\ UNCHANGED <<inv, flow, dec, spent, now, expires, told, granted>>
  BY DEF Scan, flowVars, userVars
<1>3. FlowInv'
  BY <1>2 DEF PhoneInv, FlowInv, Sound, World
<1>. DEFINE new == [at |-> "open", inv |-> id, exp |-> 0]
<1>4. new = [f \in {"at", "inv", "exp"} |-> new[f]] /\ new.at = "open" /\ Idle.at = "none"
  BY DEF Idle
<1>. HIDE DEF new
<1>5. Answered
  BY DEF PhoneInv
<1>6. /\ conn' = [b \in Connections |-> conn'[b]] /\ conn'[c] = new
      /\ \A b \in Connections : b # c => conn'[b] = conn[b]
  BY <1>1, <1>5 DEF Answered, new
<1>7. ASSUME NEW b \in Connections
      PROVE  /\ conn'[b] = [f \in {"at", "inv", "exp"} |-> conn'[b][f]]
             /\ Fine(b, conn'[b].at, granted[b], told[b], dec[b], flow.id)
  <2>1. /\ conn[b] = [f \in {"at", "inv", "exp"} |-> conn[b][f]]
        /\ Fine(b, conn[b].at, granted[b], told[b], dec[b], flow.id)
    BY <1>5 DEF Answered
  <2>2. CASE b = c
    BY <1>2, <1>4, <1>6, <2>1, <2>2 DEF Fine
  <2>3. CASE b # c
    <3>1. conn'[b] = conn[b]
      BY <1>6, <2>3
    <3>. QED
      BY <2>1, <3>1
  <2>. QED
    BY <2>2, <2>3
<1>8. Answered'
  BY <1>2, <1>5, <1>6, <1>7 DEF Answered
<1>. QED
  BY <1>3, <1>8 DEF PhoneInv

LEMMA LeavePhone ==
  ASSUME PhoneInv, NEW c \in Connections, NEW w, Ended(World, w), Leave(w, c), UNCHANGED <<now, expires>>,
         granted' = granted,
         \/ told' = told
         \/ conn[c].at = "pending" /\ told' = [told EXCEPT ![c] = dec[c]]
  PROVE  PhoneInv'
<1>1. Answered' /\ Sound(World)'
  BY LeaveAnswers DEF PhoneInv, FlowInv
<1>. QED
  BY <1>1 DEF PhoneInv, FlowInv

\* A step of a connection that goes on, in the form MovesAnswers wants it.
LEMMA ConnMoves ==
  ASSUME Answered, NEW c \in Connections, NEW a, NEW e,
         conn' = [conn EXCEPT ![c].at = a] \/ conn' = [conn EXCEPT ![c].at = a, ![c].exp = e]
  PROVE  /\ conn' = [b \in Connections |-> conn'[b]] /\ conn'[c].at = a
         /\ conn'[c] = [f \in {"at", "inv", "exp"} |-> conn'[c][f]]
         /\ \A b \in Connections : b # c => conn'[b] = conn[b]
<1>1. conn = [b \in Connections |-> conn[b]] /\ conn[c] = [f \in {"at", "inv", "exp"} |-> conn[c][f]]
  BY DEF Answered
<1>2. CASE conn' = [conn EXCEPT ![c].at = a]
  <2>1. conn'[c] = [conn[c] EXCEPT !.at = a]
    BY <1>1, <1>2
  <2>. QED
    BY <1>1, <1>2, <2>1
<1>3. CASE conn' = [conn EXCEPT ![c].at = a, ![c].exp = e]
  <2>1. conn'[c] = [[conn[c] EXCEPT !.at = a] EXCEPT !.exp = e]
    BY <1>1, <1>3
  <2>. QED
    BY <1>1, <1>3, <2>1
<1>. QED
  BY <1>2, <1>3

LEMMA ServePhone ==
  ASSUME PhoneInv, NEW c \in Connections, Handle(c) \/ PeerActivity(c)
  PROVE  PhoneInv'
<1>1. Sound(World) /\ Answered /\ FlowInv /\ Ended(World, World)
  BY Unchanged DEF PhoneInv, FlowInv
<1>2. UNCHANGED <<now, expires>> /\ granted' = granted
  BY DEF Handle, ServeStart, ServeFinish, Await, PeerActivity, userVars
<1>3. Fine(c, conn[c].at, granted[c], told[c], dec[c], flow.id)
  BY <1>1 DEF Answered
<1>4. World.flow = flow /\ World.dec = dec
  BY DEF World
<1>5. NoFlow.id # c /\ \A b \in Connections : NoFlow.id # b
  BY ConnectionAssumption DEF NoFlow
<1>6. CASE Leave(World, c) /\ told' = told
  BY <1>1, <1>2, <1>6, LeavePhone
<1>7. CASE ServeStart(c)
  <2>1. told' = told /\ conn[c].at = "open"
    BY <1>7 DEF ServeStart
  <2>2. ASSUME NEW m,
               LET w == StartFlow(World, c, m)
               IN  IF w.flow.id = c THEN conn' = [conn EXCEPT ![c].at = "started"] /\ Becomes(w) ELSE Leave(w, c)
        PROVE  PhoneInv'
    <3>. DEFINE w == StartFlow(World, c, m)
    <3>1. \/ Ended(World, w)
          \/ Sound(w) /\ w.flow.id = c /\ \E u : Ended(World, u) /\ u.flow = NoFlow /\ w.dec = u.dec
      BY <1>1, StartSound
    <3>. HIDE DEF w
    <3>2. CASE w.flow.id # c
      <4>1. Ended(World, w) /\ Leave(w, c)
        BY <2>2, <3>1, <3>2 DEF w
      <4>. QED
        BY <1>1, <1>2, <2>1, <4>1, LeavePhone
    <3>3. CASE w.flow.id = c
      <4>1. flow.id # c
        BY <1>3, <2>1 DEF Fine
      <4>2. ~Ended(World, w)
        BY <1>4, <3>3, <4>1 DEF Ended
      <4>3. PICK u : Ended(World, u) /\ u.flow = NoFlow /\ w.dec = u.dec
        BY <3>1, <4>2
      <4>4. \A b \in Connections : w.dec[b] = dec[b] \/ (flow.id = b /\ w.dec[b] = "error")
        BY <1>4, <4>3 DEF Ended
      <4>5. conn' = [conn EXCEPT ![c].at = "started"] /\ Becomes(w)
        BY <2>2, <3>3 DEF w
      <4>6. granted[c] = 0 /\ dec[c] = "none" /\ w.dec[c] = "none"
        BY <1>3, <2>1, <4>1, <4>4 DEF Fine
      <4>7. \A b \in Connections : w.dec[b] = dec[b] \/ (flow.id = b /\ w.flow.id # b /\ w.dec[b] = "error")
        BY <3>3, <4>1, <4>4
      <4>8. /\ conn' = [b \in Connections |-> conn'[b]] /\ conn'[c].at = "started"
            /\ conn'[c] = [f \in {"at", "inv", "exp"} |-> conn'[c][f]]
            /\ \A b \in Connections : b # c => conn'[b] = conn[b]
        BY <1>1, <4>5, ConnMoves
      <4>9. conn[c].at # "closed"
        BY <2>1
      <4>10. Answered'
        BY <1>1, <1>2, <2>1, <3>3, <4>5, <4>6, <4>7, <4>8, <4>9, MovesAnswers
      <4>11. Sound(World)'
        BY <1>2, <3>1, <4>2, <4>5, BecomesSound
      <4>. QED
        BY <1>1, <1>2, <4>10, <4>11 DEF PhoneInv, FlowInv
    <3>. QED
      BY <3>2, <3>3
  <2>. QED
    BY <1>6, <1>7, <2>1, <2>2 DEF ServeStart, ReadFails
<1>8. CASE ServeFinish(c)
  <2>1. told' = told /\ conn[c].at = "started"
    BY <1>8 DEF ServeFinish
  <2>2. ASSUME NEW m,
               LET w == FinishFlow(World, c, m)
               IN  IF CanDecide(w, c)
                   THEN conn' = [conn EXCEPT ![c].at = "pending", ![c].exp = w.flow.exp] /\ Becomes(w) ELSE Leave(w, c)
        PROVE  PhoneInv'
    <3>. DEFINE w == FinishFlow(World, c, m)
    <3>1. Ended(World, w)
      BY <1>1, FinishEnded
    <3>. HIDE DEF w
    <3>2. CASE ~CanDecide(w, c)
      <4>1. Leave(w, c)
        BY <2>2, <3>2 DEF w
      <4>. QED
        BY <1>1, <1>2, <2>1, <3>1, <4>1, LeavePhone
    <3>3. CASE CanDecide(w, c)
      <4>1. w.flow.id = c
        BY <3>3 DEF CanDecide
      <4>2. flow.id = c /\ w.flow # NoFlow
        BY <1>4, <1>5, <3>1, <4>1 DEF Ended
      <4>3. \A b \in Connections : w.dec[b] = dec[b]
        BY <1>4, <3>1, <4>2 DEF Ended
      <4>4. conn' = [conn EXCEPT ![c].at = "pending", ![c].exp = w.flow.exp] /\ Becomes(w)
        BY <2>2, <3>3 DEF w
      <4>5. granted[c] = 0 /\ dec[c] = "none" /\ w.dec[c] = "none"
        BY <1>3, <4>2, <4>3 DEF Fine
      <4>6. /\ conn' = [b \in Connections |-> conn'[b]] /\ conn'[c].at = "pending"
            /\ conn'[c] = [f \in {"at", "inv", "exp"} |-> conn'[c][f]]
            /\ \A b \in Connections : b # c => conn'[b] = conn[b]
        BY <1>1, <4>4, ConnMoves
      <4>7. conn[c].at # "closed" /\ Becomes(w) /\ UNCHANGED <<told, granted>>
        BY <1>2, <2>1, <4>4
      <4>8. Answered'
        <5>1. \A b \in Connections : w.dec[b] = dec[b] \/ (flow.id = b /\ w.flow.id # b /\ w.dec[b] = "error")
          BY <4>3
        <5>. QED
          BY <1>1, <4>1, <4>5, <4>6, <4>7, <5>1, MovesAnswers
      <4>9. Sound(World)'
        BY <1>2, <3>1, <4>4, BecomesSound DEF Ended
      <4>. QED
        BY <1>1, <1>2, <4>8, <4>9 DEF PhoneInv, FlowInv
    <3>. QED
      BY <3>2, <3>3
  <2>. QED
    BY <1>6, <1>8, <2>1, <2>2 DEF ServeFinish, ReadFails
<1>9. CASE Await(c)
  <2>1. /\ conn[c].at = "pending" /\ Leave(World, c)
        /\ told' = told \/ told' = [told EXCEPT ![c] = dec[c]]
    BY <1>9 DEF Await
  <2>. QED
    BY <1>1, <1>2, <2>1, LeavePhone
<1>10. CASE PeerActivity(c)
  BY <1>6, <1>10 DEF PeerActivity
<1>. QED
  BY <1>7, <1>8, <1>9, <1>10 DEF Handle

\* Create: the new invitation is reserved for nobody and was not spent.
LEMMA CreateSound ==
  ASSUME FlowInv, NEW w, Sound(w), Create, flow' = w.flow, dec' = w.dec, spent' = w.spent, UNCHANGED now
  PROVE  FlowInv'
<1>. DEFINE n == Len(expires)
            new == [id |-> n + 1, exp |-> now + TTL, res |-> "none"]
<1>1. /\ expires \in Seq(Int) /\ n \in Nat /\ n < MaxInvitations /\ MaxInvitations \in Nat
      /\ now \in Int /\ now + TTL \in Int
  BY TimeAssumption DEF FlowInv, Create, Sound
<1>2. expires' = Append(expires, now + TTL) /\ inv' = new
  BY DEF Create
<1>3. expires' \in Seq(Int) /\ Len(expires') = n + 1
  BY <1>1, <1>2
<1>4. new.id = n + 1 /\ new.exp = now + TTL /\ new.res = "none" /\ new = [f \in {"id", "exp", "res"} |-> new[f]]
  OBVIOUS
<1>. HIDE DEF new, n
<1>5. /\ w.flow = [f \in {"id", "phase", "exp"} |-> w.flow[f]] /\ (w.flow = NoFlow \/ w.flow.id \in Connections)
      /\ w.dec = [c \in Connections |-> w.dec[c]] /\ w.spent = [i \in 1..MaxInvitations |-> w.spent[i]]
      /\ \A i \in 1..MaxInvitations : w.spent[i] \in {0, 1} /\ (i > n => w.spent[i] = 0)
  BY DEF Sound, n
<1>6. n + 1 \in 1..MaxInvitations /\ n + 1 > n /\ n + 1 \in 1..n + 1 /\ \A i \in 1..MaxInvitations : i > n + 1 => i > n
  BY <1>1
<1>7. w.spent[n + 1] = 0 /\ \A i \in 1..MaxInvitations : w.spent[i] \in {0, 1} /\ (i > n + 1 => w.spent[i] = 0)
  BY <1>5, <1>6
<1>. DEFINE x == [inv |-> new, flow |-> w.flow, dec |-> w.dec, spent |-> w.spent]
<1>8. Shaped(x) /\ x.inv = new /\ x.flow = w.flow /\ x.dec = w.dec /\ x.spent = w.spent
  BY DEF Shaped
<1>9. World' = x
  BY <1>2 DEF World
<1>. HIDE DEF x
<1>10. /\ Shaped(World') /\ World'.inv = new /\ World'.flow = w.flow /\ World'.dec = w.dec /\ World'.spent = w.spent
       /\ now' = now /\ Len(expires') = n + 1
  BY <1>3, <1>8, <1>9
<1>11. Sound(World)'
  <2>1. Shaped(World') /\ now' \in Int /\ World'.inv.exp \in Int
    BY <1>1, <1>4, <1>10
  <2>2. /\ World'.inv = [f \in {"id", "exp", "res"} |-> World'.inv[f]]
        /\ World'.flow = [f \in {"id", "phase", "exp"} |-> World'.flow[f]]
        /\ World'.dec = [c \in Connections |-> World'.dec[c]]
        /\ World'.spent = [i \in 1..MaxInvitations |-> World'.spent[i]]
    BY <1>4, <1>5, <1>10
  <2>3. /\ World'.flow = NoFlow \/ World'.flow.id \in Connections
        /\ World'.inv.res # "none" => World'.flow.id = World'.inv.res
    BY <1>4, <1>5, <1>10
  <2>4. World'.inv.id \in 1..Len(expires') /\ World'.spent[World'.inv.id] = 0
    BY <1>4, <1>6, <1>7, <1>10
  <2>5. \A i \in 1..MaxInvitations : World'.spent[i] \in {0, 1} /\ (i > Len(expires') => World'.spent[i] = 0)
    BY <1>7, <1>10
  <2>. QED
    BY <2>1, <2>2, <2>3, <2>4, <2>5 DEF Sound
<1>12. Len(expires)' \in 0..MaxInvitations
  BY <1>1, <1>3
<1>. QED
  BY <1>3, <1>11, <1>12 DEF FlowInv

\* A page or a status request expires the flow; the page may create an invitation.
LEMMA PagePhone ==
  ASSUME PhoneInv, ShowPage \/ Status \/ PairingCode
  PROVE  PhoneInv'
<1>. DEFINE w == ExpireFlow(World)
<1>1. Sound(World) /\ Answered /\ FlowInv /\ Ended(World, w) /\ Sound(w)
  BY ExpireEnded DEF PhoneInv, FlowInv, Ended
<1>2. UNCHANGED <<now, conn, told, granted>>
  BY DEF ShowPage, Status, PairingCode, connVars, userVars
<1>3. CASE ShowPage
  <2>1. /\ flow' = w.flow /\ dec' = w.dec /\ spent' = w.spent
        /\ Create \/ (inv' = w.inv /\ UNCHANGED expires)
    BY <1>3 DEF ShowPage
  <2>. HIDE DEF w
  <2>2. Answered'
    BY <1>1, <1>2, <2>1, EndedAnswers
  <2>3. CASE Create
    <3>1. FlowInv'
      BY <1>1, <1>2, <2>1, <2>3, CreateSound
    <3>. QED
      BY <2>2, <3>1 DEF PhoneInv
  <2>4. CASE inv' = w.inv /\ UNCHANGED expires
    <3>1. Becomes(w)
      BY <2>1, <2>4 DEF Becomes
    <3>2. Sound(World)'
      BY <1>1, <1>2, <2>4, <3>1, BecomesSound
    <3>. QED
      BY <1>1, <2>2, <2>4, <3>2 DEF PhoneInv, FlowInv
  <2>. QED
    BY <2>1, <2>3, <2>4
<1>4. CASE Status
  <2>1. Becomes(w) /\ UNCHANGED expires
    BY <1>4 DEF Status
  <2>. HIDE DEF w
  <2>2. flow' = w.flow /\ dec' = w.dec
    BY <2>1 DEF Becomes
  <2>3. Answered'
    BY <1>1, <1>2, <2>2, EndedAnswers
  <2>4. Sound(World)'
    BY <1>1, <1>2, <2>1, BecomesSound
  <2>. QED
    BY <1>1, <2>1, <2>3, <2>4 DEF PhoneInv, FlowInv
<1>5. CASE PairingCode
  <2>1. Create /\ UNCHANGED <<flow, dec, spent>>
    BY <1>5 DEF PairingCode
  <2>2. flow' = World.flow /\ dec' = World.dec /\ spent' = World.spent
    BY <2>1 DEF World
  <2>3. FlowInv'
    BY <1>1, <1>2, <2>1, <2>2, CreateSound
  <2>4. Answered'
    BY <1>1, <1>2, <2>1 DEF Answered
  <2>. QED
    BY <2>3, <2>4 DEF PhoneInv
<1>. QED
  BY <1>3, <1>4, <1>5

\* The user decides: the flow is over with that decision, or with an error.
LEMMA EndedPhone ==
  ASSUME PhoneInv, NEW x, Ended(World, x), Becomes(x), UNCHANGED <<now, expires, connVars, granted>>
  PROVE  PhoneInv'
<1>1. flow' = x.flow /\ dec' = x.dec /\ UNCHANGED <<conn, told, granted>> /\ Sound(x) /\ Answered /\ FlowInv
  BY DEF Becomes, connVars, Ended, PhoneInv
<1>2. Answered'
  BY <1>1, EndedAnswers
<1>3. Sound(World)'
  BY <1>1, BecomesSound
<1>. QED
  BY <1>1, <1>2, <1>3 DEF PhoneInv, FlowInv

LEMMA DenyPhone ==
  ASSUME PhoneInv, NEW c \in Connections, Deny(c)
  PROVE  PhoneInv'
<1>. DEFINE x == RejectFlow(World, c)
<1>1. Sound(World) /\ Answered /\ FlowInv /\ Len(expires) \in 0..MaxInvitations
  BY DEF PhoneInv, FlowInv
<1>2. UNCHANGED <<now, expires, connVars, granted>> /\ Becomes(x)
  BY DEF Deny, userVars
<1>3. \/ Ended(World, x)
      \/ \E w : Ended(World, w) /\ w.flow.id = c /\ Sound(x) /\ x.flow = NoFlow /\ Left(w, x, "rejected")
  BY <1>1, RejectSound
<1>. HIDE DEF x
<1>4. CASE Ended(World, x)
  BY <1>2, <1>4, EndedPhone
<1>5. CASE \E w : Ended(World, w) /\ w.flow.id = c /\ Sound(x) /\ x.flow = NoFlow /\ Left(w, x, "rejected")
  <2>1. PICK w : Ended(World, w) /\ w.flow.id = c /\ Sound(x) /\ x.flow = NoFlow /\ Left(w, x, "rejected")
    BY <1>5
  <2>2. UNCHANGED <<conn, told>> /\ granted' = granted
    BY <1>2 DEF connVars
  <2>3. Answered'
    BY <1>1, <1>2, <2>1, <2>2, DecidedAnswers
  <2>4. Sound(World)'
    BY <1>2, <2>1, BecomesSound
  <2>. QED
    BY <1>1, <1>2, <2>3, <2>4 DEF PhoneInv, FlowInv
<1>. QED
  BY <1>3, <1>4, <1>5

LEMMA AllowPhone ==
  ASSUME PhoneInv, StoreInv, NEW c \in Connections, Allow(c)
  PROVE  PhoneInv'
<1>. DEFINE w == ExpireFlow(World)
<1>1. Sound(World) /\ Answered /\ FlowInv /\ Len(expires) \in 0..MaxInvitations /\ Ended(World, w) /\ Sound(w)
  BY ExpireEnded DEF PhoneInv, FlowInv, Ended
<1>2. UNCHANGED <<now, expires, connVars>> /\ UNCHANGED <<conn, told>> /\ host # "none"
  BY DEF Allow, connVars
<1>3. \/ CanDecide(w, c) /\ ValidReservation(w, c) /\ ApproveFlow(w, c)
      \/ CanDecide(w, c) /\ Becomes(CancelFlow(Checked(w), "error")) /\ UNCHANGED granted
      \/ Becomes(w) /\ UNCHANGED granted
  BY DEF Allow
<1>. HIDE DEF w
<1>4. CASE Becomes(w) /\ UNCHANGED granted
  BY <1>1, <1>2, <1>4, EndedPhone
<1>5. CASE CanDecide(w, c) /\ Becomes(CancelFlow(Checked(w), "error")) /\ UNCHANGED granted
  <2>1. Ended(w, Checked(w)) /\ Checked(w).flow = w.flow
    BY <1>1, CheckedEnded
  <2>2. Sound(Checked(w)) /\ Checked(w).flow.id \in Connections
    BY <1>5, <2>1 DEF Ended, CanDecide
  <2>3. Ended(Checked(w), CancelFlow(Checked(w), "error"))
    BY <2>2, CancelEnded
  <2>4. Ended(World, CancelFlow(Checked(w), "error"))
    BY <1>1, <2>1, <2>3, EndedAgain
  <2>. QED
    BY <1>2, <1>5, <2>4, EndedPhone
<1>6. CASE CanDecide(w, c) /\ ValidReservation(w, c) /\ ApproveFlow(w, c)
  <2>1. w.flow.id = c
    BY <1>6 DEF CanDecide
  <2>2. Kept(store[host]) /\ \A r \in Records(store[host]) : r.version > 0 /\ r.version # 0
    <3>1. Kept(store[host])
      BY <1>2, ServingAssumption DEF StoreInv, Fit
    <3>2. store[host].counter \in Int /\ \A r \in Records(store[host]) : r.version \in 1..store[host].counter
      <4>1. /\ store[host].counter \in -1..MaxUint
            /\ \A r \in Records(store[host]) : r.version \in 1..store[host].counter
        BY <3>1 DEF Kept
      <4>2. \A n : n \in -1..MaxUint => n \in Int
        OBVIOUS
      <4>. QED
        BY <4>1, <4>2
    <3>3. \A r \in Records(store[host]) : r.version \in Nat \ {0}
      BY <3>2
    <3>. QED
      BY <3>1, <3>3
  <2>. DEFINE x == CompleteFlow(Spend(w, c), "approved")
  <2>3. \/ Becomes(w) /\ UNCHANGED granted
        \/ Becomes(x) /\ \E v : v > 0 /\ v # 0 /\ granted' = [granted EXCEPT ![c] = v]
    <3>1. CASE /\ Becomes(x)
               /\ \E r \in Records(store[host]) : r.d = Client[c] /\ granted' = [granted EXCEPT ![c] = r.version]
      BY <2>2, <3>1
    <3>2. CASE \E next, rec : /\ Rewrites(store[host], next, rec)
                              /\ Becomes(x) /\ granted' = [granted EXCEPT ![c] = rec.version]
      <4>1. PICK next, rec : /\ Rewrites(store[host], next, rec)
                             /\ Becomes(x) /\ granted' = [granted EXCEPT ![c] = rec.version]
        BY <3>2
      <4>2. Kept(next) /\ rec \in Records(next)
        BY <4>1 DEF Rewrites
      <4>3. next.counter \in Int /\ rec.version \in 1..next.counter
        BY <4>2 DEF Kept
      <4>4. rec.version > 0 /\ rec.version # 0
        BY <4>3
      <4>. QED
        BY <4>1, <4>4
    <3>3. CASE Becomes(w) /\ UNCHANGED granted
      BY <3>3
    <3>. HIDE DEF x
    <3>4. \/ /\ Becomes(x)
             /\ \E r \in Records(store[host]) : r.d = Client[c] /\ granted' = [granted EXCEPT ![c] = r.version]
          \/ \E next, rec : /\ Rewrites(store[host], next, rec)
                            /\ Becomes(x) /\ granted' = [granted EXCEPT ![c] = rec.version]
          \/ Becomes(w) /\ UNCHANGED granted
      BY <1>6, <2>1, <2>2, ApproveResult DEF x
    <3>. QED
      BY <3>1, <3>2, <3>3, <3>4
  <2>4. Sound(x) /\ x.flow = NoFlow /\ Left(w, x, "approved")
    BY <1>1, <1>6, <2>1, SpendSound
  <2>. HIDE DEF x
  <2>5. CASE Becomes(x) /\ \E v : v > 0 /\ v # 0 /\ granted' = [granted EXCEPT ![c] = v]
    <3>1. Answered'
      BY <1>1, <1>2, <2>1, <2>4, <2>5, DecidedAnswers
    <3>2. Sound(World)'
      BY <1>2, <2>4, <2>5, BecomesSound
    <3>. QED
      BY <1>1, <1>2, <3>1, <3>2 DEF PhoneInv, FlowInv
  <2>. QED
    BY <1>4, <2>3, <2>5
<1>. QED
  BY <1>3, <1>4, <1>5, <1>6

\* The serving process ends and its connections with it; what the phones were told stays.
LEMMA StopPhone ==
  ASSUME PhoneInv, Stop
  PROVE  PhoneInv'
<1>. DEFINE none == [c \in Connections |-> "none"]
            x == [inv |-> NoInvitation, flow |-> NoFlow, spent |-> spent, dec |-> none]
<1>1. Sound(World) /\ Answered /\ FlowInv
  BY DEF PhoneInv, FlowInv
<1>2. /\ Becomes(x) /\ UNCHANGED <<now, expires, told, granted>>
      /\ conn' = [c \in Connections |-> IF conn[c] = Idle THEN Idle ELSE Closed]
  BY DEF Stop
<1>3. Shaped(x) /\ x.spent = spent /\ x.dec = none /\ x.inv = NoInvitation /\ x.flow = NoFlow
  BY DEF Shaped
<1>. HIDE DEF x
<1>4. /\ NoInvitation.res = "none" /\ World.spent = spent /\ none = [c \in Connections |-> none[c]]
      /\ NoFlow.id = "none" /\ \A c \in Connections : none[c] = "none"
  BY DEF NoInvitation, World, NoFlow
<1>. HIDE DEF none
<1>5. Sound(x)
  BY <1>1, <1>3, <1>4, Reduced
<1>6. Sound(World)'
  BY <1>2, <1>5, BecomesSound
<1>7. /\ Idle = [f \in {"at", "inv", "exp"} |-> Idle[f]] /\ Closed = [f \in {"at", "inv", "exp"} |-> Closed[f]]
      /\ Idle.at = "none" /\ Closed.at = "closed"
  BY DEF Idle, Closed
<1>8. conn' = [c \in Connections |-> conn'[c]] /\ dec' = none /\ flow' = NoFlow
  BY <1>2, <1>3 DEF Becomes
<1>9. ASSUME NEW c \in Connections
      PROVE  /\ conn'[c] = [f \in {"at", "inv", "exp"} |-> conn'[c][f]]
             /\ Fine(c, conn'[c].at, granted[c], told[c], none[c], NoFlow.id)
  <2>1. Fine(c, conn[c].at, granted[c], told[c], dec[c], flow.id)
    BY <1>1 DEF Answered
  <2>2. CASE conn[c] = Idle
    <3>1. conn'[c] = Idle
      BY <1>2, <2>2
    <3>2. Fine(c, "none", granted[c], told[c], "none", "none")
      BY <1>7, <2>1, <2>2, ConnectionAssumption DEF Fine
    <3>. QED
      BY <1>4, <1>7, <3>1, <3>2
  <2>3. CASE conn[c] # Idle
    <3>1. conn'[c] = Closed
      BY <1>2, <2>3
    <3>2. Fine(c, "closed", granted[c], told[c], "none", "none")
      BY <2>1, ConnectionAssumption DEF Fine
    <3>. QED
      BY <1>4, <1>7, <3>1, <3>2
  <2>. QED
    BY <2>2, <2>3
<1>10. Answered'
  BY <1>1, <1>2, <1>8, <1>9 DEF Answered
<1>. QED
  BY <1>1, <1>2, <1>6, <1>10 DEF PhoneInv, FlowInv

LEMMA TickPhone ==
  ASSUME PhoneInv, Tick
  PROVE  PhoneInv'
<1>1. now \in Int /\ now' = now + 1 /\ UNCHANGED <<inv, flow, dec, spent, expires, conn, told, granted>>
  BY DEF PhoneInv, FlowInv, Sound, Tick, flowVars, connVars, userVars
<1>2. now' \in Int
  BY <1>1
<1>3. World' = World
  BY <1>1 DEF World
<1>4. Sound(World)'
  BY <1>1, <1>2, <1>3 DEF PhoneInv, FlowInv, Sound
<1>. QED
  BY <1>1, <1>4 DEF PhoneInv, FlowInv, Answered

LEMMA PhoneNext ==
  ASSUME PhoneInv, StoreInv, [PairingNext]_vars
  PROVE  PhoneInv'
<1>1. CASE \E c \in Connections : Scan(c) \/ Handle(c) \/ PeerActivity(c)
  BY <1>1, ScanPhone, ServePhone
<1>2. CASE ShowPage \/ Status \/ PairingCode
  BY <1>2, PagePhone
<1>3. CASE \E c \in Connections : Allow(c) \/ Deny(c)
  BY <1>3, AllowPhone, DenyPhone
<1>4. CASE HostStops \/ RecoverPoll
  BY <1>4, StopPhone DEF HostStops, RecoverPoll
<1>5. CASE Tick
  BY <1>5, TickPhone
<1>6. CASE UNCHANGED <<flowVars, now, expires, connVars, granted>>
  BY <1>6, SameFlow
<1>7. CASE \E c \in present \cap Connections : RevokeDevice(Client[c].id)
  BY <1>6, <1>7 DEF RevokeDevice
<1>8. CASE AgentStart \/ RecoverServe \/ RevokeAllStart \/ RevokeAllStep \/ RevokeAllEnds
  BY <1>6, <1>8 DEF AgentStart, RecoverServe, RevokeAllStart, RevokeAllStep, RevokeAllEnds, Begins, userVars
<1>9. CASE UNCHANGED vars
  BY <1>6, <1>9 DEF vars, userVars
<1>. QED
  BY <1>1, <1>2, <1>3, <1>4, <1>5, <1>7, <1>8, <1>9 DEF PairingNext

-----------------------------------------------------------------------------
(* The store and the file, step by step.                                   *)

LEMMA RewriteFits ==
  ASSUME NEW al, NEW st, Fit(st, al), NEW next, NEW rec, Rewrites(st, next, rec), rec.d \in al
  PROVE  Fit(next, al)
BY DEF Fit, Rewrites

LEMMA NoneFits ==
  ASSUME NEW al
  PROVE  Fit(NoState, al) /\ Fit(GenerateState, al)
BY NoRecords DEF Fit

LEMMA StoreKept ==
  ASSUME StoreInv, host' \in {"none", "agent", "recover"}, allowed \subseteq allowed', Fit(file', allowed'),
         \/ store' = store
         \/ \E p, st : Fit(st, allowed') /\ store' = [store EXCEPT ![p] = st]
  PROVE  StoreInv'
<1>1. store = [p \in Processes |-> store[p]] /\ \A p \in Processes : Fit(store[p], allowed)
  BY DEF StoreInv
<1>2. \A p \in Processes : Fit(store[p], allowed')
  BY <1>1 DEF Fit
<1>3. CASE store' = store
  BY <1>1, <1>2, <1>3 DEF StoreInv
<1>4. CASE \E p, st : Fit(st, allowed') /\ store' = [store EXCEPT ![p] = st]
  <2>1. PICK p, st : Fit(st, allowed') /\ store' = [store EXCEPT ![p] = st]
    BY <1>4
  <2>2. store' = [q \in Processes |-> store'[q]] /\ \A q \in Processes : store'[q] = st \/ store'[q] = store[q]
    BY <1>1, <2>1
  <2>3. \A q \in Processes : Fit(store'[q], allowed')
    BY <1>2, <2>1, <2>2
  <2>. QED
    BY <2>2, <2>3 DEF StoreInv
<1>. QED
  BY <1>3, <1>4

LEMMA AllowStore ==
  ASSUME StoreInv, NEW c \in Connections, Allow(c)
  PROVE  StoreInv'
<1>. DEFINE w == ExpireFlow(World)
            st == store[host]
<1>1. UNCHANGED host /\ allowed' = allowed \cup {Client[c]} /\ host # "none"
  BY DEF Allow, procVars
<1>2. host' \in {"none", "agent", "recover"} /\ host \in Processes /\ Fit(st, allowed) /\ Fit(file, allowed)
  BY <1>1, ServingAssumption DEF StoreInv
<1>3. allowed \subseteq allowed' /\ Fit(file, allowed') /\ Fit(st, allowed') /\ Kept(st)
  BY <1>1, <1>2 DEF Fit
<1>4. CASE UNCHANGED <<file, store>>
  BY <1>2, <1>3, <1>4, StoreKept
<1>5. ASSUME w.flow.id = c, ApproveFlow(w, c) PROVE StoreInv'
  <2>1. \/ UNCHANGED <<file, store>>
        \/ \E next, rec : /\ Rewrites(st, next, rec) /\ rec.d = Client[c]
                          /\ Save(host, next) \/ (file' \in {file, next} /\ store' = store)
    <3>. HIDE DEF w
    <3>. QED
      BY <1>3, <1>5, ApproveResult
  <2>2. ASSUME NEW next, NEW rec, Rewrites(st, next, rec), rec.d = Client[c],
               Save(host, next) \/ (file' \in {file, next} /\ store' = store)
        PROVE  StoreInv'
    <3>1. Fit(next, allowed')
      BY <1>1, <1>3, <2>2, RewriteFits
    <3>2. /\ Fit(file', allowed')
          /\ store' = store \/ \E p, new : Fit(new, allowed') /\ store' = [store EXCEPT ![p] = new]
      BY <1>3, <2>2, <3>1 DEF Save
    <3>. QED
      BY <1>2, <1>3, <3>2, StoreKept
  <2>. QED
    BY <1>4, <2>1, <2>2
<1>6. (w.flow.id = c /\ ApproveFlow(w, c)) \/ UNCHANGED <<file, store>>
  BY DEF Allow, CanDecide, storeVars
<1>. QED
  BY <1>4, <1>5, <1>6

LEMMA RevokeStore ==
  ASSUME StoreInv, NEW p \in Processes, NEW id, RevokeBy(p, id), UNCHANGED <<host, allowed>>
  PROVE  StoreInv'
<1>1. /\ host' \in {"none", "agent", "recover"} /\ Fit(store[p], allowed) /\ Fit(file, allowed)
      /\ allowed \subseteq allowed' /\ allowed' = allowed
  BY DEF StoreInv
<1>2. Kept(store[p]) /\ \A r \in Records(store[p]) : r.d \in allowed
  BY <1>1 DEF Fit
<1>3. CASE UNCHANGED <<file, store>>
  BY <1>1, <1>3, StoreKept
<1>4. ASSUME NEW next, NEW rec, Rewrites(store[p], next, rec), \E r \in Records(store[p]) : rec.d = r.d,
             Save(p, next) \/ (file' \in {file, next} /\ store' = store)
      PROVE  StoreInv'
  <2>1. rec.d \in allowed
    BY <1>2, <1>4
  <2>2. Fit(next, allowed')
    BY <1>1, <1>4, <2>1, RewriteFits
  <2>3. /\ Fit(file', allowed')
        /\ store' = store \/ \E q, new : Fit(new, allowed') /\ store' = [store EXCEPT ![q] = new]
    BY <1>1, <1>4, <2>2 DEF Save
  <2>. QED
    BY <1>1, <2>3, StoreKept
<1>5. \/ UNCHANGED <<file, store>>
      \/ \E next, rec : /\ Rewrites(store[p], next, rec) /\ \E r \in Records(store[p]) : rec.d = r.d
                        /\ Save(p, next) \/ (file' \in {file, next} /\ store' = store)
  BY <1>2, RevokeResult
<1>. QED
  BY <1>3, <1>4, <1>5

\* A process opens the file, makes a first one, or closes its copy.
LEMMA OpenStore ==
  ASSUME StoreInv, host' \in {"none", "agent", "recover"}, UNCHANGED allowed,
         \/ UNCHANGED <<file, store>>
         \/ \E p : Load(p) \/ LoadOrCreate(p) \/ Close(p)
         \/ \E p : SaveFails(p, GenerateState)
  PROVE  StoreInv'
<1>1. allowed \subseteq allowed' /\ allowed' = allowed /\ Fit(file, allowed')
  BY DEF StoreInv
<1>2. Fit(NoState, allowed') /\ Fit(GenerateState, allowed')
  BY NoneFits
<1>3. CASE UNCHANGED <<file, store>>
  BY <1>1, <1>3, StoreKept
<1>4. ASSUME NEW p, Load(p) PROVE StoreInv'
  <2>1. file' = file /\ store' = [store EXCEPT ![p] = file]
    BY <1>4 DEF Load
  <2>. QED
    BY <1>1, <2>1, StoreKept
<1>5. ASSUME NEW p, LoadOrCreate(p) PROVE StoreInv'
  <2>1. (file' = file \/ file' = GenerateState) /\ store' = [store EXCEPT ![p] = file']
    BY <1>5 DEF LoadOrCreate
  <2>2. Fit(file', allowed')
    BY <1>1, <1>2, <2>1
  <2>. QED
    BY <1>1, <2>1, <2>2, StoreKept
<1>6. ASSUME NEW p, Close(p) PROVE StoreInv'
  <2>1. file' = file /\ store' = [store EXCEPT ![p] = NoState]
    BY <1>6 DEF Close
  <2>. QED
    BY <1>1, <1>2, <2>1, StoreKept
<1>7. ASSUME NEW p, SaveFails(p, GenerateState) PROVE StoreInv'
  <2>1. (file' = file \/ file' = GenerateState) /\ store' = store
    BY <1>7 DEF SaveFails
  <2>2. Fit(file', allowed')
    BY <1>1, <1>2, <2>1
  <2>. QED
    BY <1>1, <2>1, <2>2, StoreKept
<1>. QED
  BY <1>3, <1>4, <1>5, <1>6, <1>7

LEMMA StoreNext ==
  ASSUME StoreInv, [PairingNext]_vars
  PROVE  StoreInv'
<1>. USE DEF procVars, userVars, storeVars
<1>1. host \in {"none", "agent", "recover"} /\ "recover" \in Processes /\ (host # "none" => host \in Processes)
  BY ServingAssumption DEF StoreInv
<1>2. CASE UNCHANGED <<file, store, host, allowed>>
  BY <1>1, <1>2, OpenStore
<1>3. CASE \E c \in Connections : Scan(c) \/ Handle(c) \/ PeerActivity(c)
  BY <1>2, <1>3 DEF Scan, Handle, ServeStart, ServeFinish, Await, PeerActivity
<1>4. CASE ShowPage \/ Status \/ PairingCode \/ Tick
  BY <1>2, <1>4 DEF ShowPage, Status, PairingCode, Tick
<1>5. CASE \E c \in Connections : Deny(c)
  BY <1>2, <1>5 DEF Deny
<1>6. CASE \E c \in Connections : Allow(c)
  BY <1>6, AllowStore
<1>7. CASE \E c \in present \cap Connections : RevokeDevice(Client[c].id)
  <2>1. PICK id : RevokeDevice(id)
    BY <1>7
  <2>2. host \in Processes /\ RevokeBy(host, id) /\ UNCHANGED <<host, allowed>>
    BY <1>1, <2>1 DEF RevokeDevice
  <2>. QED
    BY <2>2, RevokeStore
<1>8. CASE AgentStart
  <2>1. /\ LoadOrCreate("agent") \/ SaveFails("agent", GenerateState)
        /\ host' \in {"none", "agent", "recover"} /\ UNCHANGED allowed
    BY <1>1, <1>8 DEF AgentStart, Begins
  <2>. QED
    BY <2>1, OpenStore
<1>9. CASE RecoverServe \/ RevokeAllStart
  <2>1. Load("recover") /\ host' \in {"none", "agent", "recover"} /\ UNCHANGED allowed
    BY <1>1, <1>9 DEF RecoverServe, RevokeAllStart, Begins
  <2>. QED
    BY <2>1, OpenStore
<1>10. CASE HostStops \/ RecoverPoll \/ RevokeAllEnds
  <2>1. (\E p : Close(p)) /\ host' \in {"none", "agent", "recover"} /\ UNCHANGED allowed
    BY <1>1, <1>10 DEF HostStops, RecoverPoll, Stop, RevokeAllEnds
  <2>. QED
    BY <2>1, OpenStore
<1>11. CASE RevokeAllStep
  <2>1. UNCHANGED <<host, allowed>> /\ (RevokeBy("recover", Head(todo)) \/ UNCHANGED <<file, store>>)
    BY <1>11 DEF RevokeAllStep
  <2>. QED
    BY <1>1, <1>2, <2>1, RevokeStore
<1>12. CASE UNCHANGED vars
  BY <1>2, <1>12 DEF vars
<1>. QED
  BY <1>3, <1>4, <1>5, <1>6, <1>7, <1>8, <1>9, <1>10, <1>11, <1>12 DEF PairingNext

\* What a write answers: a version only with the record it writes, a revocation
\* only of the device whose record it leaves revoked.
Answers(rec, g, a, g2, a2) ==
  /\ \A c \in Connections : g2[c] = g[c] \/ (Client[c].id = rec.d.id /\ g2[c] = rec.version)
  /\ \A id \in a2 : (id \in a /\ id # rec.d.id) \/ (id = rec.d.id /\ rec.state = "revoked")

\* What a write keeps: the record it writes is later than what it replaces.
LEMMA RewriteCarries ==
  ASSUME NEW st, NEW next, NEW rec, Rewrites(st, next, rec), NEW g, NEW a, Carries(st, g, a), NEW g2, NEW a2,
         Answers(rec, g, a, g2, a2)
  PROVE  Carries(next, g2, a2)
<1>0. /\ \A c \in Connections : g2[c] = g[c] \/ (Client[c].id = rec.d.id /\ g2[c] = rec.version)
      /\ \A id \in a2 : (id \in a /\ id # rec.d.id) \/ (id = rec.d.id /\ rec.state = "revoked")
  BY DEF Answers
<1>1. rec.version \in Nat /\ rec \in Records(next) /\ \A r \in Records(next) : r.version \in Int
  <2>1. rec \in Record /\ rec \in Records(next) /\ Kept(next)
    BY DEF Rewrites
  <2>2. rec.version \in Nat
    BY <2>1 DEF Record
  <2>3. \A r \in Records(next) : r.version \in 1..next.counter
    BY <2>1 DEF Kept
  <2>. QED
    BY <2>1, <2>2, <2>3
<1>2. ASSUME NEW c \in Connections
      PROVE  g2[c] \in Nat /\ (g2[c] > 0 => \E r \in Records(next) : r.d.id = Client[c].id /\ r.version >= g2[c])
  <2>1. CASE g2[c] = g[c]
    <3>1. g[c] \in Nat /\ (g[c] > 0 => \E r \in Records(st) : r.d.id = Client[c].id /\ r.version >= g[c])
      BY DEF Carries
    <3>2. SUFFICES ASSUME g[c] > 0 PROVE \E s \in Records(next) : s.d.id = Client[c].id /\ s.version >= g[c]
      BY <2>1, <3>1
    <3>3. PICK r \in Records(st) : r.d.id = Client[c].id /\ r.version >= g[c]
      BY <3>1, <3>2
    <3>4. PICK s \in Records(next) : s.d.id = r.d.id /\ s.version >= r.version
      BY Survives
    <3>5. r.version \in Nat /\ s.version \in Int
      BY <1>1 DEF Rewrites
    <3>6. s.version >= g[c]
      BY <3>1, <3>3, <3>4, <3>5
    <3>. QED
      BY <3>3, <3>4, <3>6
  <2>2. CASE Client[c].id = rec.d.id /\ g2[c] = rec.version
    <3>1. rec.version >= rec.version
      BY <1>1
    <3>. QED
      BY <1>1, <2>2, <3>1
  <2>. QED
    BY <1>0, <2>1, <2>2
<1>3. ASSUME NEW id \in a2 PROVE Out(next, id)
  <2>1. CASE id \in a /\ id # rec.d.id
    <3>1. PICK r \in Records(st) : r.d.id = id /\ r.state = "revoked"
      BY <2>1 DEF Carries, Out
    <3>2. r \in Records(next)
      BY <2>1, <3>1 DEF Rewrites
    <3>. QED
      BY <3>1, <3>2 DEF Out
  <2>2. CASE id = rec.d.id /\ rec.state = "revoked"
    BY <1>1, <2>2 DEF Out
  <2>. QED
    BY <1>0, <2>1, <2>2
<1>. QED
  BY <1>2, <1>3 DEF Carries

LEMMA CarriesLess ==
  ASSUME NEW st, NEW g, NEW a, Carries(st, g, a), NEW g2, NEW a2, \A c \in Connections : g2[c] = g[c], a2 \subseteq a
  PROVE  Carries(st, g2, a2)
<1>1. \A c \in Connections : g2[c] \in Nat /\ (g2[c] > 0 => \E r \in Records(st) : r.d.id = Client[c].id /\ r.version >= g2[c])
  BY DEF Carries
<1>. QED
  BY <1>1 DEF Carries

LEMMA AheadOfItself ==
  ASSUME NEW st, Kept(st)
  PROVE  Ahead(st, st) /\ Ahead(NoState, st)
<1>1. st.counter \in Int /\ \A r \in Records(st) : r.version \in 1..st.counter
  BY DEF Kept
<1>2. \A r \in Records(st) : r.version >= r.version
  BY <1>1
<1>. QED
  BY <1>2, NoRecords DEF Ahead

\* A save by the process that has the file open: the file and its copy are written,
\* or the save fails and the file may be written all the same.
LEMMA WriteCovers ==
  ASSUME StoreInv, Covered, NEW p \in Processes, store[p] # NoState, \A q \in Processes : q # p => store[q] = NoState,
         NEW next, NEW rec, Rewrites(store[p], next, rec),
         \/ /\ Save(p, next)
            /\ \A c \in Connections : granted'[c] = granted[c] \/ (Client[c].id = rec.d.id /\ granted'[c] = rec.version)
            /\ \A id \in acked' : (id \in acked /\ id # rec.d.id) \/ (id = rec.d.id /\ rec.state = "revoked")
         \/ /\ file' \in {file, next} /\ store' = store /\ \A c \in Connections : granted'[c] = granted[c]
            /\ \A id \in acked' : id \in acked /\ (id # rec.d.id \/ rec.state = "revoked")
  PROVE  Covered' /\ \A q \in Processes : store'[q] = NoState <=> store[q] = NoState
<1>1. Carries(store[p], granted, acked) /\ Carries(file, granted, acked) /\ \A q \in Processes : Ahead(store[q], file)
  BY DEF Covered
<1>2. Kept(next) /\ next # NoState
  BY NoRecords DEF Rewrites
<1>3. Ahead(next, next) /\ Ahead(NoState, next)
  BY <1>2, AheadOfItself
<1>4. CASE /\ Save(p, next)
           /\ \A c \in Connections : granted'[c] = granted[c] \/ (Client[c].id = rec.d.id /\ granted'[c] = rec.version)
           /\ \A id \in acked' : (id \in acked /\ id # rec.d.id) \/ (id = rec.d.id /\ rec.state = "revoked")
  <2>1. Carries(next, granted', acked')
    <3>1. Answers(rec, granted, acked, granted', acked')
      BY <1>4 DEF Answers
    <3>. QED
      BY <1>1, <3>1, RewriteCarries
  <2>2. file' = next /\ store' = [store EXCEPT ![p] = next] /\ store = [q \in Processes |-> store[q]]
    BY <1>4 DEF Save, StoreInv
  <2>3. \A q \in Processes : (q = p /\ store'[q] = next) \/ (q # p /\ store'[q] = NoState)
    BY <2>2
  <2>4. \A q \in Processes : Ahead(store'[q], file') /\ (store'[q] # NoState => Carries(store'[q], granted', acked'))
    BY <1>3, <2>1, <2>2, <2>3
  <2>5. Covered'
    BY <2>1, <2>2, <2>4 DEF Covered
  <2>. QED
    BY <1>2, <2>3, <2>5
<1>5. CASE /\ file' \in {file, next} /\ store' = store /\ \A c \in Connections : granted'[c] = granted[c]
           /\ \A id \in acked' : id \in acked /\ (id # rec.d.id \/ rec.state = "revoked")
  <2>1. \A id \in acked' : (id \in acked /\ id # rec.d.id) \/ (id = rec.d.id /\ rec.state = "revoked")
    BY <1>5
  <2>2. Answers(rec, granted, acked, granted', acked')
    BY <1>5, <2>1 DEF Answers
  <2>3. acked' \subseteq acked /\ \A c \in Connections : granted'[c] = granted[c]
    BY <1>5
  <2>4. Carries(next, granted', acked')
    BY <1>1, <2>2, RewriteCarries
  <2>5. Carries(file, granted', acked') /\ Carries(store[p], granted', acked')
    BY <1>1, <2>3, CarriesLess
  <2>6. Ahead(store[p], next)
    <3>1. SUFFICES ASSUME NEW r \in Records(store[p])
                   PROVE  \E s \in Records(next) : s.d.id = r.d.id /\ s.version >= r.version
      BY DEF Ahead
    <3>2. PICK s \in Records(next) : s.d.id = r.d.id /\ s.version >= r.version /\ (r.d.id # rec.d.id => s = r)
      BY Survives
    <3>. QED
      BY <3>2
  <2>7. Carries(file', granted', acked')
    BY <1>5, <2>4, <2>5
  <2>8. \A q \in Processes : Ahead(store[q], file')
    BY <1>1, <1>3, <1>5, <2>6
  <2>9. \A q \in Processes : store[q] # NoState => Carries(store[q], granted', acked')
    BY <2>5
  <2>10. Covered'
    BY <1>5, <2>7, <2>8, <2>9 DEF Covered
  <2>. QED
    BY <1>5, <2>10
<1>. QED
  BY <1>4, <1>5

\* Whoever serves, and revoke-all at work, has the file to itself.
LEMMA HasItAlone ==
  ASSUME StoreInv, Alone, NEW p, (p = host /\ host # "none") \/ (p = "recover" /\ todo # <<>>)
  PROVE  p \in Processes /\ store[p] # NoState /\ \A q \in Processes : q # p => store[q] = NoState
<1>1. host \in {"none", "agent", "recover"} /\ "agent" \in Processes /\ "recover" \in Processes
  BY ServingAssumption DEF StoreInv
<1>2. CASE p = host /\ host # "none"
  <2>1. p \in Processes /\ store[p] # NoState
    BY <1>1, <1>2 DEF Alone
  <2>2. ASSUME NEW q \in Processes, q # p PROVE store[q] = NoState
    <3>1. CASE q # "recover"
      BY <1>2, <2>2, <3>1 DEF Alone
    <3>2. CASE q = "recover"
      BY <1>2, <2>2, <3>2 DEF Alone
    <3>. QED
      BY <3>1, <3>2
  <2>. QED
    BY <2>1, <2>2
<1>3. CASE p = "recover" /\ todo # <<>>
  <2>1. host = "none" /\ store["recover"] # NoState
    BY <1>3 DEF Alone
  <2>2. ASSUME NEW q \in Processes, q # p PROVE store[q] = NoState
    BY <1>3, <2>1, <2>2, ServingAssumption DEF Alone
  <2>. QED
    BY <1>1, <1>3, <2>1, <2>2
<1>. QED
  BY <1>2, <1>3

LEMMA AllowFile ==
  ASSUME StoreInv, FileInv, Answered, NEW c \in Connections, Allow(c)
  PROVE  FileInv'
<1>. DEFINE w == ExpireFlow(World)
            st == store[host]
            id == Client[c].id
<1>1. UNCHANGED <<host, todo>> /\ host # "none"
  BY DEF Allow, procVars
<1>2. /\ host \in Processes /\ st # NoState /\ \A q \in Processes : q # host => store[q] = NoState
      /\ Covered /\ Alone
  <2>1. Covered /\ Alone
    BY DEF FileInv
  <2>. QED
    BY <1>1, <2>1, HasItAlone
<1>3. Kept(st)
  BY <1>2 DEF StoreInv, Fit
<1>4. granted = [b \in Connections |-> granted[b]]
  BY DEF Answered
<1>5. CASE UNCHANGED <<file, store, granted, acked>>
  BY <1>1, <1>2, <1>5 DEF FileInv, Alone, Covered
<1>6. ASSUME NEW r \in Records(st), r.d = Client[c], granted' = [granted EXCEPT ![c] = r.version],
             UNCHANGED <<file, store>>, acked' = acked \ {id}
      PROVE  FileInv'
  <2>1. r.version \in Nat /\ r.d.id = Client[c].id
    BY <1>3, <1>6 DEF Kept
  <2>2. \A b \in Connections : (b = c /\ granted'[b] = r.version) \/ granted'[b] = granted[b]
    BY <1>4, <1>6
  <2>3. ASSUME NEW s, Carries(s, granted, acked), \E t \in Records(s) : t.d.id = r.d.id /\ t.version >= r.version
        PROVE  Carries(s, granted', acked')
    <3>1. ASSUME NEW b \in Connections
          PROVE  granted'[b] \in Nat /\ (granted'[b] > 0 =>
                    \E t \in Records(s) : t.d.id = Client[b].id /\ t.version >= granted'[b])
      <4>1. granted[b] \in Nat /\ (granted[b] > 0 =>
               \E t \in Records(s) : t.d.id = Client[b].id /\ t.version >= granted[b])
        BY <2>3 DEF Carries
      <4>. QED
        BY <2>1, <2>2, <2>3, <4>1
    <3>2. \A i \in acked' : Out(s, i)
      BY <1>6, <2>3 DEF Carries
    <3>. QED
      BY <3>1, <3>2 DEF Carries
  <2>4. Carries(file, granted, acked) /\ Carries(st, granted, acked) /\ Ahead(st, file)
    BY <1>2 DEF Covered
  <2>5. \E t \in Records(file) : t.d.id = r.d.id /\ t.version >= r.version
    BY <2>4 DEF Ahead
  <2>6. r.version >= r.version
    BY <2>1
  <2>7. Carries(file, granted', acked') /\ Carries(st, granted', acked')
    BY <2>3, <2>4, <2>5, <2>6
  <2>8. \A q \in Processes : Ahead(store[q], file) /\ (store[q] # NoState => Carries(store[q], granted', acked'))
    BY <1>2, <2>7 DEF Covered
  <2>9. Covered'
    BY <1>6, <2>7, <2>8 DEF Covered
  <2>. QED
    BY <1>1, <1>2, <1>6, <2>9 DEF FileInv, Alone
<1>7. ASSUME NEW next, NEW rec, Rewrites(st, next, rec), rec.d = Client[c], acked' = acked \ {id},
             \/ Save(host, next) /\ granted' = [granted EXCEPT ![c] = rec.version]
             \/ file' \in {file, next} /\ store' = store /\ granted' = granted
      PROVE  FileInv'
  <2>1. \A i \in acked' : i \in acked /\ i # rec.d.id
    BY <1>7
  <2>2. \/ /\ Save(host, next)
           /\ \A b \in Connections : granted'[b] = granted[b] \/ (Client[b].id = rec.d.id /\ granted'[b] = rec.version)
           /\ \A i \in acked' : (i \in acked /\ i # rec.d.id) \/ (i = rec.d.id /\ rec.state = "revoked")
        \/ /\ file' \in {file, next} /\ store' = store /\ \A b \in Connections : granted'[b] = granted[b]
           /\ \A i \in acked' : i \in acked /\ (i # rec.d.id \/ rec.state = "revoked")
    BY <1>4, <1>7, <2>1
  <2>3. Covered' /\ \A q \in Processes : store'[q] = NoState <=> store[q] = NoState
    BY <1>2, <1>7, <2>2, WriteCovers
  <2>4. Alone'
    BY <1>1, <1>2, <2>3, ServingAssumption DEF Alone
  <2>. QED
    BY <2>3, <2>4 DEF FileInv
<1>8. (w.flow.id = c /\ ApproveFlow(w, c)) \/ UNCHANGED <<file, store, granted, acked>>
  BY DEF Allow, CanDecide, storeVars
<1>9. ASSUME w.flow.id = c, ApproveFlow(w, c)
      PROVE  \/ UNCHANGED <<file, store, granted, acked>>
             \/ /\ UNCHANGED <<file, store>> /\ acked' = acked \ {id}
                /\ \E r \in Records(st) : r.d = Client[c] /\ granted' = [granted EXCEPT ![c] = r.version]
             \/ \E next, rec : /\ Rewrites(st, next, rec) /\ rec.d = Client[c] /\ acked' = acked \ {id}
                               /\ \/ Save(host, next) /\ granted' = [granted EXCEPT ![c] = rec.version]
                                  \/ file' \in {file, next} /\ store' = store /\ granted' = granted
  <2>. HIDE DEF w
  <2>. QED
    BY <1>3, <1>9, ApproveResult
<1>. QED
  BY <1>5, <1>6, <1>7, <1>8, <1>9

LEMMA RevokeFile ==
  ASSUME StoreInv, FileInv, NEW p, (p = host /\ host # "none") \/ (p = "recover" /\ todo # <<>>), NEW id, RevokeBy(p, id),
         UNCHANGED <<host, granted>>, todo' # <<>> => todo # <<>>
  PROVE  FileInv'
<1>1. Covered /\ Alone
  BY DEF FileInv
<1>2. p \in Processes /\ store[p] # NoState /\ \A q \in Processes : q # p => store[q] = NoState
  BY <1>1, HasItAlone
<1>3. Kept(store[p])
  BY <1>2 DEF StoreInv, Fit
<1>4. CASE UNCHANGED <<file, store, acked>>
  BY <1>1, <1>4 DEF FileInv, Alone, Covered
<1>5. ASSUME NEW next, NEW rec, Rewrites(store[p], next, rec), rec.d.id = id, rec.state = "revoked",
             \/ Save(p, next) /\ acked' = acked \cup {id}
             \/ file' \in {file, next} /\ store' = store /\ acked' = acked
      PROVE  FileInv'
  <2>1. \/ /\ Save(p, next)
           /\ \A b \in Connections : granted'[b] = granted[b] \/ (Client[b].id = rec.d.id /\ granted'[b] = rec.version)
           /\ \A i \in acked' : (i \in acked /\ i # rec.d.id) \/ (i = rec.d.id /\ rec.state = "revoked")
        \/ /\ file' \in {file, next} /\ store' = store /\ \A b \in Connections : granted'[b] = granted[b]
           /\ \A i \in acked' : i \in acked /\ (i # rec.d.id \/ rec.state = "revoked")
    BY <1>5
  <2>2. Covered' /\ \A q \in Processes : store'[q] = NoState <=> store[q] = NoState
    BY <1>1, <1>2, <1>5, <2>1, WriteCovers
  <2>3. (host # "none" => host \in Processes) /\ "recover" \in Processes
    BY ServingAssumption DEF StoreInv
  <2>4. Alone'
    BY <1>1, <2>2, <2>3 DEF Alone
  <2>. QED
    BY <2>2, <2>4 DEF FileInv
<1>6. \/ UNCHANGED <<file, store, acked>>
      \/ \E next, rec : /\ Rewrites(store[p], next, rec) /\ rec.d.id = id /\ rec.state = "revoked"
                        /\ \/ Save(p, next) /\ acked' = acked \cup {id}
                           \/ file' \in {file, next} /\ store' = store /\ acked' = acked
  BY <1>3, RevokeResult
<1>. QED
  BY <1>4, <1>5, <1>6

\* A copy that is closed, or loaded from the file, keeps what the file keeps.
LEMMA CopyCovers ==
  ASSUME StoreInv, Covered, NEW p, UNCHANGED <<file, granted, acked>>, NEW st, st = NoState \/ st = file,
         store' = [store EXCEPT ![p] = st]
  PROVE  Covered' /\ (p \in Processes => store'[p] = st) /\ \A q \in Processes : q # p => store'[q] = store[q]
<1>1. Kept(file) /\ store = [q \in Processes |-> store[q]]
  BY DEF StoreInv, Fit
<1>2. \A q \in Processes : (q = p /\ store'[q] = st) \/ (q # p /\ store'[q] = store[q])
  BY <1>1
<1>3. Carries(file, granted, acked) /\ Ahead(st, file) /\ (st # NoState => Carries(st, granted, acked))
  BY <1>1, AheadOfItself DEF Covered
<1>4. \A q \in Processes : Ahead(store'[q], file) /\ (store'[q] # NoState => Carries(store'[q], granted, acked))
  BY <1>2, <1>3 DEF Covered
<1>5. Covered'
  BY <1>3, <1>4 DEF Covered
<1>. QED
  BY <1>2, <1>5

\* The first identity: nothing was granted or revoked before it.
LEMMA FirstCovers ==
  ASSUME StoreInv, Covered, file = NoState, file' \in {NoState, GenerateState}, UNCHANGED <<granted, acked>>,
         store' = store \/ \E p : store' = [store EXCEPT ![p] = file']
  PROVE  Covered'
<1>1. store = [q \in Processes |-> store[q]] /\ Records(NoState) = {} /\ Records(GenerateState) = {}
  BY NoRecords DEF StoreInv
<1>2. \A st : Records(st) = {} => Ahead(st, file')
  BY DEF Ahead
<1>3. \A r \in Records(file) : FALSE
  BY <1>1
<1>4. (\A c \in Connections : granted[c] \in Nat /\ ~(granted[c] > 0)) /\ acked = {}
  BY <1>3 DEF Covered, Carries, Out
<1>5. \A st : Carries(st, granted, acked)
  BY <1>4 DEF Carries
<1>6. \A q \in Processes : Records(store[q]) = {}
  BY <1>3 DEF Covered, Ahead
<1>7. \A q \in Processes : store'[q] = store[q] \/ store'[q] = file'
  BY <1>1
<1>8. \A q \in Processes : Ahead(store'[q], file')
  BY <1>1, <1>2, <1>6, <1>7
<1>. QED
  BY <1>5, <1>8 DEF Covered

LEMMA StartFile ==
  ASSUME StoreInv, FileInv, AgentStart, Exclusive
  PROVE  FileInv'
<1>1. Alone /\ Covered /\ host = "none" /\ UNCHANGED <<todo, granted, acked>>
  BY DEF FileInv, AgentStart, Begins, procVars, userVars
<1>2. CASE file = NoState /\ SaveFails("agent", GenerateState) /\ UNCHANGED host
  <2>1. file' \in {NoState, GenerateState} /\ store' = store
    BY <1>2 DEF SaveFails
  <2>2. Covered'
    BY <1>1, <1>2, <2>1, FirstCovers
  <2>. QED
    BY <1>1, <1>2, <2>1, <2>2 DEF FileInv, Alone
<1>3. CASE Begins("agent") /\ LoadOrCreate("agent")
  <2>1. host' = "agent" /\ store["recover"] = NoState /\ store' = [store EXCEPT !["agent"] = file']
    BY <1>3 DEF Begins, LoadOrCreate
  <2>2. Covered' /\ file' # NoState
    <3>1. CASE file = NoState
      <4>1. file' = GenerateState /\ GenerateState # NoState
        BY <1>3, <3>1 DEF LoadOrCreate, GenerateState, NoState
      <4>2. Covered'
        BY <1>1, <2>1, <3>1, <4>1, FirstCovers
      <4>. QED
        BY <4>1, <4>2
    <3>2. CASE file # NoState
      <4>1. file' = file
        BY <1>3, <3>2 DEF LoadOrCreate
      <4>2. Covered'
        BY <1>1, <2>1, <4>1, CopyCovers
      <4>. QED
        BY <3>2, <4>1, <4>2
    <3>. QED
      BY <3>1, <3>2
  <2>3. "agent" \in Processes /\ "recover" \in Processes /\ store = [q \in Processes |-> store[q]]
    BY ServingAssumption DEF StoreInv
  <2>4. store'["agent"] = file' /\ store'["recover"] = NoState /\ \A q \in Processes : q # "agent" => store'[q] = store[q]
    BY <2>1, <2>3
  <2>5. todo = <<>> /\ \A q \in Processes : q # "recover" => store[q] = NoState
    BY <1>1, <2>1, ServingAssumption DEF Alone
  <2>6. Alone'
    BY <1>1, <2>1, <2>2, <2>4, <2>5 DEF Alone
  <2>. QED
    BY <2>2, <2>6 DEF FileInv
<1>. QED
  BY <1>2, <1>3 DEF AgentStart, procVars

LEMMA RecoverFile ==
  ASSUME StoreInv, FileInv, RecoverServe \/ RevokeAllStart, Exclusive
  PROVE  FileInv'
<1>1. /\ Alone /\ Covered /\ host = "none" /\ UNCHANGED <<file, granted, acked>> /\ file # NoState
      /\ store' = [store EXCEPT !["recover"] = file] /\ store["recover"] = NoState
  BY DEF FileInv, RecoverServe, RevokeAllStart, Begins, userVars, Load
<1>2. (host' = "recover" /\ UNCHANGED todo) \/ UNCHANGED host
  BY DEF RecoverServe, RevokeAllStart, Begins
<1>3. /\ Covered' /\ ("recover" \in Processes => store'["recover"] = file)
      /\ \A q \in Processes : q # "recover" => store'[q] = store[q]
  BY <1>1, CopyCovers
<1>4. todo = <<>> /\ \A q \in Processes : q # "recover" => store[q] = NoState
  BY <1>1, ServingAssumption DEF Alone
<1>5. store'["recover"] = file
  BY <1>3, ServingAssumption
<1>6. Alone'
  BY <1>1, <1>2, <1>3, <1>4, <1>5 DEF Alone
<1>. QED
  BY <1>3, <1>6 DEF FileInv

LEMMA CloseFile ==
  ASSUME StoreInv, FileInv, HostStops \/ RecoverPoll \/ RevokeAllEnds
  PROVE  FileInv'
<1>1. Alone /\ Covered /\ UNCHANGED <<file, granted, acked>> /\ "recover" \in Processes
  BY ServingAssumption DEF FileInv, HostStops, RecoverPoll, Stop, RevokeAllEnds, userVars, Close
<1>2. CASE HostStops \/ RecoverPoll
  <2>1. host # "none" /\ host' = "none" /\ UNCHANGED todo /\ store' = [store EXCEPT ![host] = NoState]
    BY <1>2 DEF HostStops, RecoverPoll, Stop, Close
  <2>2. host \in Processes /\ \A q \in Processes : q # host => store[q] = NoState
    BY <1>1, <2>1, HasItAlone
  <2>3. Covered' /\ store'[host] = NoState /\ \A q \in Processes : q # host => store'[q] = store[q]
    BY <1>1, <2>1, <2>2, CopyCovers
  <2>4. \A q \in Processes : store'[q] = NoState
    BY <2>2, <2>3
  <2>5. todo = <<>>
    BY <1>1, <2>1 DEF Alone
  <2>6. Alone'
    BY <1>1, <2>1, <2>4, <2>5 DEF Alone
  <2>. QED
    BY <2>3, <2>6 DEF FileInv
<1>3. CASE RevokeAllEnds
  <2>1. host # "recover" /\ UNCHANGED host /\ todo' = <<>> /\ store' = [store EXCEPT !["recover"] = NoState]
    BY <1>3 DEF RevokeAllEnds, Close
  <2>2. Covered' /\ store'["recover"] = NoState /\ \A q \in Processes : q # "recover" => store'[q] = store[q]
    BY <1>1, <2>1, CopyCovers
  <2>3. host # "none" => host \in Processes
    BY ServingAssumption DEF StoreInv
  <2>4. Alone'
    BY <1>1, <2>1, <2>2, <2>3 DEF Alone
  <2>. QED
    BY <2>2, <2>4 DEF FileInv
<1>. QED
  BY <1>2, <1>3

LEMMA FileNext ==
  ASSUME StoreInv, FileInv, Answered, [PairingNext]_vars, Exclusive
  PROVE  FileInv'
<1>. USE DEF procVars, userVars, storeVars
<1>1. CASE UNCHANGED <<file, store, host, todo, granted, acked>>
  BY <1>1 DEF FileInv, Alone, Covered
<1>2. CASE \E c \in Connections : Scan(c) \/ Handle(c) \/ PeerActivity(c)
  BY <1>1, <1>2 DEF Scan, Handle, ServeStart, ServeFinish, Await, PeerActivity
<1>3. CASE ShowPage \/ Status \/ PairingCode \/ Tick
  BY <1>1, <1>3 DEF ShowPage, Status, PairingCode, Tick
<1>4. CASE \E c \in Connections : Deny(c)
  BY <1>1, <1>4 DEF Deny
<1>5. CASE \E c \in Connections : Allow(c)
  BY <1>5, AllowFile
<1>6. CASE \E c \in present \cap Connections : RevokeDevice(Client[c].id)
  <2>1. PICK id : RevokeDevice(id)
    BY <1>6
  <2>2. host # "none" /\ RevokeBy(host, id) /\ UNCHANGED <<host, granted>> /\ UNCHANGED todo
    BY <2>1 DEF RevokeDevice
  <2>. QED
    BY <2>2, RevokeFile
<1>7. CASE AgentStart
  BY <1>7, StartFile
<1>8. CASE RecoverServe \/ RevokeAllStart
  BY <1>8, RecoverFile
<1>9. CASE HostStops \/ RecoverPoll \/ RevokeAllEnds
  BY <1>9, CloseFile
<1>10. CASE RevokeAllStep
  <2>1. todo # <<>> /\ UNCHANGED <<host, granted>>
    BY <1>10 DEF RevokeAllStep
  <2>2. CASE RevokeBy("recover", Head(todo))
    BY <2>1, <2>2, RevokeFile
  <2>3. CASE todo' = <<>> /\ UNCHANGED <<file, store, acked>>
    BY <2>1, <2>3 DEF FileInv, Alone, Covered
  <2>. QED
    BY <1>10, <2>2, <2>3 DEF RevokeAllStep
<1>11. CASE UNCHANGED vars
  BY <1>1, <1>11 DEF vars
<1>. QED
  BY <1>2, <1>3, <1>4, <1>5, <1>6, <1>7, <1>8, <1>9, <1>10, <1>11 DEF PairingNext

-----------------------------------------------------------------------------
(* The theorems.                                                           *)

PairingInv == StoreInv /\ PhoneInv /\ (Exclusive => FileInv)

LEMMA InitInv == PairingInit => PairingInv
<1>. SUFFICES ASSUME PairingInit PROVE PairingInv
  OBVIOUS
<1>1. StoreInv
  <2>1. host = "none" /\ file = NoState /\ store = [p \in Processes |-> NoState]
    BY DEF PairingInit
  <2>. QED
    BY <2>1, NoneFits DEF StoreInv
<1>2. Sound(World)
  <2>1. /\ World.inv = NoInvitation /\ World.flow = NoFlow /\ World.dec = [c \in Connections |-> "none"]
        /\ World.spent = [i \in 1..MaxInvitations |-> 0] /\ Shaped(World) /\ now = 0
    BY DEF PairingInit, World, Shaped
  <2>2. NoFlow = [f \in {"id", "phase", "exp"} |-> NoFlow[f]] /\ NoInvitation = [f \in {"id", "exp", "res"} |-> NoInvitation[f]]
    BY DEF NoFlow, NoInvitation
  <2>3. NoInvitation.res = "none" /\ NoInvitation.exp = 0
    BY DEF NoInvitation
  <2>4. /\ World.dec = [c \in Connections |-> World.dec[c]] /\ World.spent = [i \in 1..MaxInvitations |-> World.spent[i]]
        /\ \A i \in 1..MaxInvitations : World.spent[i] = 0
    BY <2>1
  <2>. QED
    BY <2>1, <2>2, <2>3, <2>4 DEF Sound
<1>3. FlowInv
  <2>1. expires = <<>> /\ expires \in Seq(Int) /\ Len(expires) = 0
    BY DEF PairingInit
  <2>. QED
    BY <1>2, <2>1, TimeAssumption DEF FlowInv
<1>4. Answered
  <2>1. /\ conn = [c \in Connections |-> Idle] /\ told = [c \in Connections |-> "none"]
        /\ granted = [c \in Connections |-> 0] /\ dec = [c \in Connections |-> "none"] /\ flow = NoFlow
    BY DEF PairingInit
  <2>2. Idle = [f \in {"at", "inv", "exp"} |-> Idle[f]] /\ Idle.at = "none" /\ NoFlow.id = "none"
    BY DEF Idle, NoFlow
  <2>3. \A c \in Connections : Fine(c, "none", 0, "none", "none", "none")
    BY ConnectionAssumption DEF Fine
  <2>4. \A c \in Connections : conn[c] = Idle /\ told[c] = "none" /\ granted[c] = 0 /\ dec[c] = "none"
    BY <2>1
  <2>5. /\ conn = [c \in Connections |-> conn[c]] /\ told = [c \in Connections |-> told[c]]
        /\ granted = [c \in Connections |-> granted[c]]
    BY <2>1
  <2>6. ASSUME NEW c \in Connections
        PROVE  /\ conn[c] = [f \in {"at", "inv", "exp"} |-> conn[c][f]]
               /\ Fine(c, conn[c].at, granted[c], told[c], dec[c], flow.id)
    BY <2>1, <2>2, <2>3, <2>4
  <2>. QED
    BY <2>5, <2>6 DEF Answered
<1>5. FileInv
  <2>1. /\ host = "none" /\ file = NoState /\ store = [p \in Processes |-> NoState] /\ todo = <<>> /\ acked = {}
        /\ granted = [c \in Connections |-> 0]
    BY DEF PairingInit
  <2>2. Alone
    BY <2>1 DEF Alone
  <2>3. Ahead(NoState, NoState) /\ \A p \in Processes : store[p] = NoState
    BY <2>1, NoRecords, AheadOfItself
  <2>4. ~(0 > 0)
    OBVIOUS
  <2>5. Carries(file, granted, acked)
    BY <2>1, <2>4 DEF Carries
  <2>. QED
    BY <2>1, <2>2, <2>3, <2>5 DEF FileInv, Covered
<1>. QED
  BY <1>1, <1>3, <1>4, <1>5 DEF PairingInv, PhoneInv

LEMMA NextInv == PairingInv /\ [PairingNext]_vars => PairingInv'
<1>. SUFFICES ASSUME PairingInv, [PairingNext]_vars PROVE PairingInv'
  OBVIOUS
<1>1. StoreInv /\ PhoneInv /\ Answered /\ (Exclusive => FileInv)
  BY DEF PairingInv, PhoneInv
<1>2. StoreInv'
  BY <1>1, StoreNext
<1>3. PhoneInv'
  BY <1>1, PhoneNext
<1>4. Exclusive => FileInv'
  BY <1>1, FileNext
<1>. QED
  BY <1>2, <1>3, <1>4 DEF PairingInv

LEMMA Invariance == PairingSpec => []PairingInv
BY InitInv, NextInv, PTL DEF PairingSpec

\* An invitation is reserved only for the active flow and spent on one decision at
\* most, however handlers, pages, expiries and stops interleave.
THEOREM ReservationHasFlowHolds == PairingSpec => []ReservationHasFlow
<1>1. PairingInv => ReservationHasFlow
  <2>. SUFFICES ASSUME PairingInv PROVE ReservationHasFlow
    OBVIOUS
  <2>1. Sound(World) /\ World.inv = inv /\ World.flow = flow /\ World.spent = spent
    BY DEF PairingInv, PhoneInv, FlowInv, World
  <2>2. inv.res # "none" => flow.id = inv.res
    BY <2>1 DEF Sound
  <2>3. DOMAIN spent = 1..MaxInvitations /\ \A i \in 1..MaxInvitations : spent[i] \in {0, 1}
    BY <2>1 DEF Sound
  <2>4. \A i \in DOMAIN spent : spent[i] <= 1
    BY <2>3
  <2>. QED
    BY <2>2, <2>4 DEF ReservationHasFlow
<1>. QED
  BY <1>1, Invariance, PTL

\* Nobody is authorized, in memory or in the file, with a descriptor the user did not
\* allow: whether or not revoke-all runs beside the Agent.
THEOREM AllowedByUserHolds == PairingSpec => []AllowedByUser
<1>1. PairingInv => AllowedByUser
  BY DEF PairingInv, StoreInv, Fit, Records, AllowedByUser
<1>. QED
  BY <1>1, Invariance, PTL

\* What a phone was told is in the file, with revoke-all run by itself.
THEOREM AnswerIsDurableHolds == PairingSpec => [](Exclusive => AnswerIsDurable)
<1>1. PairingInv => (Exclusive => AnswerIsDurable)
  <2>. SUFFICES ASSUME PairingInv, Exclusive, NEW c \in Connections
                PROVE  /\ told[c] = "approved" =>
                            /\ granted[c] > 0 /\ file # NoState
                            /\ \E i \in DOMAIN file.authorized :
                                  /\ file.authorized[i].d.id = Client[c].id
                                  /\ file.authorized[i].version >= granted[c]
                       /\ told[c] = "rejected" => granted[c] = 0
    BY DEF AnswerIsDurable
  <2>1. Fine(c, conn[c].at, granted[c], told[c], dec[c], flow.id)
    BY DEF PairingInv, PhoneInv, Answered
  <2>2. granted[c] > 0 => \E r \in Records(file) : r.d.id = Client[c].id /\ r.version >= granted[c]
    BY DEF PairingInv, FileInv, Covered, Carries
  <2>3. granted[c] > 0 => file # NoState
    BY <2>2, NoRecords
  <2>. QED
    BY <2>1, <2>2, <2>3 DEF Fine, Records
<1>. QED
  BY <1>1, Invariance, PTL

\* A revocation that was reported holds in the file and in the serving process, with
\* revoke-all run by itself: whatever writes fail and whichever process stops.
THEOREM RevocationHoldsAlways == PairingSpec => [](Exclusive => RevocationHolds)
<1>1. PairingInv => (Exclusive => RevocationHolds)
  <2>. SUFFICES ASSUME PairingInv, Exclusive, NEW id \in acked
                PROVE  /\ AuthorizedDevice(file, id) = "revoked"
                       /\ host # "none" => AuthorizedDevice(store[host], id) = "revoked"
    BY DEF RevocationHolds
  <2>1. Alone /\ Covered /\ StoreInv
    BY DEF PairingInv, FileInv
  <2>2. Kept(file) /\ Out(file, id)
    BY <2>1 DEF StoreInv, Fit, Covered, Carries
  <2>3. ASSUME host # "none" PROVE AuthorizedDevice(store[host], id) = "revoked"
    <3>1. host \in Processes /\ store[host] # NoState
      BY <2>1, <2>3, HasItAlone
    <3>2. Kept(store[host]) /\ Out(store[host], id)
      BY <2>1, <3>1 DEF StoreInv, Fit, Covered, Carries
    <3>. QED
      BY <3>2, RevokedIsOut
  <2>. QED
    BY <2>2, <2>3, RevokedIsOut
<1>. QED
  BY <1>1, Invariance, PTL

\* What revoke-all announces, run by itself: a device it reported stays revoked in the
\* file.  Beside a serving process it does not (run recover_lost_revocation).
THEOREM RevokeAllSticksAlone == PairingSpec => [](Exclusive => RevokeAllSticks)
<1>1. RevocationHolds => RevokeAllSticks
  BY DEF RevocationHolds, RevokeAllSticks
<1>. QED
  BY <1>1, RevocationHoldsAlways, PTL
=============================================================================

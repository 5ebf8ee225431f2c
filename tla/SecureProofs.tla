---------------------------- MODULE SecureProofs ----------------------------
(***************************************************************************)
(* What ConnectionProofs rests on, for any number of requests, handshakes, *)
(* frames and changes of the store: how the changes of the identity store  *)
(* bear on what was read from it earlier, what each step of an upgrade     *)
(* request does to the gate, and that the steps of a handshake and of the  *)
(* transport keep the inductive invariant SecureInv.                       *)
(***************************************************************************)
EXTENDS Connection, TLAPS

\* A leaf is tried with Zenon, then with SMT, for at most so many seconds.
USE ZenonT(5), SMTT(20)

-----------------------------------------------------------------------------
(* The store: each device has one record, and the Agent has none.          *)

Descriptors == {Device, Newer, Old}
Record == [d : Descriptors, version : Nat, state : {"authorized", "revoked"}, epoch : Nat]
State == [authorized : Seq(Record), counter : Nat, epoch : Nat]

Distinct(st) ==
  \A i, j \in 1..Len(st.authorized) : st.authorized[i].d.id = st.authorized[j].d.id => i = j

StoreInv == store \in [Processes -> State] /\ Distinct(store["agent"])

\* The device has not been revoked since the epoch.
NotSince(st, id, epoch) ==
  LET i == IndexOf(st, id)
  IN  i # 0 /\ st.authorized[i].state = "revoked" => epoch < st.authorized[i].epoch

-----------------------------------------------------------------------------
(* The gate: a nonce that was consumed stays consumed, and one request has *)
(* consumed it.                                                            *)

UpgradePcs == {"none", "nonce", "lookup", "sign", "admitted", "refused"}
Upgrades ==
  [pc : UpgradePcs, cred : Credentials \cup {NoUpgrade.cred}, nonce : Nat, host : Hosts \cup {"none"},
   web : BOOLEAN, began : Nat, signing : {AgentID, "none"} \cup {d.signing : d \in Descriptors}, epoch : Nat]

Spent(r) == upgrade[r].pc \in {"lookup", "sign", "admitted"}

GateInv ==
  /\ issued \in Nat /\ clock \in Nat
  /\ nonces \subseteq [id : Nat, expires : Nat, host : Hosts, consumed : BOOLEAN]
  /\ upgrade \in [Requests -> Upgrades]
  /\ \A n \in nonces : n.id \in 1..issued
  /\ \A r \in Requests : upgrade[r].pc # "none" => upgrade[r].nonce \in 1..issued
  /\ \A r \in Requests : Spent(r) =>
       /\ \A n \in nonces : n.id = upgrade[r].nonce => n.consumed
       /\ \A q \in Requests : Spent(q) /\ upgrade[q].nonce = upgrade[r].nonce => q = r
  /\ \A r \in Requests : upgrade[r].pc # "none" =>
       /\ upgrade[r].began <= store["agent"].epoch
       /\ upgrade[r].web => upgrade[r].cred.id = AgentID
       /\ upgrade[r].pc \in {"sign", "admitted"} => NotSince(store["agent"], upgrade[r].cred.id, upgrade[r].began)

-----------------------------------------------------------------------------
(* Sequences: a member replaced or added.                                  *)

LEMMA Replaced ==
  ASSUME NEW S, NEW q \in Seq(S), NEW e \in S, NEW i \in 1..Len(q)
  PROVE  /\ [q EXCEPT ![i] = e] \in Seq(S) /\ Len([q EXCEPT ![i] = e]) = Len(q)
         /\ \A j \in 1..Len(q) : [q EXCEPT ![i] = e][j] = IF j = i THEN e ELSE q[j]
OBVIOUS

LEMMA Added ==
  ASSUME NEW S, NEW q \in Seq(S), NEW e \in S
  PROVE  /\ Append(q, e) \in Seq(S) /\ Append(q, e) # <<>>
         /\ Len(q) \in Nat /\ Len(Append(q, e)) = Len(q) + 1
         /\ Append(q, e)[Len(q) + 1] = e /\ \A i \in 1..Len(q) : Append(q, e)[i] = q[i]
OBVIOUS

-----------------------------------------------------------------------------
(* What a change of the store does.                                        *)

\* The index of a device is that of its one record, and 0 without one.
LEMMA Index ==
  ASSUME NEW st \in State, Distinct(st), NEW id
  PROVE  \/ /\ IndexOf(st, id) = 0 /\ \A i \in 1..Len(st.authorized) : st.authorized[i].d.id # id
         \/ /\ IndexOf(st, id) \in 1..Len(st.authorized) /\ IndexOf(st, id) # 0
            /\ st.authorized[IndexOf(st, id)].d.id = id
            /\ \A i \in 1..Len(st.authorized) : st.authorized[i].d.id = id => i = IndexOf(st, id)
<1>. DEFINE at == {i \in DOMAIN st.authorized : st.authorized[i].d.id = id}
<1>1. st.authorized \in Seq(Record) /\ DOMAIN st.authorized = 1..Len(st.authorized) /\ Len(st.authorized) \in Nat
  BY DEF State
<1>2. CASE at = {}
  BY <1>1, <1>2 DEF IndexOf
<1>3. CASE at # {}
  <2>1. PICK i : i \in at
    BY <1>3
  <2>2. i \in 1..Len(st.authorized) /\ i # 0 /\ st.authorized[i].d.id = id
    BY <1>1, <2>1
  <2>3. \A j \in 1..Len(st.authorized) : st.authorized[j].d.id = id => j = i
    BY <2>2 DEF Distinct
  <2>4. at = {i}
    BY <1>1, <2>1, <2>3
  <2>5. IndexOf(st, id) = CHOOSE k \in at : \A j \in at : k <= j
    BY <1>3 DEF IndexOf
  <2>6. i <= i /\ i \in Nat
    BY <2>2
  <2>. HIDE DEF at
  <2>7. (CHOOSE k \in at : \A j \in at : k <= j) = i
    BY <2>4, <2>6
  <2>. QED
    BY <2>2, <2>3, <2>5, <2>7
<1>. QED
  BY <1>2, <1>3

\* From one state of the store to the next: records stay, the epoch does not go
\* back, and a record that is revoked was so before or is so with a later epoch.
Grows(st, next) ==
  /\ next \in State /\ Distinct(next) /\ st.epoch <= next.epoch
  /\ \A id :
       LET i == IndexOf(st, id)
           j == IndexOf(next, id)
       IN  /\ i # 0 => j # 0
           /\ j # 0 /\ next.authorized[j].state = "revoked" =>
                \/ i # 0 /\ next.authorized[j] = st.authorized[i]
                \/ st.epoch < next.authorized[j].epoch

\* Revoke and Authorize write one record, of the device they are about.
LEMMA WriteRecord ==
  ASSUME NEW st \in State, Distinct(st), NEW rec \in Record, NEW next \in State, st.epoch <= next.epoch,
         LET i == IndexOf(st, rec.d.id)
         IN  next.authorized = IF i = 0 THEN Append(st.authorized, rec) ELSE [st.authorized EXCEPT ![i] = rec],
         rec.state = "revoked" => st.epoch < rec.epoch
  PROVE  Grows(st, next) /\ IndexOf(next, rec.d.id) # 0
<1>. DEFINE i == IndexOf(st, rec.d.id)
            old == st.authorized
            new == next.authorized
<1>1. old \in Seq(Record) /\ new \in Seq(Record) /\ st.epoch \in Nat /\ next.epoch \in Nat /\ Len(old) \in Nat
  <2>1. st.authorized \in Seq(Record) /\ st.epoch \in Nat
    BY DEF State
  <2>2. next.authorized \in Seq(Record) /\ next.epoch \in Nat
    BY DEF State
  <2>3. Len(st.authorized) \in Nat
    BY <2>1
  <2>. QED
    BY <2>1, <2>2, <2>3
<1>2. PICK k \in 1..Len(new) :
        /\ new[k] = rec /\ (k \in 1..Len(old) => old[k].d.id = rec.d.id)
        /\ \A j \in 1..Len(new) : j = k \/ (j \in 1..Len(old) /\ new[j] = old[j])
        /\ \A j \in 1..Len(old) : j \in 1..Len(new) /\ (j = k \/ new[j] = old[j])
        /\ \A j \in 1..Len(old) : old[j].d.id = rec.d.id => j = k
  <2>1. CASE i = 0
    <3>1. new = Append(old, rec) /\ \A j \in 1..Len(old) : old[j].d.id # rec.d.id
      BY <2>1, Index
    <3>2. /\ Len(new) = Len(old) + 1 /\ new[Len(old) + 1] = rec /\ \A j \in 1..Len(old) : new[j] = old[j]
      BY <1>1, <3>1, Added
    <3>3. \A j \in 1..Len(new) : j = Len(old) + 1 \/ j \in 1..Len(old)
      BY <1>1, <3>2
    <3>4. Len(old) + 1 \in 1..Len(new) /\ Len(old) + 1 \notin 1..Len(old) /\ \A j \in 1..Len(old) : j \in 1..Len(new)
      BY <1>1, <3>2
    <3>. QED
      BY <3>1, <3>2, <3>3, <3>4
  <2>2. CASE i # 0
    <3>1. /\ i \in 1..Len(old) /\ old[i].d.id = rec.d.id
          /\ \A j \in 1..Len(old) : old[j].d.id = rec.d.id => j = i
          /\ new = [old EXCEPT ![i] = rec]
      <4>1. i = IndexOf(st, rec.d.id) /\ old = st.authorized /\ new = [old EXCEPT ![i] = rec]
        BY <2>2
      <4>2. /\ i \in 1..Len(old) /\ old[i].d.id = rec.d.id
            /\ \A j \in 1..Len(old) : old[j].d.id = rec.d.id => j = i
        BY <2>2, Index
      <4>. QED
        BY <4>1, <4>2
    <3>2. Len(new) = Len(old) /\ new[i] = rec /\ \A j \in 1..Len(old) : j = i \/ new[j] = old[j]
      BY <1>1, <3>1, Replaced
    <3>. QED
      BY <3>1, <3>2
  <2>. QED
    BY <2>1, <2>2
<1>3. Distinct(next)
  BY <1>1, <1>2 DEF Distinct
<1>4. ASSUME NEW id
      PROVE  /\ IndexOf(st, id) # 0 => IndexOf(next, id) # 0
             /\ IndexOf(next, id) # 0 /\ new[IndexOf(next, id)].state = "revoked" =>
                  \/ IndexOf(st, id) # 0 /\ new[IndexOf(next, id)] = old[IndexOf(st, id)]
                  \/ st.epoch < new[IndexOf(next, id)].epoch
  <2>. DEFINE a == IndexOf(st, id)
              b == IndexOf(next, id)
  <2>1. \/ a = 0 /\ \A j \in 1..Len(old) : old[j].d.id # id
        \/ a \in 1..Len(old) /\ a # 0 /\ old[a].d.id = id /\ \A j \in 1..Len(old) : old[j].d.id = id => j = a
    BY Index
  <2>2. \/ b = 0 /\ \A j \in 1..Len(new) : new[j].d.id # id
        \/ b \in 1..Len(new) /\ b # 0 /\ new[b].d.id = id
    BY <1>3, Index
  <2>. HIDE DEF a, b
  <2>3. ASSUME a # 0
        PROVE  b # 0
    <3>1. a \in 1..Len(old) /\ old[a].d.id = id
      BY <2>1, <2>3
    <3>2. a \in 1..Len(new) /\ (a = k \/ new[a] = old[a])
      BY <1>2, <3>1
    <3>3. new[a].d.id = id
      BY <1>2, <3>1, <3>2
    <3>. QED
      BY <2>2, <3>2, <3>3
  <2>4. ASSUME b # 0, new[b].state = "revoked"
        PROVE  (a # 0 /\ new[b] = old[a]) \/ st.epoch < new[b].epoch
    <3>1. b \in 1..Len(new) /\ new[b].d.id = id
      BY <2>2, <2>4
    <3>2. CASE b = k
      BY <1>2, <2>4, <3>2
    <3>3. CASE b \in 1..Len(old) /\ new[b] = old[b]
      <4>1. old[b].d.id = id
        BY <3>1, <3>3
      <4>2. a # 0 /\ a = b
        BY <2>1, <3>3, <4>1
      <4>. QED
        BY <3>3, <4>2
    <3>. QED
      BY <1>2, <3>1, <3>2, <3>3
  <2>. QED
    BY <2>3, <2>4 DEF a, b
<1>5. IndexOf(next, rec.d.id) # 0
  <2>1. k \in 1..Len(new) /\ new[k].d.id = rec.d.id
    BY <1>2
  <2>2. IndexOf(next, rec.d.id) = 0 => \A j \in 1..Len(new) : new[j].d.id # rec.d.id
    BY <1>3, Index
  <2>. QED
    BY <2>1, <2>2
<1>. QED
  BY <1>3, <1>4, <1>5 DEF Grows

LEMMA AuthorizeGrows ==
  ASSUME NEW st \in State, Distinct(st), NEW d \in Descriptors
  PROVE  Grows(st, Authorized(st, d)) /\ IndexOf(Authorized(st, d), d.id) # 0
<1>. DEFINE i == IndexOf(st, d.id)
            next == Authorized(st, d)
<1>1. Word(st.counter + 1) \in Nat
  BY CounterAssumption DEF State, Word
<1>2. PICK rec \in Record :
        rec = [d |-> d, version |-> Word(st.counter + 1), state |-> "authorized", epoch |-> 0]
  BY <1>1 DEF Record
<1>3. rec.d = d /\ rec.state = "authorized"
  BY <1>2
<1>4. /\ next.authorized = IF i = 0 THEN Append(st.authorized, rec) ELSE [st.authorized EXCEPT ![i] = rec]
      /\ next.epoch = st.epoch /\ next.counter = Word(st.counter + 1)
  <2>1. next.authorized = IF i = 0 THEN Append(st.authorized, rec) ELSE [st.authorized EXCEPT ![i] = rec]
    BY <1>2 DEF Authorized, State
  <2>2. next.epoch = st.epoch
    BY DEF Authorized, State
  <2>3. next.counter = Word(st.counter + 1)
    BY DEF Authorized, State
  <2>. QED
    BY <2>1, <2>2, <2>3
<1>5. next.authorized \in Seq(Record)
  <2>1. st.authorized \in Seq(Record)
    BY DEF State
  <2>2. CASE i = 0
    BY <1>4, <2>1, <2>2, Added
  <2>3. CASE i # 0
    <3>1. i \in 1..Len(st.authorized)
      BY <2>3, Index
    <3>. QED
      BY <1>4, <2>1, <2>3, <3>1, Replaced
  <2>. QED
    BY <2>2, <2>3
<1>6. next \in State /\ st.epoch <= next.epoch
  <2>1. st.epoch \in Nat /\ st.epoch <= st.epoch
    BY DEF State
  <2>2. next \in State
    BY <1>1, <1>4, <1>5 DEF Authorized, State
  <2>. QED
    BY <1>4, <2>1, <2>2
<1>. HIDE DEF next, i
<1>7. Grows(st, next) /\ IndexOf(next, rec.d.id) # 0
  BY <1>3, <1>4, <1>6, WriteRecord DEF i
<1>. QED
  BY <1>3, <1>7 DEF next

LEMMA RevokeGrows ==
  ASSUME NEW st \in State, Distinct(st), NEW id, IndexOf(st, id) # 0
  PROVE  Grows(st, Revoked(st, id))
<1>. DEFINE i == IndexOf(st, id)
            next == Revoked(st, id)
<1>1. /\ i \in 1..Len(st.authorized) /\ st.authorized[i].d.id = id /\ st.authorized \in Seq(Record)
      /\ st.authorized[i] \in Record
  BY Index DEF State
<1>2. PICK rec \in Record :
        rec = [d |-> st.authorized[i].d, version |-> st.counter + 1, state |-> "revoked", epoch |-> st.epoch + 1]
  <2>1. st.counter + 1 \in Nat /\ st.epoch + 1 \in Nat
    BY DEF State
  <2>2. st.authorized[i].d \in Descriptors
    BY <1>1 DEF Record
  <2>. QED
    BY <2>1, <2>2 DEF Record
<1>3. rec.d.id = id /\ rec.epoch = st.epoch + 1
  BY <1>1, <1>2
<1>. HIDE DEF i
<1>4. /\ next.authorized = [st.authorized EXCEPT ![i] = rec]
      /\ next.epoch = st.epoch + 1 /\ next.counter = st.counter + 1
  <2>. DEFINE A == st.authorized
              B == [[[A EXCEPT ![i].version = st.counter + 1] EXCEPT ![i].state = "revoked"]
                      EXCEPT ![i].epoch = st.epoch + 1]
              R == [[[A[i] EXCEPT !.version = st.counter + 1] EXCEPT !.state = "revoked"]
                      EXCEPT !.epoch = st.epoch + 1]
  <2>1. next.authorized = B
    BY DEF Revoked, State, i
  <2>2. next.epoch = st.epoch + 1
    BY DEF Revoked, State
  <2>3. next.counter = st.counter + 1
    BY DEF Revoked, State
  <2>4. A \in [1..Len(A) -> Record] /\ i \in 1..Len(A)
    BY <1>1
  <2>5. B = [A EXCEPT ![i] = R]
    BY <2>4
  <2>6. R \in Record
    <3>1. A[i] \in Record /\ st.counter + 1 \in Nat /\ st.epoch + 1 \in Nat
      BY <1>1 DEF State
    <3>. QED
      BY <3>1 DEF Record
  <2>7. R.d = A[i].d /\ R.version = st.counter + 1 /\ R.state = "revoked" /\ R.epoch = st.epoch + 1
    BY <1>1 DEF Record
  <2>. HIDE DEF R
  <2>8. R = rec
    BY <1>2, <2>6, <2>7 DEF Record
  <2>. QED
    BY <2>1, <2>2, <2>3, <2>5, <2>8
<1>5. next \in State /\ st.epoch <= next.epoch /\ st.epoch < rec.epoch
  <2>1. next.authorized \in Seq(Record)
    BY <1>1, <1>4, Replaced
  <2>2. st.counter + 1 \in Nat /\ st.epoch + 1 \in Nat /\ st.epoch \in Nat
    BY DEF State
  <2>3. next \in State
    BY <1>4, <2>1, <2>2 DEF State, Revoked
  <2>. QED
    BY <1>3, <1>4, <2>2, <2>3
<1>. HIDE DEF next
<1>6. Grows(st, next)
  BY <1>3, <1>4, <1>5, WriteRecord DEF i
<1>. QED
  BY <1>6 DEF next

LEMMA InitStore == Init => StoreInv
<1>. SUFFICES ASSUME Init PROVE StoreInv
  OBVIOUS
<1>. DEFINE a == Authorized(GenerateState, Old)
            b == Revoked(a, Old.id)
<1>1. GenerateState \in State /\ Distinct(GenerateState)
  BY DEF GenerateState, State, Distinct
<1>2. a \in State /\ Distinct(a) /\ IndexOf(a, Old.id) # 0
  BY <1>1, AuthorizeGrows DEF Grows, Descriptors
<1>3. b \in State /\ Distinct(b)
  BY <1>2, RevokeGrows DEF Grows
<1>4. file \in State /\ Distinct(file)
  BY <1>3, AuthorizeGrows DEF Grows, Descriptors, Init
<1>. QED
  BY <1>4, AgentAssumption DEF Init, StoreInv

LEMMA ChangesStore ==
  ASSUME StoreInv, Changes
  PROVE  StoreInv' /\ Grows(store["agent"], store'["agent"])
<1>1. store["agent"] \in State /\ Distinct(store["agent"])
  BY AgentAssumption DEF StoreInv
<1>2. PICK next : Grows(store["agent"], next) /\ Save("agent", next)
  <2>1. CASE CanRevoke(store["agent"], Device.id) /\ Save("agent", Revoked(store["agent"], Device.id))
    BY <1>1, <2>1, RevokeGrows DEF CanRevoke, AuthorizedDevice
  <2>2. CASE \E d \in {Device, Newer} : Save("agent", Authorized(store["agent"], d))
    BY <1>1, <2>2, AuthorizeGrows DEF Descriptors
  <2>. QED
    BY <2>1, <2>2 DEF Changes
<1>3. next \in State /\ Distinct(next)
  BY <1>2 DEF Grows
<1>4. store' = [store EXCEPT !["agent"] = next]
  BY <1>2 DEF Save
<1>. QED
  BY <1>2, <1>3, <1>4, AgentAssumption DEF StoreInv

\* A device that was not revoked since an epoch of the past still is not, or was
\* revoked with a later one.
LEMMA StillNotSince ==
  ASSUME NEW st \in State, NEW next, Grows(st, next), NEW id, NEW epoch \in Nat, epoch <= st.epoch,
         NotSince(st, id, epoch)
  PROVE  NotSince(next, id, epoch)
<1>. DEFINE i == IndexOf(st, id)
            j == IndexOf(next, id)
<1>1. SUFFICES ASSUME j # 0, next.authorized[j].state = "revoked" PROVE epoch < next.authorized[j].epoch
  BY DEF NotSince
<1>2. (i # 0 /\ next.authorized[j] = st.authorized[i]) \/ st.epoch < next.authorized[j].epoch
  BY <1>1 DEF Grows
<1>3. CASE i # 0 /\ next.authorized[j] = st.authorized[i]
  BY <1>1, <1>3 DEF NotSince
<1>4. CASE st.epoch < next.authorized[j].epoch
  <2>1. next \in State /\ Distinct(next)
    BY DEF Grows
  <2>2. j \in 1..Len(next.authorized)
    BY <1>1, <2>1, Index
  <2>3. next.authorized \in Seq(Record)
    BY <2>1 DEF State
  <2>4. next.authorized[j] \in Record
    BY <2>2, <2>3
  <2>5. next.authorized[j].epoch \in Nat /\ st.epoch \in Nat
    BY <2>4 DEF Record, State
  <2>. QED
    BY <1>4, <2>5
<1>. QED
  BY <1>2, <1>3, <1>4

LEMMA AgentHasNoRecord ==
  ASSUME StoreInv
  PROVE  IndexOf(store["agent"], AgentID) = 0
<1>1. store["agent"] \in State /\ Distinct(store["agent"])
  BY AgentAssumption DEF StoreInv
<1>2. store["agent"].authorized \in Seq(Record)
  BY <1>1 DEF State
<1>3. ASSUME NEW i \in 1..Len(store["agent"].authorized)
      PROVE  store["agent"].authorized[i].d.id # AgentID
  <2>1. store["agent"].authorized[i] \in Record
    BY <1>2
  <2>2. store["agent"].authorized[i].d \in Descriptors
    BY <2>1 DEF Record
  <2>3. \A d \in Descriptors : d.id # AgentID
    BY AgentAssumption DEF Descriptors
  <2>. QED
    BY <2>2, <2>3
<1>. QED
  BY <1>1, <1>3, Index

-----------------------------------------------------------------------------
(* The gate.                                                               *)

LEMMA InitGate == Init => GateInv
BY DEF Init, GateInit, GateInv, Spent, NoUpgrade, Upgrades, UpgradePcs

LEMMA GateGrows ==
  ASSUME StoreInv, GateInv, gateVars' = gateVars, Grows(store["agent"], store'["agent"])
  PROVE  GateInv'
<1>1. /\ store["agent"] \in State /\ store["agent"].epoch \in Nat /\ store'["agent"].epoch \in Nat
      /\ store["agent"].epoch <= store'["agent"].epoch
  <2>1. store["agent"] \in State
    BY AgentAssumption DEF StoreInv
  <2>2. store'["agent"] \in State /\ store["agent"].epoch <= store'["agent"].epoch
    BY DEF Grows
  <2>. QED
    BY <2>1, <2>2 DEF State
<1>2. ASSUME NEW r \in Requests, upgrade[r].pc # "none"
      PROVE  /\ upgrade[r].began <= store'["agent"].epoch
             /\ upgrade[r].pc \in {"sign", "admitted"} =>
                  NotSince(store'["agent"], upgrade[r].cred.id, upgrade[r].began)
  <2>1. upgrade[r].began \in Nat /\ upgrade[r].began <= store["agent"].epoch
    BY <1>2 DEF GateInv, Upgrades
  <2>2. upgrade[r].pc \in {"sign", "admitted"} => NotSince(store["agent"], upgrade[r].cred.id, upgrade[r].began)
    BY <1>2 DEF GateInv
  <2>. QED
    BY <1>1, <2>1, <2>2, StillNotSince
<1>. QED
  BY <1>2 DEF GateInv, gateVars, Spent

\* One request takes a step, and nonces stay consumed.
LEMMA RequestSteps ==
  ASSUME StoreInv, GateInv, storeVars' = storeVars, issued' = issued, clock' = clock,
         NEW r \in Requests, NEW u \in Upgrades, upgrade' = [upgrade EXCEPT ![r] = u],
         nonces' \subseteq [id : Nat, expires : Nat, host : Hosts, consumed : BOOLEAN],
         \A n \in nonces' : \E m \in nonces : n.id = m.id /\ (m.consumed => n.consumed),
         u.pc # "none", u.nonce \in 1..issued,
         u.pc \in {"lookup", "sign", "admitted"} =>
           /\ \A n \in nonces' : n.id = u.nonce => n.consumed
           /\ \A q \in Requests : Spent(q) /\ upgrade[q].nonce = u.nonce => q = r,
         u.began <= store["agent"].epoch, u.web => u.cred.id = AgentID,
         u.pc \in {"sign", "admitted"} => NotSince(store["agent"], u.cred.id, u.began)
  PROVE  GateInv'
<1>1. upgrade' \in [Requests -> Upgrades] /\ upgrade'[r] = u /\ \A q \in Requests : q # r => upgrade'[q] = upgrade[q]
  BY DEF GateInv
<1>2. \A n \in nonces' : n.id \in 1..issued
  BY DEF GateInv
<1>3. \A q \in Requests : upgrade'[q].pc # "none" => upgrade'[q].nonce \in 1..issued
  BY <1>1 DEF GateInv
<1>4. ASSUME NEW p \in Requests, Spent(p)'
      PROVE  /\ \A n \in nonces' : n.id = upgrade'[p].nonce => n.consumed
             /\ \A q \in Requests : Spent(q)' /\ upgrade'[q].nonce = upgrade'[p].nonce => q = p
  <2>1. CASE p = r
    BY <1>1, <1>4, <2>1 DEF Spent
  <2>2. CASE p # r
    <3>1. Spent(p) /\ upgrade'[p] = upgrade[p]
      BY <1>1, <1>4, <2>2 DEF Spent
    <3>2. \A n \in nonces : n.id = upgrade[p].nonce => n.consumed
      BY <3>1 DEF GateInv
    <3>3. \A q \in Requests : Spent(q) /\ upgrade[q].nonce = upgrade[p].nonce => q = p
      BY <3>1 DEF GateInv
    <3>4. \A n \in nonces' : n.id = upgrade[p].nonce => n.consumed
      BY <3>2
    <3>5. \A q \in Requests : Spent(q)' /\ upgrade'[q].nonce = upgrade[p].nonce => q = p
      BY <1>1, <3>1, <3>3 DEF Spent
    <3>. QED
      BY <3>1, <3>4, <3>5
  <2>. QED
    BY <2>1, <2>2
<1>5. ASSUME NEW q \in Requests, upgrade'[q].pc # "none"
      PROVE  /\ upgrade'[q].began <= store["agent"].epoch
             /\ upgrade'[q].web => upgrade'[q].cred.id = AgentID
             /\ upgrade'[q].pc \in {"sign", "admitted"} =>
                  NotSince(store["agent"], upgrade'[q].cred.id, upgrade'[q].began)
  BY <1>1, <1>5 DEF GateInv
<1>6. store' = store /\ issued' \in Nat /\ clock' \in Nat
  BY DEF storeVars, GateInv
<1>. QED
  BY <1>1, <1>2, <1>3, <1>4, <1>5, <1>6 DEF GateInv

LEMMA ArriveGate ==
  ASSUME StoreInv, GateInv, storeVars' = storeVars, NEW r \in Requests, NEW cred \in Credentials,
         NEW id \in 1..issued, NEW host \in Hosts, Arrive(r, cred, id, host)
  PROVE  GateInv'
<1>. DEFINE u == [NoUpgrade EXCEPT !.pc = "nonce", !.cred = cred, !.nonce = id, !.host = host,
                                   !.web = (cred.id = AgentID), !.began = store["agent"].epoch]
<1>1. store["agent"].epoch \in Nat /\ id \in Nat
  BY AgentAssumption DEF StoreInv, State, GateInv
<1>2. u \in Upgrades
  BY <1>1 DEF Upgrades, UpgradePcs, NoUpgrade
<1>3. /\ u.pc = "nonce" /\ u.nonce = id /\ u.began = store["agent"].epoch
      /\ u.cred = cred /\ (u.web => u.cred.id = AgentID)
  BY DEF NoUpgrade
<1>4. upgrade' = [upgrade EXCEPT ![r] = u] /\ clock' = clock /\ nonces' = nonces /\ issued' = issued
  BY DEF Arrive
<1>5. /\ nonces' \subseteq [id : Nat, expires : Nat, host : Hosts, consumed : BOOLEAN]
      /\ \A n \in nonces' : \E m \in nonces : n.id = m.id /\ (m.consumed => n.consumed)
  BY <1>4 DEF GateInv
<1>. HIDE DEF u
<1>6. u.pc # "none" /\ u.pc \notin {"lookup", "sign", "admitted"} /\ u.pc \notin {"sign", "admitted"}
  BY <1>3
<1>7. u.nonce \in 1..issued /\ u.began <= store["agent"].epoch
  BY <1>1, <1>3
<1>. QED
  BY <1>2, <1>3, <1>4, <1>5, <1>6, <1>7, RequestSteps

LEMMA ConsumeNonceGate ==
  ASSUME StoreInv, GateInv, storeVars' = storeVars, NEW r \in Requests, ConsumeNonce(r)
  PROVE  GateInv'
<1>. DEFINE u == upgrade[r]
            next == IF ~Consumable(u.nonce, u.host) THEN "refused" ELSE IF u.web THEN "sign" ELSE "lookup"
            w == [[u EXCEPT !.pc = next] EXCEPT !.signing = IF next = "sign" THEN AgentID ELSE @]
            Nonces == [id : Nat, expires : Nat, host : Hosts, consumed : BOOLEAN]
<1>1. /\ u \in Upgrades /\ u.pc = "nonce" /\ u.nonce \in 1..issued
      /\ u.began <= store["agent"].epoch /\ (u.web => u.cred.id = AgentID)
  BY DEF GateInv, ConsumeNonce
<1>2. next \in {"refused", "sign", "lookup"} /\ (next = "sign" => u.web)
  OBVIOUS
<1>3. /\ nonces' = Consumed(u.nonce, u.host)
      /\ upgrade' = [[upgrade EXCEPT ![r].pc = next] EXCEPT ![r].signing = IF next = "sign" THEN AgentID ELSE @]
      /\ clock' = clock /\ issued' = issued
  BY DEF ConsumeNonce
<1>4. nonces \subseteq Nonces /\ Evicted(clock) \subseteq nonces
  BY DEF GateInv, Evicted
<1>5. next # "refused" => Consumable(u.nonce, u.host)
  OBVIOUS
<1>6. /\ nonces' \subseteq Nonces
      /\ \A n \in nonces' : \E m \in nonces : n.id = m.id /\ (m.consumed => n.consumed)
      /\ next # "refused" => \A n \in nonces' : n.id = u.nonce => n.consumed
  <2>1. CASE ~Consumable(u.nonce, u.host)
    BY <1>3, <1>4, <1>5, <2>1 DEF Consumed
  <2>2. CASE Consumable(u.nonce, u.host)
    <3>1. nonces' = {[n EXCEPT !.consumed = @ \/ n.id = u.nonce] : n \in Evicted(clock)}
      BY <1>3, <2>2 DEF Consumed
    <3>. HIDE DEF u, next, Nonces
    <3>2. ASSUME NEW n \in nonces'
          PROVE  /\ n \in Nonces /\ (\E m \in nonces : n.id = m.id /\ (m.consumed => n.consumed))
                 /\ n.id = u.nonce => n.consumed
      <4>1. PICK m \in Evicted(clock) : n = [m EXCEPT !.consumed = @ \/ m.id = u.nonce]
        BY <3>1, <3>2
      <4>2. m \in nonces /\ m \in Nonces
        BY <1>4, <4>1
      <4>3. n \in Nonces
        BY <4>1, <4>2 DEF Nonces
      <4>4. n.id = m.id /\ n.consumed = (m.consumed \/ m.id = u.nonce)
        BY <4>1, <4>2 DEF Nonces
      <4>. QED
        BY <4>2, <4>3, <4>4
    <3>. QED
      BY <3>2
  <2>. QED
    BY <2>1, <2>2
<1>7. ASSUME next # "refused", NEW q \in Requests, Spent(q), upgrade[q].nonce = u.nonce
      PROVE  FALSE
  <2>1. PICK n \in nonces : n.id = u.nonce /\ ~n.consumed
    BY <1>4, <1>5, <1>7 DEF Consumable
  <2>. QED
    BY <1>7, <2>1 DEF GateInv
<1>8. w \in Upgrades /\ w.pc = next /\ w.nonce = u.nonce /\ w.began = u.began /\ w.web = u.web /\ w.cred = u.cred
  <2>. HIDE DEF u, next
  <2>. QED
    BY <1>1, <1>2 DEF Upgrades, UpgradePcs
<1>9. upgrade' = [upgrade EXCEPT ![r] = w]
  <2>1. upgrade \in [Requests -> Upgrades]
    BY DEF GateInv
  <2>. HIDE DEF next
  <2>. QED
    BY <1>3, <2>1
<1>10. next = "sign" => NotSince(store["agent"], u.cred.id, u.began)
  BY <1>1, <1>2, AgentHasNoRecord DEF NotSince
<1>. HIDE DEF w, next, u
<1>11. /\ w.pc \in {"lookup", "sign", "admitted"} => w.pc # "refused"
       /\ w.pc # "none" /\ w.pc # "admitted"
  BY <1>2, <1>8
<1>12. w.pc \in {"lookup", "sign", "admitted"} =>
         /\ \A n \in nonces' : n.id = w.nonce => n.consumed
         /\ \A q \in Requests : Spent(q) /\ upgrade[q].nonce = w.nonce => q = r
  BY <1>6, <1>7, <1>8, <1>11
<1>13. w.nonce \in 1..issued /\ w.began <= store["agent"].epoch /\ (w.web => w.cred.id = AgentID)
  BY <1>1, <1>8
<1>14. w.pc \in {"sign", "admitted"} => NotSince(store["agent"], w.cred.id, w.began)
  BY <1>8, <1>10, <1>11
<1>15. w \in Upgrades
  BY <1>8
<1>16. /\ nonces' \subseteq [id : Nat, expires : Nat, host : Hosts, consumed : BOOLEAN]
       /\ \A n \in nonces' : \E m \in nonces : n.id = m.id /\ (m.consumed => n.consumed)
  BY <1>6
<1>. QED
  BY <1>3, <1>9, <1>11, <1>12, <1>13, <1>14, <1>15, <1>16, RequestSteps

\* The nonce of this request is consumed, and by no other.
LEMMA OnlyThisRequest ==
  ASSUME GateInv, NEW r \in Requests, Spent(r), nonces' = nonces
  PROVE  /\ \A n \in nonces' : n.id = upgrade[r].nonce => n.consumed
         /\ \A q \in Requests : Spent(q) /\ upgrade[q].nonce = upgrade[r].nonce => q = r
         /\ nonces' \subseteq [id : Nat, expires : Nat, host : Hosts, consumed : BOOLEAN]
         /\ \A n \in nonces' : \E m \in nonces : n.id = m.id /\ (m.consumed => n.consumed)
         /\ upgrade[r] \in Upgrades /\ upgrade[r].nonce \in 1..issued
         /\ upgrade[r].began <= store["agent"].epoch /\ (upgrade[r].web => upgrade[r].cred.id = AgentID)
<1>1. upgrade[r].pc # "none"
  BY DEF Spent
<1>. QED
  BY <1>1 DEF GateInv

LEMMA LookUpGate ==
  ASSUME StoreInv, GateInv, storeVars' = storeVars, NEW r \in Requests, LookUp(r)
  PROVE  GateInv'
<1>. DEFINE u == upgrade[r]
            st == store["agent"]
            known == AuthorizedDevice(st, u.cred.id) = "authorized"
            next == IF known THEN "sign" ELSE "refused"
            signing == IF known THEN st.authorized[IndexOf(st, u.cred.id)].d.signing ELSE u.signing
            w == [[u EXCEPT !.pc = next] EXCEPT !.signing = signing]
<1>1. Spent(r) /\ nonces' = nonces /\ clock' = clock /\ issued' = issued
  BY DEF LookUp, Spent
<1>2. u \in Upgrades
  BY <1>1, OnlyThisRequest
<1>3. known => /\ IndexOf(st, u.cred.id) # 0 /\ st.authorized[IndexOf(st, u.cred.id)].state = "authorized"
  BY DEF AuthorizedDevice
<1>4. signing \in {AgentID, "none"} \cup {d.signing : d \in Descriptors}
  <2>1. CASE ~known
    BY <1>2, <2>1 DEF Upgrades
  <2>2. CASE known
    <3>1. st \in State /\ Distinct(st)
      BY AgentAssumption DEF StoreInv
    <3>2. IndexOf(st, u.cred.id) \in 1..Len(st.authorized)
      BY <1>3, <2>2, <3>1, Index
    <3>3. st.authorized \in Seq(Record)
      BY <3>1 DEF State
    <3>4. st.authorized[IndexOf(st, u.cred.id)] \in Record
      BY <3>2, <3>3
    <3>5. st.authorized[IndexOf(st, u.cred.id)].d \in Descriptors
      BY <3>4 DEF Record
    <3>. QED
      BY <2>2, <3>5
  <2>. QED
    BY <2>1, <2>2
<1>5. next \in {"sign", "refused"} /\ (next = "sign" => NotSince(st, u.cred.id, u.began))
  BY <1>3 DEF NotSince
<1>6. w \in Upgrades /\ w.pc = next /\ w.nonce = u.nonce /\ w.began = u.began /\ w.web = u.web /\ w.cred = u.cred
  <2>. HIDE DEF u, next, signing
  <2>. QED
    BY <1>2, <1>4, <1>5 DEF Upgrades, UpgradePcs
<1>7. upgrade' = [upgrade EXCEPT ![r] = w]
  <2>1. upgrade \in [Requests -> Upgrades]
    BY DEF GateInv
  <2>2. upgrade' = [[upgrade EXCEPT ![r].pc = next] EXCEPT ![r].signing = signing]
    BY <1>2, <2>1 DEF LookUp, Upgrades
  <2>. HIDE DEF next, signing
  <2>. QED
    BY <2>1, <2>2
<1>. HIDE DEF w, next, known, signing
<1>8. /\ w.pc # "none" /\ w.nonce \in 1..issued
      /\ w.pc \in {"lookup", "sign", "admitted"} =>
           /\ \A n \in nonces' : n.id = w.nonce => n.consumed
           /\ \A q \in Requests : Spent(q) /\ upgrade[q].nonce = w.nonce => q = r
      /\ nonces' \subseteq [id : Nat, expires : Nat, host : Hosts, consumed : BOOLEAN]
      /\ \A n \in nonces' : \E m \in nonces : n.id = m.id /\ (m.consumed => n.consumed)
      /\ w.began <= store["agent"].epoch /\ (w.web => w.cred.id = AgentID)
  BY <1>1, <1>5, <1>6, OnlyThisRequest
<1>9. w.pc \in {"sign", "admitted"} => NotSince(store["agent"], w.cred.id, w.began)
  BY <1>5, <1>6
<1>10. w \in Upgrades
  BY <1>6
<1>. QED
  BY <1>1, <1>7, <1>8, <1>9, <1>10, RequestSteps

LEMMA VerifySignatureGate ==
  ASSUME StoreInv, GateInv, storeVars' = storeVars, NEW r \in Requests, VerifySignature(r)
  PROVE  GateInv'
<1>. DEFINE u == upgrade[r]
            next == IF u.cred.signing = u.signing THEN "admitted" ELSE "refused"
            w == [[u EXCEPT !.pc = next] EXCEPT !.epoch = store["agent"].epoch]
<1>1. Spent(r) /\ u.pc = "sign" /\ nonces' = nonces /\ clock' = clock /\ issued' = issued
  BY DEF VerifySignature, Spent
<1>2. u \in Upgrades /\ store["agent"].epoch \in Nat
  BY <1>1, OnlyThisRequest, AgentAssumption DEF StoreInv, State
<1>3. next \in {"admitted", "refused"} /\ NotSince(store["agent"], u.cred.id, u.began)
  BY <1>1 DEF GateInv
<1>4. w \in Upgrades /\ w.pc = next /\ w.nonce = u.nonce /\ w.began = u.began /\ w.web = u.web /\ w.cred = u.cred
  <2>. HIDE DEF u, next
  <2>. QED
    BY <1>2, <1>3 DEF Upgrades, UpgradePcs
<1>5. upgrade' = [upgrade EXCEPT ![r] = w]
  <2>1. upgrade \in [Requests -> Upgrades]
    BY DEF GateInv
  <2>2. upgrade' = [[upgrade EXCEPT ![r].pc = next] EXCEPT ![r].epoch = store["agent"].epoch]
    BY DEF VerifySignature
  <2>. HIDE DEF next
  <2>. QED
    BY <2>1, <2>2
<1>. HIDE DEF w, next
<1>6. /\ w.pc # "none" /\ w.nonce \in 1..issued
      /\ w.pc \in {"lookup", "sign", "admitted"} =>
           /\ \A n \in nonces' : n.id = w.nonce => n.consumed
           /\ \A q \in Requests : Spent(q) /\ upgrade[q].nonce = w.nonce => q = r
      /\ nonces' \subseteq [id : Nat, expires : Nat, host : Hosts, consumed : BOOLEAN]
      /\ \A n \in nonces' : \E m \in nonces : n.id = m.id /\ (m.consumed => n.consumed)
      /\ w.began <= store["agent"].epoch /\ (w.web => w.cred.id = AgentID)
  BY <1>1, <1>3, <1>4, OnlyThisRequest
<1>7. w \in Upgrades /\ NotSince(store["agent"], w.cred.id, w.began)
  BY <1>3, <1>4
<1>. QED
  BY <1>1, <1>5, <1>6, <1>7, RequestSteps

\* The clock and new nonces.
LEMMA NoncesGate ==
  ASSUME StoreInv, GateInv, storeVars' = storeVars,
         Tick \/ \E host \in Hosts : IssueNonce(host)
  PROVE  GateInv'
<1>1. store' = store
  BY DEF storeVars
<1>2. CASE Tick
  <2>1. clock' = clock + 1 /\ nonces' = nonces /\ issued' = issued /\ upgrade' = upgrade
    BY <1>2 DEF Tick
  <2>. QED
    BY <1>1, <2>1 DEF GateInv, Spent
<1>3. ASSUME NEW host \in Hosts, IssueNonce(host)
      PROVE  GateInv'
  <2>. DEFINE n == [id |-> issued + 1, expires |-> clock + NonceTTL, host |-> host, consumed |-> FALSE]
              Nonces == [id : Nat, expires : Nat, host : Hosts, consumed : BOOLEAN]
  <2>1. clock' = clock /\ upgrade' = upgrade /\ Evicted(clock) \subseteq nonces
    BY <1>3 DEF IssueNonce, Evicted
  <2>2. \/ nonces' = Evicted(clock) /\ issued' = issued
        \/ nonces' = Evicted(clock) \cup {n} /\ issued' = issued + 1
    BY <1>3 DEF IssueNonce
  <2>3. n \in Nonces /\ n.id = issued + 1
    BY NonceAssumption DEF GateInv
  <2>. HIDE DEF n
  <2>4. issued \in Nat /\ issued' \in Nat /\ issued <= issued' /\ nonces' \subseteq Nonces
    BY <2>1, <2>2, <2>3 DEF GateInv
  <2>5. \A m \in nonces' : m \in nonces \/ m.id = issued + 1
    BY <2>1, <2>2, <2>3
  <2>6. \A m \in nonces' : m.id \in 1..issued'
    BY <2>1, <2>2, <2>3, <2>4 DEF GateInv
  <2>7. \A r \in Requests : upgrade[r].pc # "none" => upgrade[r].nonce \in 1..issued /\ upgrade[r].nonce \in 1..issued'
    BY <2>4 DEF GateInv
  <2>8. ASSUME NEW r \in Requests, Spent(r)
        PROVE  \A m \in nonces' : m.id = upgrade[r].nonce => m.consumed
    <3>1. upgrade[r].nonce \in 1..issued
      BY <2>7, <2>8 DEF Spent
    <3>2. \A m \in nonces : m.id = upgrade[r].nonce => m.consumed
      BY <2>8 DEF GateInv
    <3>. QED
      BY <2>4, <2>5, <3>1, <3>2
  <2>9. clock' \in Nat
    BY <2>1 DEF GateInv
  <2>. QED
    BY <1>1, <2>1, <2>4, <2>6, <2>7, <2>8, <2>9 DEF GateInv, Spent
<1>. QED
  BY <1>2, <1>3

\* What every step preserves of the gate.
LEMMA NextGate ==
  ASSUME StoreInv, GateInv, [Next]_vars
  PROVE  StoreInv' /\ GateInv'
<1>1. CASE Changes
  <2>1. gateVars' = gateVars
    BY <1>1 DEF Changes, gateVars
  <2>. QED
    BY <1>1, <2>1, ChangesStore, GateGrows
<1>2. CASE ~Changes
  <2>1. storeVars' = storeVars
    BY <1>2 DEF Next, Tick, Gate, Upgrade, Stream, Secure, vars
  <2>2. StoreInv'
    BY <2>1 DEF storeVars, StoreInv
  <2>3. CASE Tick
    BY <2>1, <2>2, <2>3, NoncesGate
  <2>4. CASE Gate
    <3>1. CASE \E host \in Hosts : IssueNonce(host)
      BY <2>1, <2>2, <3>1, NoncesGate
    <3>2. ASSUME NEW r \in Requests, GateSteps(r) PROVE GateInv'
      BY <2>1, <3>2, ConsumeNonceGate, LookUpGate, VerifySignatureGate DEF GateSteps
    <3>3. ASSUME NEW r \in Requests, NEW cred \in Credentials, NEW id \in 1..issued, NEW host \in Hosts,
                 Arrive(r, cred, id, host)
          PROVE  GateInv'
      BY <2>1, <3>3, ArriveGate
    <3>. QED
      BY <2>2, <2>4, <3>1, <3>2, <3>3 DEF Gate
  <2>5. CASE gateVars' = gateVars
    BY <2>1, <2>2, <2>5 DEF storeVars, gateVars, GateInv, Spent
  <2>6. (\E r \in Requests : Upgrade(r)) \/ Stream \/ Secure \/ vars' = vars => gateVars' = gateVars
    BY DEF Upgrade, Stream, Secure, vars, gateVars
  <2>. QED
    BY <1>2, <2>2, <2>3, <2>4, <2>5, <2>6 DEF Next
<1>. QED
  BY <1>1, <1>2

LEMMA GateInvariance == Spec => [](StoreInv /\ GateInv)
<1>1. Init => StoreInv /\ GateInv
  BY InitStore, InitGate
<1>2. (StoreInv /\ GateInv) /\ [Next]_vars => (StoreInv /\ GateInv)'
  BY NextGate
<1>. QED
  BY <1>1, <1>2, PTL DEF Spec

-----------------------------------------------------------------------------
(* The secure session.                                                     *)

Ciphers == {"none", "c1", "c2"}
Transport == [open : BOOLEAN, send : Ciphers, receive : Ciphers, sent : Nat, got : Seq(Nat)]
Frames == [session : Responders, cipher : Ciphers, counter : Nat]

Ini == [pc : {"ready", "awaiting", "complete", "failed"}, d : Descriptors, known : Nat,
        with : Responders \cup {"none"}, epoch : Nat, transport : Transport]
Resp == [pc : {"none", "authorize", "epoch", "respond", "complete", "viewed", "failed"},
         of : Initiators \cup {"none"}, began : Nat, epoch : Nat, transport : Transport]
Pipe == [agent : Seq(Frames), client : Seq(Frames)]

\* What a handshake knows when it has come so far.
Responder(s) ==
  /\ resp[s].pc # "none" => resp[s].of \in Initiators /\ resp[s].began <= store["agent"].epoch
  /\ resp[s].pc \in {"epoch", "respond", "complete", "viewed"} =>
       /\ IndexOf(store["agent"], ini[resp[s].of].d.id) # 0
       /\ NotSince(store["agent"], ini[resp[s].of].d.id, resp[s].began)
  /\ resp[s].pc = "respond" => ini[resp[s].of].known <= store["agent"].epoch
  /\ resp[s].pc \in {"complete", "viewed"} => ini[resp[s].of].known <= resp[s].epoch

\* A transport before its handshake is complete, and after.
Ends(t, pc, done, send) ==
  IF pc = done THEN t.send = send ELSE ~t.open /\ t.sent = 0 /\ t.got = <<>>
Consecutive(got) == \A i \in 1..Len(got) : got[i] = i - 1

Paired(c) ==
  ini[c].pc = "complete" =>
    /\ ini[c].with \in Responders /\ resp[ini[c].with].of = c
    /\ resp[ini[c].with].pc \in {"complete", "viewed"}
    /\ ini[c].known <= ini[c].epoch
    /\ Len(ini[c].transport.got) <= resp[ini[c].with].transport.sent
    /\ Len(resp[ini[c].with].transport.got) <= ini[c].transport.sent

Under(frames, n) == \A i \in 1..Len(frames) : frames[i].counter < n

\* Frames under way were encrypted by the other end of this session.
Flow(s) ==
  /\ pipe[s].agent # <<>> \/ resp[s].transport.got # <<>> =>
       resp[s].of \in Initiators /\ ini[resp[s].of].pc = "complete" /\ ini[resp[s].of].with = s
  /\ Under(pipe[s].agent, ini[resp[s].of].transport.sent)
  /\ Under(pipe[s].client, resp[s].transport.sent)

SealedBy(x) == \/ x.by = "client" /\ x.f.cipher = "c1"
               \/ x.by = "agent" /\ x.f.cipher = "c2"

SecureInv ==
  /\ ini \in [Initiators -> Ini] /\ resp \in [Responders -> Resp] /\ pipe \in [Responders -> Pipe]
  /\ \A s \in Responders : Responder(s) /\ Flow(s)
  /\ \A s \in Responders : Ends(resp[s].transport, resp[s].pc, "viewed", "c2") /\ Consecutive(resp[s].transport.got)
  /\ \A c \in Initiators : Paired(c)
  /\ \A c \in Initiators : Ends(ini[c].transport, ini[c].pc, "complete", "c1") /\ Consecutive(ini[c].transport.got)
  /\ \A x \in sealed : SealedBy(x)

-----------------------------------------------------------------------------
(* Frames and what was got of them.                                        *)

LEMMA UnderMore ==
  /\ \A n : Under(<<>>, n)
  /\ \A frames \in Seq(Frames), n, m \in Nat : Under(frames, n) /\ n <= m => Under(frames, m)
<1>1. \A n : Under(<<>>, n)
  BY DEF Under
<1>2. ASSUME NEW frames \in Seq(Frames), NEW n \in Nat, NEW m \in Nat, Under(frames, n), n <= m,
             NEW i \in 1..Len(frames)
      PROVE  frames[i].counter < m
  <2>1. frames[i] \in Frames
    BY <1>2
  <2>2. frames[i].counter \in Nat
    BY <2>1 DEF Frames
  <2>3. frames[i].counter < n
    BY <1>2 DEF Under
  <2>. QED
    BY <1>2, <2>2, <2>3
<1>. QED
  BY <1>1, <1>2 DEF Under

LEMMA UnderTaken ==
  ASSUME NEW frames \in Seq(Frames), frames # <<>>, NEW n, Under(frames, n)
  PROVE  /\ Head(frames) \in Frames /\ Head(frames).counter < n
         /\ Tail(frames) \in Seq(Frames) /\ Under(Tail(frames), n)
<1>1. Len(frames) \in Nat /\ Len(frames) > 0
  OBVIOUS
<1>2. /\ Head(frames) = frames[1] /\ frames[1] \in Frames /\ Tail(frames) \in Seq(Frames)
      /\ Len(Tail(frames)) = Len(frames) - 1 /\ \A i \in 1..Len(Tail(frames)) : Tail(frames)[i] = frames[i + 1]
  BY <1>1
<1>3. \A i \in 1..Len(Tail(frames)) : i + 1 \in 1..Len(frames)
  BY <1>1, <1>2
<1>. QED
  BY <1>1, <1>2, <1>3 DEF Under

LEMMA UnderAdded ==
  ASSUME NEW frames \in Seq(Frames), NEW f \in Frames, Under(frames, f.counter)
  PROVE  Append(frames, f) \in Seq(Frames) /\ Under(Append(frames, f), f.counter + 1)
<1>1. f.counter \in Nat /\ \A g \in Frames : g.counter \in Nat
  BY DEF Frames
<1>2. ASSUME NEW i \in 1..Len(Append(frames, f))
      PROVE  Append(frames, f)[i].counter < f.counter + 1
  <2>1. i = Len(frames) + 1 \/ i \in 1..Len(frames)
    BY Added
  <2>2. CASE i = Len(frames) + 1
    BY <1>1, <2>2, Added
  <2>3. CASE i \in 1..Len(frames)
    <3>1. Append(frames, f)[i] = frames[i] /\ frames[i] \in Frames
      BY <2>3, Added
    <3>2. frames[i].counter < f.counter
      BY <2>3 DEF Under
    <3>. QED
      BY <1>1, <3>1, <3>2
  <2>. QED
    BY <2>1, <2>2, <2>3
<1>. QED
  BY <1>2, Added DEF Under

\* Decrypt takes the next frame, or nothing more.
LEMMA DecryptedNext ==
  ASSUME NEW s, NEW t \in Transport, NEW f \in Frames, Consecutive(t.got), NEW n \in Nat, f.counter < n,
         Len(t.got) <= n
  PROVE  LET u == Decrypted(s, t, f)
         IN  /\ u \in Transport /\ u.send = t.send /\ u.sent = t.sent /\ Consecutive(u.got) /\ Len(u.got) <= n
<1>. DEFINE u == Decrypted(s, t, f)
<1>1. t.got \in Seq(Nat) /\ f.counter \in Nat /\ Len(t.got) \in Nat
  <2>1. t.got \in Seq(Nat)
    BY DEF Transport
  <2>2. f.counter \in Nat
    BY DEF Frames
  <2>. QED
    BY <2>1, <2>2
<1>2. CASE f.session = s /\ f.cipher = t.receive /\ f.counter = Len(t.got)
  <2>1. u = [t EXCEPT !.got = Append(@, f.counter)]
    BY <1>2 DEF Decrypted
  <2>. HIDE DEF u
  <2>2. u \in Transport /\ u.send = t.send /\ u.sent = t.sent /\ u.got = Append(t.got, f.counter)
    <3>1. Append(t.got, f.counter) \in Seq(Nat)
      BY <1>1, Added
    <3>2. u = [t EXCEPT !.got = Append(t.got, f.counter)]
      BY <2>1 DEF Transport
    <3>. QED
      BY <3>1, <3>2 DEF Transport
  <2>3. Len(u.got) = Len(t.got) + 1 /\ u.got[Len(t.got) + 1] = f.counter /\ \A i \in 1..Len(t.got) : u.got[i] = t.got[i]
    BY <1>1, <2>2, Added
  <2>4. ASSUME NEW i \in 1..Len(u.got) PROVE u.got[i] = i - 1
    <3>1. \A j \in 1..Len(t.got) : t.got[j] = j - 1
      BY DEF Consecutive
    <3>2. i = Len(t.got) + 1 \/ i \in 1..Len(t.got)
      BY <1>1, <2>3
    <3>. QED
      BY <1>1, <1>2, <2>3, <3>1, <3>2
  <2>5. Len(u.got) <= n
    BY <1>1, <1>2, <2>3
  <2>6. Consecutive(u.got)
    BY <2>4 DEF Consecutive
  <2>. QED
    BY <2>2, <2>5, <2>6 DEF u
<1>3. CASE ~(f.session = s /\ f.cipher = t.receive /\ f.counter = Len(t.got))
  <2>1. u = [t EXCEPT !.open = FALSE]
    BY <1>3 DEF Decrypted
  <2>. HIDE DEF u
  <2>2. u \in Transport /\ u.send = t.send /\ u.sent = t.sent /\ u.got = t.got
    BY <2>1 DEF Transport
  <2>. QED
    BY <2>2 DEF u
<1>. QED
  BY <1>2, <1>3

\* Encrypt counts its frame.
LEMMA EncryptedNext ==
  ASSUME NEW s \in Responders, NEW t \in Transport
  PROVE  /\ Encrypted(t) \in Transport /\ Encrypted(t).send = t.send /\ Encrypted(t).got = t.got
         /\ Encrypted(t).sent = t.sent + 1 /\ t.sent <= t.sent + 1
         /\ Frame(s, t) \in Frames /\ Frame(s, t).counter = t.sent /\ Frame(s, t).cipher = t.send
<1>1. t.sent \in Nat /\ t.send \in Ciphers
  BY DEF Transport
<1>2. Encrypted(t) = [t EXCEPT !.sent = t.sent + 1] /\ t.sent + 1 \in Nat
  BY <1>1 DEF Encrypted, Transport
<1>3. Encrypted(t) \in Transport
  BY <1>2 DEF Transport
<1>4. Encrypted(t).send = t.send /\ Encrypted(t).got = t.got /\ Encrypted(t).sent = t.sent + 1
  BY <1>2 DEF Transport
<1>5. Frame(s, t) \in Frames /\ Frame(s, t).counter = t.sent /\ Frame(s, t).cipher = t.send
  BY <1>1 DEF Frame, Frames
<1>. QED
  BY <1>1, <1>3, <1>4, <1>5

-----------------------------------------------------------------------------
(* The handshake.                                                          *)

LEMMA InitSecure == Init => SecureInv
<1>. SUFFICES ASSUME Init PROVE SecureInv
  OBVIOUS
<1>1. PICK d \in [Initiators -> {Device, Newer}], known \in [Initiators -> Nat] :
        ini = [c \in Initiators |-> Initiator(d[c], known[c])]
  <2>1. PICK D, E : D \in SUBSET {Device, Newer} /\ E \in SUBSET Nat /\ SecureInit(D, E)
    BY DEF Init
  <2>. QED
    BY <2>1 DEF SecureInit
<1>2. /\ resp = [s \in Responders |-> NoResponder] /\ sealed = {}
      /\ pipe = [s \in Responders |-> [agent |-> <<>>, client |-> <<>>]]
  BY DEF Init, SecureInit
<1>3. NoTransport \in Transport /\ ~NoTransport.open /\ NoTransport.sent = 0 /\ NoTransport.got = <<>>
  BY DEF NoTransport, Transport, Ciphers
<1>4. ASSUME NEW c \in Initiators
      PROVE  /\ ini[c] \in Ini /\ ini[c].pc = "ready" /\ ini[c].transport = NoTransport
  <2>1. ini[c] = Initiator(d[c], known[c]) /\ d[c] \in Descriptors /\ known[c] \in Nat
    BY <1>1 DEF Descriptors
  <2>. HIDE DEF NoTransport
  <2>. QED
    BY <1>3, <2>1 DEF Initiator, Ini
<1>5. ASSUME NEW s \in Responders
      PROVE  /\ resp[s] \in Resp /\ resp[s].pc = "none" /\ resp[s].transport = NoTransport
             /\ pipe[s] \in Pipe /\ pipe[s].agent = <<>> /\ pipe[s].client = <<>>
  BY <1>2, <1>3 DEF NoResponder, Resp, Pipe
<1>6. ini \in [Initiators -> Ini] /\ resp \in [Responders -> Resp] /\ pipe \in [Responders -> Pipe]
  BY <1>1, <1>2, <1>4, <1>5
<1>7. Len(<<>>) = 0
  OBVIOUS
<1>8. \A s \in Responders : Responder(s) /\ Flow(s)
  BY <1>3, <1>5, UnderMore DEF Responder, Flow
<1>9. \A s \in Responders : Ends(resp[s].transport, resp[s].pc, "viewed", "c2") /\ Consecutive(resp[s].transport.got)
  BY <1>3, <1>5, <1>7 DEF Ends, Consecutive
<1>10. \A c \in Initiators : Paired(c)
  BY <1>4 DEF Paired
<1>11. \A c \in Initiators : Ends(ini[c].transport, ini[c].pc, "complete", "c1") /\ Consecutive(ini[c].transport.got)
  BY <1>3, <1>4, <1>7 DEF Ends, Consecutive
<1>. QED
  BY <1>2, <1>6, <1>8, <1>9, <1>10, <1>11 DEF SecureInv

\* A change of the store.
LEMMA SecureGrows ==
  ASSUME StoreInv, SecureInv, secureVars' = secureVars, Grows(store["agent"], store'["agent"])
  PROVE  SecureInv'
<1>1. /\ store["agent"] \in State /\ store["agent"].epoch \in Nat /\ store'["agent"].epoch \in Nat
      /\ store["agent"].epoch <= store'["agent"].epoch
  <2>1. store["agent"] \in State
    BY AgentAssumption DEF StoreInv
  <2>2. store'["agent"] \in State /\ store["agent"].epoch <= store'["agent"].epoch
    BY DEF Grows
  <2>. QED
    BY <2>1, <2>2 DEF State
<1>2. ini' = ini /\ resp' = resp /\ pipe' = pipe /\ sealed' = sealed
  BY DEF secureVars
<1>3. ASSUME NEW s \in Responders
      PROVE  Responder(s)'
  <2>. DEFINE c == resp[s].of
  <2>1. Responder(s) /\ resp[s].began \in Nat
    BY DEF SecureInv, Resp
  <2>2. resp[s].pc # "none" => /\ c \in Initiators /\ ini[c].known \in Nat
                               /\ resp[s].began <= store["agent"].epoch /\ resp[s].began <= store'["agent"].epoch
    <3>1. resp[s].pc # "none" => c \in Initiators /\ resp[s].began <= store["agent"].epoch
      BY <2>1 DEF Responder
    <3>2. ini \in [Initiators -> Ini]
      BY DEF SecureInv
    <3>3. c \in Initiators => ini[c].known \in Nat
      BY <3>2 DEF Ini
    <3>4. resp[s].began <= store["agent"].epoch => resp[s].began <= store'["agent"].epoch
      BY <1>1, <2>1
    <3>. QED
      BY <3>1, <3>3, <3>4
  <2>3. ASSUME resp[s].pc \in {"epoch", "respond", "complete", "viewed"}
        PROVE  /\ IndexOf(store'["agent"], ini[c].d.id) # 0
               /\ NotSince(store'["agent"], ini[c].d.id, resp[s].began)
    <3>1. /\ IndexOf(store["agent"], ini[c].d.id) # 0
          /\ NotSince(store["agent"], ini[c].d.id, resp[s].began)
      BY <2>1, <2>3 DEF Responder
    <3>2. resp[s].pc # "none"
      BY <2>3
    <3>3. IndexOf(store'["agent"], ini[c].d.id) # 0
      BY <3>1 DEF Grows
    <3>. QED
      BY <1>1, <2>1, <2>2, <3>1, <3>2, <3>3, StillNotSince
  <2>4. resp[s].pc = "respond" => ini[c].known <= store'["agent"].epoch
    <3>1. \A k, a, b \in Nat : k <= a /\ a <= b => k <= b
      OBVIOUS
    <3>2. resp[s].pc = "respond" => ini[c].known <= store["agent"].epoch /\ ini[c].known \in Nat
      BY <2>1, <2>2 DEF Responder
    <3>. QED
      BY <1>1, <3>1, <3>2
  <2>5. resp[s].pc \in {"complete", "viewed"} => ini[c].known <= resp[s].epoch
    BY <2>1 DEF Responder
  <2>. QED
    BY <1>2, <2>2, <2>3, <2>4, <2>5 DEF Responder
<1>. QED
  BY <1>2, <1>3 DEF SecureInv, Flow, Paired

\* One client takes a step, and the Agent none.
LEMMA InitiatorSteps ==
  ASSUME SecureInv, store' = store, resp' = resp, NEW c \in Initiators, NEW x \in Ini,
         ini' = [ini EXCEPT ![c] = x], x.d = ini[c].d, x.known = ini[c].known, pipe' \in [Responders -> Pipe],
         Paired(c)', \A s \in Responders : Flow(s)',
         Ends(x.transport, x.pc, "complete", "c1"), Consecutive(x.transport.got),
         \A y \in sealed' : SealedBy(y)
  PROVE  SecureInv'
<1>1. ini' \in [Initiators -> Ini] /\ ini'[c] = x /\ \A e \in Initiators : e # c => ini'[e] = ini[e]
  BY DEF SecureInv
<1>2. \A e \in Initiators : ini'[e].d = ini[e].d /\ ini'[e].known = ini[e].known
  BY <1>1
<1>3. \A s \in Responders : Responder(s)'
  <2>1. \A s \in Responders : Responder(s)
    BY DEF SecureInv
  <2>2. ASSUME NEW s \in Responders
        PROVE  Responder(s)'
    <3>1. resp[s].pc # "none" => ini'[resp[s].of].d = ini[resp[s].of].d /\ ini'[resp[s].of].known = ini[resp[s].of].known
      BY <1>2, <2>1 DEF Responder
    <3>. QED
      BY <2>1, <3>1 DEF Responder
  <2>. QED
    BY <2>2
<1>4. \A e \in Initiators : Paired(e)'
  <2>1. ASSUME NEW e \in Initiators, e # c
        PROVE  Paired(e)'
    <3>1. Paired(e) /\ ini'[e] = ini[e]
      BY <1>1, <2>1 DEF SecureInv
    <3>. QED
      BY <3>1 DEF Paired
  <2>. QED
    BY <2>1
<1>5. \A e \in Initiators :
        Ends(ini'[e].transport, ini'[e].pc, "complete", "c1") /\ Consecutive(ini'[e].transport.got)
  BY <1>1 DEF SecureInv
<1>6. /\ resp' \in [Responders -> Resp]
      /\ \A s \in Responders :
           Ends(resp'[s].transport, resp'[s].pc, "viewed", "c2") /\ Consecutive(resp'[s].transport.got)
  BY DEF SecureInv
<1>. QED
  BY <1>1, <1>3, <1>4, <1>5, <1>6 DEF SecureInv

\* One responder of the Agent takes a step, and the clients none.
LEMMA ResponderSteps ==
  ASSUME SecureInv, store' = store, ini' = ini, NEW s \in Responders, NEW y \in Resp, NEW p \in Pipe,
         resp' = [resp EXCEPT ![s] = y], pipe' = [pipe EXCEPT ![s] = p],
         Responder(s)', Flow(s)', \A c \in Initiators : Paired(c)',
         Ends(y.transport, y.pc, "viewed", "c2"), Consecutive(y.transport.got),
         \A x \in sealed' : SealedBy(x)
  PROVE  SecureInv'
<1>1. /\ resp' \in [Responders -> Resp] /\ resp'[s] = y /\ \A q \in Responders : q # s => resp'[q] = resp[q]
      /\ pipe' \in [Responders -> Pipe] /\ \A q \in Responders : q # s => pipe'[q] = pipe[q]
  BY DEF SecureInv
<1>2. ASSUME NEW q \in Responders
      PROVE  Responder(q)' /\ Flow(q)'
  <2>1. CASE q = s
    BY <2>1
  <2>2. CASE q # s
    <3>1. Responder(q) /\ Flow(q) /\ resp'[q] = resp[q] /\ pipe'[q] = pipe[q]
      BY <1>1, <2>2 DEF SecureInv
    <3>. QED
      BY <3>1 DEF Responder, Flow
  <2>. QED
    BY <2>1, <2>2
<1>3. \A q \in Responders :
        Ends(resp'[q].transport, resp'[q].pc, "viewed", "c2") /\ Consecutive(resp'[q].transport.got)
  BY <1>1 DEF SecureInv
<1>4. /\ ini' \in [Initiators -> Ini]
      /\ \A c \in Initiators :
           Ends(ini'[c].transport, ini'[c].pc, "complete", "c1") /\ Consecutive(ini'[c].transport.got)
  BY DEF SecureInv
<1>. QED
  BY <1>1, <1>2, <1>3, <1>4 DEF SecureInv

\* Before a handshake is complete nothing was sent to its responder, and before a
\* responder has answered no client is paired with it.
LEMMA NotYet ==
  ASSUME SecureInv, NEW s \in Responders
  PROVE  /\ resp[s].of \notin Initiators \/ ini[resp[s].of].pc # "complete" =>
              pipe[s].agent = <<>> /\ resp[s].transport.got = <<>>
         /\ resp[s].pc \notin {"complete", "viewed"} =>
              /\ pipe[s].agent = <<>> /\ resp[s].transport.got = <<>>
              /\ \A c \in Initiators : ini[c].pc = "complete" => ini[c].with # s
<1>1. Flow(s) /\ \A c \in Initiators : Paired(c)
  BY DEF SecureInv
<1>. QED
  BY <1>1 DEF Flow, Paired

\* A client whose handshake is not complete has nothing under way.
LEMMA FlowsOn ==
  ASSUME SecureInv, resp' = resp, pipe' = pipe, NEW c \in Initiators, NEW x, ini' = [ini EXCEPT ![c] = x],
         ini[c].pc # "complete"
  PROVE  \A s \in Responders : Flow(s)'
<1>. SUFFICES ASSUME NEW s \in Responders PROVE Flow(s)'
  OBVIOUS
<1>1. Flow(s) /\ ini \in [Initiators -> Ini]
  BY DEF SecureInv
<1>2. CASE resp[s].of \in Initiators /\ resp[s].of # c
  <2>1. ini'[resp[s].of] = ini[resp[s].of]
    BY <1>1, <1>2
  <2>. QED
    BY <1>1, <2>1 DEF Flow
<1>3. CASE resp[s].of \notin Initiators \/ resp[s].of = c
  <2>1. pipe[s].agent = <<>> /\ resp[s].transport.got = <<>>
    BY <1>3, NotYet
  <2>. QED
    BY <1>1, <2>1, UnderMore DEF Flow
<1>. QED
  BY <1>2, <1>3

LEMMA ClientGivesUp ==
  ASSUME SecureInv, store' = store, resp' = resp, pipe' = pipe, sealed' = sealed, NEW c \in Initiators,
         NEW pc \in {"awaiting", "failed"}, ini[c].pc \in {"ready", "awaiting"}, ini' = [ini EXCEPT ![c].pc = pc]
  PROVE  SecureInv'
<1>. DEFINE x == [ini[c] EXCEPT !.pc = pc]
<1>1. ini \in [Initiators -> Ini] /\ ini[c] \in Ini /\ ini[c].pc # "complete"
  BY DEF SecureInv
<1>2. /\ x \in Ini /\ x.pc = pc /\ x.d = ini[c].d /\ x.known = ini[c].known /\ x.transport = ini[c].transport
  BY <1>1 DEF Ini
<1>3. ini' = [ini EXCEPT ![c] = x] /\ ini'[c] = x
  BY <1>1
<1>. HIDE DEF x
<1>4. \A s \in Responders : Flow(s)'
  BY <1>1, <1>3, FlowsOn
<1>5. Paired(c)'
  BY <1>2, <1>3 DEF Paired
<1>6. Ends(x.transport, x.pc, "complete", "c1") /\ Consecutive(x.transport.got)
  BY <1>1, <1>2 DEF SecureInv, Ends
<1>7. pipe' \in [Responders -> Pipe] /\ \A y \in sealed' : SealedBy(y)
  BY DEF SecureInv
<1>. QED
  BY <1>2, <1>3, <1>4, <1>5, <1>6, <1>7, InitiatorSteps

\* A transport as Finish and View begin it.
LEMMA Opened ==
  ASSUME NEW a \in Ciphers, NEW b \in Ciphers
  PROVE  LET t == [NoTransport EXCEPT !.open = TRUE, !.send = a, !.receive = b]
         IN  t \in Transport /\ t.send = a /\ t.sent = 0 /\ t.got = <<>>
<1>1. NoTransport \in Transport /\ NoTransport.sent = 0 /\ NoTransport.got = <<>>
  BY DEF NoTransport, Transport, Ciphers
<1>. QED
  BY <1>1 DEF Transport

LEMMA FinishSecure ==
  ASSUME SecureInv, store' = store, NEW c \in Initiators, NEW s \in Responders, Finish(c, s)
  PROVE  SecureInv'
<1>1. /\ ini \in [Initiators -> Ini] /\ ini[c] \in Ini /\ ini[c].pc = "awaiting" /\ resp[s] \in Resp
      /\ resp[s].pc \in {"complete", "viewed"} /\ resp' = resp /\ pipe' = pipe /\ sealed' = sealed
  BY DEF SecureInv, Finish
<1>2. CASE resp[s].of # c
  <2>1. ini' = [ini EXCEPT ![c].pc = "failed"]
    BY <1>1, <1>2 DEF Finish
  <2>. QED
    BY <1>1, <2>1, ClientGivesUp
<1>3. CASE resp[s].of = c
  <2>. DEFINE t == [NoTransport EXCEPT !.open = TRUE, !.send = "c1", !.receive = "c2"]
              x == [ini[c] EXCEPT !.pc = "complete", !.with = s, !.epoch = resp[s].epoch, !.transport = t]
  <2>1. t \in Transport /\ t.send = "c1" /\ t.sent = 0 /\ t.got = <<>>
    BY Opened DEF Ciphers
  <2>2. ini' = [ini EXCEPT ![c] = x]
    BY <1>1, <1>3 DEF Finish
  <2>. HIDE DEF t
  <2>3. resp[s].epoch \in Nat /\ resp[s].transport.sent \in Nat
    BY <1>1 DEF Resp, Transport
  <2>4. /\ x \in Ini /\ x.pc = "complete" /\ x.with = s /\ x.epoch = resp[s].epoch /\ x.transport = t
        /\ x.d = ini[c].d /\ x.known = ini[c].known
    BY <1>1, <2>1, <2>3 DEF Ini
  <2>. HIDE DEF x
  <2>5. ini'[c] = x
    BY <1>1, <2>2
  <2>6. \A q \in Responders : Flow(q)'
    BY <1>1, <2>2, FlowsOn
  <2>7. ini[c].known <= resp[s].epoch
    BY <1>1, <1>3 DEF SecureInv, Responder
  <2>8. resp[s].transport.got = <<>> /\ Len(<<>>) = 0
    BY <1>1, <1>3, NotYet
  <2>9. Paired(c)'
    <3>1. Len(x.transport.got) <= resp[s].transport.sent /\ Len(resp[s].transport.got) <= x.transport.sent
      BY <2>1, <2>3, <2>4, <2>8
    <3>. QED
      BY <1>1, <1>3, <2>4, <2>5, <2>7, <3>1 DEF Paired
  <2>10. Ends(x.transport, x.pc, "complete", "c1") /\ Consecutive(x.transport.got)
    BY <2>1, <2>4, <2>8 DEF Ends, Consecutive
  <2>11. pipe' \in [Responders -> Pipe] /\ \A y \in sealed' : SealedBy(y)
    BY <1>1 DEF SecureInv
  <2>. QED
    BY <1>1, <2>2, <2>4, <2>6, <2>9, <2>10, <2>11, InitiatorSteps
<1>. QED
  BY <1>2, <1>3

\* A responder that has not answered yet takes a step.
LEMMA ResponderAdvances ==
  ASSUME SecureInv, store' = store, ini' = ini, pipe' = pipe, sealed' = sealed, NEW s \in Responders, NEW y \in Resp,
         resp' = [resp EXCEPT ![s] = y], resp[s].pc \notin {"complete", "viewed"}, y.pc # "viewed",
         y.transport = resp[s].transport, Responder(s)'
  PROVE  SecureInv'
<1>1. resp \in [Responders -> Resp] /\ pipe \in [Responders -> Pipe] /\ resp'[s] = y
  BY DEF SecureInv
<1>2. /\ pipe[s].agent = <<>> /\ y.transport.got = <<>> /\ Len(<<>>) = 0
      /\ \A c \in Initiators : ini[c].pc = "complete" => ini[c].with # s
  BY NotYet
<1>3. Flow(s)'
  <2>1. Under(pipe[s].client, resp[s].transport.sent)
    BY DEF SecureInv, Flow
  <2>. QED
    BY <1>1, <1>2, <2>1, UnderMore DEF Flow
<1>4. ASSUME NEW c \in Initiators PROVE Paired(c)'
  <2>1. SUFFICES ASSUME ini[c].pc = "complete" PROVE Paired(c)'
    BY DEF Paired
  <2>2. Paired(c)
    BY DEF SecureInv
  <2>3. ini[c].with \in Responders /\ ini[c].with # s
    BY <1>2, <2>1, <2>2 DEF Paired
  <2>4. resp'[ini[c].with] = resp[ini[c].with]
    BY <1>1, <2>3
  <2>. QED
    BY <2>2, <2>4 DEF Paired
<1>5. Ends(y.transport, y.pc, "viewed", "c2") /\ Consecutive(y.transport.got)
  <2>1. Ends(resp[s].transport, resp[s].pc, "viewed", "c2")
    BY DEF SecureInv
  <2>2. Ends(y.transport, y.pc, "viewed", "c2")
    BY <2>1 DEF Ends
  <2>. QED
    BY <1>2, <2>2 DEF Consecutive
<1>6. pipe[s] \in Pipe /\ pipe' = [pipe EXCEPT ![s] = pipe[s]] /\ \A x \in sealed' : SealedBy(x)
  BY <1>1 DEF SecureInv
<1>. QED
  BY ZenonT(30), <1>3, <1>4, <1>5, <1>6, ResponderSteps

\* A responder that moves on or refuses, by what it knows then.
LEMMA ResponderMoves ==
  ASSUME SecureInv, store' = store, ini' = ini, pipe' = pipe, sealed' = sealed, NEW s \in Responders,
         resp[s].pc \in {"authorize", "epoch"}, NEW pc \in {"epoch", "respond", "failed"},
         resp' = [resp EXCEPT ![s].pc = pc],
         pc # "failed" => /\ IndexOf(store["agent"], ini[resp[s].of].d.id) # 0
                          /\ NotSince(store["agent"], ini[resp[s].of].d.id, resp[s].began),
         pc = "respond" => ini[resp[s].of].known <= store["agent"].epoch
  PROVE  SecureInv'
<1>. DEFINE y == [resp[s] EXCEPT !.pc = pc]
<1>1. resp \in [Responders -> Resp] /\ resp[s] \in Resp /\ Responder(s)
  BY DEF SecureInv
<1>2. y \in Resp /\ y.pc = pc /\ y.of = resp[s].of /\ y.began = resp[s].began /\ y.transport = resp[s].transport
  BY <1>1 DEF Resp
<1>3. resp' = [resp EXCEPT ![s] = y] /\ resp'[s] = y
  BY <1>1
<1>. HIDE DEF y
<1>4. resp[s].of \in Initiators /\ resp[s].began <= store["agent"].epoch
  BY <1>1 DEF Responder
<1>5. Responder(s)'
  BY <1>2, <1>3, <1>4 DEF Responder
<1>. QED
  BY <1>2, <1>3, <1>5, ResponderAdvances

LEMMA AnswerSecure ==
  ASSUME StoreInv, SecureInv, store' = store, NEW s \in Responders,
         AuthorizeStart(s) \/ CheckEpoch(s) \/ Respond(s) \/ \E c \in Initiators : ReceiveStart(s, c)
  PROVE  SecureInv'
<1>. DEFINE st == store["agent"]
            id == ini[resp[s].of].d.id
<1>1. resp \in [Responders -> Resp] /\ resp[s] \in Resp /\ Responder(s) /\ st.epoch \in Nat
  BY AgentAssumption DEF SecureInv, StoreInv, State
<1>2. CASE AuthorizeStart(s)
  <2>1. /\ resp[s].pc = "authorize" /\ ini' = ini /\ pipe' = pipe /\ sealed' = sealed
        /\ \/ resp' = [resp EXCEPT ![s].pc = "failed"]
           \/ AuthorizedDevice(st, id) = "authorized" /\ resp' = [resp EXCEPT ![s].pc = "epoch"]
    BY ZenonT(30), <1>2 DEF AuthorizeStart, Refuse
  <2>2. AuthorizedDevice(st, id) = "authorized" => IndexOf(st, id) # 0 /\ NotSince(st, id, resp[s].began)
    BY ZenonT(30) DEF AuthorizedDevice, NotSince
  <2>. HIDE DEF st, id
  <2>. QED
    BY <2>1, <2>2, ResponderMoves DEF st, id
<1>3. CASE CheckEpoch(s)
  <2>1. /\ resp[s].pc = "epoch" /\ ini' = ini /\ pipe' = pipe /\ sealed' = sealed
        /\ \/ resp' = [resp EXCEPT ![s].pc = "failed"]
           \/ ~(ini[resp[s].of].known > st.epoch) /\ resp' = [resp EXCEPT ![s].pc = "respond"]
    BY <1>3 DEF CheckEpoch, Refuse
  <2>2. resp[s].of \in Initiators /\ IndexOf(st, id) # 0 /\ NotSince(st, id, resp[s].began)
    BY <1>1, <2>1 DEF Responder
  <2>3. ini[resp[s].of].known \in Nat
    BY <2>2 DEF SecureInv, Ini
  <2>4. ~(ini[resp[s].of].known > st.epoch) => ini[resp[s].of].known <= st.epoch
    BY <1>1, <2>3
  <2>. HIDE DEF st, id
  <2>. QED
    BY <2>1, <2>2, <2>4, ResponderMoves DEF st, id
<1>4. CASE Respond(s)
  <2>. DEFINE y == [[resp[s] EXCEPT !.pc = "complete"] EXCEPT !.epoch = st.epoch]
  <2>1. resp[s].pc = "respond" /\ ini' = ini /\ pipe' = pipe /\ sealed' = sealed /\ resp' = [resp EXCEPT ![s] = y]
    BY <1>1, <1>4 DEF Respond
  <2>2. /\ y \in Resp /\ y.pc = "complete" /\ y.of = resp[s].of /\ y.began = resp[s].began
        /\ y.epoch = st.epoch /\ y.transport = resp[s].transport
    BY <1>1 DEF Resp
  <2>. HIDE DEF y
  <2>3. resp'[s] = y
    BY <1>1, <2>1
  <2>4. Responder(s)'
    <3>1. /\ resp[s].of \in Initiators /\ resp[s].began <= store["agent"].epoch
          /\ IndexOf(store["agent"], ini[resp[s].of].d.id) # 0
          /\ NotSince(store["agent"], ini[resp[s].of].d.id, resp[s].began)
          /\ ini[resp[s].of].known <= store["agent"].epoch
      BY <1>1, <2>1 DEF Responder
    <3>. QED
      BY <2>1, <2>2, <2>3, <3>1 DEF Responder
  <2>. QED
    BY <2>1, <2>2, <2>4, ResponderAdvances
<1>5. ASSUME NEW c \in Initiators, ReceiveStart(s, c)
      PROVE  SecureInv'
  <2>. DEFINE y == [resp[s] EXCEPT !.pc = "authorize", !.of = c, !.began = st.epoch]
  <2>1. resp[s].pc = "none" /\ ini' = ini /\ pipe' = pipe /\ sealed' = sealed /\ resp' = [resp EXCEPT ![s] = y]
    BY <1>5 DEF ReceiveStart
  <2>2. y \in Resp /\ y.pc = "authorize" /\ y.of = c /\ y.began = st.epoch /\ y.transport = resp[s].transport
    BY <1>1 DEF Resp
  <2>. HIDE DEF y
  <2>3. resp'[s] = y
    BY <1>1, <2>1
  <2>4. Responder(s)'
    <3>1. \A n \in Nat : n <= n
      OBVIOUS
    <3>2. y.began <= store'["agent"].epoch
      <4>1. y.began = store'["agent"].epoch /\ y.began \in Nat
        BY <1>1, <2>2 DEF Resp
      <4>. QED
        BY <3>1, <4>1
    <3>. QED
      BY <2>2, <2>3, <3>2 DEF Responder
  <2>. QED
    BY <2>1, <2>2, <2>4, ResponderAdvances
<1>. QED
  BY <1>2, <1>3, <1>4, <1>5

-----------------------------------------------------------------------------
(* The transport.                                                          *)

\* What a responder with a view keeps when it and what is under way become y and p.
Keeps(s, y, p) ==
  /\ resp[s].pc \in {"complete", "viewed"} /\ y.pc = "viewed"
  /\ y.of = resp[s].of /\ y.began = resp[s].began /\ y.epoch = resp[s].epoch
  /\ y.transport.send = "c2" /\ resp[s].transport.sent <= y.transport.sent
  /\ \/ y.transport.got = resp[s].transport.got
     \/ pipe[s].agent # <<>> /\ Len(y.transport.got) <= ini[resp[s].of].transport.sent
  /\ Consecutive(y.transport.got)
  /\ p.agent # <<>> => pipe[s].agent # <<>>
  /\ Under(p.agent, ini[resp[s].of].transport.sent) /\ Under(p.client, y.transport.sent)

LEMMA ViewSteps ==
  ASSUME SecureInv, store' = store, ini' = ini, NEW s \in Responders, NEW y \in Resp, NEW p \in Pipe,
         resp' = [resp EXCEPT ![s] = y], pipe' = [pipe EXCEPT ![s] = p], Keeps(s, y, p),
         \A x \in sealed' : SealedBy(x)
  PROVE  SecureInv'
<1>1. /\ resp \in [Responders -> Resp] /\ pipe \in [Responders -> Pipe] /\ resp'[s] = y /\ pipe'[s] = p
      /\ \A q \in Responders : q # s => resp'[q] = resp[q]
  BY ZenonT(30) DEF SecureInv
<1>2. Responder(s) /\ Flow(s)
  BY DEF SecureInv
<1>3. Responder(s)'
  BY <1>1, <1>2 DEF Responder, Keeps
<1>4. Flow(s)'
  BY <1>1, <1>2 DEF Flow, Keeps
<1>5. ASSUME NEW c \in Initiators PROVE Paired(c)'
  <2>1. SUFFICES ASSUME ini[c].pc = "complete" PROVE Paired(c)'
    BY DEF Paired
  <2>2. Paired(c) /\ ini[c].with \in Responders
    BY <2>1 DEF SecureInv, Paired
  <2>3. CASE ini[c].with # s
    BY <1>1, <2>2, <2>3 DEF Paired
  <2>4. CASE ini[c].with = s
    <3>1. /\ resp[s].of = c /\ ini[c].known <= ini[c].epoch
          /\ Len(ini[c].transport.got) <= resp[s].transport.sent /\ Len(resp[s].transport.got) <= ini[c].transport.sent
      BY <2>1, <2>2, <2>4 DEF Paired
    <3>2. ini[c].transport.got \in Seq(Nat) /\ resp[s].transport.sent \in Nat /\ y.transport.sent \in Nat
      BY DEF SecureInv, Ini, Resp, Transport
    <3>3. Len(ini[c].transport.got) \in Nat
      <4>1. \A q \in Seq(Nat) : Len(q) \in Nat
        OBVIOUS
      <4>. QED
        BY <3>2, <4>1
    <3>4. Len(ini[c].transport.got) <= y.transport.sent
      <4>1. resp[s].transport.sent <= y.transport.sent
        BY DEF Keeps
      <4>2. \A k, a, b \in Nat : k <= a /\ a <= b => k <= b
        OBVIOUS
      <4>. QED
        BY <3>1, <3>2, <3>3, <4>1, <4>2
    <3>5. Len(y.transport.got) <= ini[c].transport.sent /\ y.of = c /\ y.pc = "viewed"
      BY <3>1 DEF Keeps
    <3>. QED
      BY <1>1, <2>2, <2>4, <3>1, <3>4, <3>5 DEF Paired
  <2>. QED
    BY <2>3, <2>4
<1>6. Ends(y.transport, y.pc, "viewed", "c2") /\ Consecutive(y.transport.got)
  BY DEF Ends, Keeps
<1>. QED
  BY ZenonT(30), <1>3, <1>4, <1>5, <1>6, ResponderSteps

\* The steps of a responder with a transport.
LEMMA AgentTransport ==
  ASSUME SecureInv, store' = store, NEW s \in Responders,
         View(s) \/ AgentEncrypts(s) \/ AgentDecrypts(s) \/ CloseTransport(s)
  PROVE  SecureInv'
<1>. DEFINE t == resp[s].transport
            n == ini[resp[s].of].transport.sent
<1>1. /\ resp \in [Responders -> Resp] /\ resp[s] \in Resp /\ pipe \in [Responders -> Pipe] /\ pipe[s] \in Pipe
      /\ Under(pipe[s].agent, n) /\ Under(pipe[s].client, t.sent)
  BY DEF SecureInv, Flow
<1>2. t \in Transport
  BY <1>1 DEF Resp
<1>3. pipe[s].agent \in Seq(Frames) /\ pipe[s].client \in Seq(Frames) /\ t.sent \in Nat /\ t.send \in Ciphers
  <2>1. pipe[s].agent \in Seq(Frames) /\ pipe[s].client \in Seq(Frames)
    BY <1>1 DEF Pipe
  <2>2. t.sent \in Nat /\ t.send \in Ciphers
    BY <1>2 DEF Transport
  <2>. QED
    BY <2>1, <2>2
<1>4. t.open => resp[s].pc = "viewed" /\ t.send = "c2"
  BY DEF SecureInv, Ends
<1>5. Consecutive(t.got) /\ \A x \in sealed : SealedBy(x)
  BY DEF SecureInv
<1>6. ASSUME NEW u \in Transport, NEW p \in Pipe, resp[s].pc = "viewed", u.send = "c2",
             resp' = [resp EXCEPT ![s].transport = u], pipe' = [pipe EXCEPT ![s] = p], ini' = ini,
             t.sent <= u.sent, Consecutive(u.got), p.agent # <<>> => pipe[s].agent # <<>>,
             u.got = t.got \/ (pipe[s].agent # <<>> /\ Len(u.got) <= n),
             Under(p.agent, n), Under(p.client, u.sent), \A x \in sealed' : SealedBy(x)
      PROVE  SecureInv'
  <2>. DEFINE y == [resp[s] EXCEPT !.transport = u]
  <2>1. y \in Resp /\ y.pc = "viewed" /\ y.transport = u /\ y.of = resp[s].of /\ y.began = resp[s].began /\ y.epoch = resp[s].epoch
    BY <1>1, <1>6 DEF Resp
  <2>2. resp' = [resp EXCEPT ![s] = y]
    BY <1>1, <1>6
  <2>. HIDE DEF y
  <2>3. Keeps(s, y, p)
    BY <1>6, <2>1 DEF Keeps
  <2>. QED
    BY <1>6, <2>1, <2>2, <2>3, ViewSteps
<1>. HIDE DEF n
<1>7. CASE AgentEncrypts(s)
  <2>. DEFINE f == Frame(s, t)
              u == Encrypted(t)
              p == [pipe[s] EXCEPT !.agent = pipe[s].agent, !.client = Append(pipe[s].client, f)]
  <2>1. /\ t.open /\ ini' = ini /\ resp' = [resp EXCEPT ![s].transport = u]
        /\ pipe' = [pipe EXCEPT ![s].client = Append(@, f)] /\ sealed' = sealed \cup {[by |-> "agent", f |-> f]}
    BY <1>7 DEF AgentEncrypts, Encrypts
  <2>2. f \in Frames /\ f.counter = t.sent /\ f.cipher = t.send
    BY <1>2, EncryptedNext
  <2>3. u \in Transport /\ u.send = t.send /\ u.sent = t.sent + 1 /\ u.got = t.got /\ t.sent <= u.sent
    BY <1>2, EncryptedNext
  <2>. HIDE DEF f, u, t
  <2>4. Append(pipe[s].client, f) \in Seq(Frames) /\ Under(Append(pipe[s].client, f), t.sent + 1)
    BY <1>1, <1>3, <2>2, UnderAdded
  <2>5. p \in Pipe /\ p.agent = pipe[s].agent /\ p.client = Append(pipe[s].client, f)
    BY <1>1, <1>3, <2>4 DEF Pipe
  <2>6. pipe' = [pipe EXCEPT ![s] = p]
    BY <1>1, <2>1 DEF Pipe
  <2>. HIDE DEF p
  <2>7. \A x \in sealed' : SealedBy(x)
    BY <1>4, <1>5, <2>1, <2>2 DEF SealedBy
  <2>. QED
    <3>1. resp[s].pc = "viewed" /\ u.send = "c2" /\ Consecutive(u.got)
      BY <1>4, <1>5, <2>1, <2>3
    <3>2. Under(p.agent, n) /\ Under(p.client, u.sent) /\ (p.agent # <<>> => pipe[s].agent # <<>>)
      BY <1>1, <2>3, <2>4, <2>5
    <3>. QED
      BY ZenonT(30), <1>6, <2>1, <2>3, <2>5, <2>6, <2>7, <3>1, <3>2
<1>8. CASE CloseTransport(s)
  <2>. DEFINE u == [t EXCEPT !.open = FALSE]
  <2>1. t.open /\ ini' = ini /\ pipe' = pipe /\ sealed' = sealed /\ resp' = [resp EXCEPT ![s].transport = u]
    BY <1>1, <1>8 DEF CloseTransport
  <2>2. u \in Transport /\ u.send = t.send /\ u.sent = t.sent /\ u.got = t.got
    BY <1>2 DEF Transport
  <2>. HIDE DEF u, t
  <2>3. pipe' = [pipe EXCEPT ![s] = pipe[s]] /\ t.sent <= u.sent
    BY <1>1, <1>3, <2>1, <2>2
  <2>. QED
    BY <1>1, <1>4, <1>5, <1>6, <2>1, <2>2, <2>3
<1>9. CASE AgentDecrypts(s)
  <2>. DEFINE f == Head(pipe[s].agent)
              u == Decrypted(s, t, f)
              p == [pipe[s] EXCEPT !.agent = Tail(pipe[s].agent)]
  <2>1. /\ t.open /\ pipe[s].agent # <<>> /\ ini' = ini /\ sealed' = sealed
        /\ resp' = [resp EXCEPT ![s].transport = u] /\ pipe' = [pipe EXCEPT ![s].agent = Tail(@)]
    BY <1>9 DEF AgentDecrypts
  <2>. HIDE DEF u, f
  <2>2. resp[s].of \in Initiators /\ n \in Nat /\ Len(t.got) <= n
    <3>1. resp[s].of \in Initiators /\ ini[resp[s].of].pc = "complete" /\ ini[resp[s].of].with = s
      BY <2>1 DEF SecureInv, Flow
    <3>2. ini[resp[s].of].transport \in Transport /\ Paired(resp[s].of)
      BY <3>1 DEF SecureInv, Ini
    <3>. QED
      BY <3>1, <3>2 DEF n, Paired, Transport
  <2>3. f \in Frames /\ f.counter < n /\ Tail(pipe[s].agent) \in Seq(Frames) /\ Under(Tail(pipe[s].agent), n)
    BY <1>1, <1>3, <2>1, UnderTaken DEF f
  <2>. HIDE DEF t
  <2>4. u \in Transport /\ u.send = t.send /\ u.sent = t.sent /\ Consecutive(u.got) /\ Len(u.got) <= n
    BY <1>2, <1>5, <2>2, <2>3, DecryptedNext DEF u
  <2>5. p \in Pipe /\ p.agent = Tail(pipe[s].agent) /\ p.client = pipe[s].client
    BY <1>1, <2>3 DEF Pipe
  <2>6. pipe' = [pipe EXCEPT ![s] = p] /\ t.sent <= u.sent
    BY <1>1, <1>3, <2>1, <2>4 DEF Pipe
  <2>. HIDE DEF p
  <2>. QED
    <3>1. resp[s].pc = "viewed" /\ u.send = "c2" /\ \A x \in sealed' : SealedBy(x)
      BY <1>4, <1>5, <2>1, <2>4
    <3>2. Under(p.agent, n) /\ (p.agent # <<>> => pipe[s].agent # <<>>)
      BY <2>1, <2>3, <2>5
    <3>3. Under(p.client, u.sent)
      BY <1>1, <2>4, <2>5
    <3>. QED
      BY ZenonT(30), <1>6, <2>1, <2>4, <2>5, <2>6, <3>1, <3>2, <3>3
<1>10. CASE View(s)
  <2>. DEFINE u == [NoTransport EXCEPT !.open = TRUE, !.send = "c2", !.receive = "c1"]
              y == [[resp[s] EXCEPT !.pc = "viewed"] EXCEPT !.transport = u]
  <2>1. /\ resp[s].pc = "complete" /\ ini' = ini /\ pipe' = pipe /\ sealed' = sealed /\ resp' = [resp EXCEPT ![s] = y]
    BY <1>1, <1>10 DEF View
  <2>2. u \in Transport /\ u.send = "c2" /\ u.sent = 0 /\ u.got = <<>>
    BY Opened DEF Ciphers
  <2>. HIDE DEF u
  <2>3. y \in Resp /\ y.pc = "viewed" /\ y.transport = u /\ y.of = resp[s].of /\ y.began = resp[s].began /\ y.epoch = resp[s].epoch
    BY <1>1, <2>2 DEF Resp
  <2>4. t.sent = 0 /\ t.got = <<>>
    BY <2>1 DEF SecureInv, Ends
  <2>. HIDE DEF y, t
  <2>5. pipe' = [pipe EXCEPT ![s] = pipe[s]] /\ 0 <= 0
    BY <1>1, <2>1
  <2>6. Keeps(s, y, pipe[s])
    BY <1>1, <1>5, <2>1, <2>2, <2>3, <2>4, <2>5 DEF Keeps, t, n
  <2>. QED
    BY <1>1, <1>5, <2>1, <2>3, <2>5, <2>6, ViewSteps
<1>. QED
  BY <1>7, <1>8, <1>9, <1>10

\* The carrier loses a frame.
LEMMA LoseFrameSecure ==
  ASSUME SecureInv, store' = store, NEW s \in Responders, LoseFrame(s)
  PROVE  SecureInv'
<1>1. /\ resp \in [Responders -> Resp] /\ resp[s] \in Resp /\ pipe \in [Responders -> Pipe] /\ pipe[s] \in Pipe
      /\ Flow(s) /\ Responder(s) /\ \A c \in Initiators : Paired(c)
  BY DEF SecureInv
<1>2. ini' = ini /\ resp' = resp /\ sealed' = sealed
  BY DEF LoseFrame
<1>3. pipe[s].agent \in Seq(Frames) /\ pipe[s].client \in Seq(Frames)
  BY <1>1 DEF Pipe
<1>4. PICK p \in Pipe : /\ pipe' = [pipe EXCEPT ![s] = p]
                        /\ \/ p.agent = pipe[s].agent /\ p.client = Tail(pipe[s].client) /\ pipe[s].client # <<>>
                           \/ p.client = pipe[s].client /\ p.agent = Tail(pipe[s].agent) /\ pipe[s].agent # <<>>
  <2>1. CASE pipe[s].agent # <<>> /\ pipe' = [pipe EXCEPT ![s].agent = Tail(@)]
    <3>1. Tail(pipe[s].agent) \in Seq(Frames)
      BY <1>3, <2>1
    <3>2. [pipe[s] EXCEPT !.agent = Tail(pipe[s].agent)] \in Pipe
      BY <1>1, <3>1 DEF Pipe
    <3>. QED
      BY <1>1, <2>1, <3>2 DEF Pipe
  <2>2. CASE pipe[s].client # <<>> /\ pipe' = [pipe EXCEPT ![s].client = Tail(@)]
    <3>1. Tail(pipe[s].client) \in Seq(Frames)
      BY <1>3, <2>2
    <3>2. [pipe[s] EXCEPT !.client = Tail(pipe[s].client)] \in Pipe
      BY <1>1, <3>1 DEF Pipe
    <3>. QED
      BY <1>1, <2>2, <3>2 DEF Pipe
  <2>. QED
    BY <2>1, <2>2 DEF LoseFrame
<1>5. Flow(s)'
  <2>1. Under(pipe[s].agent, ini[resp[s].of].transport.sent) /\ Under(pipe[s].client, resp[s].transport.sent)
    BY <1>1 DEF Flow
  <2>2. /\ Under(p.agent, ini[resp[s].of].transport.sent) /\ Under(p.client, resp[s].transport.sent)
        /\ p.agent # <<>> => pipe[s].agent # <<>>
    BY <1>3, <1>4, <2>1, UnderTaken
  <2>3. pipe'[s] = p
    BY <1>1, <1>4
  <2>. QED
    BY ZenonT(30), <1>1, <1>2, <2>2, <2>3 DEF Flow
<1>6. Responder(s)' /\ \A c \in Initiators : Paired(c)'
  BY <1>1, <1>2 DEF Responder, Paired
<1>7. resp' = [resp EXCEPT ![s] = resp[s]]
  BY <1>1, <1>2
<1>8. /\ Ends(resp[s].transport, resp[s].pc, "viewed", "c2") /\ Consecutive(resp[s].transport.got)
      /\ \A x \in sealed' : SealedBy(x)
  BY <1>2 DEF SecureInv
<1>. QED
  BY <1>1, <1>2, <1>4, <1>5, <1>6, <1>7, <1>8, ResponderSteps

\* A client with a transport takes a step.
ClientMoves(c, s, u, p) ==
  /\ ini[c].pc = "complete" /\ ini[c].with = s
  /\ ini' = [ini EXCEPT ![c].transport = u] /\ pipe' = [pipe EXCEPT ![s] = p]
  /\ u.send = "c1" /\ Consecutive(u.got) /\ ini[c].transport.sent <= u.sent
  /\ Len(u.got) <= resp[s].transport.sent
  /\ Under(p.agent, u.sent) /\ Under(p.client, resp[s].transport.sent)
  /\ \A x \in sealed' : SealedBy(x)

LEMMA ClientSteps ==
  ASSUME SecureInv, store' = store, resp' = resp, NEW c \in Initiators, NEW s \in Responders, NEW u \in Transport,
         NEW p \in Pipe, ClientMoves(c, s, u, p)
  PROVE  SecureInv'
<1>. USE DEF ClientMoves
<1>. DEFINE x == [ini[c] EXCEPT !.transport = u]
<1>1. /\ ini \in [Initiators -> Ini] /\ ini[c] \in Ini /\ resp \in [Responders -> Resp] /\ pipe \in [Responders -> Pipe]
      /\ Paired(c)
  BY DEF SecureInv
<1>2. /\ x \in Ini /\ x.pc = "complete" /\ x.with = s /\ x.d = ini[c].d /\ x.known = ini[c].known
      /\ x.epoch = ini[c].epoch /\ x.transport = u
  BY <1>1 DEF Ini
<1>3. ini' = [ini EXCEPT ![c] = x] /\ ini'[c] = x /\ \A e \in Initiators : e # c => ini'[e] = ini[e]
  BY <1>1
<1>. HIDE DEF x
<1>4. ini[c].transport.sent \in Nat /\ u.sent \in Nat
  <2>1. ini[c].transport \in Transport
    BY <1>1 DEF Ini
  <2>. QED
    BY <2>1 DEF Transport
<1>5. ASSUME NEW q \in Responders PROVE Flow(q)'
  <2>1. Flow(q) /\ pipe[q].agent \in Seq(Frames)
    BY <1>1 DEF SecureInv, Pipe
  <2>2. CASE q = s
    <3>1. resp[s].of = c /\ pipe'[s] = p
      BY <1>1 DEF Paired
    <3>. QED
      BY <1>2, <1>3, <2>2, <3>1 DEF Flow
  <2>3. CASE q # s /\ resp[q].of = c
    <3>1. pipe[q].agent = <<>> /\ resp[q].transport.got = <<>> /\ pipe'[q] = pipe[q]
      BY <1>1, <2>1, <2>3 DEF Flow
    <3>. QED
      BY <2>1, <3>1, UnderMore DEF Flow
  <2>4. CASE q # s /\ resp[q].of # c
    <3>1. pipe'[q] = pipe[q]
      BY <1>1, <2>4
    <3>2. CASE resp[q].of \in Initiators
      <4>1. ini'[resp[q].of] = ini[resp[q].of]
        BY <1>3, <2>4, <3>2
      <4>. QED
        BY <2>1, <3>1, <4>1 DEF Flow
    <3>3. CASE resp[q].of \notin Initiators
      <4>1. pipe[q].agent = <<>> /\ resp[q].transport.got = <<>>
        BY <2>1, <3>3 DEF Flow
      <4>. QED
        BY <2>1, <3>1, <4>1, UnderMore DEF Flow
    <3>. QED
      BY <3>2, <3>3
  <2>. QED
    BY <2>2, <2>3, <2>4
<1>6. Paired(c)'
  <2>1. /\ resp[s].of = c /\ resp[s].pc \in {"complete", "viewed"} /\ ini[c].known <= ini[c].epoch
        /\ Len(resp[s].transport.got) <= ini[c].transport.sent
    BY <1>1 DEF Paired
  <2>2. Len(resp[s].transport.got) \in Nat
    <3>1. resp[s].transport \in Transport
      BY <1>1 DEF Resp
    <3>2. resp[s].transport.got \in Seq(Nat)
      BY <3>1 DEF Transport
    <3>. QED
      BY <3>2
  <2>3. Len(resp[s].transport.got) <= u.sent
    BY <1>4, <2>1, <2>2
  <2>. QED
    BY <1>2, <1>3, <2>1, <2>3 DEF Paired
<1>7. Ends(x.transport, x.pc, "complete", "c1") /\ Consecutive(x.transport.got)
  BY <1>2 DEF Ends
<1>8. pipe' \in [Responders -> Pipe]
  BY <1>1
<1>. QED
  BY <1>2, <1>3, <1>5, <1>6, <1>7, <1>8, InitiatorSteps

LEMMA ClientTransport ==
  ASSUME SecureInv, store' = store, NEW c \in Initiators, ClientEncrypts(c) \/ ClientDecrypts(c)
  PROVE  SecureInv'
<1>. DEFINE s == ini[c].with
            t == ini[c].transport
            n == resp[s].transport.sent
<1>0. s = ini[c].with /\ t = ini[c].transport /\ n = resp[s].transport.sent
  OBVIOUS
<1>1. /\ t.open /\ resp' = resp
  BY DEF ClientEncrypts, ClientDecrypts, Encrypts
<1>2. ini[c].pc = "complete" /\ t.send = "c1" /\ Consecutive(t.got) /\ \A x \in sealed : SealedBy(x)
  BY <1>1 DEF SecureInv, Ends
<1>3. /\ s \in Responders /\ resp[s].of = c /\ Len(t.got) <= n
  BY <1>2 DEF SecureInv, Paired
<1>4. t \in Transport /\ resp[s].transport \in Transport
  BY <1>3 DEF SecureInv, Ini, Resp
<1>5. n \in Nat /\ t.sent \in Nat
  BY <1>4 DEF Transport
<1>6. pipe \in [Responders -> Pipe] /\ pipe[s] \in Pipe /\ Under(pipe[s].agent, t.sent) /\ Under(pipe[s].client, n)
  BY <1>3 DEF SecureInv, Flow
<1>7. pipe[s].agent \in Seq(Frames) /\ pipe[s].client \in Seq(Frames)
  BY <1>6 DEF Pipe
<1>8. CASE ClientEncrypts(c)
  <2>. DEFINE f == Frame(s, t)
              u == Encrypted(t)
              p == [pipe[s] EXCEPT !.agent = Append(pipe[s].agent, f)]
  <2>1. /\ ini' = [ini EXCEPT ![c].transport = u] /\ pipe' = [pipe EXCEPT ![s].agent = Append(@, f)]
        /\ sealed' = sealed \cup {[by |-> "client", f |-> f]}
    BY <1>8 DEF ClientEncrypts
  <2>2. /\ f \in Frames /\ f.counter = t.sent /\ f.cipher = t.send
        /\ u \in Transport /\ u.send = t.send /\ u.sent = t.sent + 1 /\ u.got = t.got /\ t.sent <= u.sent
    BY <1>3, <1>4, EncryptedNext
  <2>. HIDE DEF f, u, t, n, s
  <2>3. Append(pipe[s].agent, f) \in Seq(Frames) /\ Under(Append(pipe[s].agent, f), t.sent + 1)
    BY <1>6, <1>7, <2>2, UnderAdded
  <2>4. p \in Pipe /\ p.agent = Append(pipe[s].agent, f) /\ p.client = pipe[s].client
    BY <1>6, <2>3 DEF Pipe
  <2>5. pipe' = [pipe EXCEPT ![s] = p]
    BY <1>3, <1>6, <2>1 DEF Pipe
  <2>. HIDE DEF p
  <2>6. \A x \in sealed' : SealedBy(x)
    BY <1>2, <2>1, <2>2 DEF SealedBy
  <2>7. Under(p.agent, u.sent) /\ Under(p.client, resp[s].transport.sent)
    BY <1>0, <1>6, <2>2, <2>3, <2>4
  <2>8. /\ u.send = "c1" /\ Consecutive(u.got) /\ ini[c].transport.sent <= u.sent
        /\ Len(u.got) <= resp[s].transport.sent /\ ini[c].with = s
    BY <1>0, <1>2, <1>3, <2>2
  <2>. QED
    <3>1. ClientMoves(c, s, u, p)
      BY ZenonT(30), <1>2, <2>1, <2>5, <2>6, <2>7, <2>8 DEF ClientMoves
    <3>. QED
      BY <1>1, <1>3, <2>2, <2>4, <3>1, ClientSteps
<1>9. CASE ClientDecrypts(c)
  <2>. DEFINE f == Head(pipe[s].client)
              u == Decrypted(s, t, f)
              p == [pipe[s] EXCEPT !.client = Tail(pipe[s].client)]
  <2>1. /\ pipe[s].client # <<>> /\ sealed' = sealed
        /\ ini' = [ini EXCEPT ![c].transport = u] /\ pipe' = [pipe EXCEPT ![s].client = Tail(@)]
    BY <1>9 DEF ClientDecrypts
  <2>. HIDE DEF u, f, n
  <2>2. f \in Frames /\ f.counter < n /\ Tail(pipe[s].client) \in Seq(Frames) /\ Under(Tail(pipe[s].client), n)
    BY <1>6, <1>7, <2>1, UnderTaken DEF f
  <2>. HIDE DEF t, s
  <2>3. u \in Transport /\ u.send = t.send /\ u.sent = t.sent /\ Consecutive(u.got) /\ Len(u.got) <= n
    BY <1>2, <1>3, <1>4, <1>5, <2>2, DecryptedNext DEF u
  <2>4. p \in Pipe /\ p.agent = pipe[s].agent /\ p.client = Tail(pipe[s].client)
    BY <1>6, <2>2 DEF Pipe
  <2>5. pipe' = [pipe EXCEPT ![s] = p] /\ t.sent <= u.sent
    BY <1>3, <1>5, <1>6, <2>1, <2>3 DEF Pipe
  <2>. HIDE DEF p
  <2>6. Under(p.agent, u.sent) /\ Under(p.client, resp[s].transport.sent)
    BY <1>0, <1>6, <2>2, <2>3, <2>4
  <2>7. /\ u.send = "c1" /\ ini[c].transport.sent <= u.sent
        /\ Len(u.got) <= resp[s].transport.sent /\ ini[c].with = s
    BY <1>0, <1>2, <1>3, <2>3, <2>5
  <2>. QED
    <3>1. \A x \in sealed' : SealedBy(x)
      BY <1>2, <2>1
    <3>2. ClientMoves(c, s, u, p)
      BY ZenonT(30), <1>2, <2>1, <2>3, <2>5, <2>6, <2>7, <3>1 DEF ClientMoves
    <3>. QED
      BY <1>1, <1>3, <2>3, <2>4, <3>2, ClientSteps
<1>. QED
  BY <1>8, <1>9

-----------------------------------------------------------------------------
(* Every step.                                                             *)

LEMMA NextSecure ==
  ASSUME StoreInv, SecureInv, [Next]_vars
  PROVE  SecureInv'
<1>1. CASE Changes
  <2>1. secureVars' = secureVars
    BY <1>1 DEF Changes, secureVars
  <2>. QED
    BY <1>1, <2>1, ChangesStore, SecureGrows
<1>2. CASE Secure
  <2>1. store' = store
    BY <1>2 DEF Secure, storeVars
  <2>2. CASE Handshakes
    <3>1. ASSUME NEW c \in Initiators, Start(c) \/ CloseInitiator(c) PROVE SecureInv'
      BY <2>1, <3>1, ClientGivesUp DEF Start, CloseInitiator
    <3>2. ASSUME NEW c \in Initiators, NEW s \in Responders, ReceiveStart(s, c) \/ Finish(c, s) PROVE SecureInv'
      BY <2>1, <3>2, AnswerSecure, FinishSecure
    <3>3. ASSUME NEW s \in Responders, AuthorizeStart(s) \/ CheckEpoch(s) \/ Respond(s) \/ View(s) PROVE SecureInv'
      BY <2>1, <3>3, AnswerSecure, AgentTransport
    <3>. QED
      BY <2>2, <3>1, <3>2, <3>3 DEF Handshakes
  <2>3. CASE Transports
    BY <2>1, <2>3, ClientTransport, AgentTransport, LoseFrameSecure DEF Transports
  <2>. QED
    BY <1>2, <2>2, <2>3 DEF Secure
<1>3. CASE ~Changes /\ ~Secure
  <2>1. secureVars' = secureVars /\ store' = store
    BY <1>3 DEF Next, Tick, Gate, Upgrade, Stream, vars, storeVars, secureVars
  <2>2. ini' = ini /\ resp' = resp /\ pipe' = pipe /\ sealed' = sealed
    BY <2>1 DEF secureVars
  <2>. QED
    <3>1. ASSUME NEW s \in Responders
          PROVE  Responder(s)'
      <4>1. Responder(s)
        BY DEF SecureInv
      <4>. QED
        BY <2>1, <2>2, <4>1 DEF Responder
    <3>2. ASSUME NEW s \in Responders
          PROVE  Flow(s)'
      <4>1. Flow(s)
        BY DEF SecureInv
      <4>. QED
        BY <2>2, <4>1 DEF Flow
    <3>3. ASSUME NEW c \in Initiators
          PROVE  Paired(c)'
      <4>1. Paired(c)
        BY DEF SecureInv
      <4>. QED
        BY <2>2, <4>1 DEF Paired
    <3>. QED
      BY <2>2, <3>1, <3>2, <3>3 DEF SecureInv
<1>. QED
  BY <1>1, <1>2, <1>3

LEMMA SecureInvariance == Spec => [](StoreInv /\ SecureInv)
<1>1. Init => StoreInv /\ SecureInv
  BY InitStore, InitSecure
<1>2. StoreInv /\ GateInv /\ SecureInv /\ [Next]_vars => (StoreInv /\ SecureInv)'
  BY NextGate, NextSecure
<1>. QED
  BY <1>1, <1>2, GateInvariance, PTL DEF Spec
=============================================================================

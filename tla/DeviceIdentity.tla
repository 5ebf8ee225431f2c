--------------------------- MODULE DeviceIdentity ---------------------------
(***************************************************************************)
(* The Agent's identity and authorization store (internal/deviceidentity)  *)
(* over the protected file of internal/securestore.                        *)
(*                                                                         *)
(* A process that opens the file keeps a copy in memory and never reads    *)
(* the file again: every update is made to a clone of that copy, validated,*)
(* written to the file and only then taken over.  The creation lock is held*)
(* while the file is opened, not while the copy is in use, so that each    *)
(* process has its own member of `store'.                                  *)
(*                                                                         *)
(* A record of an authorized device keeps its descriptor d = [id, signing, *)
(* version, class, valid], `valid' standing for the bounds and the         *)
(* signature that VerifySignedDescriptor checks.                           *)
(***************************************************************************)
EXTENDS Integers, Sequences, FiniteSets

CONSTANTS Processes,      \* processes that open the identity file
          AgentID,        \* the Agent's own device ID
          MaxAuthorized,  \* maxAuthorizedDevices
          MaxUint,        \* the largest value of a counter (2^64 - 1 in the code)
          MaxFaults       \* bound: writes of the file that fail

VARIABLES file,    \* the state in the identity file, or NoState
          store,   \* the copy each process holds, or NoState
          faults   \* writes that failed so far

storeVars == <<file, store, faults>>

\* No file, or a closed store; no state of a store has these counters.
NoState == [authorized |-> <<>>, counter |-> -1, epoch |-> -1]

-----------------------------------------------------------------------------
(* The state and the records in it.                                        *)

\* generateState: a new identity authorizes nobody.
GenerateState == [authorized |-> <<>>, counter |-> 0, epoch |-> 0]

\* VerifySignedDescriptor, with the bounds of ValidateDescriptor.
VerifySignedDescriptor(d) == d.valid /\ d.version > 0 /\ d.class \in {"agent", "client"}

\* The index of a device ID among the records, 0 when there is none.
IndexOf(st, id) ==
    LET at == {i \in DOMAIN st.authorized : st.authorized[i].d.id = id}
    IN  IF at = {} THEN 0 ELSE CHOOSE i \in at : \A j \in at : i <= j

\* AuthorizedDevice, as its state: authorized, revoked or unknown.
AuthorizedDevice(st, id) ==
    IF IndexOf(st, id) = 0 THEN "unknown" ELSE st.authorized[IndexOf(st, id)].state

\* AuthorizedDevices(false): the device IDs that are not revoked, in order.
AuthorizedDevices(st) ==
    LET live == SelectSeq(st.authorized, LAMBDA r : r.state # "revoked")
    IN  [i \in DOMAIN live |-> live[i].d.id]

ValidRecord(st, r) ==
    /\ VerifySignedDescriptor(r.d) /\ r.d.class = "client"
    /\ r.version > 0 /\ r.version <= st.counter
    /\ IF r.state = "authorized" THEN r.epoch = 0
                                 ELSE r.epoch > 0 /\ r.epoch <= st.epoch

ValidateState(st) ==
    /\ Len(st.authorized) <= MaxAuthorized
    /\ \A i \in DOMAIN st.authorized :
          /\ ValidRecord(st, st.authorized[i])
          /\ IndexOf(st, st.authorized[i].d.id) = i

-----------------------------------------------------------------------------
(* Authorize and Revoke, as functions of the state in memory.  A counter   *)
(* is an unsigned word: Authorize finds its exhaustion by the wrap to 0.   *)

Word(n) == n % (MaxUint + 1)

\* An identical active authorization is returned as it is.
AlreadyAuthorized(st, d) ==
    /\ AuthorizedDevice(st, d.id) = "authorized"
    /\ st.authorized[IndexOf(st, d.id)].d = d

\* The state after Authorize, before it is validated and saved.
Authorized(st, d) ==
    LET i == IndexOf(st, d.id)
        r == [d |-> d, version |-> Word(st.counter + 1), state |-> "authorized", epoch |-> 0]
    IN  [st EXCEPT !.counter = Word(@ + 1),
                   !.authorized = IF i = 0 THEN Append(@, r) ELSE [@ EXCEPT ![i] = r]]

CanAuthorize(st, d) ==
    /\ VerifySignedDescriptor(d) /\ d.class = "client" /\ d.id # AgentID
    /\ IF IndexOf(st, d.id) = 0
       THEN Len(st.authorized) < MaxAuthorized
       ELSE LET old == st.authorized[IndexOf(st, d.id)].d
            IN  d.signing = old.signing /\ d.version >= old.version
    /\ Word(st.counter + 1) # 0
    /\ ValidateState(Authorized(st, d))

Revoked(st, id) ==
    [st EXCEPT !.counter = @ + 1,
               !.epoch = @ + 1,
               !.authorized[IndexOf(st, id)].version = st.counter + 1,
               !.authorized[IndexOf(st, id)].state = "revoked",
               !.authorized[IndexOf(st, id)].epoch = st.epoch + 1]

CanRevoke(st, id) ==
    /\ AuthorizedDevice(st, id) = "authorized"
    /\ st.counter < MaxUint /\ st.epoch < MaxUint
    /\ ValidateState(Revoked(st, id))

-----------------------------------------------------------------------------
(* Opening, saving and closing.                                            *)

\* Load fails when the file is missing.
Load(p) ==
    /\ file # NoState
    /\ store' = [store EXCEPT ![p] = file]
    /\ UNCHANGED <<file, faults>>

\* LoadOrCreate writes the first identity under the creation lock.
LoadOrCreate(p) ==
    /\ file' = IF file = NoState THEN GenerateState ELSE file
    /\ store' = [store EXCEPT ![p] = file']
    /\ UNCHANGED faults

\* saveState succeeds: the file is replaced, then the copy in memory.
Save_Slip(p, next) ==
    /\ store' = [store EXCEPT ![p] = next]
    /\ UNCHANGED <<file, faults>>
Save(p, next) ==
    /\ file' = next
    /\ store' = [store EXCEPT ![p] = next]
    /\ UNCHANGED faults

\* writeAtomic reports an error: before the rename the file is the old one;
\* after it, when the directory does not sync, it is the new one.  The caller
\* keeps its copy either way.
SaveFails(p, next) ==
    /\ faults < MaxFaults
    /\ faults' = faults + 1
    /\ file' \in {file, next}
    /\ UNCHANGED store

Close(p) ==
    /\ store' = [store EXCEPT ![p] = NoState]
    /\ UNCHANGED <<file, faults>>
=============================================================================

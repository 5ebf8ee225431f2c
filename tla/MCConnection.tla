---------------------------- MODULE MCConnection ----------------------------
(* Connection on small instances. *)
EXTENDS Connection, TLC

CONSTANTS c1, c2, s1, s2, r1, r2, h1, h2
MCHosts == {h1, h2}
MCInitiators == {c1, c2}
MCResponders == {s1, s2}
MCRequests == {r1, r2}

\* Handshakes, requests and addresses are alike until they are used.
Alike == Permutations(MCInitiators) \cup Permutations(MCResponders) \cup Permutations(MCRequests)
         \cup Permutations(MCHosts)

Phone(id, version) == [id |-> id, signing |-> id, version |-> version, class |-> "client", valid |-> TRUE]
MCDevice == Phone("d1", 1)
MCNewer == Phone("d1", 2)
MCOld == Phone("d2", 1)

\* The device, the Agent's own page, and a device that lost its signing key.
MCCredentials == {[id |-> "d1", signing |-> "d1"], [id |-> "agent", signing |-> "agent"],
                  [id |-> "d1", signing |-> "new"]}
\* Upgrades and handshakes while the store changes, the frames of a handshake, and
\* one connection.
MCCasts == {{"upgrade"}, {"secure"}, {"transport"}, {"stream"}}
=============================================================================

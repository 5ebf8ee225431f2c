---------------------------- MODULE MCRelayRoute ----------------------------
(* RelayRoute on small instances. *)
EXTENDS RelayRoute

Phone(id) == [id |-> id, signing |-> id, version |-> 1, class |-> "client", valid |-> TRUE]
MCDevice == Phone("d1")
MCOld == Phone("d2")

\* The relay and its control plane as time passes, the Agent with its limiter
\* as time passes, both of them, both with processes that stop and a device that
\* is revoked, and with frames.
MCCasts == {{"relay", "admin", "retry", "clock"}, {"agent", "limit", "clock"},
            {"agent", "relay", "clock"}, {"agent", "relay", "revoke", "stop"},
            {"agent", "relay", "frames"}}
=============================================================================

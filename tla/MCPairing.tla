----------------------------- MODULE MCPairing ------------------------------
(***************************************************************************)
(* Three phones: c1 pairs device d1, c2 the same device with its next key, *)
(* c3 another device.  The recover commands are run in the behaviours with *)
(* two devices.                                                            *)
(***************************************************************************)
EXTENDS Pairing, TLC

CONSTANTS d1, d2, agent, k1, k2

Descriptor(id, key, version) ==
    [id |-> id, signing |-> key, version |-> version, class |-> "client", valid |-> TRUE]

MCClient == "c1" :> Descriptor(d1, k1, 1) @@ "c2" :> Descriptor(d1, k1, 2)
            @@ "c3" :> Descriptor(d2, k2, 1)
=============================================================================

--------------------------- MODULE MCTunnelManager ---------------------------
(***************************************************************************)
(* Instances of TunnelManager for TLC.                                     *)
(***************************************************************************)
EXTENDS TunnelManager, TLC

CONSTANTS a, b, d1, d2, k1, k2

Imported(tunnels) == [tunnels |-> tunnels, mode |-> "single", active |-> a, default |-> a]

NaiveTunnel ==
  [tag |-> a, transport |-> "naive", backend |-> "ssh", domain |-> d1, port |-> 0,
   enabled |-> TRUE, keyDir |-> a, pub |-> NoKey, mtu |-> DefaultMTU]

\* A backup of another host, and one that Validate rejects.
Backups == {Imported(<<NaiveTunnel>>),
            Imported(<<NaiveTunnel, [NaiveTunnel EXCEPT !.tag = b, !.backend = "socks"]>>)}

NoImports == {}

\* Tags, domains and keys are interchangeable where nothing is imported.
Symmetry == Permutations({a, b}) \cup Permutations({d1, d2}) \cup Permutations({k1, k2})
===============================================================================

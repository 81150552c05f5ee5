------------------------------ MODULE MCDnsRouter ------------------------------
(***************************************************************************)
(* Instances of DnsRouter for TLC.  Two tunnels ta and tb on one server; the *)
(* queries named x and y are below their domains.                          *)
(***************************************************************************)
EXTENDS DnsRouter, TLC

CONSTANTS q1, q2, q3, q4, ta, tb, x, y, pa, pb, ka

MCNames == {ta, tb, x, y}
MCTunnels ==
  << [tag |-> ta, domain |-> ta, backend |-> pa, enabled |-> TRUE, dns |-> TRUE, key |-> ka] >>

\* Tunnel tb is the default; its domain is below ta's in the nested instance.
MCTwoTunnels ==
  MCTunnels \o
  << [tag |-> tb, domain |-> tb, backend |-> pb, enabled |-> TRUE, dns |-> TRUE, key |-> NoKey] >>

MCBelow == {<<x, ta>>}
MCNested == {<<x, ta>>, <<x, tb>>, <<tb, ta>>}

\* q1, q2 and q3 are below ta, carry no proof and compete for TXIDs.  q4 matches
\* no route; or it is a valid verification probe of ta.
MCCompeting == {q1, q2, q3}
MCUnroutable == [q \in Queries |-> IF q = q4 THEN y ELSE x]
MCSameName == [q \in Queries |-> x]
MCProbe == [q \in Queries |-> IF q = q4 THEN ka ELSE NoKey]

\* The competing queries are interchangeable (safety runs only).
MCSymmetry == Permutations(MCCompeting)
===============================================================================

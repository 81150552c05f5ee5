------------------------------ MODULE RouteTable ------------------------------
(***************************************************************************)
(* The DNS router's routing data: what Serve derives from the tunnels of   *)
(* the configuration when the process starts, and the lookups that each    *)
(* packet makes in it (internal/dnsrouter/router.go, verify.go).           *)
(*                                                                         *)
(* A domain name is a member of Names.  Of the label structure of names    *)
(* only one relation matters to the lookups: <<n, d>> \in Below when the   *)
(* name n ends with "." followed by d.  Lower-casing and the trailing dot  *)
(* are applied to both sides of every comparison in the code, so equal     *)
(* names are one member here.                                              *)
(***************************************************************************)
EXTENDS Naturals, Sequences

CONSTANTS
  Names,        \* domain names of tunnels and of queries
  Below,        \* <<n, d>>: n is a proper subdomain of d
  Tags,         \* tunnel tags
  Backends,     \* backend addresses, 127.0.0.1:<tunnel port>
  Keys,         \* HMAC keys: public keys and certificate fingerprints
  NoBackend,    \* the empty string findBackend returns when nothing matches
  NoKey         \* no usable key file, or a query that carries no proof

\* The fields of a tunnel that Serve reads.  dns is IsDNSTunnel(); key is
\* NoKey when the key path is empty or loadPubkey/certToHMACKey fails.
TunnelEntry == [tag : Tags, domain : Names, backend : Backends,
                enabled : BOOLEAN, dns : BOOLEAN, key : Keys \cup {NoKey}]

ASSUME NamesAssumption ==
  /\ Below \subseteq Names \X Names
  /\ \A n \in Names : <<n, n>> \notin Below

ASSUME SentinelAssumption == NoBackend \notin Backends /\ NoKey \notin Keys

-------------------------------------------------------------------------------
\* Serve skips disabled tunnels and tunnels whose transport is not DNS.
Served(tunnels) ==
  {i \in DOMAIN tunnels : tunnels[i].enabled /\ tunnels[i].dns}

\* The last of the served tunnels with domain d: AddRoute overwrites.
LastServed(tunnels, d) ==
  CHOOSE i \in Served(tunnels) :
    /\ tunnels[i].domain = d
    /\ \A j \in Served(tunnels) : tunnels[j].domain = d => j <= i

\* r.routes after Serve's loop.
RoutesOf(tunnels) ==
  [d \in {tunnels[i].domain : i \in Served(tunnels)} |->
     tunnels[LastServed(tunnels, d)].backend]

\* r.verifyRoutes after Serve's loop: appended in order, duplicates kept.
VerifyRoutesOf(tunnels) ==
  LET verifiable(t) == t.enabled /\ t.dns /\ t.key # NoKey
  IN  SelectSeq(tunnels, verifiable)

\* r.defaultDst.  GetTunnel returns the first tunnel with the tag; Serve asks
\* that it is a DNS tunnel, not that it is enabled.
DefaultOf(tunnels, defaultTag) ==
  LET tagged == {i \in DOMAIN tunnels : tunnels[i].tag = defaultTag}
      first  == CHOOSE i \in tagged : \A j \in tagged : i <= j
  IN  IF tagged # {} /\ tunnels[first].dns THEN tunnels[first].backend
                                           ELSE NoBackend

-------------------------------------------------------------------------------
\* The route domains that findBackend's suffix loop can return for n.
SuffixMatches(routes, n) == {d \in DOMAIN routes : <<n, d>> \in Below}

\* findBackend: an exact match wins; then the loop over the Go map stops at the
\* first suffix match, in an order that differs from call to call; then the
\* default.  The value is the set of results a call may return.
FindBackend(routes, default, n) ==
  IF n \in DOMAIN routes THEN {routes[n]}
  ELSE IF SuffixMatches(routes, n) # {}
       THEN {routes[d] : d \in SuffixMatches(routes, n)}
       ELSE {default}

\* handleVerify answers a query for n that carries a proof made with `key` when
\* that is the key of the FIRST registered route n is below (findVerifyRoute).
ValidProbe(verifyRoutes, n, key) ==
  \E i \in DOMAIN verifyRoutes :
    /\ <<n, verifyRoutes[i].domain>> \in Below
    /\ verifyRoutes[i].key = key
    /\ \A j \in 1..(i - 1) : <<n, verifyRoutes[j].domain>> \notin Below
===============================================================================

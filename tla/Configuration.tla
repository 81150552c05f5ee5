---------------------------- MODULE Configuration ----------------------------
(***************************************************************************)
(* The configuration of slipgate as a value: tunnels and routing settings, *)
(* and what the methods of config.Config and the handlers compute from it  *)
(* (internal/config, and the parts of internal/handlers that change the    *)
(* configuration in memory).                                               *)
(*                                                                         *)
(* A tunnel's transport settings are abstracted to what the properties     *)
(* tell apart: the directory its key or certificate path names (keyDir),   *)
(* the public key the configuration publishes (pub) and the MTU, which     *)
(* stands for every setting that goes into a command line or a Caddyfile.  *)
(***************************************************************************)
EXTENDS Naturals, Sequences, FiniteSets

CONSTANTS
  Tags,       \* tunnel tags the operator uses; all of them pass tagRegex
  Domains,    \* domain names
  Keys,       \* contents of a key pair or of a self-signed certificate
  Mtus,       \* values of the MTU setting
  DefaultMTU, \* config.DefaultMTU, also the value of transports without the setting
  BasePort,   \* config.BasePort, where NextAvailablePort begins
  NoTag,      \* the empty tag: nothing active, no default
  NoDomain,   \* the empty domain
  NoKey       \* no public key in the configuration

ASSUME ConfigurationAssumption ==
  /\ BasePort \in Nat \ {0}
  /\ DefaultMTU \in Mtus
  /\ NoTag \notin Tags
  /\ NoDomain \notin Domains
  /\ NoKey \notin Keys

-------------------------------------------------------------------------------
\* Transports and what config.TunnelConfig's methods say of them.
Transports == {"dnstt", "slipstream", "vaydns", "naive", "stuntls",
               "direct-ssh", "direct-socks5", "external"}

IsDNSTunnel(t)       == t.transport \in {"dnstt", "slipstream", "vaydns", "external"}
HasManagedService(t) == IsDNSTunnel(t) /\ t.transport # "external"
IsDirectTransport(t) == t.transport \in {"direct-ssh", "direct-socks5"}

\* CreateService writes a unit for every transport but these.
HasUnit(t) == ~IsDirectTransport(t) /\ t.transport # "external"

\* Transports with a key pair in server.key and server.pub, those with any
\* key material in their directory, and those that need no domain.
HasKeyPair(t)  == t.transport \in {"dnstt", "vaydns"}
HasKeyFiles(t) == HasKeyPair(t) \/ t.transport \in {"slipstream", "stuntls"}
NeedsDomain(t) == ~IsDirectTransport(t) /\ t.transport # "stuntls"

\* Transports with settings an edit can change besides the domain.
HasSettings(t) == HasKeyPair(t) \/ t.transport = "naive"

Tunnel == [tag : Tags, transport : Transports, backend : {"socks", "ssh", "external"},
           domain : Domains \cup {NoDomain}, port : Nat, enabled : BOOLEAN,
           keyDir : Tags, pub : Keys \cup {NoKey}, mtu : Mtus]

Config == [tunnels : Seq(Tunnel), mode : {"single", "multi"},
           active : Tags \cup {NoTag}, default : Tags \cup {NoTag}]

DefaultConfig == [tunnels |-> <<>>, mode |-> "single", active |-> NoTag, default |-> NoTag]

-------------------------------------------------------------------------------
TagsOf(c) == {c.tunnels[i].tag : i \in DOMAIN c.tunnels}

\* What GetTunnel and the choice of the active tunnel rely on: tags are unique,
\* and Route.Active is empty or the tag of a tunnel.
UniqueTags(c)   == \A i, j \in DOMAIN c.tunnels : c.tunnels[i].tag = c.tunnels[j].tag => i = j
ActiveListed(c) == c.active \in TagsOf(c) \cup {NoTag}

\* GetTunnel returns the first tunnel with the tag; this is its index.
IndexOf(c, tag) ==
  CHOOSE i \in DOMAIN c.tunnels :
    /\ c.tunnels[i].tag = tag
    /\ \A j \in 1..(i - 1) : c.tunnels[j].tag # tag

GetTunnel(c, tag) == c.tunnels[IndexOf(c, tag)]

\* The enabled DNS tunnels, which the handlers count to choose the mode.
EnabledDNS(tunnels) == {i \in DOMAIN tunnels : IsDNSTunnel(tunnels[i]) /\ tunnels[i].enabled}

FaultyNextAvailablePort(c) == BasePort + Len(c.tunnels)

\* The first port from BasePort on that no tunnel uses.  One of the first
\* Len + 1 ports is free, so the search ends.
NextAvailablePort(c) ==
  LET used == {c.tunnels[i].port : i \in DOMAIN c.tunnels}
  IN  CHOOSE port \in BasePort..(BasePort + Len(c.tunnels)) :
        /\ port \notin used
        /\ \A p \in BasePort..(port - 1) : p \in used

\* What ValidateNewTunnel asks of a new tunnel.
FaultyValidNewTunnel(c, t) ==
  /\ NeedsDomain(t) => t.domain # NoDomain
  /\ \A i \in DOMAIN c.tunnels :
       ~ /\ t.domain # NoDomain
         /\ c.tunnels[i].domain = t.domain
         /\ c.tunnels[i].backend = t.backend

ValidNewTunnel(c, t) ==
  /\ t.tag \notin TagsOf(c)
  /\ NeedsDomain(t) => t.domain # NoDomain
  /\ \A i \in DOMAIN c.tunnels :
       ~ /\ t.domain # NoDomain
         /\ c.tunnels[i].domain = t.domain
         /\ c.tunnels[i].backend = t.backend

\* What Validate asks of a whole configuration, before an import.
ValidConfig(c) ==
  /\ \A i, j \in DOMAIN c.tunnels :
       /\ c.tunnels[i].tag = c.tunnels[j].tag => i = j
       /\ c.tunnels[i].domain = c.tunnels[j].domain => i = j \/ c.tunnels[i].domain = NoDomain
  /\ \A i \in DOMAIN c.tunnels :
       LET t == c.tunnels[i] IN
         /\ NeedsDomain(t) => t.domain # NoDomain
         /\ t.transport # "external"                \* validateTransport does not know it
         /\ t.backend \in {"socks", "ssh"}

-------------------------------------------------------------------------------
\* addSingleTunnel: append; the first tunnel becomes active and default; a
\* second enabled DNS tunnel turns single mode into multi mode.
Register(c, t) ==
  LET tunnels == Append(c.tunnels, t) IN
  [tunnels |-> tunnels,
   mode    |-> IF IsDNSTunnel(t) /\ Cardinality(EnabledDNS(tunnels)) > 1 THEN "multi" ELSE c.mode,
   active  |-> IF c.active = NoTag THEN t.tag ELSE c.active,
   default |-> IF c.active = NoTag THEN t.tag ELSE c.default]

\* RemoveTunnel: drop the first tunnel with the tag, keep the order.
WithoutTunnel(c, tag) ==
  IF tag \notin TagsOf(c) THEN c.tunnels
  ELSE SubSeq(c.tunnels, 1, IndexOf(c, tag) - 1)
         \o SubSeq(c.tunnels, IndexOf(c, tag) + 1, Len(c.tunnels))

FaultyDeregister(c, tag) ==
  LET tunnels == WithoutTunnel(c, tag) IN
  [c EXCEPT !.tunnels = tunnels,
            !.mode    = IF Cardinality(EnabledDNS(tunnels)) <= 1 THEN "single" ELSE @]

\* removeSingleTunnel: the first tunnel left becomes active if the removed one
\* was; default is left alone; one DNS tunnel left means single mode.
Deregister(c, tag) ==
  LET tunnels == WithoutTunnel(c, tag) IN
  [c EXCEPT !.tunnels = tunnels,
            !.mode    = IF Cardinality(EnabledDNS(tunnels)) <= 1 THEN "single" ELSE @,
            !.active  = IF @ # tag THEN @
                        ELSE IF tunnels = <<>> THEN NoTag ELSE tunnels[1].tag]

\* A pointer into cfg.Tunnels is written through: the tunnel with the tag
\* becomes t, in its place.
Replace(c, tag, t) == [c EXCEPT !.tunnels[IndexOf(c, tag)] = t]

\* handleTunnelEdit's rename, in memory: key paths of DNSTT and VayDNS follow,
\* certificate paths do not; active and default follow.
Rename(c, tag, newTag) ==
  LET t == GetTunnel(c, tag)
      moved == [t EXCEPT !.tag = newTag, !.keyDir = IF HasKeyPair(t) THEN newTag ELSE @]
  IN  [Replace(c, tag, moved) EXCEPT !.active  = IF @ = tag THEN newTag ELSE @,
                                     !.default = IF @ = tag THEN newTag ELSE @]

\* handleSystemMTU: one MTU for every DNSTT and VayDNS tunnel.
WithMTU(c, mtu) ==
  [c EXCEPT !.tunnels = [i \in DOMAIN c.tunnels |->
     IF HasKeyPair(c.tunnels[i]) THEN [c.tunnels[i] EXCEPT !.mtu = mtu] ELSE c.tunnels[i]]]
===============================================================================

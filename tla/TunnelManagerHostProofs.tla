------------------------ MODULE TunnelManagerHostProofs ------------------------
(***************************************************************************)
(* The host is what the file says, whenever no command runs and nothing    *)
(* has failed: HostMatchesFile, for one process without imports.           *)
(*                                                                         *)
(* While a command runs, some tags are in its hands: their units, files    *)
(* and processes lag behind its copy of the configuration in a way that    *)
(* depends on the command and on the statement that comes next.  For every *)
(* other tag the host has what the copy says, and where the command ends   *)
(* its copy is what is on the file.                                        *)
(***************************************************************************)
EXTENDS TunnelManagerProofs

-------------------------------------------------------------------------------
(***************************************************************************)
(* The inductive invariant                                                 *)
(***************************************************************************)
\* systemctl stop and a switch of the active tunnel leave services stopped.
Stopping == Commands \cap {"stop", "switch"} # {}

LoadedFrom(f) == IF f = Torn THEN DefaultConfig ELSE f

\* What the host has for a tunnel t, or where nothing is to be: the files, the
\* process of the unit, the unit file.
Keyed(d, t) ==
  /\ HasKeyPair(t) => t.keyDir = t.tag /\ d[t.tag] = t.pub
  /\ t.transport = "naive" => d[t.tag] # NoDir

Own(u, r, tag) == r[tag] = NoUnit \/ r[tag] = u[tag]

UnitOf(t) == IF HasUnit(t) THEN t ELSE NoUnit

Clean(d, u, r, tag) == d[tag] = NoDir /\ u[tag] = NoUnit /\ r[tag] = NoUnit

Pending(d, u, r, t) == Keyed(d, t) /\ Own(u, r, t.tag) /\ (~HasUnit(t) => u[t.tag] = NoUnit)

Startable(d, u, r, t) == Pending(d, u, r, t) /\ r[t.tag] \in {NoUnit, t}

Started(d, u, r, t) == Startable(d, u, r, t) /\ HasUnit(t) /\ u[t.tag] = t

Matches(d, u, r, t) ==
  Pending(d, u, r, t) /\ u[t.tag] = UnitOf(t) /\ (r[t.tag] = u[t.tag] \/ Stopping)

Placed(d, u, r, c, tag) ==
  IF tag \in TagsOf(c) THEN Matches(d, u, r, GetTunnel(c, tag)) ELSE Clean(d, u, r, tag)

InPlace(d, u, r, c, S) == \A tag \in Tags \ S : Placed(d, u, r, c, tag)

SameAt(c, c2, tag) ==
  /\ tag \in TagsOf(c2) <=> tag \in TagsOf(c)
  /\ tag \in TagsOf(c) => GetTunnel(c2, tag) = GetTunnel(c, tag)

-------------------------------------------------------------------------------
AddMatch(f, d, u, r, c, l, j) ==
  LET tag == j.new.tag  t == GetTunnel(c, tag) IN
  /\ InPlace(d, u, r, c, IF l \in {"keys", "route", "reroute", "createRouter", "done"} THEN {} ELSE {tag})
  /\ l = "keys" => j.new.keyDir = tag
  /\ l = "register" => Startable(d, u, r, j.new)
  /\ l \in {"truncate", "write", "create"} => Startable(d, u, r, t)
  /\ l = "start" => Started(d, u, r, t)
  /\ l \in {"create", "start", "route", "reroute", "createRouter", "done"} => c = LoadedFrom(f)
  /\ l \in {"create", "start", "route", "reroute", "createRouter"} => f # Torn

Moved(d, u, r, t, newTag) ==
  /\ HasKeyPair(t) => d[newTag] = t.pub
  /\ t.transport = "naive" => d[newTag] # NoDir
  /\ d[t.tag] = NoDir /\ Own(u, r, t.tag)
  /\ u[newTag] = NoUnit /\ r[newTag] = NoUnit

Unsaved(f, u, r, c, old) ==
  LET saved == LoadedFrom(f) IN
  /\ old.tag \in TagsOf(saved) /\ GetTunnel(saved, old.tag) = old
  /\ \A tag \in Tags \ {old.tag} : SameAt(saved, c, tag)
  /\ u[old.tag] = UnitOf(old) /\ (r[old.tag] = u[old.tag] \/ Stopping)

EditMatch(f, d, u, r, c, l, j) ==
  LET tag == Head(j.todo)  t == GetTunnel(c, tag)  newTag == j.new.tag IN
  /\ t.transport = j.new.transport
  /\ tag # newTag => j.old.tag = tag
  /\ l = "renameDir" => InPlace(d, u, r, c, {})
  /\ tag # newTag /\ l # "renameDir" => InPlace(d, u, r, c, {tag, newTag}) /\ Moved(d, u, r, t, newTag)
  /\ l = "removeUnit" => r[tag] = NoUnit
  /\ tag = newTag => InPlace(d, u, r, c, {tag}) /\ Pending(d, u, r, t)
  /\ l = "create" => Startable(d, u, r, t)
  /\ l = "start" => Started(d, u, r, t)
  /\ l \in {"create", "start"} \/ (l = "stop" /\ tag = newTag) => c = LoadedFrom(f)
  /\ l \in {"settings", "importKey", "finish"} /\ j.old.tag = tag => Unsaved(f, u, r, c, j.old)

RemoveMatch(d, u, r, c, l, j) ==
  /\ l \in {"stop", "truncate", "write"} => InPlace(d, u, r, c, {})
  /\ l \in {"removeUnit", "unroute", "reroute", "forget"} =>
       InPlace(d, u, r, c, {Head(j.todo)}) /\ r[Head(j.todo)] = NoUnit

LoopMatch(f, d, u, r, c, l, j) ==
  LET t == GetTunnel(c, Head(j.todo)) IN
  /\ InPlace(d, u, r, c, TagsIn(j.todo))
  /\ \A tag \in TagsIn(j.todo) : Pending(d, u, r, GetTunnel(c, tag))
  /\ l = "create" => Startable(d, u, r, t)
  /\ l = "start" => Started(d, u, r, t)
  /\ l \in {"stop", "create", "start", "restartRouter"} => c = LoadedFrom(f)
  /\ l = "restartRouter" => j.todo = <<>>

PlainMatch(f, d, u, r, c, l, j) ==
  /\ InPlace(d, u, r, c, {})
  /\ l \notin {"truncate", "write", "ensureRouter", "createRouter"} => c = LoadedFrom(f)
  /\ j.cmd = "switch" => "switch" \in Commands

InstallMatch(f, d, u, r, c, l, j) ==
  /\ InPlace(d, u, r, c, TagsIn(j.todo) \cup (IF l = "gather" THEN {j.new.tag} ELSE {}))
  /\ \A tag \in TagsIn(j.todo) : Startable(d, u, r, GetTunnel(c, tag))
  /\ l = "keys" => j.new.keyDir = j.new.tag
  /\ l = "gather" => Startable(d, u, r, j.new)
  /\ l = "start" => Started(d, u, r, GetTunnel(c, Head(j.todo)))
  /\ l \in {"create", "start", "startRouter"} => c = LoadedFrom(f) /\ f # Torn
  /\ l = "collect" /\ j.todo = <<>> => c = LoadedFrom(f)
  /\ l = "startRouter" => j.todo = <<>>

UninstallMatch(s, u, r, l, j) ==
  /\ \A tag \in Tags : Own(u, r, tag)
  /\ l = "removeUnit" => r[Head(j.todo)] = NoUnit
  /\ j.dns = 0 => s = "absent"

MatchAt(f, s, d, u, r, c, l, j) ==
  /\ f = Torn => s = "absent" \/ l \in {"truncate", "write"}
  /\ l \in {"idle", "done"} => InPlace(d, u, r, LoadedFrom(f), {})
  /\ j.cmd = "add" => AddMatch(f, d, u, r, c, l, j)
  /\ l # "done" =>
       /\ j.cmd = "edit" => EditMatch(f, d, u, r, c, l, j)
       /\ j.cmd = "remove" => RemoveMatch(d, u, r, c, l, j)
       /\ j.cmd \in {"mtu", "update"} => LoopMatch(f, d, u, r, c, l, j)
       /\ j.cmd \in {"restart", "mode", "switch", "import"} => PlainMatch(f, d, u, r, c, l, j)
       /\ j.cmd \in {"install", "wizard"} => InstallMatch(f, d, u, r, c, l, j)
       /\ j.cmd = "uninstall" => UninstallMatch(s, u, r, l, j)

MatchFine ==
  faults = 0 => \A p \in Procs :
    MatchAt(file, router.state, dir, unit, running, mem[p], pc[p], job[p])

-------------------------------------------------------------------------------
(***************************************************************************)
(* Tunnels that an operation on a configuration leaves alone, and what it  *)
(* makes of the others                                                     *)
(***************************************************************************)
LEMMA TunnelAt ==
  ASSUME NEW c, Sound(c), NEW i \in DOMAIN c.tunnels
  PROVE  c.tunnels[i].tag \in TagsOf(c) /\ GetTunnel(c, c.tunnels[i].tag) = c.tunnels[i]
  BY IndexOfUnique DEF Sound, TagsOf, GetTunnel

LEMMA TunnelOf ==
  ASSUME NEW c, Sound(c), NEW tag \in TagsOf(c)
  PROVE  /\ tag \in Tags /\ GetTunnel(c, tag) \in Tunnel /\ GetTunnel(c, tag).tag = tag
         /\ \E i \in DOMAIN c.tunnels : c.tunnels[i] = GetTunnel(c, tag)
<1>1. c \in Config
  BY DEF Sound
<1>2. QED
  BY <1>1, GetTunnelFound, TagsOfType, IndexOfFound DEF GetTunnel

\* A configuration d has at a tag what c has if each of their tunnels with the
\* tag is among the other's.
LEMMA SameTunnel ==
  ASSUME NEW c, Sound(c), NEW d, Sound(d), NEW tag,
         \A i \in DOMAIN c.tunnels : c.tunnels[i].tag = tag => \E k \in DOMAIN d.tunnels : d.tunnels[k] = c.tunnels[i],
         tag \in TagsOf(d) => tag \in TagsOf(c)
  PROVE  SameAt(c, d, tag)
<1>1. ASSUME tag \in TagsOf(c)
      PROVE  tag \in TagsOf(d) /\ GetTunnel(d, tag) = GetTunnel(c, tag)
  <2>1. PICK i \in DOMAIN c.tunnels : c.tunnels[i] = GetTunnel(c, tag) /\ c.tunnels[i].tag = tag
    BY <1>1, TunnelOf
  <2>2. PICK k \in DOMAIN d.tunnels : d.tunnels[k] = c.tunnels[i]
    BY <2>1
  <2>3. QED
    BY <2>1, <2>2, TunnelAt
<1>2. QED
  BY <1>1 DEF SameAt

LEMMA SameTunnelsAt ==
  ASSUME NEW c, NEW d, d.tunnels = c.tunnels, NEW tag
  PROVE  SameAt(c, d, tag)
  BY DEF SameAt, TagsOf, GetTunnel, IndexOf

LEMMA AppendAt ==
  ASSUME NEW c, Sound(c), NEW d, Sound(d), NEW t \in Tunnel, d.tunnels = Append(c.tunnels, t),
         TagsOf(d) = TagsOf(c) \cup {t.tag}, t.tag \notin TagsOf(c)
  PROVE  /\ GetTunnel(d, t.tag) = t /\ t.tag \in TagsOf(d)
         /\ \A tag \in Tags \ {t.tag} : SameAt(c, d, tag)
<1> DEFINE n == Len(c.tunnels)
<1>1. /\ n \in Nat /\ DOMAIN c.tunnels = 1..n /\ DOMAIN d.tunnels = 1..(n + 1)
      /\ \A i \in 1..n : d.tunnels[i] = c.tunnels[i]
      /\ d.tunnels[n + 1] = t
  BY ConfigFields, AppendProperties DEF Sound
<1> HIDE DEF n
<1>2. n + 1 \in 1..(n + 1) /\ 1..n \subseteq 1..(n + 1)
  BY <1>1
<1>3. GetTunnel(d, t.tag) = t /\ t.tag \in TagsOf(d)
  BY <1>1, <1>2, TunnelAt
<1>4. ASSUME NEW tag \in Tags \ {t.tag}  PROVE SameAt(c, d, tag)
  BY <1>1, <1>2, <1>4, SameTunnel
<1>5. QED
  BY <1>3, <1>4

LEMMA RegisterAt ==
  ASSUME NEW c, Sound(c), NEW t, IsNew(c, t)
  PROVE  /\ GetTunnel(Register(c, t), t.tag) = t /\ t.tag \in TagsOf(Register(c, t))
         /\ \A tag \in Tags \ {t.tag} : SameAt(c, Register(c, t), tag)
<1>1. Register(c, t).tunnels = Append(c.tunnels, t)
  BY DEF Register
<1>2. QED
  BY <1>1, RegisterSound, AppendAt DEF IsNew

LEMMA ReplaceAt ==
  ASSUME NEW c, Sound(c), NEW tag \in TagsOf(c), NEW t \in Tunnel,
         t.tag = tag \/ t.tag \notin TagsOf(c), NeedsDomain(t) => t.domain # NoDomain
  PROVE  LET d == Replace(c, tag, t)
         IN  /\ GetTunnel(d, t.tag) = t /\ t.tag \in TagsOf(d)
             /\ \A g \in Tags \ {tag, t.tag} : SameAt(c, d, g)
<1> DEFINE d == Replace(c, tag, t)
           k == IndexOf(c, tag)
<1>1. c \in Config /\ UniqueTags(c)
  BY DEF Sound
<1>2. k \in DOMAIN c.tunnels /\ c.tunnels[k].tag = tag
  BY <1>1, IndexOfFound
<1>3. Sound(d) /\ TagsOf(d) = (TagsOf(c) \ {tag}) \cup {t.tag}
  BY ReplaceSound
<1>4. d.tunnels = [c.tunnels EXCEPT ![k] = t]
  BY <1>1 DEF Replace, Config
<1> HIDE DEF d, k
<1>5. DOMAIN d.tunnels = DOMAIN c.tunnels /\ d.tunnels[k] = t
      /\ \A i \in DOMAIN c.tunnels : i # k => d.tunnels[i] = c.tunnels[i]
  BY <1>2, <1>4
<1>6. GetTunnel(d, t.tag) = t /\ t.tag \in TagsOf(d)
  BY <1>2, <1>3, <1>5, TunnelAt
<1>7. ASSUME NEW g \in Tags \ {tag, t.tag}  PROVE SameAt(c, d, g)
  <2>1. \A i \in DOMAIN c.tunnels : c.tunnels[i].tag = g => d.tunnels[i] = c.tunnels[i]
    BY <1>2, <1>5, <1>7
  <2>2. g \in TagsOf(d) => g \in TagsOf(c)
    BY <1>3, <1>7
  <2>3. QED
    BY <1>3, <1>5, <2>1, <2>2, SameTunnel
<1>8. QED
  BY <1>6, <1>7 DEF d

LEMMA RenameAt ==
  ASSUME NEW c, Sound(c), NEW tag \in TagsOf(c), NEW newTag \in Tags, newTag \notin TagsOf(c)
  PROVE  LET d == Rename(c, tag, newTag)
             t == GetTunnel(c, tag)
         IN  /\ newTag \in TagsOf(d) /\ tag \notin TagsOf(d)
             /\ GetTunnel(d, newTag) =
                  [t EXCEPT !.tag = newTag, !.keyDir = IF HasKeyPair(t) THEN newTag ELSE @]
             /\ \A g \in Tags \ {tag, newTag} : SameAt(c, d, g)
<1> DEFINE t == GetTunnel(c, tag)
           moved == [t EXCEPT !.tag = newTag, !.keyDir = IF HasKeyPair(t) THEN newTag ELSE @]
           r == Replace(c, tag, moved)
           d == Rename(c, tag, newTag)
<1>1. c \in Config /\ t \in Tunnel /\ t.tag = tag /\ (NeedsDomain(t) => t.domain # NoDomain)
  BY TunnelOf DEF Sound, Domained
<1>2. moved \in Tunnel /\ moved.tag = newTag /\ moved.domain = t.domain /\ moved.transport = t.transport
  BY <1>1 DEF Tunnel
<1>3. NeedsDomain(moved) => moved.domain # NoDomain
  BY <1>1, <1>2 DEF NeedsDomain, IsDirectTransport
<1> HIDE DEF moved
<1>4. /\ GetTunnel(r, newTag) = moved /\ newTag \in TagsOf(r)
      /\ \A g \in Tags \ {tag, newTag} : SameAt(c, r, g)
  BY <1>2, <1>3, ReplaceAt
<1>5. Sound(r)
  BY <1>2, <1>3, ReplaceSound
<1>6. d = [r EXCEPT !.active  = IF @ = tag THEN newTag ELSE @,
                    !.default = IF @ = tag THEN newTag ELSE @]
  BY DEF Rename, moved
<1> HIDE DEF r, t
<1>7. d.tunnels = r.tunnels
  BY <1>5, <1>6 DEF Sound, Config
<1> HIDE DEF d
<1>8. \A g : SameAt(r, d, g)
  BY <1>7, SameTunnelsAt
<1>9. TagsOf(d) = (TagsOf(c) \ {tag}) \cup {newTag}
  BY RenameSound DEF d
<1>10. GetTunnel(d, newTag) = moved /\ newTag \in TagsOf(d) /\ tag \notin TagsOf(d)
  BY <1>4, <1>8, <1>9 DEF SameAt
<1>11. \A g \in Tags \ {tag, newTag} : SameAt(c, d, g)
  BY <1>4, <1>8 DEF SameAt
<1>12. QED
  BY <1>10, <1>11 DEF d, moved, t

LEMMA DeregisterAt ==
  ASSUME NEW c, Sound(c), NEW tag \in TagsOf(c)
  PROVE  LET d == Deregister(c, tag)
         IN  tag \notin TagsOf(d) /\ \A g \in Tags \ {tag} : SameAt(c, d, g)
<1> DEFINE d == Deregister(c, tag)
           w == WithoutTunnel(c, tag)
           k == IndexOf(c, tag)
           n == Len(c.tunnels)
<1>1. /\ c \in Config /\ n \in Nat /\ DOMAIN c.tunnels = 1..n
  BY ConfigFields DEF Sound
<1>2. k \in 1..n /\ c.tunnels[k].tag = tag
  BY <1>1, IndexOfFound
<1>3. /\ w \in Seq(Tunnel) /\ Len(w) = n - 1
      /\ \A i \in 1..(n - 1) : w[i] = IF i < k THEN c.tunnels[i] ELSE c.tunnels[i + 1]
  BY <1>1, WithoutTunnelElements
<1>4. d.tunnels = w
  BY <1>1 DEF Deregister, Config
<1>5. Sound(d) /\ TagsOf(d) = TagsOf(c) \ {tag}
  BY DeregisterSound
<1> HIDE DEF d, w, k, n
<1>6. DOMAIN w = 1..(n - 1)
  BY <1>1, <1>3
<1>7. ASSUME NEW i \in 1..n, i # k
      PROVE  \E m \in 1..(n - 1) : w[m] = c.tunnels[i]
  <2>1. CASE i < k
    <3>1. i \in 1..(n - 1)
      BY <1>1, <1>2, <2>1
    <3>2. QED
      BY <1>3, <2>1, <3>1
  <2>2. CASE i > k
    <3>1. i - 1 \in 1..(n - 1) /\ ~(i - 1 < k) /\ (i - 1) + 1 = i
      BY <1>1, <1>2, <2>2
    <3>2. QED
      BY <1>3, <3>1
  <2>3. QED
    BY <1>1, <1>2, <1>7, <2>1, <2>2
<1>8. ASSUME NEW g \in Tags \ {tag}  PROVE SameAt(c, d, g)
  <2>1. \A i \in DOMAIN c.tunnels : c.tunnels[i].tag = g => \E m \in DOMAIN d.tunnels : d.tunnels[m] = c.tunnels[i]
    BY <1>1, <1>2, <1>4, <1>6, <1>7, <1>8
  <2>2. g \in TagsOf(d) => g \in TagsOf(c)
    BY <1>5
  <2>3. QED
    BY <1>5, <2>1, <2>2, SameTunnel
<1>9. QED
  BY <1>5, <1>8 DEF d

LEMMA WithMTUAt ==
  ASSUME NEW c, Sound(c), NEW mtu \in Mtus, NEW tag \in TagsOf(c)
  PROVE  LET d == WithMTU(c, mtu)
             t == GetTunnel(c, tag)
         IN  GetTunnel(d, tag) = IF HasKeyPair(t) THEN [t EXCEPT !.mtu = mtu] ELSE t
<1> DEFINE new == [i \in DOMAIN c.tunnels |->
                     IF HasKeyPair(c.tunnels[i]) THEN [c.tunnels[i] EXCEPT !.mtu = mtu]
                                                 ELSE c.tunnels[i]]
           d == WithMTU(c, mtu)
           t == GetTunnel(c, tag)
<1>1. Sound(d)
  BY WithMTUSound
<1>2. d.tunnels = new
  BY DEF WithMTU, Config, Sound
<1>3. PICK i \in DOMAIN c.tunnels : c.tunnels[i] = t /\ t \in Tunnel /\ t.tag = tag
  BY TunnelOf
<1>4. i \in DOMAIN new /\ new[i] = IF HasKeyPair(t) THEN [t EXCEPT !.mtu = mtu] ELSE t
  BY <1>3
<1>5. new[i].tag = tag
  BY <1>3, <1>4 DEF Tunnel
<1> HIDE DEF new, d, t
<1>6. GetTunnel(d, tag) = new[i]
  BY <1>1, <1>2, <1>4, <1>5, TunnelAt
<1>7. QED
  BY <1>4, <1>6 DEF d, t

\* The tags of the loop of handleSystemMTU: no tunnel it is about is left out.
LEMMA InOrderAll ==
  ASSUME NEW c, Sound(c), NEW which \in SUBSET (DOMAIN c.tunnels), NEW x \in which
  PROVE  c.tunnels[x].tag \in TagsIn(InOrder(c.tunnels, which))
<1> DEFINE n == Cardinality(which)
           at == CHOOSE f \in [1..n -> which] : \A i, j \in DOMAIN f : i < j => f[i] < f[j]
           todo == InOrder(c.tunnels, which)
<1>1. Len(c.tunnels) \in Nat /\ DOMAIN c.tunnels = 1..Len(c.tunnels)
  BY ConfigFields DEF Sound
<1>2. n \in Nat /\ \E f \in [1..n -> which] : \A i, j \in DOMAIN f : i < j => f[i] < f[j]
  BY <1>1, InOrderExists
<1>3. at \in [1..n -> which] /\ \A i, j \in 1..n : i < j => at[i] < at[j]
  <2>1. at \in [1..n -> which] /\ \A i, j \in DOMAIN at : i < j => at[i] < at[j]
    BY <1>2
  <2>2. QED
    BY <2>1
<1>4. todo = [i \in 1..n |-> c.tunnels[at[i]].tag]
  BY DEF InOrder
<1>5. IsFiniteSet(which)
  BY <1>1, IndicesFinite, FS_Subset
<1> HIDE DEF at, todo
<1>6. \E i \in 1..n : at[i] = x
  <2>1. SUFFICES ASSUME \A i \in 1..n : at[i] # x  PROVE FALSE
    OBVIOUS
  <2> DEFINE rest == which \ {x}
  <2>2. IsFiniteSet(rest) /\ Cardinality(rest) = n - 1
    BY <1>5, FS_RemoveElement
  <2>3. at \in [1..n -> rest]
    BY <1>3, <2>1
  <2>4. IsFiniteSet(1..n) /\ Cardinality(1..n) = n
    BY <1>2, IndicesFinite
  <2> HIDE DEF rest, n
  <2>5. Cardinality(rest) < Cardinality(1..n)
    BY <1>2, <2>2, <2>4
  <2>6. PICK i, j \in 1..n : i # j /\ at[i] = at[j]
    BY <2>2, <2>3, <2>4, <2>5, FS_PigeonHole
  <2>7. at[i] \in Nat /\ i \in Nat /\ j \in Nat
    BY <1>1, <1>2, <1>3
  <2>8. i < j \/ j < i
    BY <2>6, <2>7
  <2>9. QED
    BY <1>3, <2>6, <2>7, <2>8
<1>7. QED
  BY <1>4, <1>6 DEF TagsIn, todo

-------------------------------------------------------------------------------
(***************************************************************************)
(* What the host has at a tag, before and after a statement                *)
(***************************************************************************)
Agree(d, u, r, d2, u2, r2, tag) == d2[tag] = d[tag] /\ u2[tag] = u[tag] /\ r2[tag] = r[tag]

LEMMA AgreeKeeps ==
  ASSUME NEW d, NEW u, NEW r, NEW d2, NEW u2, NEW r2, NEW t, Agree(d, u, r, d2, u2, r2, t.tag)
  PROVE  /\ Pending(d, u, r, t) => Pending(d2, u2, r2, t)
         /\ Startable(d, u, r, t) => Startable(d2, u2, r2, t)
         /\ Matches(d, u, r, t) => Matches(d2, u2, r2, t)
  BY DEF Agree, Pending, Startable, Matches, Keyed, Own

\* Nothing happens at the tag, neither on the host nor in the copy.
LEMMA PlacedKept ==
  ASSUME NEW d, NEW u, NEW r, NEW d2, NEW u2, NEW r2, NEW c, Sound(c), NEW c2, NEW tag \in Tags,
         Agree(d, u, r, d2, u2, r2, tag), SameAt(c, c2, tag), Placed(d, u, r, c, tag)
  PROVE  Placed(d2, u2, r2, c2, tag)
<1>1. CASE tag \in TagsOf(c)
  <2>1. GetTunnel(c, tag).tag = tag /\ Matches(d, u, r, GetTunnel(c, tag))
    BY <1>1, TunnelOf DEF Placed
  <2>2. Matches(d2, u2, r2, GetTunnel(c, tag))
    BY <2>1, AgreeKeeps
  <2>3. tag \in TagsOf(c2) /\ GetTunnel(c2, tag) = GetTunnel(c, tag)
    BY <1>1 DEF SameAt
  <2>4. QED
    BY <2>2, <2>3 DEF Placed
<1>2. CASE tag \notin TagsOf(c)
  BY <1>2 DEF Placed, SameAt, Clean, Agree
<1>3. QED
  BY <1>1, <1>2

LEMMA SameCopy ==
  ASSUME NEW c, NEW tag  PROVE SameAt(c, c, tag)
  BY DEF SameAt

\* A statement leaves alone what it is not about.
LEMMA InPlaceKept ==
  ASSUME NEW d, NEW u, NEW r, NEW d2, NEW u2, NEW r2, NEW c, Sound(c), NEW c2, NEW S, NEW T,
         InPlace(d, u, r, c, S),
         \A tag \in Tags \ T : Agree(d, u, r, d2, u2, r2, tag) /\ SameAt(c, c2, tag),
         \A tag \in Tags \ T : tag \in S => Placed(d2, u2, r2, c2, tag)
  PROVE  InPlace(d2, u2, r2, c2, T)
<1> SUFFICES ASSUME NEW tag \in Tags \ T  PROVE Placed(d2, u2, r2, c2, tag)
  BY DEF InPlace
<1>1. CASE tag \in S
  BY <1>1
<1>2. CASE tag \notin S
  BY <1>2, PlacedKept DEF InPlace
<1>3. QED
  BY <1>1, <1>2

\* A command takes tags in hand.
LEMMA InPlaceLess ==
  ASSUME NEW d, NEW u, NEW r, NEW c, NEW S, NEW T, InPlace(d, u, r, c, S), S \cap Tags \subseteq T
  PROVE  InPlace(d, u, r, c, T)
  BY DEF InPlace

\* A command is done with a tag.
LEMMA InPlaceMore ==
  ASSUME NEW d, NEW u, NEW r, NEW c, NEW S, NEW T, InPlace(d, u, r, c, S),
         \A tag \in (Tags \cap S) \ T : Placed(d, u, r, c, tag)
  PROVE  InPlace(d, u, r, c, T)
  BY DEF InPlace

\* Only the tunnels of a configuration matter.
LEMMA InPlaceSame ==
  ASSUME NEW d, NEW u, NEW r, NEW c, NEW c2, NEW S, InPlace(d, u, r, c, S), c2.tunnels = c.tunnels
  PROVE  InPlace(d, u, r, c2, S)
<1>1. TagsOf(c2) = TagsOf(c) /\ \A tag : GetTunnel(c2, tag) = GetTunnel(c, tag)
  BY DEF TagsOf, GetTunnel, IndexOf
<1>2. QED
  BY <1>1 DEF InPlace, Placed

LEMMA PlacedOwn ==
  ASSUME NEW d, NEW u, NEW r, NEW c, Sound(c), NEW tag, Placed(d, u, r, c, tag)
  PROVE  Own(u, r, tag)
  BY TunnelOf DEF Placed, Clean, Own, Matches, Pending

LEMMA MatchesStartable ==
  ASSUME NEW d, NEW u, NEW r, NEW t, Matches(d, u, r, t)
  PROVE  Startable(d, u, r, t) /\ Pending(d, u, r, t)
  BY DEF Matches, Startable, Pending, Own, UnitOf

\* A tunnel without a unit: nothing is left to do.
LEMMA NoServiceMatches ==
  ASSUME NEW d, NEW u, NEW r, NEW t, Pending(d, u, r, t), ~HasUnit(t)
  PROVE  Matches(d, u, r, t)
  BY DEF Matches, Pending, Own, UnitOf

\* Where there is to be nothing, a new tunnel can be set up.
LEMMA CleanStartable ==
  ASSUME NEW d, NEW u, NEW r, NEW t, u[t.tag] = NoUnit, r[t.tag] = NoUnit, Keyed(d, t)
  PROVE  Startable(d, u, r, t)
  BY DEF Startable, Pending, Own

\* service.Stop
LEMMA StopAt ==
  ASSUME HostFine, NEW tag \in Tags, ServiceStop(tag), Own(unit, running, tag)
  PROVE  /\ running'[tag] = NoUnit
         /\ \A g \in Tags \ {tag} : running'[g] = running[g]
  BY HostTypes DEF ServiceStop, Own, Units

\* service.Restart and service.Start
LEMMA StartAt ==
  ASSUME HostFine, NEW tag \in Tags, ServiceStart(tag) \/ ServiceRestart(tag), Own(unit, running, tag)
  PROVE  /\ unit[tag] # NoUnit /\ running'[tag] = unit[tag]
         /\ \A g \in Tags \ {tag} : running'[g] = running[g]
  BY HostTypes DEF ServiceStart, ServiceRestart, Own, Units

\* A stopped service can be created again.
LEMMA StoppedStartable ==
  ASSUME NEW d, NEW u, NEW r, NEW r2, NEW t, Pending(d, u, r, t), r2[t.tag] = NoUnit
  PROVE  Startable(d, u, r2, t)
  BY DEF Pending, Startable, Own

\* service.Create, after the Caddyfile of a NaiveProxy.
LEMMA CreatedStarted ==
  ASSUME NEW d, NEW u, NEW r, NEW d2, NEW u2, NEW t, Startable(d, u, r, t), HasUnit(t), u2[t.tag] = t,
         d2[t.tag] = IF t.transport = "naive" THEN Caddyfile ELSE d[t.tag]
  PROVE  Started(d2, u2, r, t)
<1>1. t.transport = "naive" => ~HasKeyPair(t)
  BY DEF HasKeyPair
<1>2. Keyed(d2, t)
  BY <1>1, AbsenceAssumption DEF Startable, Pending, Keyed
<1>3. QED
  BY <1>2 DEF Startable, Pending, Started, Own

LEMMA StartedMatches ==
  ASSUME NEW d, NEW u, NEW r, NEW r2, NEW t, Started(d, u, r, t), r2[t.tag] = u[t.tag]
  PROVE  Matches(d, u, r2, t)
  BY DEF Startable, Pending, Started, Matches, Own, UnitOf

\* A tunnel whose settings change, but not its keys, waits for its unit.
LEMMA SettingPending ==
  ASSUME NEW d, NEW u, NEW r, NEW t, NEW s, Pending(d, u, r, t), s.tag = t.tag,
         s.transport = t.transport, s.keyDir = t.keyDir, s.pub = t.pub
  PROVE  Pending(d, u, r, s)
  BY DEF Pending, Keyed, HasUnit, HasKeyPair, IsDirectTransport

\* A tunnel is not the absence of one.
LEMMA UnitPresent ==
  ASSUME NEW t \in Tunnel  PROVE t # NoUnit
  BY AbsenceAssumption

\* An empty configuration has no tunnels; a tag of what Load returns comes from
\* the file.
LEMMA EmptyLoaded ==
  ASSUME NEW c, NEW tag \in TagsOf(c), NEW f, c = LoadedFrom(f)
  PROVE  f # Torn /\ c = f
  BY DefaultConfigSound DEF LoadedFrom

-------------------------------------------------------------------------------
(***************************************************************************)
(* One step of one process                                                 *)
(***************************************************************************)
LEMMA MatchOf ==
  ASSUME IInv, MatchFine, faults = 0, NEW p \in Procs
  PROVE  /\ MatchAt(file, router.state, dir, unit, running, mem[p], pc[p], job[p])
         /\ Sound(mem[p]) /\ mem[p] \in Config /\ job[p] \in Job /\ At(mem[p], pc[p], job[p])
         /\ Loaded = LoadedFrom(file) /\ Sound(Loaded) /\ mem[p] # Torn
         /\ HostFine /\ dir \in Dirs /\ unit \in Units /\ running \in Units
         /\ (UNCHANGED job => job'[p] = job[p]) /\ (UNCHANGED mem => mem'[p] = mem[p])
<1>1. HostFine
  BY DEF IInv
<1>2. QED
  BY <1>1, HandlerOf, LoadedSound, HostTypes, ManagerAssumption DEF MatchFine, Loaded, LoadedFrom

\* There is no other process, and nothing is claimed after a failure.
LEMMA MatchStep ==
  ASSUME NEW q, Alone(q), NEW p \in Procs,
         faults' = 0 => MatchAt(file', router'.state, dir', unit', running', mem'[p], pc'[p], job'[p])
  PROVE  MatchFine'
  BY DEF Alone, MatchFine

LEMMA BeginMatch ==
  ASSUME NEW q, Alone(q), IInv, MatchFine, faults = 0, NEW p \in Procs, NEW c, NEW l, NEW j,
         Begin(p, c, l, j), MatchAt(file, router.state, dir, unit, running, c, l, j)
  PROVE  MatchFine'
<1>1. /\ mem' = [mem EXCEPT ![p] = c] /\ job' = [job EXCEPT ![p] = j] /\ Goto(p, l)
      /\ UNCHANGED host
  BY DEF Begin
<1>2. mem'[p] = c /\ pc'[p] = l /\ job'[p] = j
  BY <1>1, Moves
<1>3. QED
  BY <1>1, <1>2, MatchStep DEF host

LEMMA NoFailure ==
  ASSUME IInv, faults' = 0, Fault \/ NoFault
  PROVE  faults = 0 /\ ~Fault
  BY ManagerAssumption DEF IInv, HostFine, Fault, NoFault

-------------------------------------------------------------------------------
(***************************************************************************)
(* Commands begin                                                          *)
(***************************************************************************)

\* Between commands everything is in place.
LEMMA CalmMatch ==
  ASSUME IInv, MatchFine, faults = 0, NEW p \in Procs, pc[p] \in {"idle", "done"}
  PROVE  /\ InPlace(dir, unit, running, Loaded, {}) /\ Sound(Loaded)
         /\ file = Torn => router.state = "absent"
         /\ pc[p] = "done" /\ job[p].cmd = "add" => mem[p] = Loaded
  BY MatchOf DEF MatchAt, AddMatch

LEMMA WantedKeyed ==
  ASSUME NEW c, NEW t \in WantedTunnels(c)
  PROVE  t.keyDir = t.tag
<1> DEFINE doms(tr) == IF NeedsDomain([transport |-> tr]) THEN Domains ELSE {NoDomain}
           mtus(tr) == IF HasKeyPair([transport |-> tr]) THEN Mtus ELSE {DefaultMTU}
           exts(tr) == IF tr = "external" THEN ExternalPorts ELSE {0}
           all(tr)  == {Wanted(c, tr, tag, b, d, mtu, ext) :
                          tag \in Tags, b \in Backends(tr), d \in doms(tr), mtu \in mtus(tr),
                          ext \in exts(tr)}
<1>1. PICK tr \in NewTransports : t \in all(tr)
  BY DEF WantedTunnels
<1>2. PICK tag, b, d, mtu, ext : t = Wanted(c, tr, tag, b, d, mtu, ext)
  BY <1>1
<1>3. QED
  BY <1>2 DEF Wanted

LEMMA AddBegins ==
  ASSUME NEW q, Alone(q), IInv, MatchFine, faults = 0, NEW p \in Procs,
         BeginAdd(p) \/ AddForSSH(p) \/ AddInBatch(p)
  PROVE  MatchFine'
<1>1. PICK t, s : t \in WantedTunnels(Loaded) /\ Begin(p, Loaded, "keys", AddJob(t, s))
                  /\ pc[p] \in {"idle", "done"}
  <2>1. CASE BeginAdd(p)
    BY <2>1 DEF BeginAdd, Idle
  <2>2. CASE AddForSSH(p)
    <3>1. mem[p] = Loaded
      BY <2>2, CalmMatch DEF AddForSSH
    <3>2. QED
      BY <2>2, <3>1 DEF AddForSSH
  <2>3. CASE AddInBatch(p)
    <3> DEFINE c == IF job[p].shared = NoTag \/ file = Torn THEN mem[p] ELSE file
    <3>1. c = Loaded
      <4>1. mem[p] = Loaded
        BY <2>3, CalmMatch DEF AddInBatch
      <4>2. QED
        BY <4>1 DEF Loaded
    <3>2. PICK t \in WantedTunnels(c) : Begin(p, c, "keys", AddJob(t, NoTag))
      BY <2>3 DEF AddInBatch
    <3>3. pc[p] = "done"
      BY <2>3 DEF AddInBatch
    <3> HIDE DEF c
    <3>4. QED
      BY <3>1, <3>2, <3>3
  <2>4. QED
    BY <2>1, <2>2, <2>3
<1> DEFINE j == AddJob(t, s)
<1>2. j.cmd = "add" /\ j.new = t /\ t.keyDir = t.tag
  BY <1>1, WantedKeyed DEF AddJob, NoJob
<1> HIDE DEF j
<1>3. InPlace(dir, unit, running, Loaded, {}) /\ (file = Torn => router.state = "absent")
  BY <1>1, CalmMatch
<1>4. AddMatch(file, dir, unit, running, Loaded, "keys", j)
  BY <1>2, <1>3 DEF AddMatch
<1>5. MatchAt(file, router.state, dir, unit, running, Loaded, "keys", j)
  BY <1>2, <1>3, <1>4 DEF MatchAt
<1>6. QED
  BY <1>1, <1>5, BeginMatch DEF j

LEMMA EditBegins ==
  ASSUME NEW q, Alone(q), IInv, MatchFine, faults = 0, NEW p \in Procs, BeginEdit(p)
  PROVE  MatchFine'
<1>1. /\ InPlace(dir, unit, running, Loaded, {}) /\ Sound(Loaded)
      /\ file = Torn => router.state = "absent"
  BY CalmMatch DEF BeginEdit, Idle
<1>0. Loaded = LoadedFrom(file)
  BY DEF Loaded, LoadedFrom
<1>2. PICK tag \in TagsOf(Loaded), newTag \in Tags :
        LET t == GetTunnel(Loaded, tag) IN
        /\ newTag = tag \/ newTag \notin TagsOf(Loaded)
        /\ Begin(p, Loaded, IF newTag = tag THEN "settings" ELSE "renameDir",
                 [NoJob EXCEPT !.cmd = "edit", !.todo = <<tag>>, !.old = t,
                               !.new = [t EXCEPT !.tag = newTag]])
  BY DEF BeginEdit
<1> DEFINE t == GetTunnel(Loaded, tag)
           j == [NoJob EXCEPT !.cmd = "edit", !.todo = <<tag>>, !.old = t,
                              !.new = [t EXCEPT !.tag = newTag]]
           l == IF newTag = tag THEN "settings" ELSE "renameDir"
<1>3. tag \in Tags /\ t \in Tunnel /\ t.tag = tag
  BY <1>1, TunnelOf
<1>4. [t EXCEPT !.tag = newTag].tag = newTag /\ [t EXCEPT !.tag = newTag].transport = t.transport
  BY <1>3 DEF Tunnel
<1>5. /\ j.cmd = "edit" /\ Head(j.todo) = tag /\ j.old = t /\ j.new.tag = newTag
      /\ j.new.transport = t.transport
  BY <1>3, <1>4, OneTag DEF NoJob
<1>6. Matches(dir, unit, running, t)
  BY <1>1, <1>3 DEF InPlace, Placed
<1>7. Begin(p, Loaded, l, j)
  BY <1>2
<1>8. l \in {"settings", "renameDir"} /\ (l = "renameDir" <=> newTag # tag)
  OBVIOUS
<1> HIDE DEF j, l, t
<1>9. InPlace(dir, unit, running, Loaded, {tag}) /\ Pending(dir, unit, running, t)
  BY <1>1, <1>6, InPlaceLess, MatchesStartable
<1>10. Unsaved(file, unit, running, Loaded, t)
  <2>1. tag \in TagsOf(Loaded) /\ GetTunnel(Loaded, tag) = t
    BY DEF t
  <2>2. QED
    BY <1>0, <1>3, <1>6, <2>1, SameCopy DEF Unsaved, Matches
<1>11. EditMatch(file, dir, unit, running, Loaded, l, j)
  BY <1>1, <1>3, <1>5, <1>8, <1>9, <1>10 DEF EditMatch, t
<1>12. MatchAt(file, router.state, dir, unit, running, Loaded, l, j)
  BY <1>1, <1>5, <1>8, <1>11 DEF MatchAt
<1>13. QED
  BY <1>7, <1>12, BeginMatch

LEMMA LoopBegins ==
  ASSUME NEW q, Alone(q), IInv, MatchFine, faults = 0, NEW p \in Procs, pc[p] = "idle",
         NEW todo, NEW l, NEW j, j.todo = todo, Begin(p, Loaded, l, j),
         \/ j.cmd = "remove" /\ l \in {"stop", "truncate"}
         \/ /\ j.cmd = "update" /\ l \in {"stop", "restartRouter"} /\ (l = "restartRouter" => todo = <<>>)
            /\ TagsIn(todo) \subseteq TagsOf(Loaded)
         \/ j.cmd \in {"restart", "mode"}
         \/ j.cmd = "switch" /\ "switch" \in Commands
         \/ /\ j.cmd \in {"install", "wizard"} /\ todo = <<>>
            /\ l = IF file = Torn THEN "truncate" ELSE "collect"
         \/ /\ j.cmd = "uninstall" /\ l # "removeUnit"
            /\ j.dns = 0 => router.state = "absent"
  PROVE  MatchFine'
<1>1. /\ InPlace(dir, unit, running, Loaded, {}) /\ Sound(Loaded)
      /\ file = Torn => router.state = "absent"
  BY CalmMatch
<1>2. Loaded = LoadedFrom(file)
  BY DEF Loaded, LoadedFrom
<1>3. CASE j.cmd = "remove" /\ l \in {"stop", "truncate"}
  <2>1. RemoveMatch(dir, unit, running, Loaded, l, j)
    BY <1>1, <1>3 DEF RemoveMatch
  <2>2. MatchAt(file, router.state, dir, unit, running, Loaded, l, j)
    BY <1>1, <1>3, <2>1 DEF MatchAt
  <2>3. QED
    BY <2>2, BeginMatch
<1>4. CASE /\ j.cmd = "update" /\ l \in {"stop", "restartRouter"} /\ (l = "restartRouter" => todo = <<>>)
           /\ TagsIn(todo) \subseteq TagsOf(Loaded)
  <2>1. InPlace(dir, unit, running, Loaded, TagsIn(todo))
    BY <1>1, InPlaceLess
  <2>2. \A tag \in TagsIn(todo) : Pending(dir, unit, running, GetTunnel(Loaded, tag))
    BY <1>1, <1>4, TunnelOf, MatchesStartable DEF InPlace, Placed
  <2>3. LoopMatch(file, dir, unit, running, Loaded, l, j)
    BY <1>2, <1>4, <2>1, <2>2 DEF LoopMatch
  <2>4. MatchAt(file, router.state, dir, unit, running, Loaded, l, j)
    BY <1>1, <1>4, <2>3 DEF MatchAt
  <2>5. QED
    BY <2>4, BeginMatch
<1>5. CASE j.cmd \in {"restart", "mode"} \/ (j.cmd = "switch" /\ "switch" \in Commands)
  <2>1. PlainMatch(file, dir, unit, running, Loaded, l, j)
    BY <1>1, <1>2, <1>5 DEF PlainMatch
  <2>2. MatchAt(file, router.state, dir, unit, running, Loaded, l, j)
    BY <1>1, <1>2, <1>5, <2>1 DEF MatchAt
  <2>3. QED
    BY <2>2, BeginMatch
<1>6. CASE j.cmd \in {"install", "wizard"} /\ todo = <<>> /\ l = IF file = Torn THEN "truncate" ELSE "collect"
  <2>1. TagsIn(todo) = {} /\ l \in {"truncate", "collect"}
    BY <1>6 DEF TagsIn
  <2>2. InstallMatch(file, dir, unit, running, Loaded, l, j)
    BY <1>1, <1>2, <1>6, <2>1 DEF InstallMatch
  <2>3. MatchAt(file, router.state, dir, unit, running, Loaded, l, j)
    BY <1>1, <1>6, <2>1, <2>2 DEF MatchAt
  <2>4. QED
    BY <2>3, BeginMatch
<1>7. CASE j.cmd = "uninstall" /\ l # "removeUnit" /\ (j.dns = 0 => router.state = "absent")
  <2>1. \A tag \in Tags : Own(unit, running, tag)
    BY <1>1, PlacedOwn DEF InPlace
  <2>2. UninstallMatch(router.state, unit, running, l, j)
    BY <1>7, <2>1 DEF UninstallMatch
  <2>3. MatchAt(file, router.state, dir, unit, running, Loaded, l, j)
    BY <1>1, <1>2, <1>7, <2>2 DEF MatchAt
  <2>4. QED
    BY <2>3, BeginMatch
<1>8. QED
  BY <1>3, <1>4, <1>5, <1>6, <1>7

LEMMA MTUBegins ==
  ASSUME NEW q, Alone(q), IInv, MatchFine, faults = 0, NEW p \in Procs, BeginMTU(p)
  PROVE  MatchFine'
<1>1. /\ InPlace(dir, unit, running, Loaded, {}) /\ Sound(Loaded)
      /\ file = Torn => router.state = "absent"
  BY CalmMatch DEF BeginMTU, Idle
<1> DEFINE keyed == {i \in DOMAIN Loaded.tunnels : HasKeyPair(Loaded.tunnels[i])}
<1>2. PICK mtu \in Mtus :
        Begin(p, WithMTU(Loaded, mtu), "truncate",
              [NoJob EXCEPT !.cmd = "mtu", !.todo = InOrder(Loaded.tunnels, keyed)])
  BY DEF BeginMTU
<1>3. PICK todo : todo = InOrder(Loaded.tunnels, keyed)
  OBVIOUS
<1>4. TagsIn(todo) \subseteq TagsOf(Loaded)
  BY <1>1, <1>3, InOrderTags
<1> DEFINE j == [NoJob EXCEPT !.cmd = "mtu", !.todo = todo]
           c == WithMTU(Loaded, mtu)
<1>5. j.cmd = "mtu" /\ j.todo = todo
  BY DEF NoJob
<1>6. TagsOf(c) = TagsOf(Loaded)
  BY <1>1, WithMTUSound
<1>7. ASSUME NEW tag \in TagsOf(Loaded), tag \notin TagsIn(todo)
      PROVE  GetTunnel(c, tag) = GetTunnel(Loaded, tag)
  <2>1. PICK i \in DOMAIN Loaded.tunnels :
          Loaded.tunnels[i] = GetTunnel(Loaded, tag) /\ Loaded.tunnels[i].tag = tag
    BY <1>1, TunnelOf
  <2>2. i \notin keyed
    BY <1>1, <1>3, <1>7, <2>1, InOrderAll
  <2>3. ~HasKeyPair(GetTunnel(Loaded, tag))
    BY <2>1, <2>2
  <2>4. QED
    BY <1>1, <2>3, WithMTUAt
<1>8. ASSUME NEW tag \in TagsOf(Loaded)
      PROVE  Pending(dir, unit, running, GetTunnel(c, tag))
  <2> DEFINE t == GetTunnel(Loaded, tag)
             s == GetTunnel(c, tag)
  <2>1. t \in Tunnel /\ tag \in Tags
    BY <1>1, TunnelOf
  <2>2. s = IF HasKeyPair(t) THEN [t EXCEPT !.mtu = mtu] ELSE t
    BY <1>1, WithMTUAt
  <2> HIDE DEF s, c
  <2>3. s.tag = t.tag /\ s.transport = t.transport /\ s.keyDir = t.keyDir /\ s.pub = t.pub
    BY <2>1, <2>2 DEF Tunnel
  <2>4. Pending(dir, unit, running, t)
    BY <1>1, <2>1, MatchesStartable DEF InPlace, Placed
  <2> HIDE DEF t
  <2>5. Pending(dir, unit, running, s)
    BY <2>3, <2>4, SettingPending
  <2>6. QED
    BY <2>5 DEF s
<1> HIDE DEF c, j
<1>9. InPlace(dir, unit, running, c, TagsIn(todo))
  BY <1>1, <1>6, <1>7 DEF InPlace, Placed
<1>10. LoopMatch(file, dir, unit, running, c, "truncate", j)
  BY <1>4, <1>5, <1>8, <1>9 DEF LoopMatch
<1>11. MatchAt(file, router.state, dir, unit, running, c, "truncate", j)
  BY <1>1, <1>5, <1>10 DEF MatchAt
<1>12. QED
  BY <1>2, <1>3, <1>11, BeginMatch DEF c, j

\* slipgate start and stop.
LEMMA OneServiceMatch ==
  ASSUME NEW q, Alone(q), IInv, MatchFine, faults = 0, NEW p \in Procs, StartTunnel(p) \/ StopTunnel(p)
  PROVE  MatchFine'
<1>1. /\ MatchAt(file, router.state, dir, unit, running, mem[p], pc[p], job[p])
      /\ Sound(mem[p]) /\ Loaded = LoadedFrom(file) /\ HostFine /\ At(mem[p], pc[p], job[p])
      /\ job[p] \in Job
  BY MatchOf
<1>2. /\ InPlace(dir, unit, running, Loaded, {}) /\ Sound(Loaded)
      /\ file = Torn => router.state = "absent"
  BY CalmMatch DEF StartTunnel, StopTunnel, Idle
<1>3. PICK tag \in TagsOf(Loaded) : \/ ServiceStart(tag)
                                    \/ ServiceStop(tag) /\ "stop" \in Commands
  BY DEF StartTunnel, StopTunnel, Idle
<1> DEFINE t == GetTunnel(Loaded, tag)
<1>4. tag \in Tags /\ t.tag = tag /\ Matches(dir, unit, running, t)
  BY <1>2, TunnelOf DEF InPlace, Placed
<1>5. Own(unit, running, tag)
  BY <1>4 DEF Matches, Pending
<1>6. Matches(dir, unit, running', t) /\ \A g \in Tags \ {tag} : running'[g] = running[g]
  <2>1. CASE ServiceStart(tag)
    <3>1. running'[tag] = unit[tag] /\ \A g \in Tags \ {tag} : running'[g] = running[g]
      BY <1>1, <1>4, <1>5, <2>1, StartAt
    <3>2. QED
      BY <1>4, <3>1 DEF Matches, Pending, Own
  <2>2. CASE ServiceStop(tag) /\ "stop" \in Commands
    <3>1. running'[tag] = NoUnit /\ \A g \in Tags \ {tag} : running'[g] = running[g]
      BY <1>1, <1>4, <1>5, <2>2, StopAt
    <3>2. Stopping
      BY <2>2 DEF Stopping
    <3> HIDE DEF t
    <3>3. QED
      BY <1>4, <3>1, <3>2 DEF Matches, Pending, Own
  <2>3. QED
    BY <1>3, <2>1, <2>2
<1>7. \A g \in Tags \ {tag} : Agree(dir, unit, running, dir, unit, running', g) /\ SameAt(Loaded, Loaded, g)
  BY <1>6, SameCopy DEF Agree
<1>8. InPlace(dir, unit, running', Loaded, {tag})
  BY <1>2, <1>7, InPlaceKept
<1>9. InPlace(dir, unit, running', Loaded, {})
  BY <1>3, <1>4, <1>6, <1>8 DEF InPlace, Placed
<1>10. pc[p] = "idle" /\ UNCHANGED <<file, dir, unit, router, mem, pc, job>>
  BY DEF StartTunnel, StopTunnel, Idle
<1>11. job[p].cmd = "none"
  BY <1>1, <1>10 DEF At, AddAt, EditAt, RemoveAt, MTUAt, UpdateAt, RestartAt, ModeAt, SwitchAt,
     InstallAt, UninstallAt, Job, CommandNames
<1>12. MatchAt(file, router.state, dir, unit, running', mem[p], "idle", job[p])
  BY <1>1, <1>2, <1>9, <1>11 DEF MatchAt
<1>13. QED
  BY <1>10, <1>12, MatchStep

LEMMA BeginsMatch ==
  ASSUME NEW q, Alone(q), IInv, MatchFine, faults = 0, NEW p \in Procs, Begins(p)
  PROVE  MatchFine'
<1>0. Sound(Loaded)
  BY LoadedSound DEF IInv
<1>1. CASE BeginAdd(p) \/ AddForSSH(p) \/ AddInBatch(p)
  BY <1>1, AddBegins
<1>2. CASE BeginEdit(p)
  BY <1>2, EditBegins
<1>3. CASE BeginRemove(p)
  <2> DEFINE job0(todo) == [NoJob EXCEPT !.cmd = "remove", !.todo = todo]
  <2>1. PICK todo : Begin(p, Loaded, Enter("remove", todo), job0(todo))
    BY <1>3 DEF BeginRemove
  <2>2. pc[p] = "idle" /\ job0(todo).cmd = "remove" /\ job0(todo).todo = todo
    BY <1>3 DEF BeginRemove, Idle, NoJob
  <2>3. Enter("remove", todo) \in {"stop", "truncate"}
    BY DEF Enter, LoopStart, LoopEnd
  <2> HIDE DEF job0
  <2>4. QED
    BY <2>1, <2>2, <2>3, LoopBegins
<1>4. CASE BeginMTU(p)
  BY <1>4, MTUBegins
<1>5. CASE BeginAll(p)
  <2> DEFINE served == {i \in DOMAIN Loaded.tunnels : ~IsDirectTransport(Loaded.tunnels[i])}
             job0(cmd, todo) == [NoJob EXCEPT !.cmd = cmd, !.todo = todo]
  <2>1. PICK todo : todo = InOrder(Loaded.tunnels, served)
    OBVIOUS
  <2>2. TagsIn(todo) \subseteq TagsOf(Loaded)
    BY <1>0, <2>1, InOrderTags
  <2> HIDE DEF served
  <2>3. PICK cmd \in {"update", "restart"} : Begin(p, Loaded, Enter(cmd, todo), job0(cmd, todo))
    BY <1>5, <2>1 DEF BeginAll, served
  <2>4. pc[p] = "idle" /\ job0(cmd, todo).cmd = cmd /\ job0(cmd, todo).todo = todo
    BY <1>5 DEF BeginAll, Idle, NoJob
  <2>5. cmd = "update" => /\ Enter(cmd, todo) \in {"stop", "restartRouter"}
                          /\ Enter(cmd, todo) = "restartRouter" => todo = <<>>
    BY DEF Enter, LoopStart, LoopEnd
  <2> HIDE DEF job0
  <2>6. QED
    BY <2>2, <2>3, <2>4, <2>5, LoopBegins
<1>6. CASE StartTunnel(p) \/ StopTunnel(p)
  BY <1>6, OneServiceMatch
<1>7. CASE BeginMode(p)
  <2> DEFINE job0(todo, mode) == [NoJob EXCEPT !.cmd = "mode", !.todo = todo, !.mode = mode]
  <2>1. PICK todo, mode : Begin(p, Loaded, Enter("mode", todo), job0(todo, mode))
    BY <1>7 DEF BeginMode
  <2>2. pc[p] = "idle" /\ job0(todo, mode).cmd = "mode" /\ job0(todo, mode).todo = todo
    BY <1>7 DEF BeginMode, Idle, NoJob
  <2> HIDE DEF job0
  <2>3. QED
    BY <2>1, <2>2, LoopBegins
<1>8. CASE BeginSwitch(p)
  <2> DEFINE job0(tag) == [NoJob EXCEPT !.cmd = "switch", !.todo = <<tag>>]
  <2>1. PICK tag : Begin(p, Loaded, "stopActive", job0(tag))
    BY <1>8 DEF BeginSwitch
  <2>2. /\ pc[p] = "idle" /\ "switch" \in Commands
        /\ job0(tag).cmd = "switch" /\ job0(tag).todo = <<tag>>
    BY <1>8 DEF BeginSwitch, Idle, NoJob
  <2> HIDE DEF job0
  <2>3. QED
    BY <2>1, <2>2, LoopBegins
<1>9. CASE BeginImport(p)
  BY <1>9 DEF BeginImport, Alone
<1>10. CASE BeginInstall(p)
  <2> DEFINE job0(cmd) == [NoJob EXCEPT !.cmd = cmd]
             l == IF file = Torn THEN "truncate" ELSE "collect"
  <2>1. PICK cmd \in {"install", "wizard"} : Begin(p, Loaded, l, job0(cmd))
    BY <1>10 DEF BeginInstall
  <2>2. pc[p] = "idle" /\ job0(cmd).cmd = cmd /\ job0(cmd).todo = <<>>
    BY <1>10 DEF BeginInstall, NoJob
  <2> HIDE DEF job0
  <2>3. QED
    BY <2>1, <2>2, LoopBegins
<1>11. CASE BeginUninstall(p)
  <2> DEFINE dns == IF router.state = "absent" THEN 0 ELSE 1
             job0(todo) == [NoJob EXCEPT !.cmd = "uninstall", !.todo = todo, !.dns = dns]
  <2>1. PICK todo : Begin(p, Loaded, Enter("uninstall", todo), job0(todo))
    BY <1>11 DEF BeginUninstall
  <2>2. /\ pc[p] = "idle" /\ job0(todo).cmd = "uninstall" /\ job0(todo).todo = todo
        /\ job0(todo).dns = dns
    BY <1>11 DEF BeginUninstall, NoJob
  <2>3. Enter("uninstall", todo) # "removeUnit"
    BY DEF Enter, LoopStart, LoopEnd
  <2>4. dns = 0 => router.state = "absent"
    OBVIOUS
  <2> HIDE DEF job0, dns
  <2>5. QED
    BY <2>1, <2>2, <2>3, <2>4, LoopBegins
<1>12. QED
  BY <1>1, <1>2, <1>3, <1>4, <1>5, <1>6, <1>7, <1>8, <1>9, <1>10, <1>11 DEF Begins

-------------------------------------------------------------------------------
(***************************************************************************)
(* The operator answers                                                    *)
(***************************************************************************)

\* A command ends where the host has what is on the file.
LEMMA DoneMatch ==
  ASSUME NEW f, NEW s, NEW d, NEW u, NEW r, NEW c, NEW j, InPlace(d, u, r, LoadedFrom(f), {}),
         f = Torn => s = "absent", j.cmd = "add" => c = LoadedFrom(f)
  PROVE  MatchAt(f, s, d, u, r, c, "done", j)
<1>1. j.cmd = "add" => AddMatch(f, d, u, r, c, "done", j)
  BY DEF AddMatch
<1>2. QED
  BY <1>1 DEF MatchAt

LEMMA RegisterMatch ==
  ASSUME NEW q, Alone(q), IInv, MatchFine, faults = 0, NEW p \in Procs, RegisterTunnel(p)
  PROVE  MatchFine'
<1> DEFINE c == mem[p]
           j == job[p]
           t == job[p].new
           c2 == Register(mem[p], job[p].new)
<1>1. /\ MatchAt(file, router.state, dir, unit, running, c, "register", j)
      /\ Sound(c) /\ j \in Job /\ At(c, "register", j)
  BY MatchOf DEF RegisterTunnel
<1>2. j.cmd = "add" /\ AddAt(c, "register", j)
  BY <1>1 DEF At, EditAt, RemoveAt, MTUAt, UpdateAt, RestartAt, ModeAt, SwitchAt,
              InstallAt, UninstallAt, Job, CommandNames
<1>3. mem'[p] = c2 /\ pc'[p] = "truncate" /\ job'[p] = j /\ UNCHANGED host
  BY Moves DEF RegisterTunnel
<1>4. IsNew(c, t) /\ AddMatch(file, dir, unit, running, c, "register", j)
  BY <1>1, <1>2 DEF AddAt, MatchAt
<1>5. GetTunnel(c2, t.tag) = t /\ \A tag \in Tags \ {t.tag} : SameAt(c, c2, tag)
  BY <1>1, <1>4, RegisterAt
<1>6. InPlace(dir, unit, running, c, {t.tag}) /\ Startable(dir, unit, running, t)
  BY <1>4 DEF AddMatch
<1> HIDE DEF c2
<1>a. \A g \in Tags \ {t.tag} : Agree(dir, unit, running, dir, unit, running, g)
  BY DEF Agree
<1>7. InPlace(dir, unit, running, c2, {t.tag})
  BY <1>1, <1>5, <1>6, <1>a, InPlaceKept
<1>8. AddMatch(file, dir, unit, running, c2, "truncate", j)
  BY <1>5, <1>6, <1>7 DEF AddMatch
<1>9. MatchAt(file, router.state, dir, unit, running, c2, "truncate", j)
  BY <1>1, <1>2, <1>8 DEF MatchAt
<1>10. QED
  BY <1>3, <1>9, MatchStep DEF host

\* An edit that keeps the tag, or that has changed it already, is about one tag.
LEMMA EditTag ==
  ASSUME IInv, MatchFine, faults = 0, NEW p \in Procs, pc[p] \in {"settings", "importKey", "finish"}
  PROVE  LET tag == Current(p) IN
         /\ job[p].cmd = "edit" /\ job[p].new.tag = tag /\ tag \in Tags
         /\ tag \in TagsOf(mem[p]) /\ EditMatch(file, dir, unit, running, mem[p], pc[p], job[p])
         /\ InPlace(dir, unit, running, mem[p], {tag})
         /\ Pending(dir, unit, running, GetTunnel(mem[p], tag))
         /\ file = Torn => router.state = "absent"
<1>1. /\ MatchAt(file, router.state, dir, unit, running, mem[p], pc[p], job[p])
      /\ mem[p] \in Config /\ job[p] \in Job /\ At(mem[p], pc[p], job[p])
  BY MatchOf
<1>2. job[p].cmd = "edit"
  BY <1>1 DEF At, AddAt, RemoveAt, MTUAt, UpdateAt, RestartAt, ModeAt, SwitchAt, InstallAt,
              UninstallAt, Job, CommandNames
<1>3. PICK tag \in TagsOf(mem[p]) : job[p].todo = <<tag>> /\ tag = job[p].new.tag
  BY <1>1, <1>2 DEF At, EditAt
<1>4. tag \in Tags /\ Current(p) = tag
  BY <1>1, <1>3, OneTag, TagsOfType DEF Current
<1>5. EditMatch(file, dir, unit, running, mem[p], pc[p], job[p])
  BY <1>1, <1>2 DEF MatchAt
<1>6. /\ InPlace(dir, unit, running, mem[p], {tag})
      /\ Pending(dir, unit, running, GetTunnel(mem[p], tag))
  BY <1>3, <1>4, <1>5 DEF EditMatch, Current
<1>7. QED
  BY <1>1, <1>2, <1>3, <1>4, <1>5, <1>6 DEF MatchAt

LEMMA EditReplaced ==
  ASSUME NEW q, Alone(q), IInv, MatchFine, faults = 0, NEW p \in Procs,
         pc[p] \in {"settings", "importKey"},
         NEW s \in Tunnel, s.tag = Current(p), NeedsDomain(s) => s.domain # NoDomain,
         s.transport = GetTunnel(mem[p], Current(p)).transport,
         NEW l \in {"importKey", "finish"}, Goto(p, l),
         UNCHANGED <<file, unit, running, router, job>>,
         mem' = [mem EXCEPT ![p] = Replace(@, Current(p), s)],
         \A g \in Tags \ {Current(p)} : dir'[g] = dir[g],
         Pending(dir', unit, running, s)
  PROVE  MatchFine'
<1> DEFINE c == mem[p]
           j == job[p]
           tag == Current(p)
           c2 == Replace(mem[p], Current(p), s)
<1>1. /\ j.cmd = "edit" /\ j.new.tag = tag /\ tag \in Tags /\ tag \in TagsOf(c)
      /\ EditMatch(file, dir, unit, running, c, pc[p], j)
      /\ InPlace(dir, unit, running, c, {tag})
      /\ file = Torn => router.state = "absent"
  BY EditTag
<1>2. Sound(c) /\ mem'[p] = c2 /\ pc'[p] = l /\ job'[p] = j /\ Head(j.todo) = tag
  BY MatchOf, Moves DEF Current
<1>3. GetTunnel(c2, tag) = s /\ \A g \in Tags \ {tag} : SameAt(c, c2, g)
  BY <1>1, <1>2, ReplaceAt
<1> HIDE DEF c2
<1>a. \A g \in Tags \ {tag} : Agree(dir, unit, running, dir', unit, running, g)
  BY DEF Agree
<1>4. InPlace(dir', unit, running, c2, {tag})
  BY <1>1, <1>2, <1>3, <1>a, InPlaceKept
<1>5. GetTunnel(c, tag).transport = j.new.transport
  BY <1>1, <1>2 DEF EditMatch
<1>6. ASSUME j.old.tag = tag  PROVE Unsaved(file, unit, running, c2, j.old)
  <2>1. Unsaved(file, unit, running, c, j.old)
    BY <1>1, <1>2, <1>6 DEF EditMatch
  <2>2. \A g \in Tags \ {tag} : SameAt(LoadedFrom(file), c2, g)
    BY <1>3, <1>6, <2>1 DEF Unsaved, SameAt
  <2>3. QED
    BY <1>6, <2>1, <2>2 DEF Unsaved
<1>7. EditMatch(file, dir', unit, running, c2, l, j)
  BY <1>1, <1>2, <1>3, <1>4, <1>5, <1>6 DEF EditMatch
<1>8. MatchAt(file, router.state, dir', unit, running, c2, l, j)
  BY <1>1, <1>7 DEF MatchAt
<1>9. QED
  BY <1>2, <1>8, MatchStep

LEMMA SettingsMatch ==
  ASSUME NEW q, Alone(q), IInv, MatchFine, faults = 0, NEW p \in Procs, Settings(p)
  PROVE  MatchFine'
<1> DEFINE t == GetTunnel(mem[p], Current(p))
           domains == IF IsDirectTransport(t) THEN {t.domain} ELSE {t.domain} \cup Domains
           mtus    == IF HasSettings(t) THEN Mtus ELSE {t.mtu}
<1>1. /\ t \in Tunnel /\ t.tag = Current(p) /\ (NeedsDomain(t) => t.domain # NoDomain)
      /\ pc[p] = "settings"
  BY CurrentTunnel DEF Settings, OnTunnel
<1>2. PICK d \in domains, m \in mtus :
        mem' = [mem EXCEPT ![p] = Replace(@, t.tag, [t EXCEPT !.domain = d, !.mtu = m])]
  BY DEF Settings
<1> DEFINE new == [t EXCEPT !.domain = d, !.mtu = m]
<1>3. d \in Domains \cup {NoDomain} /\ m \in Mtus /\ (d = t.domain \/ d \in Domains)
  BY <1>1 DEF Tunnel
<1>4. /\ new \in Tunnel /\ new.tag = t.tag /\ new.transport = t.transport /\ new.domain = d
      /\ new.keyDir = t.keyDir /\ new.pub = t.pub
  BY <1>1, <1>3 DEF Tunnel
<1>5. PICK l \in {"importKey", "finish"} : Goto(p, l)
  BY DEF Settings
<1>6. UNCHANGED <<file, dir, unit, running, router, job>>
  BY DEF Settings, host
<1>7. Pending(dir, unit, running, t)
  BY <1>1, EditTag
<1> HIDE DEF new, t, domains, mtus
<1>8. NeedsDomain(new) => new.domain # NoDomain
  BY <1>1, <1>3, <1>4, ConfigurationAssumption DEF NeedsDomain, IsDirectTransport
<1>9. Pending(dir, unit, running, new)
  BY <1>4, <1>7, SettingPending
<1>10. mem' = [mem EXCEPT ![p] = Replace(@, Current(p), new)]
  BY <1>1, <1>2 DEF new
<1>11. new.tag = Current(p) /\ new.transport = GetTunnel(mem[p], Current(p)).transport
  BY <1>1, <1>4 DEF t
<1>12. \A g \in Tags \ {Current(p)} : dir'[g] = dir[g]
  BY <1>6
<1>13. Pending(dir', unit, running, new)
  BY <1>6, <1>9
<1>14. QED
  BY <1>1, <1>4, <1>5, <1>6, <1>8, <1>10, <1>11, <1>12, <1>13, EditReplaced

\* The key that is imported is the one that the copy publishes.
LEMMA ImportKeyMatch ==
  ASSUME NEW q, Alone(q), IInv, MatchFine, faults = 0, NEW p \in Procs, ImportKey(p)
  PROVE  MatchFine'
<1> DEFINE t == GetTunnel(mem[p], Current(p))
           tag == Current(p)
<1>1. /\ t \in Tunnel /\ t.tag = tag /\ (NeedsDomain(t) => t.domain # NoDomain)
      /\ pc[p] = "importKey"
  BY CurrentTunnel DEF ImportKey, OnTunnel
<1>2. /\ job[p].cmd = "edit" /\ job[p].new.tag = tag /\ tag \in Tags
      /\ EditMatch(file, dir, unit, running, mem[p], "importKey", job[p])
      /\ Pending(dir, unit, running, t)
      /\ file = Torn => router.state = "absent"
  BY <1>1, EditTag
<1>3. UNCHANGED <<file, unit, running, router, job>> /\ Goto(p, "finish") /\ dir \in Dirs
  BY MatchOf DEF ImportKey
<1>4. CASE dir[t.tag] = NoDir
  <2>1. UNCHANGED <<dir, mem>>
    BY <1>4 DEF ImportKey
  <2>2. mem'[p] = mem[p] /\ pc'[p] = "finish" /\ job'[p] = job[p]
    BY <1>3, <2>1, Moves
  <2>3. EditMatch(file, dir, unit, running, mem[p], "finish", job[p])
    BY <1>2 DEF EditMatch, Current
  <2>4. MatchAt(file, router.state, dir, unit, running, mem[p], "finish", job[p])
    BY <1>2, <2>3 DEF MatchAt
  <2>5. QED
    BY <1>3, <2>1, <2>2, <2>4, MatchStep
<1>5. CASE dir[t.tag] # NoDir
  <2>1. PICK k \in Keys :
          /\ dir' = [dir EXCEPT ![t.tag] = k]
          /\ mem' = [mem EXCEPT ![p] = Replace(@, t.tag, [t EXCEPT !.keyDir = t.tag, !.pub = k])]
    BY <1>5 DEF ImportKey
  <2> DEFINE new == [t EXCEPT !.keyDir = t.tag, !.pub = k]
  <2>2. /\ new \in Tunnel /\ new.tag = t.tag /\ new.transport = t.transport /\ new.domain = t.domain
        /\ new.keyDir = t.tag /\ new.pub = k
    BY <1>1 DEF Tunnel
  <2>3. mem' = [mem EXCEPT ![p] = Replace(@, tag, new)]
    BY <1>1, <2>1
  <2>4. new.transport = GetTunnel(mem[p], tag).transport /\ new.tag = tag
    BY <1>1, <2>2
  <2> HIDE DEF new, t, tag
  <2>5. NeedsDomain(new) => new.domain # NoDomain
    BY <1>1, <2>2 DEF NeedsDomain, IsDirectTransport
  <2>6. dir'[t.tag] = k /\ \A g \in Tags \ {tag} : dir'[g] = dir[g]
    BY <1>1, <1>2, <1>3, <2>1 DEF Dirs
  <2>7. Keyed(dir', new)
    BY <2>2, <2>6, AbsenceAssumption DEF Keyed
  <2>8. Pending(dir', unit, running, new)
    BY <1>2, <2>2, <2>7 DEF Pending, HasUnit, IsDirectTransport
  <2>9. QED
    BY <1>1, <1>3, <2>2, <2>3, <2>4, <2>5, <2>6, <2>8, EditReplaced DEF tag
<1>6. QED
  BY <1>4, <1>5

\* install and wizard, while they gather tunnels.
LEMMA InstallOn ==
  ASSUME IInv, MatchFine, faults = 0, NEW p \in Procs,
         pc[p] \in {"collect", "gather", "multi", "startRouter"}
  PROVE  /\ job[p].cmd \in {"install", "wizard"} /\ InstallAt(mem[p], pc[p], job[p])
         /\ InstallMatch(file, dir, unit, running, mem[p], pc[p], job[p])
         /\ file = Torn => router.state = "absent"
  BY MatchOf, InstallOf DEF MatchAt

LEMMA CollectMatch ==
  ASSUME NEW q, Alone(q), IInv, MatchFine, faults = 0, NEW p \in Procs, Collect(p)
  PROVE  MatchFine'
<1>1. /\ job[p].cmd \in {"install", "wizard"} /\ job[p] \in Job
      /\ InstallMatch(file, dir, unit, running, mem[p], "collect", job[p])
      /\ file = Torn => router.state = "absent"
  BY MatchOf, InstallOn DEF Collect
<1> DEFINE shared(t) == IF job[p].new # NoTunnel /\ job[p].new.transport = t.transport
                        THEN job[p].new.tag ELSE NoTag
           j(t) == [job[p] EXCEPT !.new = t, !.shared = shared(t)]
<1>2. PICK t \in WantedTunnels(mem[p]) :
        job' = [job EXCEPT ![p].new = t, ![p].shared = shared(t)]
  BY DEF Collect
<1>3. job' = [job EXCEPT ![p] = j(t)]
  BY <1>2
<1> HIDE DEF shared
<1>4. j(t).new = t /\ j(t).cmd = job[p].cmd /\ j(t).todo = job[p].todo
  BY <1>1 DEF Job
<1>5. t.keyDir = t.tag
  BY <1>2, WantedKeyed
<1> HIDE DEF j
<1>6. UNCHANGED <<host, mem>> /\ mem'[p] = mem[p] /\ pc'[p] = "keys" /\ job'[p] = j(t)
  BY <1>3, Moves DEF Collect
<1>7. InstallMatch(file, dir, unit, running, mem[p], "keys", j(t))
  BY <1>1, <1>4, <1>5 DEF InstallMatch
<1>8. MatchAt(file, router.state, dir, unit, running, mem[p], "keys", j(t))
  BY <1>1, <1>4, <1>7 DEF MatchAt
<1>9. QED
  BY <1>6, <1>8, MatchStep DEF host

LEMMA AppendTags ==
  ASSUME NEW todo \in Seq(Tags), NEW tag \in Tags
  PROVE  Append(todo, tag) # <<>> /\ TagsIn(Append(todo, tag)) = TagsIn(todo) \cup {tag}
<1> DEFINE n == Len(todo)
           more == Append(todo, tag)
<1>1. /\ n \in Nat /\ DOMAIN todo = 1..n /\ DOMAIN more = 1..(n + 1)
      /\ \A i \in 1..n : more[i] = todo[i]
      /\ more[n + 1] = tag
  BY AppendProperties
<1> HIDE DEF more, n
<1>2. /\ \A i \in 1..(n + 1) : i \in 1..n \/ i = n + 1
      /\ n + 1 \in 1..(n + 1) /\ 1..n \subseteq 1..(n + 1)
  BY <1>1
<1>3. TagsIn(more) = TagsIn(todo) \cup {tag}
  BY <1>1, <1>2 DEF TagsIn
<1>4. more # <<>>
  <2>1. TagsIn(<<>>) = {}
    BY DEF TagsIn
  <2>2. QED
    BY <1>3, <2>1
<1>5. QED
  BY <1>3, <1>4 DEF more

LEMMA GatherMatch ==
  ASSUME NEW q, Alone(q), IInv, MatchFine, faults = 0, NEW p \in Procs, Gather(p)
  PROVE  MatchFine'
<1> DEFINE t == job[p].new
           c == mem[p]
           c2 == [mem[p] EXCEPT !.tunnels = Append(@, t)]
           todo == Append(job[p].todo, t.tag)
           j == [job[p] EXCEPT !.todo = todo, !.dns = IF IsDNSTunnel(t) THEN @ + 1 ELSE @]
<1>1. /\ job[p].cmd \in {"install", "wizard"} /\ InstallAt(c, "gather", job[p])
      /\ InstallMatch(file, dir, unit, running, c, "gather", job[p])
      /\ file = Torn => router.state = "absent"
  BY InstallOn DEF Gather
<1>2. Sound(c) /\ c \in Config /\ job[p] \in Job /\ job[p].todo \in Seq(Tags)
  BY MatchOf DEF Job
<1>3. IsNew(c, t) /\ t \in Tunnel /\ t.tag \in Tags /\ TagsIn(job[p].todo) \subseteq TagsOf(c)
  BY <1>1 DEF InstallAt, IsNew, Tunnel
<1>4. Sound(c2) /\ TagsOf(c2) = TagsOf(c) \cup {t.tag}
  BY <1>2, <1>3, GatherSound DEF IsNew
<1>5. c2.tunnels = Append(c.tunnels, t)
  BY <1>2 DEF Config
<1>6. todo # <<>> /\ TagsIn(todo) = TagsIn(job[p].todo) \cup {t.tag}
  BY <1>2, <1>3, AppendTags
<1>7. j.todo = todo /\ j.cmd = job[p].cmd
  BY <1>2 DEF Job
<1>a. /\ UNCHANGED host /\ mem' = [mem EXCEPT ![p] = c2] /\ Goto(p, "collect")
      /\ job' = [job EXCEPT ![p] = j]
  BY DEF Gather
<1> HIDE DEF c2, todo, j
<1>8. UNCHANGED host /\ mem'[p] = c2 /\ pc'[p] = "collect" /\ job'[p] = j
  BY <1>a, Moves
<1>9. GetTunnel(c2, t.tag) = t /\ \A tag \in Tags \ {t.tag} : SameAt(c, c2, tag)
  BY <1>2, <1>3, <1>4, <1>5, AppendAt DEF IsNew
<1>10. /\ InPlace(dir, unit, running, c, TagsIn(todo)) /\ Startable(dir, unit, running, t)
       /\ \A tag \in TagsIn(job[p].todo) : Startable(dir, unit, running, GetTunnel(c, tag))
  BY <1>1, <1>6 DEF InstallMatch
<1>11. \A tag \in Tags : Agree(dir, unit, running, dir, unit, running, tag)
  BY DEF Agree
<1>12. t.tag \in TagsIn(todo)
  BY <1>6
<1>13. InPlace(dir, unit, running, c2, TagsIn(todo))
  BY <1>2, <1>9, <1>10, <1>11, <1>12, InPlaceKept
<1>14. ASSUME NEW tag \in TagsIn(todo)  PROVE Startable(dir, unit, running, GetTunnel(c2, tag))
  <2>1. CASE tag = t.tag
    BY <1>9, <1>10, <2>1
  <2>2. CASE tag # t.tag
    <3>1. tag \in TagsIn(job[p].todo) /\ tag \in TagsOf(c) /\ tag \in Tags
      BY <1>2, <1>3, <1>6, <2>2, TagsOfType
    <3>2. GetTunnel(c2, tag) = GetTunnel(c, tag)
      BY <1>9, <2>2, <3>1 DEF SameAt
    <3>3. QED
      BY <1>10, <3>1, <3>2
  <2>3. QED
    BY <2>1, <2>2
<1>15. InstallMatch(file, dir, unit, running, c2, "collect", j)
  BY <1>6, <1>7, <1>13, <1>14 DEF InstallMatch
<1>16. MatchAt(file, router.state, dir, unit, running, c2, "collect", j)
  BY <1>1, <1>7, <1>15 DEF MatchAt
<1>17. QED
  BY <1>8, <1>16, MatchStep DEF host

LEMMA SaveInstalledMatch ==
  ASSUME NEW q, Alone(q), IInv, MatchFine, faults = 0, NEW p \in Procs, SaveInstalled(p)
  PROVE  MatchFine'
<1> DEFINE l == IF job[p].todo = <<>> THEN "done" ELSE "truncate"
           first == Head(job[p].todo)
           set == job[p].cmd = "install" /\ job[p].todo # <<>>
           c == mem[p]
           j == job[p]
           c2 == IF set THEN [c EXCEPT !.active = first, !.default = first] ELSE c
<1>1. /\ j.cmd \in {"install", "wizard"} /\ InstallMatch(file, dir, unit, running, c, "collect", j)
      /\ file = Torn => router.state = "absent"
  BY InstallOn DEF SaveInstalled
<1>2. c2.tunnels = c.tunnels
  BY MatchOf DEF Config
<1>3. UNCHANGED <<host, job>> /\ mem'[p] = c2 /\ pc'[p] = l /\ job'[p] = j
  <2>1. UNCHANGED <<host, job>> /\ mem' = [mem EXCEPT ![p] = c2] /\ Goto(p, l)
    BY DEF SaveInstalled, IInv, HandlersFine
  <2> HIDE DEF c2, l
  <2>2. QED
    BY <2>1, Moves
<1>4. l = "truncate" => \A tag : GetTunnel(c2, tag) = GetTunnel(c, tag)
  BY <1>2 DEF GetTunnel, IndexOf
<1>5. CASE j.todo = <<>>
  <2>1. TagsIn(j.todo) = {} /\ c2 = c
    BY <1>5 DEF TagsIn
  <2>2. InPlace(dir, unit, running, LoadedFrom(file), {})
    BY <1>1, <1>5, <2>1 DEF InstallMatch
  <2>3. MatchAt(file, router.state, dir, unit, running, c2, "done", j)
    BY <1>1, <2>2, DoneMatch
  <2>4. QED
    BY <1>3, <1>5, <2>3, MatchStep DEF host
<1>6. CASE j.todo # <<>>
  <2>1. pc'[p] = "truncate" /\ \A tag : GetTunnel(c2, tag) = GetTunnel(c, tag)
    BY <1>3, <1>4, <1>6
  <2> HIDE DEF c2
  <2>2. /\ InPlace(dir, unit, running, c, TagsIn(j.todo))
        /\ \A tag \in TagsIn(j.todo) : Startable(dir, unit, running, GetTunnel(c, tag))
    BY <1>1 DEF InstallMatch
  <2>3. InPlace(dir, unit, running, c2, TagsIn(j.todo))
    BY <1>2, <2>2, InPlaceSame
  <2>4. InstallMatch(file, dir, unit, running, c2, "truncate", j)
    BY <2>1, <2>2, <2>3 DEF InstallMatch
  <2>5. MatchAt(file, router.state, dir, unit, running, c2, "truncate", j)
    BY <1>1, <2>4 DEF MatchAt
  <2>6. QED
    BY <1>3, <2>1, <2>5, MatchStep DEF host
<1>7. QED
  BY <1>5, <1>6

LEMMA AnswersMatch ==
  ASSUME NEW q, Alone(q), IInv, MatchFine, faults = 0, NEW p \in Procs, Answers(p)
  PROVE  MatchFine'
  BY RegisterMatch, SettingsMatch, CollectMatch, GatherMatch, SaveInstalledMatch DEF Answers

-------------------------------------------------------------------------------
(***************************************************************************)
(* A new tunnel's directory and route; saving                              *)
(***************************************************************************)

\* The keys of a new tunnel are in its directory.
LEMMA SetUpKeyed ==
  ASSUME NEW p \in Procs, SetUpDir(p), dir \in Dirs, job[p] \in Job, job \in [Procs -> Job],
         job[p].new \in Tunnel, job[p].new.keyDir = job[p].new.tag
  PROVE  \E v : /\ v.tag = job[p].new.tag /\ Keyed(dir', v)
                /\ job' = [job EXCEPT ![p] = [job[p] EXCEPT !.new = v]]
                /\ \A g \in Tags \ {v.tag} : dir'[g] = dir[g]
<1> DEFINE t == job[p].new
<1>1. t.tag \in Tags
  BY DEF Tunnel
<1>2. CASE HasKeyFiles(t)
  <2>1. PICK k \in Keys :
          /\ dir' = [dir EXCEPT ![t.tag] = k]
          /\ job' = [job EXCEPT ![p].new.pub = IF HasKeyPair(t) THEN k ELSE NoKey]
    BY <1>2 DEF SetUpDir
  <2>2. PICK n : n = IF HasKeyPair(t) THEN k ELSE NoKey
    OBVIOUS
  <2> DEFINE v == [t EXCEPT !.pub = n]
  <2>3. job' = [job EXCEPT ![p] = [job[p] EXCEPT !.new = v]]
    BY <2>1, <2>2
  <2>4. v.tag = t.tag /\ v.transport = t.transport /\ v.keyDir = t.keyDir /\ v.pub = n
    BY DEF Tunnel
  <2>5. dir'[t.tag] = k /\ k # NoDir /\ \A g \in Tags \ {t.tag} : dir'[g] = dir[g]
    BY <1>1, <2>1, AbsenceAssumption DEF Dirs
  <2> HIDE DEF v, t
  <2>6. Keyed(dir', v)
    BY <2>2, <2>4, <2>5 DEF Keyed, HasKeyPair, t
  <2>7. QED
    BY <2>3, <2>4, <2>5, <2>6 DEF t
<1>3. CASE ~HasKeyFiles(t)
  <2>1. dir' = [dir EXCEPT ![t.tag] = IF @ = NoDir /\ MakesDir(p) THEN NoFiles ELSE @] /\ job' = job
    BY <1>3 DEF SetUpDir
  <2>2. job' = [job EXCEPT ![p] = [job[p] EXCEPT !.new = t]]
    BY <2>1 DEF Job
  <2>3. \A g \in Tags \ {t.tag} : dir'[g] = dir[g]
    BY <1>1, <2>1 DEF Dirs
  <2>a. t.transport = "naive" => dir'[t.tag] # NoDir
    BY <1>1, <2>1, AbsenceAssumption DEF Dirs, MakesDir
  <2>4. Keyed(dir', t)
    BY <1>3, <2>a DEF Keyed, HasKeyFiles
  <2>5. QED
    BY <2>2, <2>3, <2>4
<1>4. QED
  BY <1>2, <1>3

LEMMA SetUpDirMatch ==
  ASSUME NEW q, Alone(q), IInv, MatchFine, faults = 0, NEW p \in Procs, SetUpDir(p)
  PROVE  MatchFine'
<1> DEFINE c == mem[p]
           t == job[p].new
           S == IF job[p].cmd = "add" THEN {} ELSE TagsIn(job[p].todo)
           l == IF Installing(p) THEN "gather" ELSE "register"
<1>1. /\ MatchAt(file, router.state, dir, unit, running, c, "keys", job[p])
      /\ Sound(c) /\ c \in Config /\ job[p] \in Job /\ At(c, "keys", job[p]) /\ dir \in Dirs
      /\ UNCHANGED <<file, unit, running, router, mem>> /\ Goto(p, l)
  BY MatchOf DEF SetUpDir
<1>2. \/ job[p].cmd = "add" /\ AddAt(c, "keys", job[p])
      \/ job[p].cmd \in {"install", "wizard"} /\ InstallAt(c, "keys", job[p])
  BY <1>1 DEF At, EditAt, RemoveAt, MTUAt, UpdateAt, RestartAt, ModeAt, SwitchAt,
              UninstallAt, Job, CommandNames
<1>3. IsNew(c, t) /\ t \in Tunnel /\ t.tag \in Tags
  BY <1>2 DEF AddAt, InstallAt, IsNew, Tunnel
<1>4. /\ job[p].cmd = "add" => AddMatch(file, dir, unit, running, c, "keys", job[p])
      /\ job[p].cmd \in {"install", "wizard"} =>
           InstallMatch(file, dir, unit, running, c, "keys", job[p])
  BY <1>1 DEF MatchAt
<1>5. InPlace(dir, unit, running, c, S) /\ t.keyDir = t.tag
  BY <1>2, <1>4 DEF AddMatch, InstallMatch
<1>6. t.tag \notin S
  BY <1>2, <1>3 DEF IsNew, InstallAt
<1>7. unit[t.tag] = NoUnit /\ running[t.tag] = NoUnit
  BY <1>3, <1>5, <1>6 DEF InPlace, Placed, Clean, IsNew
<1>8. PICK v : /\ v.tag = t.tag /\ Keyed(dir', v)
               /\ job' = [job EXCEPT ![p] = [job[p] EXCEPT !.new = v]]
               /\ \A g \in Tags \ {v.tag} : dir'[g] = dir[g]
  <2>1. job \in [Procs -> Job]
    BY DEF IInv, HandlersFine
  <2>2. QED
    BY <1>1, <1>3, <1>5, <2>1, SetUpKeyed
<1> DEFINE j == [job[p] EXCEPT !.new = v]
<1>9. j.new = v /\ j.cmd = job[p].cmd /\ j.todo = job[p].todo
  BY <1>1 DEF Job
<1> HIDE DEF j, t, S, l
<1>10. mem'[p] = c /\ pc'[p] = l /\ job'[p] = j
  BY <1>1, <1>8, Moves DEF j
<1>11. Startable(dir', unit, running, v)
  BY <1>7, <1>8, CleanStartable
<1>12. \A g \in Tags \ {t.tag} : Agree(dir, unit, running, dir', unit, running, g) /\ SameAt(c, c, g)
  BY <1>8, SameCopy DEF Agree
<1>13. \A T : t.tag \in T /\ S \subseteq T => InPlace(dir', unit, running, c, T)
  BY <1>1, <1>5, <1>12, InPlaceKept
<1>14. CASE job[p].cmd = "add"
  <2>1. InPlace(dir', unit, running, c, {v.tag}) /\ l = "register"
    BY <1>8, <1>13, <1>14 DEF S, l, Installing
  <2>2. AddMatch(file, dir', unit, running, c, "register", j)
    BY <1>9, <1>11, <2>1 DEF AddMatch
  <2>3. MatchAt(file, router.state, dir', unit, running, c, "register", j)
    BY <1>1, <1>9, <1>14, <2>2 DEF MatchAt
  <2>4. QED
    BY <1>1, <1>10, <2>1, <2>3, MatchStep
<1>15. CASE job[p].cmd \in {"install", "wizard"}
  <2>1. InPlace(dir', unit, running, c, TagsIn(j.todo) \cup {j.new.tag}) /\ l = "gather"
    BY <1>8, <1>9, <1>13, <1>15 DEF S, l, Installing
  <2>2. ASSUME NEW tag \in TagsIn(j.todo)
        PROVE  Startable(dir', unit, running, GetTunnel(c, tag))
    <3>1. Startable(dir, unit, running, GetTunnel(c, tag)) /\ tag \in TagsOf(c)
      BY <1>2, <1>4, <1>9, <1>15 DEF InstallMatch, InstallAt
    <3>2. tag \in Tags \ {t.tag} /\ GetTunnel(c, tag).tag = tag
      BY <1>1, <1>3, <3>1, TunnelOf DEF IsNew
    <3>3. QED
      BY <1>12, <3>1, <3>2, AgreeKeeps
  <2>3. InstallMatch(file, dir', unit, running, c, "gather", j)
    BY <1>9, <1>11, <2>1, <2>2 DEF InstallMatch
  <2>4. MatchAt(file, router.state, dir', unit, running, c, "gather", j)
    BY <1>1, <1>9, <1>15, <2>3 DEF MatchAt
  <2>5. QED
    BY <1>1, <1>10, <2>1, <2>4, MatchStep
<1>16. QED
  BY <1>2, <1>14, <1>15

LEMMA RouteTunnelMatch ==
  ASSUME NEW q, Alone(q), IInv, MatchFine, faults = 0, NEW p \in Procs, RouteTunnel(p)
  PROVE  MatchFine'
<1> DEFINE j == [job[p] EXCEPT !.shared = IF @ = NoTag THEN job[p].new.tag ELSE @]
<1>1. /\ MatchAt(file, router.state, dir, unit, running, mem[p], "route", job[p])
      /\ job[p] \in Job /\ At(mem[p], "route", job[p])
  BY MatchOf DEF RouteTunnel
<1>2. job[p].cmd = "add"
  BY <1>1 DEF At, EditAt, RemoveAt, MTUAt, UpdateAt, RestartAt, ModeAt, SwitchAt,
              InstallAt, UninstallAt, Job, CommandNames
<1>3. /\ InPlace(dir, unit, running, mem[p], {}) /\ mem[p] = LoadedFrom(file) /\ file # Torn
  BY <1>1, <1>2 DEF MatchAt, AddMatch
<1>4. PICK l \in {"done", "reroute", "createRouter"} :
        mem'[p] = mem[p] /\ pc'[p] = l /\ job'[p] = j /\ UNCHANGED host
  BY Moves DEF RouteTunnel, AddToRouter
<1>5. j.cmd = "add"
  BY <1>1, <1>2 DEF Job
<1> HIDE DEF j
<1>6. AddMatch(file, dir, unit, running, mem[p], l, j)
  BY <1>3 DEF AddMatch
<1>7. MatchAt(file, router.state, dir, unit, running, mem[p], l, j)
  BY <1>3, <1>5, <1>6 DEF MatchAt
<1>8. QED
  BY <1>4, <1>7, MatchStep DEF host

\* The file is truncated.
LEMMA TruncateMatch ==
  ASSUME NEW q, Alone(q), IInv, MatchFine, faults = 0, NEW p \in Procs, Truncate(p)
  PROVE  MatchFine'
<1> DEFINE c == mem[p]
           j == job[p]
<1>1. /\ MatchAt(file, router.state, dir, unit, running, c, "truncate", j)
      /\ mem'[p] = c /\ pc'[p] = "write" /\ job'[p] = j /\ file' = Torn
      /\ UNCHANGED <<dir, unit, running, router>>
  BY MatchOf, Moves DEF Truncate
<1> HIDE DEF c, j
<1>2. j.cmd = "add" => AddMatch(Torn, dir, unit, running, c, "write", j)
  BY <1>1 DEF MatchAt, AddMatch
<1>3. j.cmd = "edit" => EditMatch(Torn, dir, unit, running, c, "write", j)
  BY <1>1 DEF MatchAt, EditMatch
<1>4. j.cmd = "remove" => RemoveMatch(dir, unit, running, c, "write", j)
  BY <1>1 DEF MatchAt, RemoveMatch
<1>5. j.cmd \in {"mtu", "update"} => LoopMatch(Torn, dir, unit, running, c, "write", j)
  BY <1>1 DEF MatchAt, LoopMatch
<1>6. j.cmd \in {"restart", "mode", "switch", "import"} =>
        PlainMatch(Torn, dir, unit, running, c, "write", j)
  BY <1>1 DEF MatchAt, PlainMatch
<1>7. j.cmd \in {"install", "wizard"} => InstallMatch(Torn, dir, unit, running, c, "write", j)
  BY <1>1 DEF MatchAt, InstallMatch
<1>8. j.cmd = "uninstall" => UninstallMatch(router.state, unit, running, "write", j)
  BY <1>1 DEF MatchAt, UninstallMatch
<1>9. MatchAt(Torn, router.state, dir, unit, running, c, "write", j)
  BY <1>2, <1>3, <1>4, <1>5, <1>6, <1>7, <1>8 DEF MatchAt
<1>10. QED
  BY <1>1, <1>9, MatchStep

\* What is written is the copy.
LEMMA WriteFileMatch ==
  ASSUME NEW q, Alone(q), IInv, MatchFine, faults = 0, NEW p \in Procs, WriteFile(p)
  PROVE  MatchFine'
<1> DEFINE c == mem[p]
           j == job[p]
<1>1. /\ MatchAt(file, router.state, dir, unit, running, c, "write", j)
      /\ Sound(c) /\ c \in Config /\ c # Torn /\ j \in Job /\ At(c, "write", j)
  BY MatchOf DEF WriteFile
<1>2. LoadedFrom(c) = c
  BY <1>1 DEF LoadedFrom
<1>3. PICK l : /\ l = IF j.cmd = "edit" /\ IsDirectTransport(j.new) THEN "done"
                      ELSE IF Installing(p) THEN AfterInstallSave(p) ELSE AfterSave[j.cmd]
               /\ Goto(p, l)
  BY DEF WriteFile
<1>4. /\ mem'[p] = c /\ pc'[p] = l /\ job'[p] = j /\ file' = c
      /\ UNCHANGED <<dir, unit, running, router>>
  BY <1>3, Moves DEF WriteFile
<1>5. SUFFICES MatchAt(c, router.state, dir, unit, running, c, l, j)
  BY <1>4, MatchStep
<1>6. j.cmd \in {"add", "edit", "remove", "mtu", "mode", "switch", "import", "install", "wizard"}
  BY <1>1 DEF At, UpdateAt, RestartAt, UninstallAt, Job, CommandNames
<1>7. CASE j.cmd = "add"
  <2>1. l = "create" /\ AddMatch(file, dir, unit, running, c, "write", j)
    BY <1>1, <1>3, <1>7 DEF AfterSave, Installing, MatchAt
  <2> HIDE DEF c, j
  <2>2. AddMatch(c, dir, unit, running, c, "create", j)
    BY <1>1, <1>2, <2>1 DEF AddMatch
  <2>3. QED
    BY <1>1, <1>7, <2>1, <2>2 DEF MatchAt
<1>8. CASE j.cmd = "edit"
  <2>1. EditMatch(file, dir, unit, running, c, "write", j) /\ EditAt(c, "write", j)
    BY <1>1, <1>8 DEF At, MatchAt
  <2>2. l = IF IsDirectTransport(j.new) THEN "done" ELSE "stop"
    BY <1>3, <1>8 DEF AfterSave, Installing
  <2>3. PICK tag \in TagsOf(c) : j.todo = <<tag>> /\ tag = j.new.tag
    BY <2>1 DEF EditAt
  <2>4. tag \in Tags /\ Head(j.todo) = tag
    BY <1>1, <2>3, OneTag, TagsOfType
  <2> HIDE DEF c, j
  <2>5. CASE IsDirectTransport(j.new)
    <3>1. /\ InPlace(dir, unit, running, c, {tag}) /\ Pending(dir, unit, running, GetTunnel(c, tag))
          /\ GetTunnel(c, tag).transport = j.new.transport
      BY <2>1, <2>3, <2>4 DEF EditMatch
    <3>2. Matches(dir, unit, running, GetTunnel(c, tag))
      BY <2>5, <3>1, NoServiceMatches DEF HasUnit, IsDirectTransport
    <3>3. InPlace(dir, unit, running, c, {})
      BY <2>3, <3>1, <3>2 DEF InPlace, Placed
    <3>4. QED
      BY <1>1, <1>2, <1>8, <2>2, <2>5, <3>3, DoneMatch
  <2>6. CASE ~IsDirectTransport(j.new)
    <3>1. EditMatch(c, dir, unit, running, c, "stop", j)
      BY <1>2, <2>1, <2>3, <2>4 DEF EditMatch
    <3>2. QED
      BY <1>1, <1>8, <2>2, <2>6, <3>1 DEF MatchAt
  <2>7. QED
    BY <2>5, <2>6
<1>9. CASE j.cmd = "mtu"
  <2>1. l = "stop" /\ LoopMatch(file, dir, unit, running, c, "write", j)
    BY <1>1, <1>3, <1>9 DEF AfterSave, Installing, MatchAt
  <2> HIDE DEF c, j
  <2>2. LoopMatch(c, dir, unit, running, c, "stop", j)
    BY <1>2, <2>1 DEF LoopMatch
  <2>3. QED
    BY <1>1, <1>9, <2>1, <2>2 DEF MatchAt
<1>10. CASE j.cmd \in {"remove", "mode", "switch", "import"}
  <2>1. l = "done" /\ InPlace(dir, unit, running, c, {})
    BY <1>1, <1>3, <1>10 DEF AfterSave, Installing, MatchAt, RemoveMatch, PlainMatch
  <2> HIDE DEF c, j
  <2>2. QED
    BY <1>1, <1>2, <1>10, <2>1, DoneMatch
<1>11. CASE j.cmd \in {"install", "wizard"}
  <2>1. /\ InstallMatch(file, dir, unit, running, c, "write", j)
        /\ l = IF j.todo = <<>> THEN "collect"
               ELSE IF j.dns > 1 /\ j.mode = "single" THEN "multi" ELSE "create"
    BY <1>1, <1>3, <1>11 DEF AfterInstallSave, Installing, MatchAt
  <2>2. l \in {"collect", "multi", "create"}
    BY <2>1
  <2> HIDE DEF c, j
  <2>3. InstallMatch(c, dir, unit, running, c, l, j)
    BY <1>1, <1>2, <2>1, <2>2 DEF InstallMatch
  <2>4. QED
    BY <1>1, <1>11, <2>2, <2>3 DEF MatchAt
<1>12. QED
  BY <1>6, <1>7, <1>8, <1>9, <1>10, <1>11

-------------------------------------------------------------------------------
(***************************************************************************)
(* Services are created and started                                        *)
(***************************************************************************)

\* A round of a loop takes care of the tag in hand.
LEMMA RestTags ==
  ASSUME NEW todo \in Seq(Tags), todo # <<>>
  PROVE  /\ TagsIn(todo) \subseteq {Head(todo)} \cup TagsIn(Tail(todo))
         /\ TagsIn(Tail(todo)) \subseteq TagsIn(todo) /\ Head(todo) \in TagsIn(todo)
         /\ Tail(todo) = <<>> => TagsIn(Tail(todo)) = {}
<1>1. ASSUME NEW g \in TagsIn(todo), g # Head(todo)  PROVE g \in TagsIn(Tail(todo))
  <2>1. PICK i \in DOMAIN todo : todo[i] = g
    BY DEF TagsIn
  <2>2. /\ DOMAIN todo = 1..Len(todo) /\ Len(todo) \in Nat
        /\ DOMAIN Tail(todo) = 1..(Len(todo) - 1) /\ todo[1] = Head(todo)
        /\ \A k \in 1..(Len(todo) - 1) : Tail(todo)[k] = todo[k + 1]
    BY HeadTailProperties
  <2>3. i - 1 \in DOMAIN Tail(todo) /\ Tail(todo)[i - 1] = g
    <3>1. i # 1
      BY <1>1, <2>1, <2>2
    <3>2. i - 1 \in 1..(Len(todo) - 1) /\ (i - 1) + 1 = i
      BY <2>2, <3>1
    <3>3. QED
      BY <2>1, <2>2, <3>2
  <2>4. QED
    BY <2>3 DEF TagsIn
<1>2. TagsIn(<<>>) = {}
  BY DEF TagsIn
<1>3. QED
  BY <1>1, <1>2, TailTags

\* Where services are created: what is known of the tags in hand.
InHand(d, u, r, c, j) ==
  /\ InPlace(d, u, r, c, TagsIn(j.todo))
  /\ \A g \in TagsIn(j.todo) :
       /\ Pending(d, u, r, GetTunnel(c, g))
       /\ j.cmd \in {"install", "wizard"} => Startable(d, u, r, GetTunnel(c, g))

LEMMA ServiceOn ==
  ASSUME IInv, MatchFine, faults = 0, NEW p \in Procs, pc[p] \in {"create", "start"}
  PROVE  LET c == mem[p]  j == job[p]  tag == Current(p)  t == GetTunnel(mem[p], Current(p)) IN
         /\ j.cmd \in {"add", "edit", "mtu", "update", "install", "wizard"}
         /\ tag \in TagsOf(c) /\ tag \in Tags /\ t \in Tunnel /\ t.tag = tag
         /\ j.todo # <<>> /\ j.todo \in Seq(Tags) /\ TagsIn(j.todo) \subseteq TagsOf(c)
         /\ InHand(dir, unit, running, c, j) /\ Startable(dir, unit, running, t)
         /\ pc[p] = "start" => Started(dir, unit, running, t)
         /\ c = LoadedFrom(file) /\ (file = Torn => router.state = "absent")
         /\ j.cmd \in {"add", "install", "wizard"} => file # Torn
         /\ j.cmd = "add" => j.new.tag = tag /\ TagsIn(j.todo) = {tag}
         /\ j.cmd = "edit" => /\ j.new.tag = tag /\ TagsIn(j.todo) = {tag}
                              /\ t.transport = j.new.transport
<1> DEFINE c == mem[p]
           j == job[p]
           l == pc[p]
           tag == Current(p)
           t == GetTunnel(mem[p], Current(p))
<1>1. /\ MatchAt(file, router.state, dir, unit, running, c, l, j) /\ Sound(c) /\ c \in Config
      /\ j \in Job /\ At(c, l, j) /\ l \in {"create", "start"} /\ tag = Head(j.todo)
      /\ j.cmd \in {"add", "edit", "mtu", "update", "install", "wizard"}
  BY MatchOf, ServiceOf DEF Current
<1>2. /\ tag \in TagsOf(c) /\ tag \in Tags /\ t \in Tunnel /\ t.tag = tag /\ j.todo # <<>>
  BY CurrentOf, CurrentTunnel DEF OnTunnel, OnCurrent
<1>3. j.todo \in Seq(Tags) /\ tag \in TagsIn(j.todo) /\ t = GetTunnel(c, tag)
  BY <1>1, <1>2, RestTags DEF Job
<1> HIDE DEF c, j, l, tag, t
<1>4. file = Torn => router.state = "absent"
  BY <1>1 DEF MatchAt
<1>5. Started(dir, unit, running, t) => Startable(dir, unit, running, t)
  BY DEF Started
<1>6. Startable(dir, unit, running, t) => Pending(dir, unit, running, t)
  BY DEF Startable
<1>7. CASE j.cmd = "add"
  <2>1. AddAt(c, l, j) /\ AddMatch(file, dir, unit, running, c, l, j)
    BY <1>1, <1>7 DEF At, MatchAt
  <2>2. j.todo = <<j.new.tag>> /\ j.new.tag \in Tags
    BY <2>1 DEF AddAt, Tunnel
  <2>3. j.new.tag = tag /\ TagsIn(j.todo) = {tag}
    BY <1>1, <2>2, OneTag
  <2>4. /\ InPlace(dir, unit, running, c, {tag}) /\ c = LoadedFrom(file) /\ file # Torn
        /\ Startable(dir, unit, running, t) /\ (l = "start" => Started(dir, unit, running, t))
    BY <1>1, <1>3, <1>5, <2>1, <2>3 DEF AddMatch
  <2>5. InHand(dir, unit, running, c, j)
    BY <1>3, <1>6, <1>7, <2>3, <2>4 DEF InHand
  <2>6. QED
    BY <1>1, <1>2, <1>3, <1>7, <2>3, <2>4, <2>5 DEF c, j, l, t, tag
<1>8. CASE j.cmd = "edit"
  <2>1. EditAt(c, l, j) /\ EditMatch(file, dir, unit, running, c, l, j)
    BY <1>1, <1>8 DEF At, MatchAt
  <2>2. PICK g \in TagsOf(c) : j.todo = <<g>> /\ g = j.new.tag
    BY <1>1, <2>1 DEF EditAt
  <2>3. j.new.tag = tag /\ TagsIn(j.todo) = {tag}
    BY <1>1, <2>2, OneTag, TagsOfType
  <2>4. /\ InPlace(dir, unit, running, c, {tag}) /\ c = LoadedFrom(file)
        /\ Startable(dir, unit, running, t) /\ (l = "start" => Started(dir, unit, running, t))
        /\ t.transport = j.new.transport
    BY <1>1, <1>3, <1>5, <2>1, <2>3 DEF EditMatch
  <2>5. InHand(dir, unit, running, c, j)
    BY <1>3, <1>6, <1>8, <2>3, <2>4 DEF InHand
  <2>6. QED
    BY <1>1, <1>2, <1>3, <1>4, <1>8, <2>3, <2>4, <2>5 DEF c, j, l, t, tag
<1>9. CASE j.cmd \in {"mtu", "update"}
  <2>1. TagsIn(j.todo) \subseteq TagsOf(c) /\ LoopMatch(file, dir, unit, running, c, l, j)
    BY <1>1, <1>9 DEF At, MTUAt, UpdateAt, MatchAt
  <2>2. /\ c = LoadedFrom(file) /\ Startable(dir, unit, running, t)
        /\ l = "start" => Started(dir, unit, running, t)
    BY <1>1, <1>3, <1>5, <2>1 DEF LoopMatch
  <2>3. InHand(dir, unit, running, c, j)
    BY <1>9, <2>1 DEF InHand, LoopMatch
  <2>4. QED
    BY <1>1, <1>2, <1>3, <1>4, <1>9, <2>1, <2>2, <2>3 DEF c, j, l, t, tag
<1>10. CASE j.cmd \in {"install", "wizard"}
  <2>1. TagsIn(j.todo) \subseteq TagsOf(c) /\ InstallMatch(file, dir, unit, running, c, l, j)
    BY <1>1, <1>10 DEF At, InstallAt, MatchAt
  <2>2. /\ c = LoadedFrom(file) /\ file # Torn /\ Startable(dir, unit, running, t)
        /\ l = "start" => Started(dir, unit, running, t)
    BY <1>1, <1>3, <1>5, <2>1 DEF InstallMatch
  <2>3. InPlace(dir, unit, running, c, TagsIn(j.todo))
    BY <1>1, <2>1 DEF InstallMatch
  <2>4. InHand(dir, unit, running, c, j)
    BY <2>1, <2>3 DEF InHand, InstallMatch, Startable
  <2>5. QED
    BY <1>1, <1>2, <1>3, <1>10, <2>1, <2>2, <2>4 DEF c, j, l, t, tag
<1>11. QED
  BY <1>1, <1>7, <1>8, <1>9, <1>10

\* A service with a unit is about to be started.
LEMMA InHandStart ==
  ASSUME NEW f, NEW s, NEW d, NEW u, NEW r, NEW c, NEW j, NEW tag, Head(j.todo) = tag,
         j.cmd \in {"add", "edit", "mtu", "update", "install", "wizard"},
         InHand(d, u, r, c, j), Started(d, u, r, GetTunnel(c, tag)),
         c = LoadedFrom(f), f = Torn => s = "absent",
         j.cmd \in {"add", "install", "wizard"} => f # Torn,
         j.cmd \in {"add", "edit"} => j.new.tag = tag /\ TagsIn(j.todo) = {tag},
         j.cmd = "edit" => GetTunnel(c, tag).transport = j.new.transport
  PROVE  MatchAt(f, s, d, u, r, c, "start", j)
<1>1. j.cmd = "add" => AddMatch(f, d, u, r, c, "start", j)
  BY DEF AddMatch, InHand
<1>2. j.cmd = "edit" => EditMatch(f, d, u, r, c, "start", j)
  BY DEF EditMatch, InHand, Started, Startable
<1>3. j.cmd \in {"mtu", "update"} => LoopMatch(f, d, u, r, c, "start", j)
  BY DEF LoopMatch, InHand
<1>4. j.cmd \in {"install", "wizard"} => InstallMatch(f, d, u, r, c, "start", j)
  BY DEF InstallMatch, InHand
<1>5. QED
  BY <1>1, <1>2, <1>3, <1>4 DEF MatchAt

\* Something has been done about the tag in hand only.
LEMMA InHandKept ==
  ASSUME NEW d, NEW u, NEW r, NEW d2, NEW u2, NEW r2, NEW c, Sound(c), NEW j, NEW j2, NEW tag,
         InHand(d, u, r, c, j), TagsIn(j.todo) \subseteq TagsOf(c), j2.cmd = j.cmd,
         TagsIn(j2.todo) \subseteq TagsIn(j.todo),
         TagsIn(j.todo) \subseteq {tag} \cup TagsIn(j2.todo),
         tag \in TagsIn(j.todo),
         \A g \in Tags \ {tag} : Agree(d, u, r, d2, u2, r2, g),
         Startable(d2, u2, r2, GetTunnel(c, tag)),
         tag \in TagsIn(j2.todo) \/ Matches(d2, u2, r2, GetTunnel(c, tag))
  PROVE  InHand(d2, u2, r2, c, j2)
<1>1. \A g : SameAt(c, c, g)
  BY SameCopy
<1>2. InPlace(d, u, r, c, TagsIn(j.todo))
  BY DEF InHand
<1>3. InPlace(d2, u2, r2, c, TagsIn(j.todo))
  BY <1>1, <1>2, InPlaceKept
<1>4. InPlace(d2, u2, r2, c, TagsIn(j2.todo))
  <2>1. \A g \in (Tags \cap TagsIn(j.todo)) \ TagsIn(j2.todo) : Placed(d2, u2, r2, c, g)
    BY DEF Placed
  <2>2. QED
    BY <1>3, <2>1, InPlaceMore
<1>5. ASSUME NEW g \in TagsIn(j2.todo)
      PROVE  /\ Pending(d2, u2, r2, GetTunnel(c, g))
             /\ j2.cmd \in {"install", "wizard"} => Startable(d2, u2, r2, GetTunnel(c, g))
  <2>1. CASE g = tag
    BY <2>1 DEF Startable
  <2>2. CASE g # tag
    <3>1. g \in Tags /\ GetTunnel(c, g).tag = g
      BY TunnelOf
    <3>2. Agree(d, u, r, d2, u2, r2, g)
      BY <2>2, <3>1
    <3>3. QED
      BY <3>1, <3>2, AgreeKeeps DEF InHand
  <2>3. QED
    BY <2>1, <2>2
<1>6. QED
  BY <1>4, <1>5 DEF InHand

\* Nothing is left to do about the tag in hand.
LEMMA HandDone ==
  ASSUME NEW d, NEW u, NEW r, NEW c, NEW j, NEW tag, InHand(d, u, r, c, j), tag \in TagsOf(c),
         TagsIn(j.todo) \subseteq {tag}, Matches(d, u, r, GetTunnel(c, tag))
  PROVE  InPlace(d, u, r, c, {})
  BY InPlaceMore DEF InHand, Placed

\* After the tag in hand has its service: the next one, or what follows the loop.
LEMMA AfterUnitMatch ==
  ASSUME NEW q, Alone(q), IInv, MatchFine, faults = 0, NEW p \in Procs,
         pc[p] \in {"create", "start"}, AfterUnit(p), UNCHANGED <<file, router, mem>>,
         \A g \in Tags \ {Current(p)} : Agree(dir, unit, running, dir', unit', running', g),
         Matches(dir', unit', running', GetTunnel(mem[p], Current(p)))
  PROVE  MatchFine'
<1> DEFINE c == mem[p]
           j == job[p]
           tag == Current(p)
           t == GetTunnel(mem[p], Current(p))
           j2 == [job[p] EXCEPT !.todo = Tail(@)]
<1>1. /\ j.cmd \in {"add", "edit", "mtu", "update", "install", "wizard"} /\ j \in Job
      /\ tag \in TagsOf(c) /\ tag \in Tags /\ tag = Head(j.todo) /\ Sound(c)
      /\ j.todo # <<>> /\ j.todo \in Seq(Tags) /\ TagsIn(j.todo) \subseteq TagsOf(c)
      /\ InHand(dir, unit, running, c, j)
      /\ c = LoadedFrom(file) /\ (file = Torn => router.state = "absent")
      /\ j.cmd \in {"add", "install", "wizard"} => file # Torn
      /\ j.cmd \in {"add", "edit"} => TagsIn(j.todo) = {tag}
  BY ServiceOn, MatchOf DEF Current
<1>2. mem'[p] = c
  BY MatchOf
<1>3. Startable(dir', unit', running', t)
  BY MatchesStartable
<1>4. tag \in TagsIn(j.todo)
  BY <1>1, RestTags
<1>5. CASE j.cmd \in {"add", "edit"}
  <2>1. InHand(dir', unit', running', c, j)
    BY <1>1, <1>3, <1>4, InHandKept
  <2>2. InPlace(dir', unit', running', c, {})
    BY <1>1, <1>5, <2>1, HandDone
  <2>3. PICK l : /\ Goto(p, l) /\ UNCHANGED job
                 /\ l = IF j.cmd = "add" THEN "route" ELSE "done"
    BY <1>5 DEF AfterUnit, Warns, Installing
  <2>4. pc'[p] = l /\ job'[p] = j
    BY <2>3, Moves, MatchOf
  <2> HIDE DEF c, j, tag, t
  <2>5. CASE j.cmd = "add"
    <3>1. AddMatch(file, dir', unit', running', c, "route", j)
      BY <1>1, <2>2, <2>5 DEF AddMatch
    <3>2. MatchAt(file, router.state, dir', unit', running', c, l, j)
      BY <1>1, <2>3, <2>5, <3>1 DEF MatchAt
    <3>3. QED
      BY <1>2, <2>4, <3>2, MatchStep
  <2>6. CASE j.cmd = "edit"
    <3>1. MatchAt(file, router.state, dir', unit', running', c, l, j)
      BY <1>1, <2>2, <2>3, <2>6, DoneMatch
    <3>2. QED
      BY <1>2, <2>4, <3>1, MatchStep
  <2>7. QED
    BY <1>5, <2>5, <2>6
<1>6. CASE j.cmd \in {"mtu", "update", "install", "wizard"}
  <2>1. PICK l : /\ Goto(p, l) /\ job' = [job EXCEPT ![p] = j2]
                 /\ l = Enter(j.cmd, Tail(j.todo))
    BY <1>6 DEF AfterUnit, Advance, Warns, Installing
  <2>2. j2.todo = Tail(j.todo) /\ j2.cmd = j.cmd /\ j2.new = j.new
    BY <1>1 DEF Job
  <2> HIDE DEF j2
  <2>3. pc'[p] = l /\ job'[p] = j2
    BY <2>1, Moves
  <2>4. /\ TagsIn(j.todo) \subseteq {tag} \cup TagsIn(j2.todo)
        /\ TagsIn(j2.todo) \subseteq TagsIn(j.todo)
        /\ j2.todo = <<>> => TagsIn(j2.todo) = {}
    BY <1>1, <2>2, RestTags
  <2> HIDE DEF c, j, tag, t
  <2>5. InHand(dir', unit', running', c, j2)
    BY <1>1, <1>3, <1>4, <2>2, <2>4, InHandKept DEF c, tag, t
  <2>6. SUFFICES MatchAt(file, router.state, dir', unit', running', c, l, j2)
    BY <1>2, <2>3, MatchStep
  <2>7. CASE j.cmd = "mtu" /\ j2.todo = <<>>
    <3>1. l = Enter("mtu", <<>>)
      BY <2>1, <2>2, <2>7
    <3>2. l = "done"
      BY <3>1 DEF Enter, LoopEnd
    <3>3. InPlace(dir', unit', running', c, {})
      BY <2>4, <2>5, <2>7 DEF InHand
    <3>4. QED
      BY <1>1, <2>2, <2>7, <3>2, <3>3, DoneMatch
  <2>8. CASE j.cmd \in {"mtu", "update"} /\ ~(j.cmd = "mtu" /\ j2.todo = <<>>)
    <3>1. l \in {"stop", "restartRouter"} /\ (l = "restartRouter" => j2.todo = <<>>)
      BY <2>1, <2>2, <2>8 DEF Enter, LoopEnd, LoopStart
    <3>2. LoopMatch(file, dir', unit', running', c, l, j2)
      BY <1>1, <2>5, <3>1 DEF LoopMatch, InHand
    <3>3. QED
      BY <1>1, <2>2, <2>8, <3>1, <3>2 DEF MatchAt
  <2>9. CASE j.cmd \in {"install", "wizard"}
    <3>1. l \in {"create", "startRouter"} /\ (l = "startRouter" => j2.todo = <<>>)
      BY <2>1, <2>2, <2>9 DEF Enter, LoopEnd, LoopStart
    <3>2. InstallMatch(file, dir', unit', running', c, l, j2)
      BY <1>1, <2>2, <2>5, <2>9, <3>1 DEF InstallMatch, InHand
    <3>3. QED
      BY <1>1, <2>2, <2>9, <3>1, <3>2 DEF MatchAt
  <2>10. QED
    BY <1>6, <2>7, <2>8, <2>9
<1>7. QED
  BY <1>1, <1>5, <1>6

LEMMA CreateMatch ==
  ASSUME NEW q, Alone(q), IInv, MatchFine, faults = 0, NEW p \in Procs, Create(p)
  PROVE  MatchFine'
<1> DEFINE c == mem[p]
           j == job[p]
           tag == Current(p)
           t == GetTunnel(mem[p], Current(p))
<1>1. /\ j.cmd \in {"add", "edit", "mtu", "update", "install", "wizard"}
      /\ tag \in TagsOf(c) /\ tag \in Tags /\ t.tag = tag /\ tag = Head(j.todo)
      /\ j.todo # <<>> /\ j.todo \in Seq(Tags) /\ TagsIn(j.todo) \subseteq TagsOf(c)
      /\ InHand(dir, unit, running, c, j) /\ Startable(dir, unit, running, t)
      /\ c = LoadedFrom(file) /\ (file = Torn => router.state = "absent")
      /\ j.cmd \in {"add", "install", "wizard"} => file # Torn
      /\ j.cmd \in {"add", "edit"} => j.new.tag = tag /\ TagsIn(j.todo) = {tag}
      /\ j.cmd = "edit" => t.transport = j.new.transport
  BY ServiceOn DEF Current, Create
<1>2. /\ UNCHANGED <<file, running, router, mem>> /\ pc[p] = "create"
      /\ Sound(c) /\ dir \in Dirs /\ unit \in Units
  BY MatchOf DEF Create
<1>3. tag \in TagsIn(j.todo)
  BY <1>1, RestTags
<1>4. CASE HasUnit(t)
  <2>1. /\ unit' = [unit EXCEPT ![t.tag] = t] /\ Goto(p, "start") /\ UNCHANGED job
        /\ dir' = IF t.transport = "naive" THEN [dir EXCEPT ![t.tag] = Caddyfile] ELSE dir
    BY <1>4 DEF Create
  <2>2. mem'[p] = c /\ pc'[p] = "start" /\ job'[p] = j
    BY <1>2, <2>1, Moves, MatchOf
  <2> HIDE DEF c, j, tag, t
  <2>3. /\ unit'[t.tag] = t /\ dir'[t.tag] = IF t.transport = "naive" THEN Caddyfile ELSE dir[t.tag]
        /\ \A g \in Tags \ {tag} : dir'[g] = dir[g] /\ unit'[g] = unit[g]
    BY <1>1, <1>2, <2>1 DEF Dirs, Units
  <2>4. Started(dir', unit', running, t)
    BY <1>1, <1>4, <2>3, CreatedStarted
  <2>5. Startable(dir', unit', running, t)
    BY <2>4 DEF Started
  <2>6. \A g \in Tags \ {tag} : Agree(dir, unit, running, dir', unit', running, g)
    BY <2>3 DEF Agree
  <2>7. t = GetTunnel(c, tag)
    BY DEF t, c, tag
  <2>8. InHand(dir', unit', running, c, j)
    BY <1>1, <1>2, <1>3, <2>5, <2>6, <2>7, InHandKept
  <2>9. MatchAt(file, router.state, dir', unit', running, c, "start", j)
    BY <1>1, <2>4, <2>7, <2>8, InHandStart
  <2>10. QED
    BY <1>2, <2>2, <2>9, MatchStep
<1>5. CASE ~HasUnit(t)
  <2>1. AfterUnit(p) /\ UNCHANGED <<dir, unit>>
    BY <1>5 DEF Create
  <2>2. Matches(dir, unit, running, t)
    BY <1>1, <1>5, NoServiceMatches DEF Startable
  <2>3. \A g \in Tags \ {tag} : Agree(dir, unit, running, dir', unit', running', g)
    BY <1>2, <2>1 DEF Agree
  <2>4. Matches(dir', unit', running', t)
    BY <1>2, <2>1, <2>2
  <2>5. QED
    BY <1>2, <2>1, <2>3, <2>4, AfterUnitMatch
<1>6. QED
  BY <1>4, <1>5

LEMMA StartMatch ==
  ASSUME NEW q, Alone(q), IInv, MatchFine, faults = 0, NEW p \in Procs, Start(p)
  PROVE  MatchFine'
<1> DEFINE tag == Current(p)
           t == GetTunnel(mem[p], Current(p))
<1>1. /\ tag \in Tags /\ t.tag = tag /\ Started(dir, unit, running, t) /\ HostFine
  BY ServiceOn, MatchOf DEF Start
<1>2. /\ UNCHANGED <<file, dir, unit, router, mem>> /\ pc[p] = "start" /\ AfterUnit(p)
      /\ ServiceStart(t.tag) \/ ServiceRestart(t.tag)
  BY DEF Start
<1>3. Own(unit, running, t.tag)
  BY <1>1 DEF Started, Startable, Pending
<1>4. /\ running'[t.tag] = unit[t.tag] /\ \A g \in Tags \ {t.tag} : running'[g] = running[g]
  BY <1>1, <1>2, <1>3, StartAt
<1>5. Matches(dir, unit, running', t)
  BY <1>1, <1>4, StartedMatches
<1>6. \A g \in Tags \ {tag} : Agree(dir, unit, running, dir', unit', running', g)
  BY <1>1, <1>2, <1>4 DEF Agree
<1>7. Matches(dir', unit', running', t)
  BY <1>2, <1>5
<1>8. QED
  BY <1>2, <1>6, <1>7, AfterUnitMatch

-------------------------------------------------------------------------------
(***************************************************************************)
(* Services are stopped, units removed, services restarted                 *)
(***************************************************************************)

\* Nothing is stopped that is not what its unit file says.
LEMMA StopOn ==
  ASSUME IInv, MatchFine, faults = 0, NEW p \in Procs, pc[p] \in {"stop", "removeUnit"}
  PROVE  /\ job[p].cmd \in {"edit", "remove", "mtu", "update", "uninstall"}
         /\ job[p].cmd \in {"mtu", "update"} => pc[p] = "stop"
         /\ Current(p) \in Tags /\ Current(p) = Head(job[p].todo)
         /\ job[p].todo # <<>> /\ job[p].todo \in Seq(Tags)
         /\ Own(unit, running, Current(p))
         /\ job[p].cmd # "uninstall" => Current(p) \in TagsOf(mem[p])
         /\ job[p].cmd = "edit" =>
              /\ EditMatch(file, dir, unit, running, mem[p], pc[p], job[p])
              /\ EditAt(mem[p], pc[p], job[p]) /\ job[p].new.tag \in Tags
         /\ job[p].cmd = "remove" => RemoveMatch(dir, unit, running, mem[p], pc[p], job[p])
         /\ job[p].cmd \in {"mtu", "update"} =>
              /\ LoopMatch(file, dir, unit, running, mem[p], pc[p], job[p])
              /\ TagsIn(job[p].todo) \subseteq TagsOf(mem[p]) /\ Current(p) \in TagsIn(job[p].todo)
         /\ job[p].cmd = "uninstall" => UninstallMatch(router.state, unit, running, pc[p], job[p])
<1> DEFINE c == mem[p]
           j == job[p]
           l == pc[p]
           tag == Current(p)
<1>1. /\ MatchAt(file, router.state, dir, unit, running, c, l, j) /\ Sound(c) /\ c \in Config
      /\ j \in Job /\ At(c, l, j) /\ l \in {"stop", "removeUnit"} /\ tag = Head(j.todo)
  BY MatchOf DEF Current
<1>2. tag \in Tags /\ j.todo # <<>>
  BY CurrentOf DEF OnCurrent
<1>3. j.todo \in Seq(Tags) /\ tag \in TagsIn(j.todo)
  BY <1>1, <1>2, RestTags DEF Job
<1> HIDE DEF c, j, l, tag
<1>4. /\ j.cmd \in {"edit", "remove", "mtu", "update", "uninstall"}
      /\ j.cmd \in {"mtu", "update"} => l = "stop"
  BY <1>1 DEF At, AddAt, EditAt, MTUAt, UpdateAt, RestartAt, ModeAt, SwitchAt, InstallAt,
              Job, CommandNames
<1>5. CASE j.cmd = "edit"
  <2>1. EditMatch(file, dir, unit, running, c, l, j) /\ EditAt(c, l, j)
    BY <1>1, <1>5 DEF At, MatchAt
  <2>2. tag \in TagsOf(c) /\ j.new.tag \in Tags
    <3>1. PICK g \in TagsOf(c) : j.todo = <<g>>
      BY <2>1 DEF EditAt
    <3>2. QED
      BY <1>1, <2>1, <3>1 DEF EditAt, Tunnel
  <2>3. GetTunnel(c, tag).tag = tag
    BY <1>1, <2>2, TunnelOf
  <2>4. Own(unit, running, tag)
    <3>1. CASE tag = j.new.tag
      BY <1>1, <2>1, <2>3, <3>1 DEF EditMatch, Pending
    <3>2. CASE tag # j.new.tag
      BY <1>1, <2>1, <2>3, <3>2 DEF EditMatch, Moved
    <3>3. QED
      BY <3>1, <3>2
  <2>5. QED
    BY <1>1, <1>2, <1>3, <1>4, <1>5, <2>1, <2>2, <2>4 DEF c, j, l, tag
<1>6. CASE j.cmd = "remove"
  <2>1. RemoveMatch(dir, unit, running, c, l, j) /\ TagsIn(j.todo) \subseteq TagsOf(c)
    BY <1>1, <1>6 DEF At, RemoveAt, MatchAt
  <2>2. Own(unit, running, tag)
    <3>1. CASE l = "stop"
      BY <1>1, <1>2, <2>1, <3>1, PlacedOwn DEF RemoveMatch, InPlace
    <3>2. CASE l = "removeUnit"
      BY <1>1, <2>1, <3>2 DEF RemoveMatch, Own
    <3>3. QED
      BY <1>1, <3>1, <3>2
  <2>3. QED
    BY <1>1, <1>2, <1>3, <1>4, <1>6, <2>1, <2>2 DEF c, j, l, tag
<1>7. CASE j.cmd \in {"mtu", "update"}
  <2>1. LoopMatch(file, dir, unit, running, c, l, j) /\ TagsIn(j.todo) \subseteq TagsOf(c)
    BY <1>1, <1>7 DEF At, MTUAt, UpdateAt, MatchAt
  <2>2. GetTunnel(c, tag).tag = tag
    BY <1>1, <1>3, <2>1, TunnelOf
  <2>3. Own(unit, running, tag)
    BY <1>3, <2>1, <2>2 DEF LoopMatch, Pending
  <2>4. QED
    BY <1>1, <1>2, <1>3, <1>4, <1>7, <2>1, <2>3 DEF c, j, l, tag
<1>8. CASE j.cmd = "uninstall"
  <2>1. UninstallMatch(router.state, unit, running, l, j)
    BY <1>1, <1>8 DEF MatchAt
  <2>2. Own(unit, running, tag)
    BY <1>2, <2>1 DEF UninstallMatch
  <2>3. QED
    BY <1>1, <1>2, <1>3, <1>4, <1>8, <2>1, <2>2 DEF c, j, l, tag
<1>9. QED
  BY <1>4, <1>5, <1>6, <1>7, <1>8

LEMMA StopMatch ==
  ASSUME NEW q, Alone(q), IInv, MatchFine, faults = 0, NEW p \in Procs, Stop(p)
  PROVE  MatchFine'
<1> DEFINE c == mem[p]
           j == job[p]
           tag == Current(p)
           t == GetTunnel(mem[p], Current(p))
<1>1. /\ j.cmd \in {"edit", "remove", "mtu", "update", "uninstall"}
      /\ tag \in Tags /\ tag = Head(j.todo) /\ Own(unit, running, tag)
      /\ j.cmd # "uninstall" => tag \in TagsOf(c)
      /\ j.cmd = "edit" => EditMatch(file, dir, unit, running, c, "stop", j) /\ j.new.tag \in Tags
      /\ j.cmd = "remove" => RemoveMatch(dir, unit, running, c, "stop", j)
      /\ j.cmd \in {"mtu", "update"} =>
           /\ LoopMatch(file, dir, unit, running, c, "stop", j)
           /\ TagsIn(j.todo) \subseteq TagsOf(c) /\ tag \in TagsIn(j.todo)
      /\ j.cmd = "uninstall" => UninstallMatch(router.state, unit, running, "stop", j)
  BY StopOn DEF Stop
<1>2. PICK l : Goto(p, l) /\ l = IF Removing(p) THEN "removeUnit" ELSE "create"
  BY DEF Stop
<1>3. /\ ServiceStop(tag) /\ UNCHANGED <<file, dir, unit, router, mem, job>> /\ Sound(c) /\ HostFine
      /\ MatchAt(file, router.state, dir, unit, running, c, "stop", j)
  BY MatchOf DEF Stop
<1>4. mem'[p] = c /\ pc'[p] = l /\ job'[p] = j
  BY <1>2, <1>3, Moves, MatchOf
<1>5. running'[tag] = NoUnit /\ \A g \in Tags \ {tag} : running'[g] = running[g]
  BY <1>1, <1>3, StopAt
<1>6. l = IF \/ j.cmd \in {"remove", "uninstall"}
             \/ j.cmd = "edit" /\ tag # j.new.tag THEN "removeUnit" ELSE "create"
  BY <1>2 DEF Removing
<1>7. file = Torn => router.state = "absent"
  BY <1>3 DEF MatchAt
<1>8. j.cmd # "uninstall" => t.tag = tag
  BY <1>1, <1>3, TunnelOf
<1> HIDE DEF c, j, tag
<1>9. \A g \in Tags \ {tag} : Agree(dir, unit, running, dir, unit, running', g) /\ SameAt(c, c, g)
  BY <1>5, SameCopy DEF Agree
<1>10. \A S, T : tag \in T /\ S \subseteq T /\ InPlace(dir, unit, running, c, S)
                   => InPlace(dir, unit, running', c, T)
  BY <1>3, <1>9, InPlaceKept
<1>11. SUFFICES MatchAt(file, router.state, dir, unit, running', c, l, j)
  BY <1>3, <1>4, MatchStep
<1>12. t = GetTunnel(c, tag)
  BY DEF t, c, tag
<1> HIDE DEF t
<1>13. CASE j.cmd = "edit" /\ tag # j.new.tag
  <2>1. /\ l = "removeUnit" /\ InPlace(dir, unit, running, c, {tag, j.new.tag})
        /\ Moved(dir, unit, running, t, j.new.tag)
    BY <1>1, <1>6, <1>12, <1>13 DEF EditMatch
  <2>2. Moved(dir, unit, running', t, j.new.tag)
    BY <1>1, <1>5, <1>8, <1>13, <2>1 DEF Moved, Own
  <2>3. InPlace(dir, unit, running', c, {tag, j.new.tag})
    BY <1>10, <2>1
  <2>4. EditMatch(file, dir, unit, running', c, "removeUnit", j)
    BY <1>1, <1>5, <1>12, <1>13, <2>2, <2>3 DEF EditMatch
  <2>5. QED
    BY <1>7, <1>13, <2>1, <2>4 DEF MatchAt
<1>14. CASE j.cmd = "edit" /\ tag = j.new.tag
  <2>1. /\ l = "create" /\ InPlace(dir, unit, running, c, {tag}) /\ Pending(dir, unit, running, t)
        /\ t.transport = j.new.transport /\ c = LoadedFrom(file)
    BY <1>1, <1>6, <1>12, <1>14 DEF EditMatch
  <2>2. Startable(dir, unit, running', t)
    BY <1>5, <1>8, <1>14, <2>1, StoppedStartable
  <2>3. InPlace(dir, unit, running', c, {tag})
    BY <1>10, <2>1
  <2>4. EditMatch(file, dir, unit, running', c, "create", j)
    BY <1>1, <1>12, <1>14, <2>1, <2>2, <2>3 DEF EditMatch, Startable
  <2>5. QED
    BY <1>7, <1>14, <2>1, <2>4 DEF MatchAt
<1>15. CASE j.cmd = "remove"
  <2>1. l = "removeUnit" /\ InPlace(dir, unit, running, c, {})
    BY <1>1, <1>6, <1>15 DEF RemoveMatch
  <2>2. InPlace(dir, unit, running', c, {tag})
    BY <1>10, <2>1
  <2>3. RemoveMatch(dir, unit, running', c, "removeUnit", j)
    BY <1>1, <1>5, <2>2 DEF RemoveMatch
  <2>4. QED
    BY <1>7, <1>15, <2>1, <2>3 DEF MatchAt
<1>16. CASE j.cmd \in {"mtu", "update"}
  <2>1. /\ l = "create" /\ InPlace(dir, unit, running, c, TagsIn(j.todo)) /\ c = LoadedFrom(file)
        /\ Pending(dir, unit, running, t)
    BY <1>1, <1>6, <1>12, <1>16 DEF LoopMatch
  <2>2. Startable(dir, unit, running', t)
    BY <1>5, <1>8, <1>16, <2>1, StoppedStartable
  <2>3. ASSUME NEW g \in TagsIn(j.todo)
        PROVE  Pending(dir, unit, running', GetTunnel(c, g))
    <3>1. CASE g = tag
      BY <1>12, <2>2, <3>1 DEF Startable
    <3>2. CASE g # tag
      <4>1. g \in Tags /\ GetTunnel(c, g).tag = g
        BY <1>1, <1>3, <1>16, TunnelOf
      <4>2. Agree(dir, unit, running, dir, unit, running', g)
        BY <1>9, <3>2, <4>1
      <4>3. QED
        BY <1>1, <1>16, <4>1, <4>2, AgreeKeeps DEF LoopMatch
    <3>3. QED
      BY <3>1, <3>2
  <2>4. InPlace(dir, unit, running', c, TagsIn(j.todo))
    BY <1>1, <1>10, <1>16, <2>1
  <2>5. LoopMatch(file, dir, unit, running', c, "create", j)
    BY <1>1, <1>12, <2>1, <2>2, <2>3, <2>4 DEF LoopMatch
  <2>6. QED
    BY <1>7, <1>16, <2>1, <2>5 DEF MatchAt
<1>17. CASE j.cmd = "uninstall"
  <2>1. UninstallMatch(router.state, unit, running', "removeUnit", j)
    BY <1>1, <1>5, <1>17 DEF UninstallMatch, Own
  <2>2. l = "removeUnit"
    BY <1>6, <1>17
  <2>3. QED
    BY <1>7, <1>17, <2>1, <2>2 DEF MatchAt
<1>18. QED
  BY <1>1, <1>13, <1>14, <1>15, <1>16, <1>17

LEMMA RemoveUnitMatch ==
  ASSUME NEW q, Alone(q), IInv, MatchFine, faults = 0, NEW p \in Procs, RemoveUnit(p)
  PROVE  MatchFine'
<1> DEFINE c == mem[p]
           j == job[p]
           tag == Current(p)
<1>1. /\ j.cmd \in {"edit", "remove", "mtu", "update", "uninstall"} \ {"mtu", "update"}
      /\ tag \in Tags /\ tag = Head(j.todo)
      /\ j.cmd # "uninstall" => tag \in TagsOf(c)
      /\ j.cmd = "edit" => /\ EditMatch(file, dir, unit, running, c, "removeUnit", j)
                           /\ EditAt(c, "removeUnit", j) /\ j.new.tag \in Tags
      /\ j.cmd = "remove" => RemoveMatch(dir, unit, running, c, "removeUnit", j)
      /\ j.cmd = "uninstall" => UninstallMatch(router.state, unit, running, "removeUnit", j)
  BY StopOn DEF RemoveUnit
<1>2. /\ ServiceRemove(tag) /\ UNCHANGED <<file, dir, running, router>> /\ Sound(c)
      /\ MatchAt(file, router.state, dir, unit, running, c, "removeUnit", j)
      /\ unit \in Units /\ j \in Job /\ c \in Config
  BY MatchOf DEF RemoveUnit
<1>3. unit'[tag] = NoUnit /\ \A g \in Tags \ {tag} : unit'[g] = unit[g]
  BY <1>1, <1>2 DEF ServiceRemove, Units
<1>4. file = Torn => router.state = "absent"
  BY <1>2 DEF MatchAt
<1>5. \A g \in Tags \ {tag} : Agree(dir, unit, running, dir, unit', running, g)
  BY <1>3 DEF Agree
<1>6. CASE j.cmd = "remove"
  <2>1. Goto(p, "unroute") /\ UNCHANGED <<mem, job>>
    BY <1>6 DEF RemoveUnit
  <2>2. mem'[p] = c /\ pc'[p] = "unroute" /\ job'[p] = j
    BY <2>1, Moves, MatchOf
  <2> HIDE DEF c, j, tag
  <2>3. InPlace(dir, unit, running, c, {tag}) /\ running[tag] = NoUnit
    BY <1>1, <1>6 DEF RemoveMatch
  <2>4. \A g \in Tags \ {tag} : SameAt(c, c, g)
    BY SameCopy
  <2>5. InPlace(dir, unit', running, c, {tag})
    BY <1>2, <1>5, <2>3, <2>4, InPlaceKept
  <2>6. RemoveMatch(dir, unit', running, c, "unroute", j)
    BY <1>1, <2>3, <2>5 DEF RemoveMatch
  <2>7. MatchAt(file, router.state, dir, unit', running, c, "unroute", j)
    BY <1>4, <1>6, <2>6 DEF MatchAt
  <2>8. QED
    BY <1>2, <2>2, <2>7, MatchStep
<1>7. CASE j.cmd = "uninstall"
  <2> DEFINE j2 == [job[p] EXCEPT !.todo = Tail(@)]
  <2>1. PICK l : /\ job' = [job EXCEPT ![p] = j2] /\ Goto(p, l) /\ UNCHANGED mem
                 /\ l = Enter("uninstall", Tail(j.todo))
    BY <1>7 DEF RemoveUnit, Advance
  <2>2. j2.cmd = "uninstall" /\ j2.dns = j.dns
    BY <1>2, <1>7 DEF Job
  <2>3. l \in {"stop", "removeConfigDir"}
    BY <2>1 DEF Enter, LoopStart, LoopEnd
  <2> HIDE DEF c, j, j2, tag
  <2>4. mem'[p] = c /\ pc'[p] = l /\ job'[p] = j2
    BY <2>1, Moves, MatchOf DEF c
  <2>5. ASSUME NEW g \in Tags  PROVE Own(unit', running, g)
    <3>1. CASE g = tag
      BY <1>1, <1>7, <3>1 DEF UninstallMatch, Own
    <3>2. CASE g # tag
      BY <1>1, <1>3, <1>7, <3>2 DEF UninstallMatch, Own
    <3>3. QED
      BY <3>1, <3>2
  <2>6. UninstallMatch(router.state, unit', running, l, j2)
    BY <1>1, <1>7, <2>2, <2>3, <2>5 DEF UninstallMatch
  <2>7. MatchAt(file, router.state, dir, unit', running, c, l, j2)
    BY <1>4, <2>2, <2>3, <2>6 DEF MatchAt
  <2>8. QED
    BY <1>2, <2>4, <2>7, MatchStep
<1>8. CASE j.cmd = "edit"
  <2> DEFINE t == GetTunnel(c, tag)
             new == j.new.tag
             c2 == Rename(c, tag, new)
             j2 == [job[p] EXCEPT !.todo = <<new>>]
  <2>1. mem' = [mem EXCEPT ![p] = c2] /\ job' = [job EXCEPT ![p] = j2] /\ Goto(p, "settings")
    BY <1>8 DEF RemoveUnit
  <2>2. j2.cmd = "edit" /\ j2.new = j.new /\ j2.old = j.old /\ j2.todo = <<new>>
    BY <1>2, <1>8 DEF Job
  <2>3. new \in Tags /\ Head(<<new>>) = new
    BY <1>1, <1>8
  <2> HIDE DEF c2, j2
  <2>4. mem'[p] = c2 /\ pc'[p] = "settings" /\ job'[p] = j2
    BY <2>1, Moves
  <2>5. new \notin TagsOf(c) /\ tag # new
    BY <1>1, <1>8 DEF EditAt
  <2> DEFINE t2 == GetTunnel(c2, new)
  <2>a. Sound(c) /\ tag \in TagsOf(c)
    BY <1>1, <1>2, <1>8
  <2> HIDE DEF c, j, tag, new
  <2>6. /\ new \in TagsOf(c2) /\ tag \notin TagsOf(c2)
        /\ t2 = [t EXCEPT !.tag = new, !.keyDir = IF HasKeyPair(t) THEN new ELSE @]
        /\ \A g \in Tags \ {tag, new} : SameAt(c, c2, g)
    BY <2>3, <2>5, <2>a, RenameAt DEF c2
  <2>7. t \in Tunnel /\ t.tag = tag
    BY <1>1, <1>2, <1>8, TunnelOf
  <2>8. /\ t.transport = j.new.transport /\ j.old.tag = tag
        /\ InPlace(dir, unit, running, c, {tag, new}) /\ Moved(dir, unit, running, t, new)
        /\ running[tag] = NoUnit
    BY <1>1, <1>8, <2>5 DEF EditMatch, new
  <2>9. /\ t2.tag = new /\ t2.transport = t.transport /\ t2.pub = t.pub
        /\ HasKeyPair(t) => t2.keyDir = new
    BY <2>6, <2>7 DEF Tunnel
  <2> HIDE DEF t, t2
  <2>10. \A g \in Tags \ {tag, new} : Agree(dir, unit, running, dir, unit', running, g)
    BY <1>5
  <2>11. InPlace(dir, unit', running, c2, {tag, new})
    BY <1>2, <2>6, <2>8, <2>10, InPlaceKept
  <2>12. Placed(dir, unit', running, c2, tag)
    BY <1>3, <2>6, <2>7, <2>8 DEF Placed, Clean, Moved
  <2>13. InPlace(dir, unit', running, c2, {new})
    BY <2>11, <2>12, InPlaceMore
  <2>14. unit'[new] = NoUnit /\ running[new] = NoUnit
    BY <1>3, <2>3, <2>5, <2>8 DEF Moved
  <2>15. Keyed(dir, t2)
    BY <2>8, <2>9 DEF Keyed, Moved, HasKeyPair
  <2>16. Pending(dir, unit', running, t2)
    BY <2>9, <2>14, <2>15 DEF Pending, Own
  <2>17. EditMatch(file, dir, unit', running, c2, "settings", j2)
    BY <2>2, <2>3, <2>5, <2>8, <2>9, <2>13, <2>16 DEF EditMatch, new, t2
  <2>18. MatchAt(file, router.state, dir, unit', running, c2, "settings", j2)
    BY <1>4, <2>2, <2>17 DEF MatchAt
  <2>19. QED
    BY <1>2, <2>4, <2>18, MatchStep
<1>9. QED
  BY <1>1, <1>6, <1>7, <1>8

\* Commands that work on what is there and leave it in place.
LEMMA PlainGoes ==
  ASSUME NEW f, NEW s, NEW d, NEW u, NEW r, NEW c, NEW l, NEW j, InPlace(d, u, r, c, {}),
         c = LoadedFrom(f), f = Torn => s = "absent",
         j.cmd \in {"restart", "mode", "switch"}, j.cmd = "switch" => "switch" \in Commands
  PROVE  MatchAt(f, s, d, u, r, c, l, j)
  BY DEF MatchAt, PlainMatch

LEMMA PlainOn ==
  ASSUME IInv, MatchFine, faults = 0, NEW p \in Procs,
         pc[p] \in {"restart", "ensureRouter", "stopActive", "startActive"}
  PROVE  /\ job[p].cmd \in {"restart", "mode", "switch"}
         /\ job[p].cmd = "switch" => "switch" \in Commands
         /\ pc[p] = "ensureRouter" => job[p].cmd = "mode"
         /\ pc[p] = "restart" => job[p].cmd \in {"restart", "mode"}
         /\ pc[p] \in {"stopActive", "startActive"} => job[p].cmd = "switch"
         /\ InPlace(dir, unit, running, mem[p], {}) /\ Sound(mem[p])
         /\ pc[p] # "ensureRouter" => mem[p] = LoadedFrom(file)
         /\ file = Torn => router.state = "absent"
<1> DEFINE j == job[p]
           l == pc[p]
<1>1. /\ MatchAt(file, router.state, dir, unit, running, mem[p], l, j) /\ Sound(mem[p])
      /\ j \in Job /\ At(mem[p], l, j)
  BY MatchOf
<1>2. l \in {"restart", "ensureRouter", "stopActive", "startActive"}
  OBVIOUS
<1> HIDE DEF j, l
<1>3. /\ j.cmd \in {"restart", "mode", "switch"}
      /\ l = "ensureRouter" => j.cmd = "mode"
      /\ l = "restart" => j.cmd \in {"restart", "mode"}
      /\ l \in {"stopActive", "startActive"} => j.cmd = "switch"
  BY <1>1, <1>2 DEF At, AddAt, EditAt, RemoveAt, MTUAt, UpdateAt, RestartAt, ModeAt, SwitchAt,
     InstallAt, UninstallAt, Job, CommandNames
<1>4. PlainMatch(file, dir, unit, running, mem[p], l, j) /\ (file = Torn => router.state = "absent")
  BY <1>1, <1>2, <1>3 DEF MatchAt
<1>5. QED
  BY <1>1, <1>2, <1>3, <1>4 DEF PlainMatch, j, l

\* A service of a tunnel that is in place is restarted, started or stopped.
LEMMA ServiceInPlace ==
  ASSUME HostFine, NEW c, Sound(c), NEW tag \in Tags, InPlace(dir, unit, running, c, {}),
         \/ ServiceStart(tag) \/ ServiceRestart(tag)
         \/ ServiceStop(tag) /\ Stopping
  PROVE  InPlace(dir, unit, running', c, {})
<1> DEFINE t == GetTunnel(c, tag)
<1>1. Own(unit, running, tag) /\ Placed(dir, unit, running, c, tag)
  BY PlacedOwn DEF InPlace
<1>2. tag \in TagsOf(c) => t.tag = tag
  BY TunnelOf
<1>3. \A g \in Tags \ {tag} : running'[g] = running[g]
  BY <1>1, StopAt, StartAt
<1>4. Placed(dir, unit, running', c, tag)
  <2>1. \/ unit[tag] # NoUnit /\ running'[tag] = unit[tag]
        \/ running'[tag] = NoUnit /\ Stopping
    BY <1>1, StopAt, StartAt
  <2>2. CASE tag \in TagsOf(c)
    <3>1. Matches(dir, unit, running, t)
      BY <1>1, <2>2 DEF Placed
    <3> HIDE DEF t
    <3>2. Matches(dir, unit, running', t)
      BY <1>2, <2>1, <2>2, <3>1 DEF Matches, Pending, Own
    <3>3. QED
      BY <2>2, <3>2 DEF Placed, t
  <2>3. CASE tag \notin TagsOf(c)
    BY <1>1, <2>1, <2>3 DEF Placed, Clean
  <2>4. QED
    BY <2>2, <2>3
<1>5. \A g \in Tags \ {tag} : Agree(dir, unit, running, dir, unit, running', g) /\ SameAt(c, c, g)
  BY <1>3, SameCopy DEF Agree
<1>6. InPlace(dir, unit, running', c, {tag})
  BY <1>5, InPlaceKept
<1>7. QED
  BY <1>4, <1>6, InPlaceMore

LEMMA RestartMatch ==
  ASSUME NEW q, Alone(q), IInv, MatchFine, faults = 0, NEW p \in Procs, Restart(p)
  PROVE  MatchFine'
<1> DEFINE c == mem[p]
           j == job[p]
           j2 == [job[p] EXCEPT !.todo = Tail(@)]
<1>1. /\ j.cmd \in {"restart", "mode"} /\ InPlace(dir, unit, running, c, {}) /\ Sound(c)
      /\ c = LoadedFrom(file) /\ (file = Torn => router.state = "absent")
      /\ HostFine /\ j \in Job /\ Current(p) \in Tags
  BY PlainOn, MatchOf, CurrentOf DEF Restart, OnCurrent
<1>2. UNCHANGED <<file, dir, unit, router, mem>> /\ mem'[p] = c
  BY MatchOf DEF Restart
<1>3. InPlace(dir, unit, running', c, {})
  <2>1. CASE unit[Current(p)] # NoUnit
    BY <1>1, <2>1, ServiceInPlace DEF Restart
  <2>2. CASE unit[Current(p)] = NoUnit
    <3>1. running' = running
      BY <2>2 DEF Restart
    <3>2. QED
      BY <1>1, <3>1
  <2>3. QED
    BY <2>1, <2>2
<1>4. j2.cmd = j.cmd
  BY <1>1 DEF Job
<1>5. PICK l : Goto(p, l) /\ (job' = [job EXCEPT ![p] = j2] \/ UNCHANGED job)
  BY DEF Restart, Advance
<1> HIDE DEF c, j, j2
<1>6. pc'[p] = l /\ job'[p] \in {j, j2}
  BY <1>5, Moves, MatchOf DEF j
<1>7. \A x \in {j, j2} : MatchAt(file, router.state, dir, unit, running', c, l, x)
  BY <1>1, <1>3, <1>4, PlainGoes
<1>8. QED
  BY <1>2, <1>6, <1>7, MatchStep

LEMMA ActiveMatch ==
  ASSUME NEW q, Alone(q), IInv, MatchFine, faults = 0, NEW p \in Procs,
         StopActive(p) \/ StartActive(p)
  PROVE  MatchFine'
<1> DEFINE c == mem[p]
           j == job[p]
<1>1. /\ j.cmd = "switch" /\ "switch" \in Commands /\ InPlace(dir, unit, running, c, {}) /\ Sound(c)
      /\ c = LoadedFrom(file) /\ (file = Torn => router.state = "absent") /\ HostFine
      /\ c \in Config
  BY PlainOn, MatchOf DEF StopActive, StartActive
<1>2. Stopping
  BY <1>1 DEF Stopping
<1>3. InPlace(dir, unit, running', c, {})
  <2>1. CASE UNCHANGED running
    BY <1>1, <2>1
  <2>2. CASE StopActive(p) /\ ~UNCHANGED running
    <3>1. ServiceStop(c.active) /\ c.active \in TagsOf(c)
      BY <2>2 DEF StopActive
    <3>2. QED
      BY <1>1, <1>2, <3>1, TunnelOf, ServiceInPlace
  <2>3. CASE StartActive(p) /\ ~UNCHANGED running
    <3>1. pc[p] = "startActive" /\ ServiceStart(GetTunnel(c, Current(p)).tag)
      BY <2>3 DEF StartActive
    <3>2. GetTunnel(c, Current(p)).tag \in Tags
      BY <3>1, CurrentTunnel DEF OnTunnel
    <3>3. QED
      BY <1>1, <3>1, <3>2, ServiceInPlace
  <2>4. QED
    BY <2>1, <2>2, <2>3
<1>4. PICK l : Goto(p, l)
  BY DEF StopActive, StartActive
<1>5. UNCHANGED <<file, dir, unit, router>> /\ mem'[p] = c /\ pc'[p] = l /\ job'[p] = j
  BY <1>4, Moves, MatchOf DEF StopActive, StartActive
<1> HIDE DEF c, j
<1>6. MatchAt(file, router.state, dir, unit, running', c, l, j)
  BY <1>1, <1>3, PlainGoes
<1>7. QED
  BY <1>5, <1>6, MatchStep

-------------------------------------------------------------------------------
(***************************************************************************)
(* The ends of an edit and of a removal                                    *)
(***************************************************************************)

LEMMA RenameDirMatch ==
  ASSUME NEW q, Alone(q), IInv, MatchFine, faults = 0, NEW p \in Procs, RenameDir(p)
  PROVE  MatchFine'
<1> DEFINE c == mem[p]
           j == job[p]
<1>1. /\ MatchAt(file, router.state, dir, unit, running, c, "renameDir", j)
      /\ Sound(c) /\ c \in Config /\ dir \in Dirs
  BY MatchOf DEF RenameDir
<1>2. j.cmd = "edit" /\ EditAt(c, "renameDir", j) /\ j.old.tag \in Tags /\ j.new.tag \in Tags
  BY EditOf DEF RenameDir
<1>3. EditMatch(file, dir, unit, running, c, "renameDir", j) /\ (file = Torn => router.state = "absent")
  BY <1>1, <1>2 DEF MatchAt
<1>4. PICK tag \in TagsOf(c) : j.todo = <<tag>> /\ j.new.tag \notin TagsOf(c)
  BY <1>2 DEF EditAt
<1>5. tag \in Tags /\ Head(j.todo) = tag
  BY <1>1, <1>4, OneTag, TagsOfType
<1> DEFINE t == GetTunnel(c, tag)
           new == j.new.tag
<1>6. j.old.tag = tag /\ tag # new /\ t.transport = j.new.transport /\ InPlace(dir, unit, running, c, {})
  BY <1>3, <1>4, <1>5 DEF EditMatch
<1>7. /\ dir' = IF dir[tag] = NoDir THEN dir ELSE [dir EXCEPT ![new] = dir[tag], ![tag] = NoDir]
      /\ UNCHANGED <<file, unit, running, router, mem, job>> /\ Goto(p, "stop")
  BY <1>6 DEF RenameDir
<1>8. mem'[p] = c /\ pc'[p] = "stop" /\ job'[p] = j
  BY <1>7, Moves
<1>9. t.tag = tag
  BY <1>1, TunnelOf
<1>10. Matches(dir, unit, running, t) /\ Clean(dir, unit, running, new) /\ new \in Tags
  BY <1>2, <1>4, <1>5, <1>6 DEF InPlace, Placed
<1> HIDE DEF c, j, t, new
<1>11. /\ dir'[new] = dir[tag] /\ dir'[tag] = NoDir
       /\ \A g \in Tags \ {tag, new} : dir'[g] = dir[g]
  BY <1>1, <1>5, <1>6, <1>7, <1>10 DEF Clean, Dirs
<1>12. Moved(dir', unit, running, t, new)
  BY <1>9, <1>10, <1>11 DEF Moved, Matches, Pending, Keyed, Clean
<1>13. \A g \in Tags \ {tag, new} : Agree(dir, unit, running, dir', unit, running, g) /\ SameAt(c, c, g)
  BY <1>11, SameCopy DEF Agree
<1>14. InPlace(dir', unit, running, c, {tag, new})
  BY <1>1, <1>6, <1>13, InPlaceKept
<1>15. EditMatch(file, dir', unit, running, c, "stop", j)
  BY <1>5, <1>6, <1>12, <1>14 DEF EditMatch, t, new
<1>16. MatchAt(file, router.state, dir', unit, running, c, "stop", j)
  BY <1>2, <1>3, <1>15 DEF MatchAt
<1>17. QED
  BY <1>7, <1>8, <1>16, MatchStep

\* An edit that has changed nothing saves nothing.
LEMMA FinishEditMatch ==
  ASSUME NEW q, Alone(q), IInv, MatchFine, faults = 0, NEW p \in Procs, FinishEdit(p)
  PROVE  MatchFine'
<1> DEFINE c == mem[p]
           j == job[p]
           tag == Current(p)
           t == GetTunnel(mem[p], Current(p))
           saved == LoadedFrom(file)
<1>1. /\ j.cmd = "edit" /\ j.new.tag = tag /\ tag \in Tags /\ tag \in TagsOf(c)
      /\ EditMatch(file, dir, unit, running, c, "finish", j)
      /\ InPlace(dir, unit, running, c, {tag}) /\ Pending(dir, unit, running, t)
      /\ file = Torn => router.state = "absent"
  BY EditTag DEF FinishEdit
<1>2. /\ UNCHANGED <<host, mem, job>> /\ mem'[p] = c /\ job'[p] = j /\ Sound(c)
      /\ t.tag = tag /\ Head(j.todo) = tag
  BY <1>1, MatchOf, TunnelOf DEF FinishEdit, Current
<1>3. CASE t = j.old
  <2>1. pc'[p] = "done"
    BY <1>3, Moves DEF FinishEdit
  <2>2. Unsaved(file, unit, running, c, j.old) /\ j.old.tag = tag
    BY <1>1, <1>2, <1>3 DEF EditMatch
  <2>3. /\ tag \in TagsOf(saved) /\ GetTunnel(saved, tag) = t
        /\ \A g \in Tags \ {tag} : SameAt(saved, c, g)
        /\ unit[tag] = UnitOf(t) /\ (running[tag] = unit[tag] \/ Stopping)
    BY <1>3, <2>2 DEF Unsaved
  <2> HIDE DEF t, saved, c, j, tag
  <2>4. Matches(dir, unit, running, t)
    BY <1>1, <1>2, <2>3 DEF Matches
  <2>5. \A g \in Tags \ {tag} : Agree(dir, unit, running, dir, unit, running, g) /\ SameAt(c, saved, g)
    BY <2>3 DEF Agree, SameAt
  <2>6. InPlace(dir, unit, running, saved, {tag})
    BY <1>1, <1>2, <2>5, InPlaceKept
  <2>7. InPlace(dir, unit, running, saved, {})
    BY <2>3, <2>4, <2>6, InPlaceMore DEF Placed
  <2>8. MatchAt(file, router.state, dir, unit, running, c, "done", j)
    BY <1>1, <2>7, DoneMatch DEF saved
  <2>9. QED
    BY <1>2, <2>1, <2>8, MatchStep DEF host
<1>4. CASE t # j.old
  <2>1. pc'[p] = "truncate"
    BY <1>4, Moves DEF FinishEdit
  <2>2. EditMatch(file, dir, unit, running, c, "truncate", j)
    BY <1>1, <1>2 DEF EditMatch
  <2>3. MatchAt(file, router.state, dir, unit, running, c, "truncate", j)
    BY <1>1, <2>2 DEF MatchAt
  <2>4. QED
    BY <1>2, <2>1, <2>3, MatchStep DEF host
<1>5. QED
  BY <1>3, <1>4

LEMMA UnrouteMatch ==
  ASSUME NEW q, Alone(q), IInv, MatchFine, faults = 0, NEW p \in Procs, Unroute(p)
  PROVE  MatchFine'
<1> DEFINE c == mem[p]
           j == job[p]
<1>1. MatchAt(file, router.state, dir, unit, running, c, "unroute", j) /\ j.cmd = "remove"
  BY MatchOf, RemoveOf DEF Unroute
<1>2. PICK l \in {"reroute", "forget"} :
        UNCHANGED host /\ mem'[p] = c /\ pc'[p] = l /\ job'[p] = j
  BY Moves DEF Unroute
<1> HIDE DEF c, j
<1>3. RemoveMatch(dir, unit, running, c, "unroute", j) /\ (file = Torn => router.state = "absent")
  BY <1>1 DEF MatchAt
<1>4. RemoveMatch(dir, unit, running, c, l, j)
  BY <1>3 DEF RemoveMatch
<1>5. MatchAt(file, router.state, dir, unit, running, c, l, j)
  BY <1>1, <1>3, <1>4 DEF MatchAt
<1>6. QED
  BY <1>2, <1>5, MatchStep DEF host

LEMMA RerouteMatch ==
  ASSUME NEW q, Alone(q), IInv, MatchFine, faults = 0, NEW p \in Procs, Reroute(p)
  PROVE  MatchFine'
<1> DEFINE c == mem[p]
           j == job[p]
<1>1. /\ MatchAt(file, router.state, dir, unit, running, c, "reroute", j)
      /\ j \in Job /\ At(c, "reroute", j)
  BY MatchOf DEF Reroute
<1>2. j.cmd \in {"add", "remove"}
  BY <1>1 DEF At, EditAt, MTUAt, UpdateAt, RestartAt, ModeAt, SwitchAt, InstallAt, UninstallAt,
              Job, CommandNames
<1>3. /\ UNCHANGED <<file, dir, unit, running>> /\ mem'[p] = c /\ job'[p] = j
      /\ pc'[p] = IF j.cmd = "remove" THEN "forget" ELSE "done"
      /\ router' = IF router.state = "absent" THEN router ELSE RouterIn("starting")
  BY Moves DEF Reroute, RouterRestart
<1> HIDE DEF c, j
<1>4. file = Torn => router'.state = "absent"
  BY <1>1, <1>3 DEF MatchAt
<1>5. CASE j.cmd = "add"
  <2>1. AddMatch(file, dir, unit, running, c, "reroute", j)
    BY <1>1, <1>5 DEF MatchAt
  <2>2. InPlace(dir, unit, running, c, {}) /\ c = LoadedFrom(file)
    BY <2>1 DEF AddMatch
  <2>3. MatchAt(file, router'.state, dir, unit, running, c, "done", j)
    BY <1>4, <2>2, DoneMatch
  <2>4. QED
    BY <1>3, <1>5, <2>3, MatchStep
<1>6. CASE j.cmd = "remove"
  <2>1. RemoveMatch(dir, unit, running, c, "reroute", j)
    BY <1>1, <1>6 DEF MatchAt
  <2>2. RemoveMatch(dir, unit, running, c, "forget", j)
    BY <2>1 DEF RemoveMatch
  <2>3. MatchAt(file, router'.state, dir, unit, running, c, "forget", j)
    BY <1>4, <1>6, <2>2 DEF MatchAt
  <2>4. QED
    BY <1>3, <1>6, <2>3, MatchStep
<1>7. QED
  BY <1>2, <1>5, <1>6

LEMMA ForgetMatch ==
  ASSUME NEW q, Alone(q), IInv, OwnFine, MatchFine, faults = 0, NEW p \in Procs, ForgetTunnel(p)
  PROVE  MatchFine'
<1> DEFINE c == mem[p]
           j == job[p]
           tag == Current(p)
           c2 == Deregister(mem[p], Current(p))
           j2 == [job[p] EXCEPT !.todo = Tail(@)]
<1>1. /\ MatchAt(file, router.state, dir, unit, running, c, "forget", j) /\ j.cmd = "remove"
      /\ Sound(c) /\ j \in Job /\ dir \in Dirs /\ tag = Head(j.todo)
  BY MatchOf, RemoveOf DEF ForgetTunnel, Current
<1>2. tag \in TagsOf(c) /\ tag \in Tags
  BY CurrentTunnel, CurrentOf DEF ForgetTunnel, OnTunnel, OnCurrent
<1>3. unit[tag] = NoUnit
  BY OwnOf DEF OwnAt, ForgetTunnel, Current
<1>4. PICK l : /\ mem' = [mem EXCEPT ![p] = c2] /\ job' = [job EXCEPT ![p] = j2] /\ Goto(p, l)
               /\ l = Enter("remove", Tail(j.todo))
               /\ dir' = [dir EXCEPT ![tag] = NoDir] /\ UNCHANGED <<file, unit, running, router>>
  BY <1>1 DEF ForgetTunnel, Advance
<1>5. j2.cmd = "remove"
  BY <1>1 DEF Job
<1>6. l \in {"stop", "truncate"}
  BY <1>4 DEF Enter, LoopStart, LoopEnd
<1>7. tag \notin TagsOf(c2) /\ \A g \in Tags \ {tag} : SameAt(c, c2, g)
  BY <1>1, <1>2, DeregisterAt
<1> HIDE DEF c2, j2
<1>8. mem'[p] = c2 /\ pc'[p] = l /\ job'[p] = j2
  BY <1>4, Moves
<1> HIDE DEF c, j, tag
<1>9. /\ RemoveMatch(dir, unit, running, c, "forget", j) /\ (file = Torn => router.state = "absent")
      /\ InPlace(dir, unit, running, c, {tag}) /\ running[tag] = NoUnit
  BY <1>1 DEF MatchAt, RemoveMatch
<1>10. dir'[tag] = NoDir /\ \A g \in Tags \ {tag} : Agree(dir, unit, running, dir', unit, running, g)
  BY <1>1, <1>2, <1>4 DEF Dirs, Agree
<1>11. InPlace(dir', unit, running, c2, {tag})
  BY <1>1, <1>7, <1>9, <1>10, InPlaceKept
<1>12. InPlace(dir', unit, running, c2, {})
  BY <1>3, <1>7, <1>9, <1>10, <1>11, InPlaceMore DEF Placed, Clean
<1>13. RemoveMatch(dir', unit, running, c2, l, j2)
  BY <1>6, <1>12 DEF RemoveMatch
<1>14. MatchAt(file, router.state, dir', unit, running, c2, l, j2)
  BY <1>5, <1>6, <1>9, <1>13 DEF MatchAt
<1>15. QED
  BY <1>4, <1>8, <1>14, MatchStep

-------------------------------------------------------------------------------
(***************************************************************************)
(* The router, the mode, and the end of the host                           *)
(***************************************************************************)

LEMMA ModeMatch ==
  ASSUME NEW q, Alone(q), IInv, MatchFine, NEW p \in Procs, job[p].cmd = "mode",
         InPlace(dir, unit, running, mem[p], {}), mem[p] \in Config,
         mem' = [mem EXCEPT ![p].mode = job[p].mode], Goto(p, "truncate"),
         UNCHANGED <<file, dir, unit, running, job>>
  PROVE  MatchFine'
<1> DEFINE c == mem[p]
           j == job[p]
           c2 == [mem[p] EXCEPT !.mode = job[p].mode]
<1>1. mem' = [mem EXCEPT ![p] = c2]
  OBVIOUS
<1>2. c2.tunnels = c.tunnels
  BY DEF Config
<1> HIDE DEF c2
<1>3. mem'[p] = c2 /\ pc'[p] = "truncate" /\ job'[p] = j
  BY <1>1, Moves
<1> HIDE DEF c, j
<1>4. InPlace(dir, unit, running, c2, {})
  BY <1>2, InPlaceSame DEF c
<1>5. PlainMatch(file, dir, unit, running, c2, "truncate", j)
  BY <1>4 DEF PlainMatch, j
<1>6. \A s : MatchAt(file, s, dir, unit, running, c2, "truncate", j)
  BY <1>5 DEF MatchAt, j
<1>7. QED
  BY <1>3, <1>6, MatchStep

LEMMA EnsureRouterMatch ==
  ASSUME NEW q, Alone(q), IInv, MatchFine, faults = 0, NEW p \in Procs, EnsureRouter(p)
  PROVE  MatchFine'
<1> DEFINE c == mem[p]
           j == job[p]
<1>1. /\ j.cmd = "mode" /\ InPlace(dir, unit, running, c, {}) /\ c \in Config
      /\ file = Torn => router.state = "absent"
  BY PlainOn, MatchOf DEF EnsureRouter
<1>2. CASE RouterActive
  BY <1>1, <1>2, ModeMatch DEF EnsureRouter, host
<1>3. CASE ~RouterActive
  <2>1. mem'[p] = c /\ pc'[p] = "createRouter" /\ job'[p] = j /\ UNCHANGED host
    BY <1>3, Moves DEF EnsureRouter
  <2> HIDE DEF c, j
  <2>2. PlainMatch(file, dir, unit, running, c, "createRouter", j)
    BY <1>1 DEF PlainMatch
  <2>3. MatchAt(file, router.state, dir, unit, running, c, "createRouter", j)
    BY <1>1, <2>2 DEF MatchAt
  <2>4. QED
    BY <2>1, <2>3, MatchStep DEF host
<1>4. QED
  BY <1>2, <1>3

LEMMA CreateRouterMatch ==
  ASSUME NEW q, Alone(q), IInv, MatchFine, faults = 0, NEW p \in Procs, CreateRouter(p)
  PROVE  MatchFine'
<1> DEFINE c == mem[p]
           j == job[p]
<1>1. /\ MatchAt(file, router.state, dir, unit, running, c, "createRouter", j)
      /\ c \in Config /\ j \in Job /\ At(c, "createRouter", j)
  BY MatchOf DEF CreateRouter
<1>2. j.cmd \in {"add", "mode"}
  BY <1>1 DEF At, EditAt, RemoveAt, MTUAt, UpdateAt, RestartAt, SwitchAt, InstallAt, UninstallAt,
              Job, CommandNames
<1>3. CASE j.cmd = "mode"
  <2>1. PlainMatch(file, dir, unit, running, c, "createRouter", j)
    BY <1>1, <1>3 DEF MatchAt
  <2>2. QED
    BY <1>1, <1>3, <2>1, ModeMatch DEF CreateRouter, PlainMatch
<1>4. CASE j.cmd = "add"
  <2>1. mem'[p] = c /\ pc'[p] = "done" /\ job'[p] = j /\ UNCHANGED <<file, dir, unit, running>>
    BY <1>4, Moves DEF CreateRouter
  <2> HIDE DEF c, j
  <2>2. AddMatch(file, dir, unit, running, c, "createRouter", j)
    BY <1>1, <1>4 DEF MatchAt
  <2>3. InPlace(dir, unit, running, c, {}) /\ c = LoadedFrom(file) /\ file # Torn
    BY <2>2 DEF AddMatch
  <2>4. MatchAt(file, router'.state, dir, unit, running, c, "done", j)
    BY <2>3, DoneMatch
  <2>5. QED
    BY <2>1, <2>4, MatchStep
<1>5. QED
  BY <1>2, <1>3, <1>4

LEMMA RestartRouterMatch ==
  ASSUME NEW q, Alone(q), IInv, MatchFine, faults = 0, NEW p \in Procs, RestartRouter(p)
  PROVE  MatchFine'
<1> DEFINE c == mem[p]
           j == job[p]
           c2 == [mem[p] EXCEPT !.active = Current(p)]
<1>1. /\ MatchAt(file, router.state, dir, unit, running, c, "restartRouter", j)
      /\ j \in Job /\ At(c, "restartRouter", j) /\ c \in Config
  BY MatchOf DEF RestartRouter
<1>2. j.cmd \in {"update", "restart", "switch"}
  BY <1>1 DEF At, AddAt, EditAt, RemoveAt, MTUAt, ModeAt, InstallAt, UninstallAt, Job, CommandNames
<1>3. c2.tunnels = c.tunnels
  BY <1>1 DEF Config
<1>4. /\ UNCHANGED <<file, dir, unit, running, job>> /\ job'[p] = j
      /\ router' = IF router.state = "absent" THEN router ELSE RouterIn("starting")
      /\ \/ mem' = [mem EXCEPT ![p] = c2] /\ Goto(p, "truncate") /\ j.cmd = "switch"
         \/ mem'[p] = c /\ Goto(p, "done")
  BY MatchOf DEF RestartRouter, RouterRestart
<1> HIDE DEF c, j, c2
<1>5. InPlace(dir, unit, running, c, {}) /\ c = LoadedFrom(file) /\ (file = Torn => router.state = "absent")
  <2>1. CASE j.cmd = "update"
    <3>1. LoopMatch(file, dir, unit, running, c, "restartRouter", j) /\ TagsIn(<<>>) = {}
      BY <1>1, <2>1 DEF MatchAt, TagsIn
    <3>2. j.todo = <<>> /\ InPlace(dir, unit, running, c, TagsIn(j.todo)) /\ c = LoadedFrom(file)
      BY <3>1 DEF LoopMatch
    <3>3. QED
      BY <1>1, <3>1, <3>2 DEF MatchAt
  <2>2. CASE j.cmd \in {"restart", "switch"}
    <3>1. PlainMatch(file, dir, unit, running, c, "restartRouter", j)
      BY <1>1, <2>2 DEF MatchAt
    <3>2. QED
      BY <1>1, <3>1 DEF PlainMatch, MatchAt
  <2>3. QED
    BY <1>2, <2>1, <2>2
<1>6. file = Torn => router'.state = "absent"
  BY <1>4, <1>5
<1>7. CASE mem' = [mem EXCEPT ![p] = c2] /\ Goto(p, "truncate") /\ j.cmd = "switch"
  <2>1. mem'[p] = c2 /\ pc'[p] = "truncate"
    BY <1>7, Moves
  <2>2. PlainMatch(file, dir, unit, running, c, "restartRouter", j)
    BY <1>1, <1>7 DEF MatchAt
  <2>3. PlainMatch(file, dir, unit, running, c2, "truncate", j)
    BY <1>3, <1>5, <2>2, InPlaceSame DEF PlainMatch
  <2>4. MatchAt(file, router'.state, dir, unit, running, c2, "truncate", j)
    BY <1>7, <2>3 DEF MatchAt
  <2>5. QED
    BY <1>4, <2>1, <2>4, MatchStep
<1>8. CASE mem'[p] = c /\ Goto(p, "done")
  <2>1. pc'[p] = "done"
    BY <1>8, Moves
  <2>2. MatchAt(file, router'.state, dir, unit, running, c, "done", j)
    BY <1>5, <1>6, DoneMatch
  <2>3. QED
    BY <1>4, <1>8, <2>1, <2>2, MatchStep
<1>9. QED
  BY <1>4, <1>7, <1>8

LEMMA MultiModeMatch ==
  ASSUME NEW q, Alone(q), IInv, MatchFine, faults = 0, NEW p \in Procs, MultiMode(p)
  PROVE  MatchFine'
<1> DEFINE c == mem[p]
           j == job[p]
           c2 == [mem[p] EXCEPT !.mode = "multi"]
           j2 == [job[p] EXCEPT !.mode = "multi"]
<1>1. /\ j.cmd \in {"install", "wizard"} /\ InstallMatch(file, dir, unit, running, c, "multi", j)
      /\ j \in Job /\ c \in Config
  BY InstallOn, MatchOf DEF MultiMode
<1>2. c2.tunnels = c.tunnels /\ j2.cmd = j.cmd /\ j2.todo = j.todo /\ j2.new = j.new
  BY <1>1 DEF Config, Job
<1>3. /\ mem' = [mem EXCEPT ![p] = c2] /\ job' = [job EXCEPT ![p] = j2] /\ Goto(p, "truncate")
      /\ UNCHANGED host
  BY DEF MultiMode
<1> HIDE DEF c2, j2
<1>4. mem'[p] = c2 /\ pc'[p] = "truncate" /\ job'[p] = j2
  BY <1>3, Moves
<1> HIDE DEF c, j
<1>5. \A tag : GetTunnel(c2, tag) = GetTunnel(c, tag)
  BY <1>2 DEF GetTunnel, IndexOf
<1>6. /\ InPlace(dir, unit, running, c, TagsIn(j.todo))
      /\ \A tag \in TagsIn(j.todo) : Startable(dir, unit, running, GetTunnel(c, tag))
  BY <1>1 DEF InstallMatch
<1>7. InPlace(dir, unit, running, c2, TagsIn(j.todo))
  BY <1>2, <1>6, InPlaceSame
<1>8. InstallMatch(file, dir, unit, running, c2, "truncate", j2)
  BY <1>2, <1>5, <1>6, <1>7 DEF InstallMatch
<1>9. MatchAt(file, router.state, dir, unit, running, c2, "truncate", j2)
  BY <1>1, <1>2, <1>8 DEF MatchAt
<1>10. QED
  BY <1>3, <1>4, <1>9, MatchStep DEF host

LEMMA StartRouterMatch ==
  ASSUME NEW q, Alone(q), IInv, MatchFine, faults = 0, NEW p \in Procs, StartRouter(p)
  PROVE  MatchFine'
<1> DEFINE c == mem[p]
           j == job[p]
<1>1. j.cmd \in {"install", "wizard"} /\ InstallMatch(file, dir, unit, running, c, "startRouter", j)
  BY InstallOn DEF StartRouter
<1>2. UNCHANGED <<file, dir, unit, running>> /\ mem'[p] = c /\ pc'[p] = "done" /\ job'[p] = j
  BY Moves, MatchOf DEF StartRouter
<1> HIDE DEF c, j
<1>3. /\ TagsIn(<<>>) = {} /\ j.todo = <<>> /\ c = LoadedFrom(file) /\ file # Torn
      /\ InPlace(dir, unit, running, c, TagsIn(j.todo))
  BY <1>1 DEF InstallMatch, TagsIn
<1>4. \A s : MatchAt(file, s, dir, unit, running, c, "done", j)
  BY <1>1, <1>3, DoneMatch
<1>5. QED
  BY <1>2, <1>4, MatchStep

LEMMA UninstallOn ==
  ASSUME IInv, MatchFine, faults = 0, NEW p \in Procs,
         \/ pc[p] \in {"removeRouter", "removeConfigDir"}
         \/ pc[p] = "stop" /\ job[p].cmd = "uninstall"
  PROVE  /\ job[p].cmd = "uninstall" /\ UninstallMatch(router.state, unit, running, pc[p], job[p])
         /\ file = Torn => router.state = "absent"
<1> DEFINE j == job[p]
           l == pc[p]
<1>1. MatchAt(file, router.state, dir, unit, running, mem[p], l, j) /\ j.cmd = "uninstall"
  BY MatchOf, UninstallOf
<1>2. l \in {"removeRouter", "removeConfigDir", "stop"}
  OBVIOUS
<1> HIDE DEF j, l
<1>3. UninstallMatch(router.state, unit, running, l, j) /\ (file = Torn => router.state = "absent")
  BY <1>1, <1>2 DEF MatchAt
<1>4. QED
  BY <1>1, <1>3 DEF j, l

LEMMA RemoveRouterMatch ==
  ASSUME NEW q, Alone(q), IInv, MatchFine, faults = 0, NEW p \in Procs,
         StopRouter(p) \/ RemoveRouter(p)
  PROVE  MatchFine'
<1> DEFINE c == mem[p]
           j == job[p]
           j2 == [job[p] EXCEPT !.dns = 0]
<1>1. /\ j.cmd = "uninstall" /\ UninstallMatch(router.state, unit, running, pc[p], j)
      /\ file = Torn => router.state = "absent"
  BY UninstallOn DEF StopRouter, RemoveRouter
<1>2. UNCHANGED <<file, dir, unit, running, mem>> /\ mem'[p] = c /\ j \in Job
  BY MatchOf DEF StopRouter, RemoveRouter
<1>3. \A tag \in Tags : Own(unit, running, tag)
  BY <1>1 DEF UninstallMatch
<1>4. CASE StopRouter(p)
  <2>1. /\ j.dns = 1 /\ pc'[p] = "removeRouter" /\ job'[p] = j
        /\ router' = IF router.state = "absent" THEN router ELSE RouterIn("stopped")
    BY <1>4, Moves, MatchOf DEF StopRouter
  <2> HIDE DEF c, j
  <2>2. \A s : UninstallMatch(s, unit, running, "removeRouter", j)
    BY <1>3, <2>1 DEF UninstallMatch
  <2>3. file = Torn => router'.state = "absent"
    BY <1>1, <2>1
  <2>4. MatchAt(file, router'.state, dir, unit, running, c, "removeRouter", j)
    BY <1>1, <2>2, <2>3 DEF MatchAt
  <2>5. QED
    BY <1>2, <2>1, <2>4, MatchStep
<1>5. CASE RemoveRouter(p)
  <2>1. PICK l : /\ job' = [job EXCEPT ![p] = j2] /\ Goto(p, l) /\ l = Enter("uninstall", j.todo)
                 /\ router' = RouterIn("absent")
    BY <1>5 DEF RemoveRouter
  <2>2. l \in {"stop", "removeConfigDir"}
    BY <2>1 DEF Enter, LoopStart, LoopEnd
  <2>3. j2.cmd = "uninstall"
    BY <1>1, <1>2 DEF Job
  <2> HIDE DEF c, j, j2
  <2>4. pc'[p] = l /\ job'[p] = j2
    BY <2>1, Moves
  <2>5. router'.state = "absent"
    BY <2>1 DEF RouterIn
  <2>6. UninstallMatch("absent", unit, running, l, j2)
    BY <1>3, <2>2 DEF UninstallMatch
  <2>7. MatchAt(file, "absent", dir, unit, running, c, l, j2)
    BY <2>2, <2>3, <2>6 DEF MatchAt
  <2>8. QED
    BY <1>2, <2>4, <2>5, <2>7, MatchStep
<1>6. QED
  BY <1>4, <1>5

LEMMA RemoveConfigDirMatch ==
  ASSUME NEW q, Alone(q), IInv, OwnFine, MatchFine, faults = 0, NEW p \in Procs, RemoveConfigDir(p)
  PROVE  MatchFine'
<1> DEFINE c == mem[p]
           j == job[p]
<1>1. /\ j.cmd = "uninstall" /\ UninstallMatch(router.state, unit, running, "removeConfigDir", j)
      /\ j.dns = 0
  BY UninstallOn DEF RemoveConfigDir
<1>2. /\ file' = Torn /\ dir' = [tag \in Tags |-> NoDir] /\ UNCHANGED <<unit, running, router>>
      /\ mem'[p] = c /\ pc'[p] = "done" /\ job'[p] = j
  BY Moves, MatchOf DEF RemoveConfigDir
<1>3. \A tag \in Tags : unit[tag] = NoUnit
  BY OwnOf DEF OwnAt, RemoveConfigDir
<1> HIDE DEF c, j
<1>4. router.state = "absent" /\ \A tag \in Tags : Own(unit, running, tag)
  BY <1>1 DEF UninstallMatch
<1>5. \A tag \in Tags : Clean(dir', unit, running, tag)
  BY <1>2, <1>3, <1>4 DEF Clean, Own
<1>6. InPlace(dir', unit, running, LoadedFrom(Torn), {})
  BY <1>5, DefaultConfigSound DEF InPlace, Placed, LoadedFrom
<1>7. MatchAt(Torn, router.state, dir', unit, running, c, "done", j)
  BY <1>1, <1>4, <1>6, DoneMatch
<1>8. QED
  BY <1>2, <1>7, MatchStep

LEMMA StatementsMatch ==
  ASSUME NEW q, Alone(q), IInv, OwnFine, MatchFine, faults = 0, NEW p \in Procs, Statements(p)
  PROVE  MatchFine'
<1>1. CASE SetUpDir(p) \/ RouteTunnel(p) \/ Truncate(p) \/ WriteFile(p)
  BY <1>1, SetUpDirMatch, RouteTunnelMatch, TruncateMatch, WriteFileMatch
<1>2. CASE Stop(p) \/ RemoveUnit(p) \/ Create(p) \/ Start(p) \/ Restart(p)
  BY <1>2, StopMatch, RemoveUnitMatch, CreateMatch, StartMatch, RestartMatch
<1>3. CASE RenameDir(p) \/ ImportKey(p) \/ FinishEdit(p) \/ Unroute(p) \/ ForgetTunnel(p)
  BY <1>3, RenameDirMatch, ImportKeyMatch, FinishEditMatch, UnrouteMatch, ForgetMatch
<1>a. CASE Reroute(p) \/ CreateRouter(p) \/ EnsureRouter(p)
  BY <1>a, RerouteMatch, CreateRouterMatch, EnsureRouterMatch
<1>4. CASE StopActive(p) \/ StartActive(p) \/ RestartRouter(p)
  BY <1>4, ActiveMatch, RestartRouterMatch
<1>5. CASE MultiMode(p) \/ StartRouter(p)
  BY <1>5, MultiModeMatch, StartRouterMatch
<1>6. CASE StopRouter(p) \/ RemoveRouter(p) \/ RemoveConfigDir(p)
  BY <1>6, RemoveRouterMatch, RemoveConfigDirMatch
<1>7. QED
  BY <1>1, <1>2, <1>3, <1>a, <1>4, <1>5, <1>6 DEF Statements

-------------------------------------------------------------------------------
(***************************************************************************)
(* Failures, and the end of a command                                      *)
(***************************************************************************)

\* Nothing is claimed after a failure.
LEMMA FaultMatch ==
  ASSUME IInv, Fault
  PROVE  MatchFine'
<1>1. faults \in Nat
  BY ManagerAssumption DEF IInv, HostFine
<1>2. faults' # 0
  BY <1>1 DEF Fault
<1>3. QED
  BY <1>2 DEF MatchFine

\* What a handler takes for an error although nothing has failed does not occur,
\* except where the active tunnel has no unit to start.
LEMMA FailuresMatch ==
  ASSUME NEW q, Alone(q), IInv, MatchFine, faults = 0, NEW p \in Procs, Failures(p)
  PROVE  MatchFine'
<1>1. CASE SetUpDirFails(p) \/ AddFails(p) \/ CollectFails(p) \/ SaveFails(p)
  BY <1>1, FaultMatch DEF SetUpDirFails, AddFails, CollectFails, SaveFails
<1>2. CASE RestartFails(p) \/ ImportKeyFails(p) \/ EditFails(p) \/ Crash(p)
  BY <1>2, FaultMatch DEF RestartFails, ImportKeyFails, EditFails, Crash
<1>3. CASE CreateFails(p)
  <2> DEFINE t == GetTunnel(mem[p], Current(p))
  <2>1. Startable(dir, unit, running, t)
    BY <1>3, ServiceOn DEF CreateFails
  <2>2. Creatable(t)
    BY <2>1 DEF Creatable, Startable, Pending, Keyed
  <2>3. QED
    BY <1>3, <2>2, FaultMatch DEF CreateFails
<1>4. CASE StartFails(p)
  <2> DEFINE t == GetTunnel(mem[p], Current(p))
  <2>1. Started(dir, unit, running, t) /\ t \in Tunnel /\ t.tag = Current(p)
    BY <1>4, ServiceOn DEF StartFails
  <2>2. unit[Current(p)] # NoUnit
    BY <2>1, UnitPresent DEF Started
  <2>3. QED
    BY <1>4, <2>2, FaultMatch DEF StartFails
<1>5. CASE RenameDirFails(p)
  <2> DEFINE j == job[p]
  <2>1. /\ MatchAt(file, router.state, dir, unit, running, mem[p], "renameDir", j)
        /\ j.cmd = "edit" /\ EditAt(mem[p], "renameDir", j) /\ j.new.tag \in Tags
    BY <1>5, MatchOf, EditOf DEF RenameDirFails
  <2>2. EditMatch(file, dir, unit, running, mem[p], "renameDir", j)
    BY <2>1 DEF MatchAt
  <2>3. j.new.tag \notin TagsOf(mem[p])
    BY <2>1 DEF EditAt
  <2>4. dir[j.new.tag] = NoDir
    BY <2>1, <2>2, <2>3 DEF EditMatch, InPlace, Placed, Clean
  <2>5. QED
    BY <1>5, <2>4, FaultMatch DEF RenameDirFails
<1>6. CASE StartActiveFails(p)
  <2>1. CASE Fault
    BY <2>1, FaultMatch
  <2>2. CASE ~Fault
    <3>1. /\ UNCHANGED <<host, mem, job>> /\ Goto(p, "done") /\ pc[p] = "startActive"
      BY <1>6 DEF StartActiveFails
    <3>2. mem'[p] = mem[p] /\ pc'[p] = "done" /\ job'[p] = job[p]
      BY <3>1, Moves, MatchOf
    <3>3. MatchAt(file, router.state, dir, unit, running, mem[p], "done", job[p])
      BY <3>1, PlainOn, PlainGoes
    <3>4. QED
      BY <3>1, <3>2, <3>3, MatchStep DEF host
  <2>3. QED
    BY <2>1, <2>2
<1>7. QED
  BY <1>1, <1>2, <1>3, <1>4, <1>5, <1>6 DEF Failures

LEMMA EndMatch ==
  ASSUME NEW q, Alone(q), IInv, MatchFine, faults = 0, NEW p \in Procs, End(p)
  PROVE  MatchFine'
<1>1. InPlace(dir, unit, running, LoadedFrom(file), {}) /\ (file = Torn => router.state = "absent")
  BY MatchOf DEF End, MatchAt
<1>2. /\ mem' = [mem EXCEPT ![p] = DefaultConfig] /\ Goto(p, "idle")
      /\ job' = [job EXCEPT ![p] = NoJob] /\ UNCHANGED host
  BY DEF End, Forget
<1>3. mem'[p] = DefaultConfig /\ pc'[p] = "idle" /\ job'[p] = NoJob
  BY <1>2, Moves
<1>4. NoJob.cmd = "none"
  BY DEF NoJob
<1>5. MatchAt(file, router.state, dir, unit, running, DefaultConfig, "idle", NoJob)
  BY <1>1, <1>4 DEF MatchAt
<1>6. QED
  BY <1>2, <1>3, <1>5, MatchStep DEF host

-------------------------------------------------------------------------------
(***************************************************************************)
(* The invariant holds, and with it HostMatchesFile                        *)
(***************************************************************************)

\* A router that is there stays there.
LEMMA RouterMatch ==
  ASSUME MatchFine, Router
  PROVE  MatchFine'
<1>1. /\ UNCHANGED <<file, dir, unit, running, mem, pc, job, faults>>
      /\ router.state # "absent"
  BY DEF Router, RouterLoads, RouterFails, RouterRetries, proc, bounds
<1>2. SUFFICES ASSUME faults = 0, NEW p \in Procs
               PROVE  MatchAt(file, router'.state, dir, unit, running, mem[p], pc[p], job[p])
  BY <1>1 DEF MatchFine
<1>3. MatchAt(file, router.state, dir, unit, running, mem[p], pc[p], job[p])
  BY <1>2 DEF MatchFine
<1>4. job[p].cmd = "uninstall" /\ pc[p] # "done" =>
        UninstallMatch(router'.state, unit, running, pc[p], job[p])
  BY <1>1, <1>3 DEF MatchAt, UninstallMatch
<1>5. file = Torn => router'.state = "absent" \/ pc[p] \in {"truncate", "write"}
  BY <1>1, <1>3 DEF MatchAt
<1>6. QED
  BY <1>3, <1>4, <1>5 DEF MatchAt

\* What has failed is not forgotten.
LEMMA FaultsKept ==
  ASSUME IInv, NEW p \in Procs, faults' = 0,
         Begins(p) \/ Answers(p) \/ Statements(p) \/ Failures(p) \/ End(p)
  PROVE  faults = 0
<1>1. Fault \/ NoFault
  <2>1. CASE Begins(p)
    <3>1. ASSUME NEW c, NEW l, NEW j, Begin(p, c, l, j)  PROVE NoFault
      BY <3>1 DEF Begin, NoFault
    <3>2. CASE BeginAdd(p) \/ AddForSSH(p) \/ AddInBatch(p)
      BY <3>1, <3>2 DEF BeginAdd, AddForSSH, AddInBatch
    <3>3. CASE BeginEdit(p) \/ BeginRemove(p) \/ BeginMTU(p) \/ BeginAll(p)
      BY <3>1, <3>3 DEF BeginEdit, BeginRemove, BeginMTU, BeginAll
    <3>4. CASE StartTunnel(p) \/ StopTunnel(p)
      BY <3>4 DEF StartTunnel, StopTunnel, NoFault
    <3>5. CASE BeginMode(p) \/ BeginSwitch(p) \/ BeginImport(p)
      BY <3>1, <3>5 DEF BeginMode, BeginSwitch, BeginImport
    <3>6. CASE BeginInstall(p) \/ BeginUninstall(p)
      BY <3>1, <3>6 DEF BeginInstall, BeginUninstall
    <3>7. QED
      BY <2>1, <3>2, <3>3, <3>4, <3>5, <3>6 DEF Begins
  <2>2. CASE Answers(p)
    BY <2>2 DEF Answers, RegisterTunnel, Settings, Collect, Gather, SaveInstalled
  <2>3. CASE Statements(p)
    <3>1. CASE SetUpDir(p) \/ RouteTunnel(p) \/ Truncate(p) \/ WriteFile(p) \/ Stop(p)
      BY <3>1 DEF SetUpDir, RouteTunnel, Truncate, WriteFile, Stop
    <3>2. CASE RemoveUnit(p) \/ Create(p) \/ Start(p) \/ Restart(p) \/ RenameDir(p)
      BY <3>2 DEF RemoveUnit, Create, Start, Restart, RenameDir
    <3>3. CASE ImportKey(p) \/ FinishEdit(p) \/ Unroute(p) \/ ForgetTunnel(p) \/ EnsureRouter(p)
      BY <3>3 DEF ImportKey, FinishEdit, Unroute, ForgetTunnel, EnsureRouter
    <3>4. CASE StopActive(p) \/ StartActive(p) \/ RestartRouter(p) \/ MultiMode(p) \/ StartRouter(p)
      BY <3>4 DEF StopActive, StartActive, RestartRouter, MultiMode, StartRouter
    <3>5. CASE StopRouter(p) \/ RemoveRouter(p) \/ RemoveConfigDir(p) \/ Reroute(p) \/ CreateRouter(p)
      BY <3>5 DEF StopRouter, RemoveRouter, RemoveConfigDir, Reroute, CreateRouter
    <3>6. QED
      BY <2>3, <3>1, <3>2, <3>3, <3>4, <3>5 DEF Statements
  <2>4. CASE Failures(p)
    <3>1. CASE SetUpDirFails(p) \/ AddFails(p) \/ CollectFails(p) \/ SaveFails(p)
      BY <3>1 DEF SetUpDirFails, AddFails, CollectFails, SaveFails
    <3>2. CASE CreateFails(p) \/ StartFails(p) \/ RestartFails(p) \/ RenameDirFails(p)
      BY <3>2 DEF CreateFails, StartFails, RestartFails, RenameDirFails
    <3>3. CASE ImportKeyFails(p) \/ EditFails(p) \/ StartActiveFails(p) \/ Crash(p)
      BY <3>3 DEF ImportKeyFails, EditFails, StartActiveFails, Crash
    <3>4. QED
      BY <2>4, <3>1, <3>2, <3>3 DEF Failures
  <2>5. CASE End(p)
    BY <2>5 DEF End
  <2>6. QED
    BY <2>1, <2>2, <2>3, <2>4, <2>5
<1>2. QED
  BY <1>1, NoFailure

LEMMA AlwaysMatch ==
  ASSUME NEW q, Alone(q)
  PROVE  /\ Init => MatchFine
         /\ IInv /\ OwnFine /\ MatchFine /\ [Next]_vars => MatchFine'
<1>1. ASSUME Init  PROVE MatchFine
  <2>1. LoadedFrom(file) = DefaultConfig /\ file # Torn
    BY <1>1, DefaultConfigSound, ManagerAssumption DEF Init, LoadedFrom, Sound
  <2>2. \A tag \in Tags : Clean(dir, unit, running, tag)
    BY <1>1 DEF Init, Clean
  <2>3. InPlace(dir, unit, running, LoadedFrom(file), {})
    BY <2>1, <2>2, DefaultConfigSound DEF InPlace, Placed
  <2>4. NoJob.cmd = "none"
    BY DEF NoJob
  <2>5. MatchAt(file, router.state, dir, unit, running, DefaultConfig, "idle", NoJob)
    BY <2>1, <2>3, <2>4 DEF MatchAt
  <2>6. QED
    BY <1>1, <2>5 DEF MatchFine, Init
<1>2. ASSUME IInv, OwnFine, MatchFine, [Next]_vars  PROVE MatchFine'
  <2>1. CASE UNCHANGED vars
    BY <1>2, <2>1 DEF vars, MatchFine
  <2>2. CASE Router
    BY <1>2, <2>2, RouterMatch
  <2>3. ASSUME NEW p \in Procs,
               Begins(p) \/ Answers(p) \/ Statements(p) \/ Failures(p) \/ End(p)
        PROVE  MatchFine'
    <3>1. CASE faults' = 0
      <4>1. faults = 0
        BY <1>2, <2>3, <3>1, FaultsKept
      <4>2. QED
        BY <1>2, <2>3, <4>1, BeginsMatch, AnswersMatch, StatementsMatch, FailuresMatch, EndMatch
    <3>2. CASE faults' # 0
      BY <3>2 DEF MatchFine
    <3>3. QED
      BY <3>1, <3>2
  <2>4. QED
    BY <1>2, <2>1, <2>2, <2>3 DEF Next
<1>3. QED
  BY <1>1, <1>2

\* Commands that are not disturbed leave the host as the file says: whenever no
\* command runs and nothing has failed, the unit files and running servers are
\* those of the file's tunnels with the file's settings, each key pair is the
\* one the file publishes, and of a tunnel that is not in the file there is
\* nothing left.  For any sequence of commands, and any answers, of one process
\* that imports nothing and whose writes, once begun, complete.
THEOREM HostFollowsFile ==
  ASSUME NEW q, Alone(q)
  PROVE  Spec => []HostMatchesFile
<1>1. IInv /\ MatchFine => HostMatchesFile
  <2> SUFFICES ASSUME IInv, MatchFine, Settled  PROVE HostMatchesFile
    BY DEF HostMatchesFile
  <2>1. q \in Procs /\ pc[q] = "idle" /\ faults = 0
    BY DEF Alone, Settled, Quiet
  <2>2. /\ InPlace(dir, unit, running, Loaded, {}) /\ Sound(Loaded)
        /\ file = Torn => router.state = "absent"
    BY <2>1, CalmMatch
  <2>3. ASSUME NEW tag \in Tags, tag \notin Listed
        PROVE  unit[tag] = NoUnit /\ running[tag] = NoUnit /\ dir[tag] = NoDir
    <3>1. tag \notin TagsOf(Loaded)
      BY <2>3, DefaultConfigSound DEF Listed, Loaded
    <3>2. QED
      BY <2>2, <3>1 DEF InPlace, Placed, Clean
  <2>4. ASSUME NEW tag \in Tags, tag \in Listed
        PROVE  LET t == GetTunnel(file, tag) IN
               /\ unit[tag] = IF HasUnit(t) THEN t ELSE NoUnit
               /\ running[tag] # unit[tag]
                    => running[tag] = NoUnit /\ Commands \cap {"stop", "switch"} # {}
               /\ HasKeyPair(t) => dir[t.keyDir] = t.pub
    <3> DEFINE t == GetTunnel(file, tag)
    <3>1. Loaded = file /\ tag \in TagsOf(Loaded)
      BY <2>4 DEF Listed, Loaded
    <3>2. Matches(dir, unit, running, t) /\ t.tag = tag
      BY <2>2, <3>1, TunnelOf DEF InPlace, Placed
    <3> HIDE DEF t
    <3>3. QED
      BY <3>2 DEF Matches, Pending, Keyed, Own, UnitOf, Stopping, t
  <2>5. QED
    BY <2>2, <2>3, <2>4 DEF HostMatchesFile
<1>2. Init => OwnFine /\ MatchFine
  BY AlwaysOwn, AlwaysMatch
<1>3. IInv /\ OwnFine /\ [Next]_vars => OwnFine'
  BY AlwaysOwn
<1>4. IInv /\ OwnFine /\ MatchFine /\ [Next]_vars => MatchFine'
  BY AlwaysMatch
<1>5. QED
  BY InitFine, NextFine, <1>1, <1>2, <1>3, <1>4, PTL DEF Spec
===============================================================================

-------------------------- MODULE ConfigurationProofs --------------------------
(***************************************************************************)
(* What the operations on a configuration return, for configurations of    *)
(* any length: GetTunnel finds the tunnel, NextAvailablePort ends and      *)
(* returns a free port, and adding, removing, replacing and renaming a     *)
(* tunnel give configurations with the tags one expects.                   *)
(***************************************************************************)
EXTENDS Configuration, Extrema, SequenceTheorems, FiniteSetTheorems, TLAPS

\* Types of a tunnel and of a configuration, field by field.
LEMMA ConfigFields ==
  ASSUME NEW c \in Config
  PROVE  /\ c.tunnels \in Seq(Tunnel) /\ c.mode \in {"single", "multi"}
         /\ c.active \in Tags \cup {NoTag} /\ c.default \in Tags \cup {NoTag}
         /\ Len(c.tunnels) \in Nat /\ DOMAIN c.tunnels = 1..Len(c.tunnels)
         /\ \A i \in DOMAIN c.tunnels : c.tunnels[i] \in Tunnel
  BY DEF Config

\* The tags of a configuration's tunnels are tags.
LEMMA TagsOfType ==
  ASSUME NEW c \in Config
  PROVE  TagsOf(c) \subseteq Tags
  BY ConfigFields DEF TagsOf, Tunnel

\* GetTunnel: the loop stops at the first tunnel with the tag, and there is one.
LEMMA IndexOfFound ==
  ASSUME NEW c \in Config, NEW tag \in TagsOf(c)
  PROVE  /\ IndexOf(c, tag) \in DOMAIN c.tunnels
         /\ c.tunnels[IndexOf(c, tag)].tag = tag
         /\ \A j \in 1..(IndexOf(c, tag) - 1) : c.tunnels[j].tag # tag
<1> DEFINE D == {i \in DOMAIN c.tunnels : c.tunnels[i].tag = tag}
<1>1. D # {} /\ D \in SUBSET Nat
  BY ConfigFields DEF TagsOf
<1>2. PICK i \in D : \A j \in D : i <= j
  BY <1>1, LeastNat
<1>3. /\ i \in DOMAIN c.tunnels /\ c.tunnels[i].tag = tag
      /\ \A j \in 1..(i - 1) : c.tunnels[j].tag # tag
  <2>1. ASSUME NEW j \in 1..(i - 1), c.tunnels[j].tag = tag  PROVE FALSE
    <3>1. j \in DOMAIN c.tunnels /\ j < i /\ i \in Nat
      BY ConfigFields
    <3>2. QED
      BY <1>2, <2>1, <3>1
  <2>2. QED
    BY <2>1
<1>4. QED
  BY <1>3 DEF IndexOf

LEMMA GetTunnelFound ==
  ASSUME NEW c \in Config, NEW tag \in TagsOf(c)
  PROVE  GetTunnel(c, tag) \in Tunnel /\ GetTunnel(c, tag).tag = tag
  BY IndexOfFound, ConfigFields DEF GetTunnel

\* Where tags are unique the first tunnel with a tag is the only one.
LEMMA IndexOfUnique ==
  ASSUME NEW c \in Config, UniqueTags(c), NEW i \in DOMAIN c.tunnels
  PROVE  IndexOf(c, c.tunnels[i].tag) = i
<1>1. c.tunnels[i].tag \in TagsOf(c)
  BY DEF TagsOf
<1>2. QED
  BY <1>1, IndexOfFound DEF UniqueTags

-------------------------------------------------------------------------------
\* NextAvailablePort: of the Len + 1 ports from BasePort on one is free, so the
\* loop of the code ends; it returns the least free one.
THEOREM NextPortFree ==
  ASSUME NEW c \in Config
  PROVE  /\ NextAvailablePort(c) \in BasePort..(BasePort + Len(c.tunnels))
         /\ \A i \in DOMAIN c.tunnels : c.tunnels[i].port # NextAvailablePort(c)
         /\ \A p \in BasePort..(NextAvailablePort(c) - 1) :
              \E i \in DOMAIN c.tunnels : c.tunnels[i].port = p
<1> DEFINE used == {c.tunnels[i].port : i \in DOMAIN c.tunnels}
           n    == Len(c.tunnels)
           all  == BasePort..(BasePort + n)
           free == all \ used
<1>1. n \in Nat /\ BasePort \in Nat /\ DOMAIN c.tunnels = 1..n
  BY ConfigFields, ConfigurationAssumption
<1>2. IsFiniteSet(used) /\ Cardinality(used) <= n
  <2> DEFINE f == [i \in 1..n |-> c.tunnels[i].port]
  <2>1. f \in Surjection(1..n, used)
    BY <1>1 DEF Surjection
  <2>2. IsFiniteSet(1..n) /\ Cardinality(1..n) = n
    BY <1>1, IndicesFinite
  <2>3. QED
    BY <2>1, <2>2, FS_Surjection
<1>3. Cardinality(all) = n + 1
  BY <1>1, FS_Interval
<1>4. free # {}
  <2>1. SUFFICES ASSUME all \subseteq used  PROVE FALSE
    OBVIOUS
  <2>2. Cardinality(all) <= Cardinality(used)
    BY <1>2, <2>1, FS_Subset
  <2>3. Cardinality(used) \in Nat
    BY <1>2, FS_CardinalityType
  <2> HIDE DEF used, n, all
  <2>4. QED
    BY <1>1, <1>2, <1>3, <2>2, <2>3
<1>5. free \in SUBSET Nat
  BY <1>1
<1>6. PICK port \in free : \A p \in free : port <= p
  BY <1>4, <1>5, LeastNat
<1>7. port \in all /\ port \notin used /\ \A p \in BasePort..(port - 1) : p \in used
  BY <1>1, <1>6
<1>8. /\ NextAvailablePort(c) \in all /\ NextAvailablePort(c) \notin used
      /\ \A p \in BasePort..(NextAvailablePort(c) - 1) : p \in used
  BY <1>7 DEF NextAvailablePort
<1>9. QED
  BY <1>8

-------------------------------------------------------------------------------
(***************************************************************************)
(* The operations keep a sound configuration sound: types, unique tags, a  *)
(* domain for every tunnel whose transport needs one.                      *)
(***************************************************************************)
Domained(c) == \A i \in DOMAIN c.tunnels : NeedsDomain(c.tunnels[i]) => c.tunnels[i].domain # NoDomain
Sound(c)    == c \in Config /\ UniqueTags(c) /\ Domained(c)

LEMMA DefaultConfigSound == Sound(DefaultConfig) /\ TagsOf(DefaultConfig) = {}
  BY DEF DefaultConfig, Config, Sound, UniqueTags, Domained, TagsOf

\* A configuration whose tunnels are those of a sound one is sound.
LEMMA SameTunnels ==
  ASSUME NEW c, Sound(c), NEW d \in Config, d.tunnels = c.tunnels
  PROVE  Sound(d) /\ TagsOf(d) = TagsOf(c)
  BY DEF Sound, UniqueTags, Domained, TagsOf

\* AddTunnel: one more tunnel, at the end, with a tag that is new.
LEMMA AppendSound ==
  ASSUME NEW c, Sound(c), NEW t \in Tunnel, t.tag \notin TagsOf(c),
         NeedsDomain(t) => t.domain # NoDomain,
         NEW d \in Config, d.tunnels = Append(c.tunnels, t)
  PROVE  Sound(d) /\ TagsOf(d) = TagsOf(c) \cup {t.tag}
<1> DEFINE n == Len(c.tunnels)
<1>1. /\ n \in Nat /\ DOMAIN c.tunnels = 1..n /\ DOMAIN d.tunnels = 1..(n + 1)
      /\ \A i \in 1..n : d.tunnels[i] = c.tunnels[i]
      /\ d.tunnels[n + 1] = t
  BY ConfigFields, AppendProperties DEF Sound
<1> HIDE DEF n
<1>2. \A i \in 1..(n + 1) : i \in 1..n \/ i = n + 1
  BY <1>1
<1>3. n + 1 \in 1..(n + 1) /\ 1..n \subseteq 1..(n + 1)
  BY <1>1
<1>4. TagsOf(d) = TagsOf(c) \cup {t.tag}
  BY <1>1, <1>2, <1>3 DEF TagsOf
<1>5. \A i \in 1..n : c.tunnels[i].tag # t.tag
  BY <1>1 DEF TagsOf
<1>6. UniqueTags(d)
  BY <1>1, <1>2, <1>5 DEF UniqueTags, Sound
<1>7. Domained(d)
  BY <1>1, <1>2 DEF Domained, Sound
<1>8. QED
  BY <1>4, <1>6, <1>7 DEF Sound

LEMMA AppendTyped ==
  ASSUME NEW c \in Config, NEW t \in Tunnel
  PROVE  Append(c.tunnels, t) \in Seq(Tunnel)
  BY ConfigFields, AppendProperties

\* addSingleTunnel
LEMMA RegisterSound ==
  ASSUME NEW c, Sound(c), NEW t \in Tunnel, t.tag \notin TagsOf(c),
         NeedsDomain(t) => t.domain # NoDomain
  PROVE  /\ Sound(Register(c, t)) /\ TagsOf(Register(c, t)) = TagsOf(c) \cup {t.tag}
         /\ ActiveListed(c) => ActiveListed(Register(c, t)) /\ Register(c, t).active # NoTag
<1>1. Register(c, t).tunnels = Append(c.tunnels, t)
  BY DEF Register
<1>2. Register(c, t) \in Config
  <2>1. Append(c.tunnels, t) \in Seq(Tunnel)
    BY AppendTyped DEF Sound
  <2>2. t.tag \in Tags
    BY DEF Tunnel
  <2>3. /\ c.mode \in {"single", "multi"} /\ c.active \in Tags \cup {NoTag}
        /\ c.default \in Tags \cup {NoTag}
    BY ConfigFields DEF Sound
  <2>4. QED
    BY <2>1, <2>2, <2>3 DEF Register, Config
<1>3. Sound(Register(c, t)) /\ TagsOf(Register(c, t)) = TagsOf(c) \cup {t.tag}
  BY <1>1, <1>2, AppendSound
<1>4. Register(c, t).active = IF c.active = NoTag THEN t.tag ELSE c.active
  BY DEF Register
<1>5. t.tag # NoTag
  BY ConfigurationAssumption DEF Tunnel
<1>6. QED
  BY <1>3, <1>4, <1>5 DEF ActiveListed

\* cfg.AddTunnel, in the handlers of install and wizard: the tunnel alone.
LEMMA GatherSound ==
  ASSUME NEW c, Sound(c), NEW t \in Tunnel, t.tag \notin TagsOf(c),
         NeedsDomain(t) => t.domain # NoDomain
  PROVE  LET d == [c EXCEPT !.tunnels = Append(@, t)]
         IN  Sound(d) /\ TagsOf(d) = TagsOf(c) \cup {t.tag} /\ d.active = c.active
<1> DEFINE d == [c EXCEPT !.tunnels = Append(@, t)]
<1>1. Append(c.tunnels, t) \in Seq(Tunnel)
  BY AppendTyped DEF Sound
<1>2. d \in Config /\ d.tunnels = Append(c.tunnels, t) /\ d.active = c.active
  BY <1>1 DEF Sound, Config
<1>3. QED
  BY <1>2, AppendSound

LEMMA SliceElements ==
  ASSUME NEW S, NEW s, NEW m \in Int, NEW n \in Int, m <= n + 1,
         \A i \in m..n : s[i] \in S
  PROVE  /\ SubSeq(s, m, n) \in Seq(S) /\ Len(SubSeq(s, m, n)) = n - m + 1
         /\ \A i \in 1..(n - m + 1) : SubSeq(s, m, n)[i] = s[m + i - 1]
<1>1. SubSeq(s, m, n) \in Seq(S)
  BY SubSeqProperties
<1>2. Len(SubSeq(s, m, n)) = IF m <= n THEN n - m + 1 ELSE 0
  BY SubSeqProperties
<1>3. \A i \in 1..(n - m + 1) : SubSeq(s, m, n)[i] = s[m + i - 1]
  BY SubSeqProperties
<1>4. QED
  BY <1>1, <1>2, <1>3

\* RemoveTunnel drops one tunnel and keeps the others in their order.
LEMMA WithoutTunnelElements ==
  ASSUME NEW c \in Config, NEW tag \in TagsOf(c)
  PROVE  LET w == WithoutTunnel(c, tag)  k == IndexOf(c, tag)  n == Len(c.tunnels)
         IN  /\ w \in Seq(Tunnel) /\ Len(w) = n - 1
             /\ \A i \in 1..(n - 1) : w[i] = IF i < k THEN c.tunnels[i] ELSE c.tunnels[i + 1]
<1> DEFINE k == IndexOf(c, tag)
           n == Len(c.tunnels)
           front == SubSeq(c.tunnels, 1, k - 1)
           back  == SubSeq(c.tunnels, k + 1, n)
<1>1. n \in Nat /\ k \in 1..n /\ \A i \in 1..n : c.tunnels[i] \in Tunnel
  BY ConfigFields, IndexOfFound
<1>2. WithoutTunnel(c, tag) = front \o back
  BY DEF WithoutTunnel
<1> HIDE DEF k, n
<1>3. /\ front \in Seq(Tunnel) /\ Len(front) = k - 1
      /\ \A i \in 1..(k - 1) : front[i] = c.tunnels[i]
  <2>1. \A i \in 1..(k - 1) : c.tunnels[i] \in Tunnel
    BY <1>1
  <2>2. /\ front \in Seq(Tunnel) /\ Len(front) = k - 1 - 1 + 1
        /\ \A i \in 1..(k - 1 - 1 + 1) : front[i] = c.tunnels[1 + i - 1]
    BY <1>1, <2>1, SliceElements
  <2>3. QED
    BY <1>1, <2>2
<1>4. /\ back \in Seq(Tunnel) /\ Len(back) = n - k
      /\ \A i \in 1..(n - k) : back[i] = c.tunnels[k + i]
  <2>1. \A i \in (k + 1)..n : c.tunnels[i] \in Tunnel
    BY <1>1
  <2>2. /\ back \in Seq(Tunnel) /\ Len(back) = n - (k + 1) + 1
        /\ \A i \in 1..(n - (k + 1) + 1) : back[i] = c.tunnels[k + 1 + i - 1]
    BY <1>1, <2>1, SliceElements
  <2>3. QED
    BY <1>1, <2>2
<1> HIDE DEF front, back
<1>5. /\ front \o back \in Seq(Tunnel) /\ Len(front \o back) = (k - 1) + (n - k)
      /\ \A i \in 1..((k - 1) + (n - k)) :
           (front \o back)[i] = IF i <= k - 1 THEN front[i] ELSE back[i - (k - 1)]
  <2>1. /\ front \o back \in Seq(Tunnel) /\ Len(front \o back) = Len(front) + Len(back)
        /\ \A i \in 1..(Len(front) + Len(back)) :
             (front \o back)[i] = IF i <= Len(front) THEN front[i] ELSE back[i - Len(front)]
    BY <1>3, <1>4, ConcatProperties
  <2>2. QED
    BY <1>3, <1>4, <2>1
<1>6. (k - 1) + (n - k) = n - 1
  BY <1>1
<1>7. ASSUME NEW i \in 1..(n - 1)
      PROVE  (front \o back)[i] = IF i < k THEN c.tunnels[i] ELSE c.tunnels[i + 1]
  <2>1. CASE i < k
    BY <1>1, <1>3, <1>5, <1>6, <2>1
  <2>2. CASE ~(i < k)
    <3>1. i - (k - 1) \in 1..(n - k) /\ k + (i - (k - 1)) = i + 1 /\ ~(i <= k - 1)
      BY <1>1, <2>2
    <3>2. (front \o back)[i] = c.tunnels[k + (i - (k - 1))]
      BY <1>4, <1>5, <1>6, <3>1
    <3>3. QED
      BY <2>2, <3>1, <3>2
  <2>3. QED
    BY <2>1, <2>2
<1>8. QED
  BY <1>2, <1>5, <1>6, <1>7 DEF k, n

\* removeSingleTunnel: the tag is gone, the others stay, and an active tunnel is
\* one of those that are left.
LEMMA DeregisterSound ==
  ASSUME NEW c, Sound(c), NEW tag \in TagsOf(c)
  PROVE  LET d == Deregister(c, tag)
         IN  /\ Sound(d) /\ TagsOf(d) = TagsOf(c) \ {tag}
             /\ ActiveListed(c) => ActiveListed(d)
             /\ d.active = NoTag => c.active = NoTag \/ d.tunnels = <<>>
<1> DEFINE d == Deregister(c, tag)
           w == WithoutTunnel(c, tag)
           k == IndexOf(c, tag)
           n == Len(c.tunnels)
<1>1. /\ c \in Config /\ n \in Nat /\ k \in 1..n /\ DOMAIN c.tunnels = 1..n
      /\ \A i \in 1..n : c.tunnels[i].tag = tag <=> i = k
  BY ConfigFields, IndexOfFound DEF Sound, UniqueTags
<1>2. /\ w \in Seq(Tunnel) /\ DOMAIN w = 1..(n - 1) /\ Len(w) = n - 1
      /\ \A i \in 1..(n - 1) : w[i] = IF i < k THEN c.tunnels[i] ELSE c.tunnels[i + 1]
  BY <1>1, WithoutTunnelElements, LenProperties
<1>3. /\ d.tunnels = w
      /\ d.active = IF c.active # tag THEN c.active ELSE IF w = <<>> THEN NoTag ELSE w[1].tag
  BY <1>1 DEF Deregister, Config
<1>4. w = <<>> \/ w[1] \in Tunnel
  BY <1>1, <1>2
<1>5. d \in Config
  <2>1. w = <<>> \/ w[1].tag \in Tags
    BY <1>4 DEF Tunnel
  <2> HIDE DEF w
  <2>2. QED
    BY <1>1, <1>2, <2>1 DEF Deregister, Config, w
<1> HIDE DEF d, w, k, n
<1> DEFINE old(i) == IF i < k THEN i ELSE i + 1
<1>6. \A i \in 1..(n - 1) : old(i) \in 1..n /\ old(i) # k /\ w[i] = c.tunnels[old(i)]
  BY <1>1, <1>2
<1>7. \A j \in 1..n : j # k => \E i \in 1..(n - 1) : old(i) = j
  <2>1. ASSUME NEW j \in 1..n, j # k  PROVE \E i \in 1..(n - 1) : old(i) = j
    <3>1. CASE j < k
      BY <1>1, <3>1
    <3>2. CASE j > k
      <4>1. j - 1 \in 1..(n - 1) /\ old(j - 1) = j
        BY <1>1, <3>2
      <4>2. QED
        BY <4>1
    <3>3. QED
      BY <1>1, <2>1, <3>1, <3>2
  <2>2. QED
    BY <2>1
<1>8. \A i, j \in 1..(n - 1) : old(i) = old(j) => i = j
  BY <1>1
<1> HIDE DEF old
<1>9. TagsOf(d) = TagsOf(c) \ {tag}
  <2>1. TagsOf(d) = {w[i].tag : i \in 1..(n - 1)}
    BY <1>2, <1>3 DEF TagsOf
  <2>2. TagsOf(c) = {c.tunnels[i].tag : i \in 1..n}
    BY <1>1 DEF TagsOf
  <2>3. ASSUME NEW x \in TagsOf(d)  PROVE x \in TagsOf(c) /\ x # tag
    <3>1. PICK i \in 1..(n - 1) : x = w[i].tag
      BY <2>1
    <3>2. QED
      BY <1>1, <1>6, <2>2, <3>1
  <2>4. ASSUME NEW x \in TagsOf(c), x # tag  PROVE x \in TagsOf(d)
    <3>1. PICK j \in 1..n : x = c.tunnels[j].tag
      BY <2>2
    <3>2. PICK i \in 1..(n - 1) : old(i) = j
      BY <1>1, <1>7, <2>4, <3>1
    <3>3. QED
      BY <1>6, <2>1, <3>1, <3>2
  <2>5. QED
    BY <2>3, <2>4
<1>10. UniqueTags(d)
  <2>1. ASSUME NEW i \in 1..(n - 1), NEW j \in 1..(n - 1), w[i].tag = w[j].tag  PROVE i = j
    <3>1. c.tunnels[old(i)].tag = c.tunnels[old(j)].tag
      BY <1>6, <2>1
    <3>2. old(i) = old(j)
      BY <1>1, <1>6, <3>1 DEF Sound, UniqueTags
    <3>3. QED
      BY <1>8, <3>2
  <2>2. QED
    BY <1>2, <1>3, <2>1 DEF UniqueTags
<1>11. Domained(d)
  <2>1. ASSUME NEW i \in 1..(n - 1), NeedsDomain(w[i])  PROVE w[i].domain # NoDomain
    BY <1>1, <1>6, <2>1 DEF Sound, Domained
  <2>2. QED
    BY <1>2, <1>3, <2>1 DEF Domained
<1>12. w # <<>> => w[1].tag \in TagsOf(d) /\ w[1].tag # NoTag
  <2>1. w # <<>> => 1 \in DOMAIN w
    BY <1>1, <1>2
  <2>2. w # <<>> => w[1].tag \in TagsOf(d)
    BY <1>3, <2>1 DEF TagsOf
  <2>3. QED
    BY <1>5, <2>2, TagsOfType, ConfigurationAssumption
<1>13. ActiveListed(c) => ActiveListed(d)
  BY <1>3, <1>9, <1>12 DEF ActiveListed
<1>14. QED
  BY <1>3, <1>5, <1>9, <1>10, <1>11, <1>12, <1>13 DEF d, Sound

\* A tunnel is changed in its place; its tag stays, or becomes one that is new.
LEMMA ReplaceSound ==
  ASSUME NEW c, Sound(c), NEW tag \in TagsOf(c), NEW t \in Tunnel,
         t.tag = tag \/ t.tag \notin TagsOf(c),
         NeedsDomain(t) => t.domain # NoDomain
  PROVE  LET d == Replace(c, tag, t)
         IN  /\ Sound(d) /\ TagsOf(d) = (TagsOf(c) \ {tag}) \cup {t.tag}
             /\ d.active = c.active /\ d.default = c.default /\ d.tunnels # <<>>
<1> DEFINE d == Replace(c, tag, t)
           k == IndexOf(c, tag)
           n == Len(c.tunnels)
<1>1. /\ c \in Config /\ n \in Nat /\ k \in 1..n /\ DOMAIN c.tunnels = 1..n
      /\ \A i \in 1..n : c.tunnels[i].tag = tag <=> i = k
  BY ConfigFields, IndexOfFound DEF Sound, UniqueTags
<1>2. /\ [c.tunnels EXCEPT ![k] = t] \in Seq(Tunnel)
      /\ Len([c.tunnels EXCEPT ![k] = t]) = n
      /\ \A i \in 1..n : [c.tunnels EXCEPT ![k] = t][i] = IF i = k THEN t ELSE c.tunnels[i]
  BY <1>1, ConfigFields, ExceptSeq
<1>3. d = [c EXCEPT !.tunnels = [c.tunnels EXCEPT ![k] = t]]
  BY DEF Replace
<1>4. /\ d \in Config /\ d.active = c.active /\ d.default = c.default
      /\ d.tunnels = [c.tunnels EXCEPT ![k] = t]
  BY <1>1, <1>2, <1>3 DEF Config
<1>5. DOMAIN d.tunnels = 1..n /\ \A i \in 1..n : d.tunnels[i] = IF i = k THEN t ELSE c.tunnels[i]
  BY <1>2, <1>4, LenProperties
<1> HIDE DEF d, k, n
<1>6. TagsOf(d) = (TagsOf(c) \ {tag}) \cup {t.tag}
  BY <1>1, <1>5 DEF TagsOf
<1>7. \A i \in 1..n : i # k => d.tunnels[i].tag # t.tag
  BY <1>1, <1>5 DEF TagsOf
<1>8. UniqueTags(d)
  BY <1>1, <1>5, <1>7 DEF UniqueTags, Sound
<1>9. Domained(d)
  BY <1>1, <1>5 DEF Domained, Sound
<1>10. d.tunnels # <<>>
  BY <1>1, <1>5
<1>11. QED
  BY <1>4, <1>6, <1>8, <1>9, <1>10 DEF d, Sound

\* handleTunnelEdit's rename: the tag changes everywhere, Active follows.
LEMMA RenameSound ==
  ASSUME NEW c, Sound(c), NEW tag \in TagsOf(c), NEW newTag \in Tags, newTag \notin TagsOf(c)
  PROVE  LET d == Rename(c, tag, newTag)
         IN  /\ Sound(d) /\ TagsOf(d) = (TagsOf(c) \ {tag}) \cup {newTag}
             /\ ActiveListed(c) => ActiveListed(d)
             /\ d.active = NoTag => c.active = NoTag
             /\ d.tunnels # <<>> /\ c.tunnels # <<>>
<1> DEFINE t == GetTunnel(c, tag)
           moved == [t EXCEPT !.tag = newTag, !.keyDir = IF HasKeyPair(t) THEN newTag ELSE @]
           r == Replace(c, tag, moved)
           d == Rename(c, tag, newTag)
<1>1. c \in Config /\ t \in Tunnel /\ (NeedsDomain(t) => t.domain # NoDomain)
  <2>1. c \in Config /\ t \in Tunnel
    BY GetTunnelFound DEF Sound
  <2>2. NeedsDomain(t) => t.domain # NoDomain
    BY <2>1, IndexOfFound DEF Sound, Domained, GetTunnel
  <2>3. QED
    BY <2>1, <2>2
<1>2. moved \in Tunnel /\ moved.tag = newTag /\ moved.domain = t.domain /\ moved.transport = t.transport
  BY <1>1 DEF Tunnel
<1>3. NeedsDomain(moved) => moved.domain # NoDomain
  BY <1>1, <1>2 DEF NeedsDomain, IsDirectTransport
<1> HIDE DEF moved
<1>4. /\ Sound(r) /\ TagsOf(r) = (TagsOf(c) \ {tag}) \cup {newTag}
      /\ r.active = c.active /\ r.default = c.default /\ r.tunnels # <<>>
  BY <1>2, <1>3, ReplaceSound
<1>5. d = [r EXCEPT !.active  = IF @ = tag THEN newTag ELSE @,
                    !.default = IF @ = tag THEN newTag ELSE @]
  BY DEF Rename, moved
<1> HIDE DEF r, d, t
<1>6. d \in Config /\ d.tunnels = r.tunnels /\ d.active = IF r.active = tag THEN newTag ELSE r.active
  BY <1>4, <1>5 DEF Sound, Config
<1>7. Sound(d) /\ TagsOf(d) = (TagsOf(c) \ {tag}) \cup {newTag} /\ d.tunnels # <<>>
  BY <1>4, <1>6, SameTunnels
<1>8. c.tunnels # <<>>
  BY <1>1, ConfigFields DEF TagsOf
<1>9. newTag # NoTag
  BY ConfigurationAssumption
<1>10. QED
  BY <1>4, <1>6, <1>7, <1>8, <1>9 DEF d, ActiveListed

\* handleSystemMTU changes no tag; it changes something only if some tunnel has
\* a key pair.
LEMMA WithMTUSound ==
  ASSUME NEW c, Sound(c), NEW mtu \in Mtus
  PROVE  LET d == WithMTU(c, mtu)
         IN  /\ Sound(d) /\ TagsOf(d) = TagsOf(c) /\ d.active = c.active
             /\ d.tunnels = <<>> => c.tunnels = <<>>
             /\ d # c => \E i \in DOMAIN c.tunnels : HasKeyPair(c.tunnels[i])
<1> DEFINE new == [i \in DOMAIN c.tunnels |->
                     IF HasKeyPair(c.tunnels[i]) THEN [c.tunnels[i] EXCEPT !.mtu = mtu]
                                                 ELSE c.tunnels[i]]
           d == WithMTU(c, mtu)
           n == Len(c.tunnels)
<1>1. /\ c \in Config /\ n \in Nat /\ DOMAIN c.tunnels = 1..n /\ c.tunnels \in Seq(Tunnel)
      /\ \A i \in 1..n : c.tunnels[i] \in Tunnel
  BY ConfigFields DEF Sound
<1>2. \A i \in 1..n : /\ new[i] \in Tunnel /\ new[i].tag = c.tunnels[i].tag
                      /\ new[i].domain = c.tunnels[i].domain
                      /\ new[i].transport = c.tunnels[i].transport
  BY <1>1 DEF Tunnel
<1>3. new \in Seq(Tunnel) /\ DOMAIN new = 1..n
  <2> HIDE DEF n
  <2>1. new \in [1..n -> Tunnel]
    BY <1>1, <1>2
  <2> HIDE DEF new
  <2>2. QED
    BY <1>1, <2>1, SeqDef
<1>4. d = [c EXCEPT !.tunnels = new]
  BY DEF WithMTU
<1> HIDE DEF new, d, n
<1>5. d \in Config /\ d.tunnels = new /\ d.active = c.active
  BY <1>1, <1>3, <1>4 DEF Config
<1>6. TagsOf(d) = TagsOf(c) /\ UniqueTags(d)
  BY <1>1, <1>2, <1>3, <1>5 DEF TagsOf, UniqueTags, Sound
<1>7. Domained(d)
  BY <1>1, <1>2, <1>3, <1>5 DEF Domained, Sound, NeedsDomain, IsDirectTransport
<1>8. d.tunnels = <<>> => c.tunnels = <<>>
  BY <1>1, <1>3, <1>5
<1>9. d # c => \E i \in DOMAIN c.tunnels : HasKeyPair(c.tunnels[i])
  <2>1. SUFFICES ASSUME \A i \in DOMAIN c.tunnels : ~HasKeyPair(c.tunnels[i])  PROVE d = c
    OBVIOUS
  <2>2. new = c.tunnels
    BY <1>1, <2>1 DEF new
  <2>3. QED
    BY <1>1, <1>4, <2>2 DEF Config
<1>10. QED
  BY <1>5, <1>6, <1>7, <1>8, <1>9 DEF d, Sound

===============================================================================

---------------------------- MODULE RekeyProofs ----------------------------
(***************************************************************************)
(* Proofs about key re-exchange, for any number of packets and exchanges.  *)
(*                                                                         *)
(* A peer is in one of four phases; the number of the key it reads under   *)
(* says in which exchange.  Every packet of an exchange has a rank, and a  *)
(* phase determines the last rank sent (Sent) and the last one read        *)
(* (Seen).  What is on the wire from p to q is exactly what lies between   *)
(* Seen of q and Sent of p, in order of rank, with the packets of the      *)
(* channels in their place (OnWire).  So the phases of the two peers are   *)
(* never listed in pairs: which pairs are possible follows from the wires. *)
(***************************************************************************)
EXTENDS Rekey, SequenceTheorems, TLAPS

Fields == {"server", "ext_info_c", "rekeying", "done", "init_sent", "dispatch", "in", "out",
           "new_in", "new_out", "p_send", "p_read", "my", "peer", "outgoing", "wire", "apps",
           "got", "err"}
KexTypes == {"kexinit", "init", "reply", "newkeys"}
PacketSet == [type : Types, key : Nat \X Nat, val : Nat \cup (Nat \X Nat)]

(* The queue of packets that wait for the end of an exchange. *)
Entries == {"data"} \X Nat
Waiting == Seq(Entries)

(* The key of exchange number n: both peers count alike. *)
Key(n) == <<n, n>>

-----------------------------------------------------------------------------
(* The phases of a peer that reads under key n. *)

Expects(t, k, i, r, n) ==
    /\ t.dispatch = [m \in KexTypes |-> t.dispatch[m]]
    /\ t.dispatch["kexinit"] = k /\ t.dispatch["init"] = i
    /\ t.dispatch["reply"] = r /\ t.dispatch["newkeys"] = n

(* No exchange is going on. *)
Idle(t, n) ==
    /\ t.done = TRUE /\ t.rekeying = FALSE /\ t.init_sent = FALSE /\ t.peer = << >>
    /\ t.my = n /\ t.in = Key(n) /\ t.out = Key(n)
    /\ t.new_in = NoKey /\ t.new_out = NoKey
    /\ Expects(t, "handler", "error", "error", "error")

(* KEXINIT is sent and the peer's not read. *)
Begun(t, n) ==
    /\ t.done = FALSE /\ t.rekeying = TRUE /\ t.init_sent = TRUE /\ t.peer = << >>
    /\ t.my = n + 1 /\ t.in = Key(n) /\ t.out = Key(n)
    /\ t.new_in = NoKey /\ t.new_out = NoKey
    /\ Expects(t, "handler", "error", "error", "error")

(* Both have been exchanged. *)
Agreed(t, n) ==
    /\ t.done = FALSE /\ t.rekeying = TRUE /\ t.init_sent = TRUE /\ t.peer = << n + 1 >>
    /\ t.my = n + 1 /\ t.in = Key(n) /\ t.out = Key(n)
    /\ t.new_in = Chosen /\ t.new_out = Chosen
    /\ t.server => Expects(t, "null", "handler", "error", "error")
    /\ ~t.server => Expects(t, "null", "error", "handler", "error")

(* NEWKEYS is sent and the peer's not read. *)
Switched(t, n) ==
    /\ t.done = FALSE /\ t.rekeying = FALSE /\ t.init_sent = TRUE /\ t.peer = << n + 1 >>
    /\ t.my = n + 1 /\ t.in = Key(n) /\ t.out = Key(n + 1)
    /\ t.new_in = Key(n + 1) /\ t.new_out = NoKey
    /\ Expects(t, "error", "error", "error", "handler")

Phase(t, n) == Idle(t, n) \/ Begun(t, n) \/ Agreed(t, n) \/ Switched(t, n)

(* The rest of a peer's memory. *)
Memory(p, t) ==
    /\ t = [f \in Fields |-> t[f]]
    /\ t.server = (p = "server") /\ t.ext_info_c = (p = "server") /\ t.err = "none"
    /\ t.p_send \in BOOLEAN /\ t.p_read \in BOOLEAN
    /\ t.my \in 1 .. MaxRounds /\ t.apps \in Nat
    /\ t.outgoing \in Waiting /\ t.got \in Seq(Nat)

(* Nothing waits but for the end of an exchange. *)
Flushed(t) == ~t.rekeying => t.outgoing = << >>

Peer(p, t) == Memory(p, t) /\ Flushed(t) /\ \E n \in 1 .. MaxRounds : Phase(t, n)

-----------------------------------------------------------------------------
(* The order of packets.  Those under key n come in this order: packets of *)
(* the channels, KEXINIT, INIT or REPLY, NEWKEYS.  UNIMPLEMENTED has no    *)
(* place of its own.                                                       *)

Place(m) == CASE m \in {"data", "ext_info"} -> 1
              [] m = "kexinit" -> 2
              [] m \in {"init", "reply"} -> 3
              [] m = "newkeys" -> 4
              [] OTHER -> 0

Kind(p, c) == CASE c = 2 -> "kexinit"
                [] c = 3 -> (IF p = "server" THEN "reply" ELSE "init")
                [] OTHER -> "newkeys"

No(x) == x.key[1]
Rank(x) == 4 * No(x) + Place(x.type)

(* The ranks of the last message of an exchange sent, and read. *)
Sent(t) == IF t.done THEN 4 * t.in[1]
           ELSE IF ~t.rekeying THEN 4 * t.in[1] + 4
           ELSE IF t.peer = << >> \/ t.server THEN 4 * t.in[1] + 2
           ELSE 4 * t.in[1] + 3
Seen(t) == IF t.peer = << >> THEN 4 * t.in[1]
           ELSE IF t.rekeying THEN 4 * t.in[1] + 2
           ELSE 4 * t.in[1] + 3

IsPacket(p, x) ==
    /\ x \in PacketSet /\ x.key = Key(No(x))
    /\ x.type \in {"init", "reply"} => x.type = Kind(p, 3)
    /\ x.type = "data" => x.val \in Nat
    /\ x.type = "kexinit" => x.val = No(x) + 1
    /\ x.type = "reply" => x.val = Key(No(x) + 1)

(* Packet y may be on the wire behind x. *)
Follows(x, y) ==
    /\ No(x) <= No(y)
    /\ No(x) = No(y) =>
         /\ x.type # "newkeys"
         /\ Place(x.type) # 0 /\ Place(y.type) # 0 =>
              Place(x.type) < Place(y.type) \/ (Place(x.type) = 1 /\ Place(y.type) = 1)

(* The packet lies between ranks a and b; the channels' may follow b. *)
Within(x, a, b) ==
    /\ a < 4 * No(x) + 4 /\ 4 * No(x) <= b
    /\ Place(x.type) = 1 => a < Rank(x) /\ Rank(x) <= b + 1
    /\ Place(x.type) > 1 => a < Rank(x) /\ Rank(x) <= b

(* Of p's packets, w holds those behind rank a up to rank b. *)
OnWire(p, w, a, b) ==
    /\ a <= b /\ w \in Seq(PacketSet)
    /\ \A i \in 1 .. Len(w) : IsPacket(p, w[i]) /\ Within(w[i], a, b)
    /\ \A i, j \in 1 .. Len(w) : i < j => Follows(w[i], w[j])
    /\ \A n \in 0 .. b, c \in 2 .. 4 : a < 4 * n + c /\ 4 * n + c <= b =>
         \E i \in 1 .. Len(w) : No(w[i]) = n /\ w[i].type = Kind(p, c)

(* p's packets, for another peer that has seen a and read g. *)
Flow(p, t, a, g) ==
    OnWire(p, t.wire, a, Sent(t)) /\ InOrder(g, t.wire, t.outgoing, t.apps)

Inv ==
    /\ st = [p \in Peers |-> st[p]]
    /\ \A p \in Peers : Peer(p, st[p]) /\ Flow(p, st[p], Seen(st[Other(p)]), st[Other(p)].got)

-----------------------------------------------------------------------------
(* Ranks. *)

LEMMA Places ==
    /\ Place("data") = 1 /\ Place("ext_info") = 1 /\ Place("kexinit") = 2
    /\ Place("init") = 3 /\ Place("reply") = 3 /\ Place("newkeys") = 4
    /\ Place("unimplemented") = 0
  BY DEF Place

LEMMA PlaceOf ==
    ASSUME NEW p \in Peers, NEW x, IsPacket(p, x)
    PROVE  /\ Place(x.type) \in 0 .. 4 /\ No(x) \in Nat /\ Rank(x) \in Nat
           /\ Place(x.type) = 0 <=> x.type = "unimplemented"
           /\ Place(x.type) = 1 <=> x.type \in {"data", "ext_info"}
           /\ Place(x.type) = 2 <=> x.type = "kexinit"
           /\ Place(x.type) = 3 <=> x.type \in {"init", "reply"}
           /\ Place(x.type) = 4 <=> x.type = "newkeys"
           /\ Place(x.type) > 1 => x.type = Kind(p, Place(x.type))
  <1>1. x.type \in Types /\ No(x) \in Nat
    BY DEF IsPacket, PacketSet, No
  <1>2. /\ Place(x.type) \in 0 .. 4
        /\ Place(x.type) = 0 <=> x.type = "unimplemented"
        /\ Place(x.type) = 1 <=> x.type \in {"data", "ext_info"}
        /\ Place(x.type) = 2 <=> x.type = "kexinit"
        /\ Place(x.type) = 3 <=> x.type \in {"init", "reply"}
        /\ Place(x.type) = 4 <=> x.type = "newkeys"
    BY <1>1, Places DEF Types
  <1>3. Rank(x) \in Nat
    BY <1>1, <1>2 DEF Rank
  <1>4. ASSUME Place(x.type) > 1 PROVE x.type = Kind(p, Place(x.type))
    BY <1>2, <1>4 DEF Kind, IsPacket
  <1> QED
    BY <1>1, <1>2, <1>3, <1>4

LEMMA Ranks ==
    ASSUME NEW t, NEW n \in Nat, t.server \in BOOLEAN
    PROVE  /\ Idle(t, n) => Sent(t) = 4 * n /\ Seen(t) = 4 * n
           /\ Begun(t, n) => Sent(t) = 4 * n + 2 /\ Seen(t) = 4 * n
           /\ Agreed(t, n) => Seen(t) = 4 * n + 2
           /\ Agreed(t, n) /\ t.server => Sent(t) = 4 * n + 2
           /\ Agreed(t, n) /\ ~t.server => Sent(t) = 4 * n + 3
           /\ Switched(t, n) => Sent(t) = 4 * n + 4 /\ Seen(t) = 4 * n + 3
  <1>1. Key(n)[1] = n
    BY DEF Key
  <1>2. << n + 1 >> # << >>
    OBVIOUS
  <1> QED
    BY <1>1, <1>2 DEF Idle, Begun, Agreed, Switched, Sent, Seen

LEMMA RankTypes ==
    ASSUME NEW p \in Peers, NEW t, Peer(p, t)
    PROVE  Sent(t) \in Nat /\ Seen(t) \in Nat
  <1>1. t.server \in BOOLEAN
    BY DEF Peer, Memory
  <1>2. PICK n \in 1 .. MaxRounds : Phase(t, n)
    BY DEF Peer
  <1>3. n \in Nat
    BY BoundAssumption
  <1> QED
    BY <1>1, <1>2, <1>3, Ranks DEF Phase

-----------------------------------------------------------------------------
(* What sending does to a wire. *)

LEMMA Behind ==
    ASSUME NEW p \in Peers, NEW a \in Nat, NEW b \in Nat, NEW x, NEW y,
           IsPacket(p, x), Within(x, a, b), IsPacket(p, y),
           4 * No(y) <= b, b < Rank(y) \/ (b < 4 * No(y) + 4 /\ Place(y.type) = 0)
                                       \/ (b = 4 * No(y) /\ Place(y.type) = 1)
    PROVE  Follows(x, y)
  <1>1. /\ No(x) \in Nat /\ No(y) \in Nat /\ Place(x.type) \in 0 .. 4 /\ Place(y.type) \in 0 .. 4
        /\ x.type = "newkeys" => Place(x.type) = 4
    BY PlaceOf
  <1>2. PICK n, m, c, d : n = No(x) /\ m = No(y) /\ c = Place(x.type) /\ d = Place(y.type)
    OBVIOUS
  <1>3. /\ n \in Nat /\ m \in Nat /\ c \in 0 .. 4 /\ d \in 0 .. 4
        /\ 4 * n <= b /\ (c > 1 => 4 * n + c <= b)
        /\ 4 * m <= b
        /\ b < 4 * m + d \/ (b < 4 * m + 4 /\ d = 0) \/ (b = 4 * m /\ d = 1)
    BY <1>1, <1>2 DEF Within, Rank
  <1>4. /\ n <= m
        /\ n = m => c # 4 /\ (c # 0 /\ d # 0 => c < d \/ (c = 1 /\ d = 1))
    BY <1>3
  <1> QED
    BY <1>1, <1>2, <1>4 DEF Follows

LEMMA WireKex ==
    ASSUME NEW p \in Peers, NEW w, NEW a \in Nat, NEW b \in Nat, OnWire(p, w, a, b),
           NEW x, IsPacket(p, x), Place(x.type) > 1, 4 * No(x) <= b, b < Rank(x),
           \A n \in Nat, c \in 2 .. 4 : b < 4 * n + c => Rank(x) <= 4 * n + c
    PROVE  OnWire(p, Append(w, x), a, Rank(x))
  <1>1. /\ w \in Seq(PacketSet) /\ x \in PacketSet /\ a <= b
        /\ Rank(x) \in Nat /\ No(x) \in Nat /\ Place(x.type) \in 0 .. 4
        /\ x.type = Kind(p, Place(x.type))
    BY PlaceOf DEF OnWire, IsPacket
  <1> DEFINE v == Append(w, x)
  <1>2. /\ v \in Seq(PacketSet) /\ Len(v) = Len(w) + 1 /\ Len(w) \in Nat
        /\ v[Len(w) + 1] = x /\ \A i \in 1 .. Len(w) : v[i] = w[i]
    BY <1>1, AppendProperties, LenProperties
  <1>3. a <= Rank(x) /\ Within(x, a, Rank(x))
    BY <1>1 DEF Within, Rank
  <1>4. \A i \in 1 .. Len(w) : Within(w[i], a, Rank(x))
    <2>1. SUFFICES ASSUME NEW i \in 1 .. Len(w) PROVE Within(w[i], a, Rank(x))
      OBVIOUS
    <2>2. IsPacket(p, w[i]) /\ Within(w[i], a, b)
      BY <2>1 DEF OnWire
    <2>3. No(w[i]) \in Nat /\ Rank(w[i]) \in Nat
      BY <2>2, PlaceOf
    <2> QED
      BY <1>1, <2>2, <2>3 DEF Within
  <1>5. \A i \in 1 .. Len(v) : IsPacket(p, v[i]) /\ Within(v[i], a, Rank(x))
    BY <1>2, <1>3, <1>4 DEF OnWire
  <1>6. \A i \in 1 .. Len(w) : Follows(w[i], x)
    <2>1. SUFFICES ASSUME NEW i \in 1 .. Len(w) PROVE Follows(w[i], x)
      OBVIOUS
    <2>2. IsPacket(p, w[i]) /\ Within(w[i], a, b)
      BY <2>1 DEF OnWire
    <2> QED
      BY <2>2, Behind
  <1>7. \A i, j \in 1 .. Len(v) : i < j => Follows(v[i], v[j])
    BY <1>2, <1>6, SMTT(30) DEF OnWire
  <1>8. ASSUME NEW n \in 0 .. Rank(x), NEW c \in 2 .. 4, a < 4 * n + c, 4 * n + c <= Rank(x)
        PROVE  \E i \in 1 .. Len(v) : No(v[i]) = n /\ v[i].type = Kind(p, c)
    <2>1. CASE 4 * n + c <= b
      <3>1. n \in 0 .. b
        BY <1>8, <2>1
      <3>2. PICK i \in 1 .. Len(w) : No(w[i]) = n /\ w[i].type = Kind(p, c)
        BY <1>8, <2>1, <3>1 DEF OnWire
      <3> QED
        BY <1>2, <3>2
    <2>2. CASE b < 4 * n + c
      <3>1. Rank(x) = 4 * n + c
        BY <1>1, <1>8, <2>2
      <3>2. No(x) = n /\ Place(x.type) = c
        BY <1>1, <1>8, <3>1, SMTT(30) DEF Rank
      <3> QED
        BY <1>1, <1>2, <3>2
    <2> QED
      BY <2>1, <2>2
  <1> HIDE DEF v
  <1>9. OnWire(p, v, a, Rank(x))
    BY <1>2, <1>3, <1>5, <1>7, <1>8 DEF OnWire
  <1> QED
    BY <1>9 DEF v

LEMMA Joined ==
    ASSUME NEW w \in Seq(PacketSet), NEW s \in Seq(PacketSet)
    PROVE  /\ w \o s \in Seq(PacketSet) /\ Len(w \o s) = Len(w) + Len(s)
           /\ Len(w) \in Nat /\ Len(s) \in Nat
           /\ \A i \in 1 .. Len(w) : (w \o s)[i] = w[i]
           /\ \A i \in (Len(w) + 1) .. Len(w \o s) :
                (w \o s)[i] = s[i - Len(w)] /\ i - Len(w) \in 1 .. Len(s)
  BY ConcatProperties, LenProperties

LEMMA WireOther ==
    ASSUME NEW p \in Peers, NEW w, NEW a \in Nat, NEW b \in Nat, OnWire(p, w, a, b),
           NEW s \in Seq(PacketSet), NEW n \in Nat, 4 * n <= b, b < 4 * n + 4,
           \A i \in 1 .. Len(s) : /\ IsPacket(p, s[i]) /\ No(s[i]) = n
                                  /\ Place(s[i].type) = 0 \/ (Place(s[i].type) = 1 /\ b = 4 * n)
    PROVE  OnWire(p, w \o s, a, b)
  <1> DEFINE v == w \o s
  <1>1. w \in Seq(PacketSet) /\ a <= b
    BY DEF OnWire
  <1>2. /\ v \in Seq(PacketSet) /\ Len(v) = Len(w) + Len(s) /\ Len(w) \in Nat /\ Len(s) \in Nat
        /\ \A i \in 1 .. Len(w) : v[i] = w[i]
        /\ \A i \in (Len(w) + 1) .. Len(v) : v[i] = s[i - Len(w)] /\ i - Len(w) \in 1 .. Len(s)
    BY <1>1, Joined
  <1>3. \A i \in 1 .. Len(s) : Within(s[i], a, b)
    BY <1>1, PlaceOf, SMTT(30) DEF Within, Rank
  <1>4. \A i \in 1 .. Len(v) : i \in 1 .. Len(w) \/ i \in (Len(w) + 1) .. Len(v)
    BY <1>2
  <1>5. \A i \in 1 .. Len(v) : IsPacket(p, v[i]) /\ Within(v[i], a, b)
    BY <1>2, <1>3, <1>4 DEF OnWire
  <1>6. \A i \in 1 .. Len(w), j \in 1 .. Len(s) : Follows(w[i], s[j])
    <2>1. SUFFICES ASSUME NEW i \in 1 .. Len(w), NEW j \in 1 .. Len(s) PROVE Follows(w[i], s[j])
      OBVIOUS
    <2>2. IsPacket(p, w[i]) /\ Within(w[i], a, b) /\ IsPacket(p, s[j])
      BY <2>1 DEF OnWire
    <2>3. /\ 4 * No(s[j]) <= b
          /\ \/ b < 4 * No(s[j]) + 4 /\ Place(s[j].type) = 0
             \/ b = 4 * No(s[j]) /\ Place(s[j].type) = 1
      OBVIOUS
    <2> QED
      BY <2>2, <2>3, Behind
  <1>7. \A i, j \in 1 .. Len(s) : i < j => Follows(s[i], s[j])
    BY Places DEF Follows
  <1>8. \A i, j \in 1 .. Len(v) : i < j => Follows(v[i], v[j])
    <2>1. SUFFICES ASSUME NEW i \in 1 .. Len(v), NEW j \in 1 .. Len(v), i < j
                   PROVE  Follows(v[i], v[j])
      OBVIOUS
    <2>2. CASE j \in 1 .. Len(w)
      BY <1>2, <2>1, <2>2 DEF OnWire
    <2>3. CASE i \in 1 .. Len(w) /\ j \in (Len(w) + 1) .. Len(v)
      BY <1>2, <1>6, <2>3
    <2>4. CASE i \in (Len(w) + 1) .. Len(v) /\ j \in (Len(w) + 1) .. Len(v)
      BY <1>2, <1>7, <2>1, <2>4, SMTT(30)
    <2> QED
      BY <1>2, <1>4, <2>1, <2>2, <2>3, <2>4
  <1>9. ASSUME NEW k \in 0 .. b, NEW c \in 2 .. 4, a < 4 * k + c, 4 * k + c <= b
        PROVE  \E i \in 1 .. Len(v) : No(v[i]) = k /\ v[i].type = Kind(p, c)
    <2>1. PICK i \in 1 .. Len(w) : No(w[i]) = k /\ w[i].type = Kind(p, c)
      BY <1>9 DEF OnWire
    <2> QED
      BY <1>2, <2>1, SMTT(30)
  <1> HIDE DEF v
  <1>10. OnWire(p, v, a, b)
    BY <1>1, <1>2, <1>5, <1>8, <1>9 DEF OnWire
  <1> QED
    BY <1>10 DEF v

-----------------------------------------------------------------------------
(* What reading finds, and what it leaves. *)

(* The packet read is under the key in use, and if it is one of the        *)
(* exchange, it is the next one.                                           *)
LEMMA WireHead ==
    ASSUME NEW p \in Peers, NEW w, NEW a \in Nat, NEW b \in Nat, OnWire(p, w, a, b), w # << >>,
           NEW n \in Nat, 4 * n <= a, a < 4 * n + 4
    PROVE  /\ Len(w) >= 1 /\ IsPacket(p, w[1]) /\ No(w[1]) = n /\ w[1].key = Key(n)
           /\ Place(w[1].type) = 1 => a < Rank(w[1])
           /\ Place(w[1].type) > 1 =>
                /\ a < Rank(w[1]) /\ Rank(w[1]) <= b
                /\ \A c \in 2 .. 4 : a < 4 * n + c => Place(w[1].type) <= c
  <1>1. w \in Seq(PacketSet) /\ Len(w) \in Nat /\ Len(w) >= 1 /\ 1 \in 1 .. Len(w)
    BY LenProperties, EmptySeq DEF OnWire
  <1>2. PICK x : x = w[1]
    OBVIOUS
  <1>3. IsPacket(p, x) /\ Within(x, a, b)
    BY <1>1, <1>2 DEF OnWire
  <1>4. /\ No(x) \in Nat /\ Place(x.type) \in 0 .. 4 /\ x.key = Key(No(x))
        /\ Rank(x) = 4 * No(x) + Place(x.type)
    BY <1>3, PlaceOf DEF IsPacket, Rank
  <1>5. \A i \in 1 .. Len(w) : i # 1 => Follows(x, w[i])
    BY <1>1, <1>2 DEF OnWire
  <1>6. No(x) >= n
    BY <1>3, <1>4 DEF Within
  <1>7. No(x) = n
    <2>1. SUFFICES ASSUME No(x) > n PROVE FALSE
      BY <1>4, <1>6
    <2>2. a < 4 * n + 4 /\ 4 * n + 4 <= b /\ n \in 0 .. b /\ 4 \in 2 .. 4
      BY <1>3, <1>4, <2>1 DEF Within
    <2>3. PICK i \in 1 .. Len(w) : No(w[i]) = n /\ w[i].type = Kind(p, 4)
      BY <2>2 DEF OnWire
    <2>4. i # 1
      BY <1>2, <1>4, <2>1, <2>3
    <2> QED
      BY <1>4, <1>5, <2>1, <2>3, <2>4 DEF Follows
  <1>8. ASSUME Place(x.type) > 1, NEW c \in 2 .. 4, a < 4 * n + c
        PROVE  Place(x.type) <= c
    <2>1. SUFFICES ASSUME Place(x.type) > c PROVE FALSE
      BY <1>4
    <2>2. 4 * n + c <= b /\ n \in 0 .. b
      BY <1>3, <1>4, <1>7, <1>8, <2>1 DEF Within
    <2>3. PICK i \in 1 .. Len(w) : No(w[i]) = n /\ w[i].type = Kind(p, c)
      BY <1>8, <2>2 DEF OnWire
    <2>4. Place(Kind(p, c)) = c
      BY Places DEF Kind
    <2>5. i # 1
      BY <1>2, <2>1, <2>3, <2>4
    <2> QED
      BY <1>4, <1>5, <1>7, <1>8, <2>1, <2>3, <2>4, <2>5, SMTT(30) DEF Follows
  <1> QED
    BY <1>1, <1>2, <1>3, <1>4, <1>7, <1>8 DEF Within

LEMMA WireTail ==
    ASSUME NEW p \in Peers, NEW w, NEW a \in Nat, NEW b \in Nat, OnWire(p, w, a, b), w # << >>
    PROVE  /\ Place(w[1].type) > 1 => OnWire(p, Tail(w), Rank(w[1]), b)
           /\ Place(w[1].type) <= 1 => OnWire(p, Tail(w), a, b)
  <1>1. w \in Seq(PacketSet) /\ Len(w) \in Nat /\ Len(w) >= 1 /\ 1 \in 1 .. Len(w)
    BY LenProperties, EmptySeq DEF OnWire
  <1>2. PICK x, v : x = w[1] /\ v = Tail(w)
    OBVIOUS
  <1>3. /\ v \in Seq(PacketSet) /\ Len(v) = Len(w) - 1
        /\ \A i \in 1 .. Len(v) : v[i] = w[i + 1] /\ i + 1 \in 1 .. Len(w)
    BY <1>1, <1>2, HeadTailProperties
  <1>4. IsPacket(p, x) /\ Within(x, a, b)
    BY <1>1, <1>2 DEF OnWire
  <1>5. /\ No(x) \in Nat /\ Place(x.type) \in 0 .. 4
        /\ Rank(x) = 4 * No(x) + Place(x.type) /\ Rank(x) \in Nat
        /\ Place(x.type) > 1 => x.type = Kind(p, Place(x.type))
    BY <1>4, PlaceOf DEF Rank
  <1>6. \A i \in 1 .. Len(v) : IsPacket(p, v[i]) /\ Within(v[i], a, b) /\ Follows(x, v[i])
    BY <1>1, <1>2, <1>3 DEF OnWire
  <1>7. \A i, j \in 1 .. Len(v) : i < j => Follows(v[i], v[j])
    BY <1>1, <1>3, SMTT(30) DEF OnWire
  <1>8. ASSUME NEW n \in 0 .. b, NEW c \in 2 .. 4, a < 4 * n + c, 4 * n + c <= b,
               ~(No(x) = n /\ x.type = Kind(p, c))
        PROVE  \E i \in 1 .. Len(v) : No(v[i]) = n /\ v[i].type = Kind(p, c)
    <2>1. PICK i \in 1 .. Len(w) : No(w[i]) = n /\ w[i].type = Kind(p, c)
      BY <1>8 DEF OnWire
    <2>2. i # 1
      BY <1>2, <1>8, <2>1
    <2>3. i - 1 \in 1 .. Len(v) /\ v[i - 1] = w[i]
      BY <1>1, <1>3, <2>1, <2>2
    <2> QED
      BY <2>1, <2>3
  <1>9. ASSUME Place(x.type) <= 1
        PROVE  OnWire(p, v, a, b)
    <2>1. ASSUME NEW n \in 0 .. b, NEW c \in 2 .. 4, a < 4 * n + c, 4 * n + c <= b
          PROVE  \E i \in 1 .. Len(v) : No(v[i]) = n /\ v[i].type = Kind(p, c)
      <3>1. Place(Kind(p, c)) = c
        BY Places DEF Kind
      <3>2. x.type # Kind(p, c)
        BY <1>5, <1>9, <3>1
      <3> QED
        BY <1>8, <2>1, <3>2
    <2>2. a <= b
      BY DEF OnWire
    <2> QED
      BY <1>3, <1>6, <1>7, <2>1, <2>2 DEF OnWire
  <1>10. ASSUME Place(x.type) > 1
         PROVE  OnWire(p, v, Rank(x), b)
    <2>1. a < Rank(x) /\ Rank(x) <= b
      BY <1>4, <1>5, <1>10 DEF Within
    <2>2. ASSUME NEW i \in 1 .. Len(v)
          PROVE  Within(v[i], Rank(x), b)
      <3>1. PICK y : y = v[i]
        OBVIOUS
      <3>2. IsPacket(p, y) /\ Within(y, a, b) /\ Follows(x, y)
        BY <1>6, <2>2, <3>1
      <3>3. No(y) \in Nat /\ Place(y.type) \in 0 .. 4
        BY <3>2, PlaceOf
      <3>4. Place(x.type) = 4 => x.type = "newkeys"
        BY <1>4, PlaceOf
      <3>5. PICK n, m, c, d : n = No(x) /\ m = No(y) /\ c = Place(x.type) /\ d = Place(y.type)
        OBVIOUS
      <3>6. /\ n \in Nat /\ m \in Nat /\ c \in 2 .. 4 /\ d \in 0 .. 4
            /\ n <= m /\ 4 * m <= b /\ Rank(x) = 4 * n + c
            /\ n = m => c # 4 /\ (d # 0 => c < d)
            /\ d = 1 => 4 * m + d <= b + 1
            /\ d > 1 => 4 * m + d <= b
        BY <1>5, <1>10, <3>2, <3>3, <3>4, <3>5 DEF Within, Follows, Rank
      <3>7. /\ 4 * n + c < 4 * m + 4
            /\ d # 0 => 4 * n + c < 4 * m + d
        BY <3>6
      <3>8. /\ Rank(x) < 4 * m + 4 /\ 4 * m <= b /\ Rank(y) = 4 * m + d
            /\ d # 0 => Rank(x) < 4 * m + d
        BY <3>5, <3>6, <3>7 DEF Rank
      <3>9. /\ Rank(x) < 4 * m + 4 /\ 4 * m <= b
            /\ d = 1 => Rank(x) < Rank(y) /\ Rank(y) <= b + 1
            /\ d > 1 => Rank(x) < Rank(y) /\ Rank(y) <= b
        BY <3>6, <3>8
      <3>10. Within(y, Rank(x), b)
        BY <3>5, <3>9 DEF Within
      <3> QED
        BY <3>1, <3>10
    <2>3. ASSUME NEW n \in 0 .. b, NEW c \in 2 .. 4, Rank(x) < 4 * n + c, 4 * n + c <= b
          PROVE  \E i \in 1 .. Len(v) : No(v[i]) = n /\ v[i].type = Kind(p, c)
      <3>1. Place(Kind(p, c)) = c
        BY Places DEF Kind
      <3>2. ~(No(x) = n /\ x.type = Kind(p, c))
        BY <1>5, <2>3, <3>1
      <3>3. a < 4 * n + c
        BY <1>5, <2>1, <2>3
      <3> QED
        BY <1>8, <2>3, <3>2, <3>3
    <2> QED
      BY <1>3, <1>6, <1>7, <2>1, <2>2, <2>3 DEF OnWire
  <1> QED
    BY <1>2, <1>5, <1>9, <1>10

-----------------------------------------------------------------------------
(* The packets of the channels. *)

LEMMA OrderOther ==
    ASSUME NEW g \in Seq(Nat), NEW w \in Seq(PacketSet), NEW o \in Waiting, NEW n \in Nat,
           InOrder(g, w, o, n), NEW x \in PacketSet, x.type # "data"
    PROVE  InOrder(g, Append(w, x), o, n)
  <1>1. PICK v : v = Append(w, x)
    OBVIOUS
  <1>2. /\ Len(w) \in Nat /\ DOMAIN v = 1 .. (Len(w) + 1) /\ DOMAIN w = 1 .. Len(w)
        /\ v[Len(w) + 1] = x /\ \A i \in 1 .. Len(w) : v[i] = w[i]
    BY <1>1, AppendProperties, LenProperties
  <1>3. \A i \in DOMAIN v : IsData(v[i]) => i \in DOMAIN w /\ v[i] = w[i]
    BY <1>2 DEF IsData
  <1>4. \A i \in DOMAIN w : i \in DOMAIN v /\ v[i] = w[i]
    BY <1>2
  <1> QED
    BY <1>1, <1>3, <1>4 DEF InOrder

LEMMA Appended ==
    ASSUME NEW S, NEW s \in Seq(S), NEW e \in S, NEW v, v = Append(s, e)
    PROVE  \E l \in Nat :
             /\ l \in DOMAIN v /\ v[l] = e
             /\ \A i \in DOMAIN s : i \in DOMAIN v /\ v[i] = s[i] /\ i < l
             /\ \A i \in DOMAIN v : i \in DOMAIN s \/ i = l
             /\ \A i, j \in DOMAIN v : j < i => j \in DOMAIN s
  <1>1. /\ Len(s) \in Nat /\ DOMAIN s = 1 .. Len(s) /\ DOMAIN v = 1 .. (Len(s) + 1)
        /\ v[Len(s) + 1] = e /\ \A i \in 1 .. Len(s) : v[i] = s[i]
    BY AppendProperties, LenProperties
  <1>2. PICK l : l = Len(s) + 1
    OBVIOUS
  <1>3. /\ l \in Nat /\ l \in DOMAIN v /\ v[l] = e
        /\ \A i \in DOMAIN s : i \in DOMAIN v /\ v[i] = s[i] /\ i < l
        /\ \A i \in DOMAIN v : i \in DOMAIN s \/ i = l
        /\ \A i, j \in DOMAIN v : j < i => j \in DOMAIN s
    BY <1>1, <1>2
  <1> QED
    BY <1>3

LEMMA OrderData ==
    ASSUME NEW g \in Seq(Nat), NEW w \in Seq(PacketSet), NEW n \in Nat,
           InOrder(g, w, << >>, n), NEW x \in PacketSet, x.type = "data", x.val = n + 1
    PROVE  InOrder(g, Append(w, x), << >>, n + 1)
  <1>1. PICK v : v = Append(w, x)
    OBVIOUS
  <1>2. PICK l \in Nat :
          /\ l \in DOMAIN v /\ v[l] = x
          /\ \A i \in DOMAIN w : i \in DOMAIN v /\ v[i] = w[i] /\ i < l
          /\ \A i \in DOMAIN v : i \in DOMAIN w \/ i = l
          /\ \A i, j \in DOMAIN v : j < i => j \in DOMAIN w
    BY <1>1, Appended, SMTT(30)
  <1>3. Len(g) \in Nat /\ Len(g) <= n
    BY LenProperties DEF InOrder
  <1>4. /\ \A k \in (Len(g) + 1) .. (n + 1) : k \in (Len(g) + 1) .. n \/ k = n + 1
        /\ \A k \in (Len(g) + 1) .. n : k \in (Len(g) + 1) .. (n + 1) /\ k < n + 1
        /\ n + 1 \in (Len(g) + 1) .. (n + 1) /\ Len(g) <= n + 1
    BY <1>3
  <1>5. PICK before, after : before = (Len(g) + 1) .. n /\ after = (Len(g) + 1) .. (n + 1)
    OBVIOUS
  <1>6. /\ \A i \in DOMAIN g : g[i] = i
        /\ \A k \in before : \E i \in DOMAIN w : IsData(w[i]) /\ w[i].val = k
        /\ \A i \in DOMAIN w : IsData(w[i]) => w[i].val \in before
        /\ \A i, j \in DOMAIN w : IsData(w[i]) /\ j < i /\ IsData(w[j]) => w[j].val < w[i].val
    BY <1>5 DEF InOrder
  <1>7. /\ \A k \in after : k \in before \/ k = x.val
        /\ \A k \in before : k \in after /\ k < x.val
        /\ x.val \in after /\ IsData(x)
    BY <1>4, <1>5 DEF IsData
  <1>8. \A k \in after : \E i \in DOMAIN v : IsData(v[i]) /\ v[i].val = k
    BY <1>2, <1>6, <1>7, Zenon
  <1>9. \A i \in DOMAIN v : IsData(v[i]) => v[i].val \in after
    BY <1>2, <1>6, <1>7, Zenon
  <1>10. \A i, j \in DOMAIN v : IsData(v[i]) /\ j < i /\ IsData(v[j]) => v[j].val < v[i].val
    <2>1. SUFFICES ASSUME NEW i \in DOMAIN v, NEW j \in DOMAIN v, IsData(v[i]), j < i, IsData(v[j])
                   PROVE  v[j].val < v[i].val
      OBVIOUS
    <2>2. j \in DOMAIN w /\ v[j] = w[j] /\ w[j].val \in before
      BY <1>2, <1>6, <2>1
    <2>3. CASE i \in DOMAIN w
      BY <1>2, <1>6, <2>1, <2>2, <2>3
    <2>4. CASE i = l
      BY <1>2, <1>7, <2>2, <2>4
    <2> QED
      BY <1>2, <2>3, <2>4
  <1> QED
    BY <1>1, <1>4, <1>5, <1>6, <1>8, <1>9, <1>10, SMTT(30) DEF InOrder

LEMMA Enqueued ==
    ASSUME NEW o \in Seq(Entries), NEW e \in Entries, NEW v, v = Append(o, e)
    PROVE  \E l \in Nat :
             /\ l \in DOMAIN v /\ v[l] = e
             /\ \A i \in DOMAIN o : i \in DOMAIN v /\ v[i] = o[i] /\ i < l
             /\ \A i \in DOMAIN v : i \in DOMAIN o \/ i = l
             /\ \A i, j \in DOMAIN v : j < i => j \in DOMAIN o
  BY Appended

LEMMA OrderQueue ==
    ASSUME NEW g \in Seq(Nat), NEW w \in Seq(PacketSet), NEW o \in Waiting, NEW n \in Nat,
           InOrder(g, w, o, n)
    PROVE  InOrder(g, w, Append(o, <<"data", n + 1>>), n + 1)
  <1>1. PICK e, v : e = <<"data", n + 1>> /\ v = Append(o, e)
    OBVIOUS
  <1>2. o \in Seq(Entries) /\ e \in Entries /\ e[1] = "data" /\ e[2] = n + 1
    BY <1>1 DEF Waiting, Entries
  <1>3. PICK l \in Nat :
          /\ l \in DOMAIN v /\ v[l] = e
          /\ \A i \in DOMAIN o : i \in DOMAIN v /\ v[i] = o[i] /\ i < l
          /\ \A i \in DOMAIN v : i \in DOMAIN o \/ i = l
          /\ \A i, j \in DOMAIN v : j < i => j \in DOMAIN o
    <2>1. o \in Seq(Entries) /\ e \in Entries /\ v = Append(o, e)
      BY <1>1, <1>2
    <2> QED
      BY <2>1, Enqueued
  <1>4. Len(g) \in Nat /\ Len(g) <= n
    BY LenProperties DEF InOrder
  <1>5. PICK before, after : before = (Len(g) + 1) .. n /\ after = (Len(g) + 1) .. (n + 1)
    OBVIOUS
  <1>6. /\ \A k \in after : k \in before \/ k = n + 1
        /\ \A k \in before : k \in after /\ k < n + 1
        /\ n + 1 \in after /\ Len(g) <= n + 1
    BY <1>4, <1>5
  <1>7. /\ \A i \in DOMAIN g : g[i] = i
        /\ \A k \in before : \/ \E i \in DOMAIN w : IsData(w[i]) /\ w[i].val = k
                             \/ \E i \in DOMAIN o : o[i] = <<"data", k>>
        /\ \A i \in DOMAIN w : IsData(w[i]) => w[i].val \in before
        /\ \A i, j \in DOMAIN w : IsData(w[i]) /\ j < i /\ IsData(w[j]) => w[j].val < w[i].val
        /\ \A i \in DOMAIN o : o[i][1] = "data" => o[i][2] \in before
        /\ \A i, j \in DOMAIN o : o[i][1] = "data" /\ j < i /\ o[j][1] = "data" => o[j][2] < o[i][2]
        /\ \A i \in DOMAIN o, j \in DOMAIN w : o[i][1] = "data" /\ IsData(w[j]) => w[j].val < o[i][2]
    BY <1>5 DEF InOrder
  <1>8. \A k \in after : \/ \E i \in DOMAIN w : IsData(w[i]) /\ w[i].val = k
                         \/ \E i \in DOMAIN v : v[i] = <<"data", k>>
    BY <1>1, <1>3, <1>6, <1>7, Zenon
  <1>9. /\ \A i \in DOMAIN w : IsData(w[i]) => w[i].val \in after /\ w[i].val < n + 1
        /\ \A i \in DOMAIN v : v[i][1] = "data" => v[i][2] \in after
    BY <1>2, <1>3, <1>6, <1>7, Zenon
  <1>10. \A i, j \in DOMAIN v : v[i][1] = "data" /\ j < i /\ v[j][1] = "data" => v[j][2] < v[i][2]
    <2>1. SUFFICES ASSUME NEW i \in DOMAIN v, NEW j \in DOMAIN v,
                          v[i][1] = "data", j < i, v[j][1] = "data"
                   PROVE  v[j][2] < v[i][2]
      OBVIOUS
    <2>2. j \in DOMAIN o /\ v[j] = o[j] /\ o[j][2] \in before
      BY <1>3, <1>7, <2>1
    <2>3. CASE i \in DOMAIN o
      BY <1>3, <1>7, <2>1, <2>2, <2>3
    <2>4. CASE i = l
      BY <1>2, <1>3, <1>6, <2>2, <2>4
    <2> QED
      BY <1>3, <2>3, <2>4
  <1>11. \A i \in DOMAIN v, j \in DOMAIN w : v[i][1] = "data" /\ IsData(w[j]) => w[j].val < v[i][2]
    <2>1. SUFFICES ASSUME NEW i \in DOMAIN v, NEW j \in DOMAIN w, v[i][1] = "data", IsData(w[j])
                   PROVE  w[j].val < v[i][2]
      OBVIOUS
    <2>2. CASE i \in DOMAIN o
      BY <1>3, <1>7, <2>1, <2>2
    <2>3. CASE i = l
      BY <1>2, <1>3, <1>9, <2>1, <2>3
    <2> QED
      BY <1>3, <2>2, <2>3
  <1> QED
    BY <1>1, <1>5, <1>6, <1>7, <1>8, <1>9, <1>10, <1>11 DEF InOrder

LEMMA OrderFlush ==
    ASSUME NEW g \in Seq(Nat), NEW w \in Seq(PacketSet), NEW o \in Waiting, NEW n \in Nat,
           InOrder(g, w, o, n), NEW s \in Seq(PacketSet), Len(s) = Len(o),
           \A i \in 1 .. Len(o) : s[i].type = "data" /\ s[i].val = o[i][2]
    PROVE  InOrder(g, w \o s, << >>, n)
  <1>1. PICK v : v = w \o s
    OBVIOUS
  <1>2. /\ o \in Seq(Entries) /\ Len(o) \in Nat /\ Len(w) \in Nat
        /\ DOMAIN o = 1 .. Len(o) /\ DOMAIN w = 1 .. Len(w)
    BY LenProperties DEF Waiting
  <1>3. /\ DOMAIN v = 1 .. (Len(w) + Len(o))
        /\ \A i \in 1 .. Len(w) : v[i] = w[i]
        /\ \A i \in 1 .. Len(o) : v[Len(w) + i] = s[i]
    <2>1. /\ v \in Seq(PacketSet) /\ Len(v) = Len(w) + Len(s)
          /\ \A i \in 1 .. Len(w) : v[i] = w[i]
          /\ \A i \in (Len(w) + 1) .. Len(v) : v[i] = s[i - Len(w)]
      BY <1>1, Joined
    <2>2. DOMAIN v = 1 .. (Len(w) + Len(o))
      BY <2>1, LenProperties
    <2>3. \A i \in 1 .. Len(o) : Len(w) + i \in (Len(w) + 1) .. Len(v) /\ (Len(w) + i) - Len(w) = i
      BY <1>2, <2>1
    <2> QED
      BY <2>1, <2>2, <2>3
  <1>4. \A i \in DOMAIN o : o[i][1] = "data" /\ o[i] = <<"data", o[i][2]>>
    <2>1. \A i \in DOMAIN o : o[i] \in Entries
      BY <1>2, ElementOfSeq
    <2> QED
      BY <2>1 DEF Entries
  <1>5. \A i \in DOMAIN v : i \notin DOMAIN w => i - Len(w) \in DOMAIN o /\ v[i] = s[i - Len(w)]
    BY <1>2, <1>3
  <1>6. \A k \in (Len(g) + 1) .. n : \E i \in DOMAIN v : IsData(v[i]) /\ v[i].val = k
    <2>1. SUFFICES ASSUME NEW k \in (Len(g) + 1) .. n
                   PROVE  \E i \in DOMAIN v : IsData(v[i]) /\ v[i].val = k
      OBVIOUS
    <2>2. CASE \E i \in DOMAIN w : IsData(w[i]) /\ w[i].val = k
      BY <1>2, <1>3, <2>2
    <2>3. CASE \E i \in DOMAIN o : o[i] = <<"data", k>>
      <3>1. PICK i \in DOMAIN o : o[i] = <<"data", k>>
        BY <2>3
      <3>2. Len(w) + i \in DOMAIN v /\ v[Len(w) + i] = s[i] /\ o[i][2] = k
        BY <1>2, <1>3, <3>1
      <3> QED
        BY <1>2, <3>1, <3>2 DEF IsData
    <2> QED
      BY <2>1, <2>2, <2>3 DEF InOrder
  <1>7. \A i \in DOMAIN w : IsData(w[i]) =>
          /\ w[i].val \in (Len(g) + 1) .. n
          /\ \A j \in DOMAIN w : j < i /\ IsData(w[j]) => w[j].val < w[i].val
    BY DEF InOrder
  <1>8. \A i \in DOMAIN o :
          /\ s[i].val \in (Len(g) + 1) .. n
          /\ \A j \in DOMAIN o : j < i => s[j].val < s[i].val
          /\ \A j \in DOMAIN w : IsData(w[j]) => w[j].val < s[i].val
    BY <1>2, <1>4 DEF InOrder
  <1>9. ASSUME NEW i \in DOMAIN v, IsData(v[i])
        PROVE  /\ v[i].val \in (Len(g) + 1) .. n
               /\ \A j \in DOMAIN v : j < i /\ IsData(v[j]) => v[j].val < v[i].val
    <2>1. CASE i \in DOMAIN w
      <3>1. \A j \in DOMAIN v : j < i => j \in DOMAIN w
        BY <1>2, <1>3, <2>1
      <3> QED
        BY <1>2, <1>3, <1>7, <1>9, <2>1, <3>1
    <2>2. CASE i \notin DOMAIN w
      <3>1. PICK m : m = i - Len(w)
        OBVIOUS
      <3>2. m \in DOMAIN o /\ v[i] = s[m]
        BY <1>5, <2>2, <3>1
      <3>3. ASSUME NEW j \in DOMAIN v, j < i, IsData(v[j]) PROVE v[j].val < v[i].val
        <4>1. CASE j \in DOMAIN w
          BY <1>2, <1>3, <1>8, <3>2, <3>3, <4>1
        <4>2. CASE j \notin DOMAIN w
          <5>1. j - Len(w) \in DOMAIN o /\ v[j] = s[j - Len(w)] /\ j - Len(w) < m
            BY <1>2, <1>3, <1>5, <3>1, <3>3, <4>2
          <5> QED
            BY <1>8, <3>2, <5>1
        <4> QED
          BY <4>1, <4>2
      <3> QED
        BY <1>8, <3>2, <3>3
    <2> QED
      BY <2>1, <2>2
  <1>10. Len(g) <= n /\ \A i \in DOMAIN g : g[i] = i
    BY DEF InOrder
  <1>11. DOMAIN << >> = {}
    OBVIOUS
  <1> QED
    BY <1>1, <1>6, <1>9, <1>10, <1>11 DEF InOrder

LEMMA OrderRead ==
    ASSUME NEW g \in Seq(Nat), NEW w \in Seq(PacketSet), NEW o \in Waiting, NEW n \in Nat,
           InOrder(g, w, o, n), w # << >>
    PROVE  /\ w[1].type = "data" =>
                Append(g, w[1].val) \in Seq(Nat) /\ InOrder(Append(g, w[1].val), Tail(w), o, n)
           /\ w[1].type # "data" => InOrder(g, Tail(w), o, n)
  <1>1. Len(g) \in Nat /\ Len(w) \in Nat /\ Len(w) >= 1 /\ DOMAIN w = 1 .. Len(w)
    BY LenProperties, EmptySeq
  <1>2. PICK x, v : x = w[1] /\ v = Tail(w)
    OBVIOUS
  <1>3. /\ v \in Seq(PacketSet) /\ DOMAIN v = 1 .. (Len(w) - 1)
        /\ \A i \in 1 .. (Len(w) - 1) : v[i] = w[i + 1]
    BY <1>1, <1>2, HeadTailProperties, LenProperties
  <1>4. \A i \in DOMAIN v : v[i] = w[i + 1] /\ i + 1 \in DOMAIN w /\ i + 1 > 1
    BY <1>1, <1>3
  <1>5. \A i \in DOMAIN w : i # 1 => i - 1 \in DOMAIN v /\ v[i - 1] = w[i]
    BY <1>1, <1>3
  <1>6. \A i, j \in DOMAIN v : j < i => j + 1 < i + 1
    BY <1>3
  <1>7. \A i \in DOMAIN v : IsData(v[i]) =>
          \A j \in DOMAIN v : j < i /\ IsData(v[j]) => v[j].val < v[i].val
    BY <1>4, <1>6 DEF InOrder
  <1>8. ASSUME x.type # "data" PROVE InOrder(g, v, o, n)
    <2>1. \A k \in (Len(g) + 1) .. n :
            \/ \E i \in DOMAIN v : IsData(v[i]) /\ v[i].val = k
            \/ \E i \in DOMAIN o : o[i] = <<"data", k>>
      BY <1>2, <1>5, <1>8, ZenonT(60) DEF InOrder, IsData
    <2> QED
      BY <1>4, <1>7, <2>1 DEF InOrder
  <1>9. ASSUME x.type = "data"
        PROVE  Append(g, x.val) \in Seq(Nat) /\ InOrder(Append(g, x.val), v, o, n)
    <2>1. IsData(x) /\ x = w[1] /\ 1 \in DOMAIN w
      BY <1>1, <1>2, <1>9 DEF IsData
    <2>2. /\ x.val \in (Len(g) + 1) .. n
          /\ \A i \in DOMAIN w : i > 1 /\ IsData(w[i]) => x.val < w[i].val
          /\ \A i \in DOMAIN o : o[i][1] = "data" => x.val < o[i][2]
      BY <2>1 DEF InOrder
    <2>3. x.val = Len(g) + 1
      <3>1. SUFFICES ASSUME x.val # Len(g) + 1 PROVE FALSE
        OBVIOUS
      <3>2. Len(g) + 1 \in (Len(g) + 1) .. n /\ Len(g) + 1 < x.val
        BY <1>1, <2>2, <3>1
      <3>3. CASE \E i \in DOMAIN w : IsData(w[i]) /\ w[i].val = Len(g) + 1
        <4>1. PICK i \in DOMAIN w : IsData(w[i]) /\ w[i].val = Len(g) + 1
          BY <3>3
        <4>2. i > 1
          BY <1>1, <2>1, <3>1, <4>1
        <4> QED
          BY <1>1, <2>2, <3>2, <4>1, <4>2
      <3>4. CASE \E i \in DOMAIN o : o[i] = <<"data", Len(g) + 1>>
        <4>1. PICK i \in DOMAIN o : o[i] = <<"data", Len(g) + 1>>
          BY <3>4
        <4>2. o[i][1] = "data" /\ o[i][2] = Len(g) + 1
          BY <4>1
        <4> QED
          BY <1>1, <2>2, <3>2, <4>2
      <3> QED
        BY <3>2, <3>3, <3>4 DEF InOrder
    <2>4. PICK h : h = Append(g, x.val)
      OBVIOUS
    <2>5. /\ h \in Seq(Nat) /\ Len(h) = Len(g) + 1 /\ DOMAIN h = 1 .. (Len(g) + 1)
          /\ DOMAIN g = 1 .. Len(g)
          /\ h[Len(g) + 1] = Len(g) + 1 /\ \A i \in 1 .. Len(g) : h[i] = g[i]
      BY <1>1, <2>3, <2>4, AppendProperties, LenProperties
    <2>6. Len(h) <= n /\ \A i \in DOMAIN h : h[i] = i
      BY <1>1, <2>2, <2>3, <2>5 DEF InOrder
    <2>7. \A k \in (Len(h) + 1) .. n :
            \/ \E i \in DOMAIN v : IsData(v[i]) /\ v[i].val = k
            \/ \E i \in DOMAIN o : o[i] = <<"data", k>>
      <3>1. SUFFICES ASSUME NEW k \in (Len(h) + 1) .. n
                     PROVE  \/ \E i \in DOMAIN v : IsData(v[i]) /\ v[i].val = k
                            \/ \E i \in DOMAIN o : o[i] = <<"data", k>>
        OBVIOUS
      <3>2. k \in (Len(g) + 1) .. n /\ k # x.val
        BY <1>1, <2>3, <2>5, <3>1
      <3> QED
        BY <1>2, <1>5, <3>2 DEF InOrder
    <2>8. \A i \in DOMAIN v : IsData(v[i]) => v[i].val \in (Len(h) + 1) .. n
      <3>1. \A i \in DOMAIN v : IsData(v[i]) => v[i].val \in (Len(g) + 1) .. n /\ x.val < v[i].val
        BY <1>4, <2>2 DEF InOrder
      <3> QED
        BY <1>1, <2>3, <2>5, <3>1
    <2>9. \A i \in DOMAIN o : o[i][1] = "data" => o[i][2] \in (Len(h) + 1) .. n
      <3>1. \A i \in DOMAIN o : o[i][1] = "data" => o[i][2] \in (Len(g) + 1) .. n /\ x.val < o[i][2]
        BY <2>2 DEF InOrder
      <3> QED
        BY <1>1, <2>3, <2>5, <3>1
    <2>10. InOrder(h, v, o, n)
      <3>1. \A i \in DOMAIN o : o[i][1] = "data" =>
              /\ \A j \in DOMAIN o : j < i /\ o[j][1] = "data" => o[j][2] < o[i][2]
              /\ \A j \in DOMAIN v : IsData(v[j]) => v[j].val < o[i][2]
        BY <1>4 DEF InOrder
      <3> QED
        BY <1>7, <2>6, <2>7, <2>8, <2>9, <3>1 DEF InOrder
    <2> QED
      BY <2>4, <2>5, <2>10
  <1> QED
    BY <1>2, <1>8, <1>9

-----------------------------------------------------------------------------
(* What the functions do to the memory of a peer: u is t but for the       *)
(* fields F.                                                               *)

ButFor(t, u, F) == /\ u = [f \in Fields |-> u[f]]
                   /\ \A f \in Fields \ F : u[f] = t[f]

IsRecord(t) == t = [f \in Fields |-> t[f]]

LEMMA Composed ==
    ASSUME NEW t, NEW s, NEW u, NEW F, NEW G, NEW H, ButFor(t, s, F), ButFor(s, u, G),
           F \subseteq H, G \subseteq H
    PROVE  ButFor(t, u, H)
  BY DEF ButFor

LEMMA SendsInit ==
    ASSUME NEW t, IsRecord(t), t.init_sent = FALSE, NEW u, u = kex_send_kexinit(t)
    PROVE  /\ ButFor(t, u, {"done", "my", "rekeying", "init_sent", "wire", "p_send"})
           /\ u.done = FALSE /\ u.rekeying = TRUE /\ u.init_sent = TRUE /\ u.p_send = TRUE
           /\ u.my = t.my + 1
           /\ u.wire = Append(t.wire, [type |-> "kexinit", key |-> t.out, val |-> t.my + 1])
  BY DEF kex_send_kexinit, SendKex, ssh_packet_send2_wrapped, Packet, IsRecord, ButFor, Fields

LEMMA Starts ==
    ASSUME NEW t, IsRecord(t), t.init_sent = FALSE, t.done = TRUE, NEW u, u = kex_start_rekex(t)
    PROVE  /\ ButFor(t, u, {"done", "my", "rekeying", "init_sent", "wire", "p_send"})
           /\ u.done = FALSE /\ u.rekeying = TRUE /\ u.init_sent = TRUE /\ u.p_send = TRUE
           /\ u.my = t.my + 1
           /\ u.wire = Append(t.wire, [type |-> "kexinit", key |-> t.out, val |-> t.my + 1])
  <1>1. PICK s : s = [t EXCEPT !.done = FALSE]
    OBVIOUS
  <1>2. IsRecord(s) /\ ButFor(t, s, {"done"}) /\ s.init_sent = FALSE
    BY <1>1 DEF IsRecord, ButFor, Fields
  <1>3. u = kex_send_kexinit(s)
    BY <1>1 DEF kex_start_rekex
  <1>4. /\ ButFor(s, u, {"done", "my", "rekeying", "init_sent", "wire", "p_send"})
        /\ u.done = FALSE /\ u.rekeying = TRUE /\ u.init_sent = TRUE /\ u.p_send = TRUE
        /\ u.my = s.my + 1
        /\ u.wire = Append(s.wire, [type |-> "kexinit", key |-> s.out, val |-> s.my + 1])
    BY <1>2, <1>3, SendsInit
  <1> QED
    BY <1>2, <1>4, ZenonT(60) DEF ButFor, Fields

OneSent(t, u, m, v) == u.wire = Append(t.wire, [type |-> m, key |-> t.out, val |-> v])

(* A message of the exchange but KEXINIT and NEWKEYS, or a packet that     *)
(* need not wait.                                                          *)
LEMMA SendsOne ==
    ASSUME NEW t, IsRecord(t), NEW m, m \notin {"kexinit", "newkeys"}, NEW v, NEW u,
           u = ssh_packet_send2_wrapped(t, m, v)
    PROVE  /\ ButFor(t, u, {"wire", "p_send"}) /\ u.p_send = TRUE
           /\ OneSent(t, u, m, v) /\ SendKex(t, m, v) = u
  BY DEF SendKex, ssh_packet_send2_wrapped, Packet, IsRecord, ButFor, Fields, OneSent

LEMMA SendsNewkeys ==
    ASSUME NEW t, IsRecord(t), t.new_out \notin {NoKey, Chosen}, NEW u,
           u = ssh_packet_send2_wrapped(t, "newkeys", 0)
    PROVE  /\ ButFor(t, u, {"wire", "p_send", "out", "new_out"}) /\ u.p_send = FALSE
           /\ u.wire = Append(t.wire, [type |-> "newkeys", key |-> t.out, val |-> 0])
           /\ u.out = t.new_out /\ u.new_out = NoKey
  BY DEF ssh_packet_send2_wrapped, ssh_set_newkeys_out, Packet, IsRecord, ButFor, Fields

LEMMA TakesNew ==
    ASSUME NEW t, IsRecord(t), t.new_in \notin {NoKey, Chosen}, t.err = "none",
           Expects(t, "error", "error", "error", "handler"),
           NEW u, u = kex_input_newkeys(t)
    PROVE  /\ ButFor(t, u, {"dispatch", "in", "new_in", "p_read", "done", "peer", "init_sent"})
           /\ Expects(u, "handler", "error", "error", "error")
           /\ u.in = t.new_in /\ u.new_in = NoKey /\ u.p_read = FALSE
           /\ u.done = TRUE /\ u.peer = << >> /\ u.init_sent = FALSE
  <1>1. t.dispatch = [m \in KexTypes |-> t.dispatch[m]]
    BY DEF Expects
  <1>2. /\ ButFor(t, u, {"dispatch", "in", "new_in", "p_read", "done", "peer", "init_sent"})
        /\ u.dispatch = [m \in KexTypes |-> u.dispatch[m]]
        /\ u.dispatch["kexinit"] = "handler" /\ u.dispatch["newkeys"] = "error"
        /\ u.dispatch["init"] = t.dispatch["init"] /\ u.dispatch["reply"] = t.dispatch["reply"]
        /\ u.in = t.new_in /\ u.new_in = NoKey /\ u.p_read = FALSE
        /\ u.done = TRUE /\ u.peer = << >> /\ u.init_sent = FALSE
    BY <1>1 DEF kex_input_newkeys, ssh_set_newkeys_in, IsRecord, ButFor, Fields, KexTypes
  <1>3. t.dispatch["init"] = "error" /\ t.dispatch["reply"] = "error"
    BY DEF Expects
  <1>4. Expects(u, "handler", "error", "error", "error")
    BY <1>2, <1>3 DEF Expects
  <1> QED
    BY <1>2, <1>4

-----------------------------------------------------------------------------
(* Sending, of a peer in one of its phases.  The other peer has seen rank  *)
(* a and read the packets g of the channels.                               *)

LEMMA MakesPacket ==
    ASSUME NEW p \in Peers, NEW n \in Nat, NEW m \in Types, NEW v, NEW x,
           x = [type |-> m, key |-> Key(n), val |-> v],
           v \in Nat \/ v \in Nat \X Nat,
           m \in {"init", "reply"} => m = Kind(p, 3),
           m = "data" => v \in Nat, m = "kexinit" => v = n + 1, m = "reply" => v = Key(n + 1)
    PROVE  x \in PacketSet /\ IsPacket(p, x) /\ No(x) = n /\ x.type = m /\ x.val = v
  <1>1. Key(n) \in Nat \X Nat /\ Key(n)[1] = n
    BY DEF Key
  <1>2. x.type = m /\ x.key = Key(n) /\ x.val = v /\ x \in PacketSet
    BY <1>1 DEF PacketSet
  <1>3. No(x) = n
    BY <1>1, <1>2 DEF No
  <1> QED
    BY <1>2, <1>3 DEF IsPacket

(* The rest of the memory after a step that leaves it alone. *)
LEMMA MemoryKept ==
    ASSUME NEW p \in Peers, NEW t, Memory(p, t), NEW u, NEW F, ButFor(t, u, F),
           {"server", "ext_info_c", "err", "apps", "got"} \cap F = {},
           u.p_send \in BOOLEAN, u.p_read \in BOOLEAN,
           u.my \in 1 .. MaxRounds, u.outgoing \in Waiting
    PROVE  Memory(p, u)
  <1>1. u.server = t.server /\ u.ext_info_c = t.ext_info_c /\ u.err = t.err
        /\ u.apps = t.apps /\ u.got = t.got /\ u = [f \in Fields |-> u[f]]
    BY DEF ButFor, Fields
  <1> QED
    BY <1>1 DEF Memory

LEMMA FlowKex ==
    ASSUME NEW p \in Peers, NEW w, NEW o \in Waiting, NEW k \in Nat,
           NEW a \in Nat, NEW b \in Nat, NEW g \in Seq(Nat),
           OnWire(p, w, a, b), InOrder(g, w, o, k),
           NEW x, IsPacket(p, x), Place(x.type) > 1, 4 * No(x) <= b, b < Rank(x),
           Rank(x) <= b + 2, Rank(x) = b + 2 => b = 4 * No(x)
    PROVE  OnWire(p, Append(w, x), a, Rank(x)) /\ InOrder(g, Append(w, x), o, k)
  <1>1. No(x) \in Nat /\ Rank(x) \in Nat /\ (Place(x.type) = 1 <=> x.type \in {"data", "ext_info"})
    BY PlaceOf
  <1>2. PICK n, r : n = No(x) /\ r = Rank(x)
    OBVIOUS
  <1>3. n \in Nat /\ r \in Nat /\ b < r /\ r <= b + 2 /\ (r = b + 2 => b = 4 * n)
    BY <1>1, <1>2
  <1>4. \A i \in Nat, c \in 2 .. 4 : b < 4 * i + c => r <= 4 * i + c
    BY <1>3
  <1>5. OnWire(p, Append(w, x), a, Rank(x))
    BY <1>2, <1>4, WireKex
  <1>6. w \in Seq(PacketSet) /\ x \in PacketSet /\ x.type # "data"
    BY <1>1 DEF OnWire, IsPacket
  <1>7. InOrder(g, Append(w, x), o, k)
    BY <1>6, OrderOther
  <1> QED
    BY <1>5, <1>7

LEMMA FlowInit ==
    ASSUME NEW p \in Peers, NEW w, NEW o \in Waiting, NEW k \in Nat,
           NEW a \in Nat, NEW g \in Seq(Nat), NEW n \in Nat,
           OnWire(p, w, a, 4 * n), InOrder(g, w, o, k),
           NEW x, IsPacket(p, x), No(x) = n, x.type = "kexinit"
    PROVE  OnWire(p, Append(w, x), a, 4 * n + 2) /\ InOrder(g, Append(w, x), o, k)
  <1>1. PICK b \in Nat : b = 4 * n
    OBVIOUS
  <1>2. Rank(x) = 4 * n + 2 /\ Place(x.type) > 1
    BY Places DEF Rank
  <1>3. /\ OnWire(p, w, a, b) /\ 4 * No(x) <= b /\ b < Rank(x) /\ Rank(x) <= b + 2
        /\ Rank(x) = b + 2 => b = 4 * No(x)
    BY <1>1, <1>2
  <1>4. OnWire(p, Append(w, x), a, Rank(x)) /\ InOrder(g, Append(w, x), o, k)
    BY <1>2, <1>3, FlowKex
  <1> QED
    BY <1>2, <1>4

LEMMA FlowMiddle ==
    ASSUME NEW p \in Peers, NEW w, NEW o \in Waiting, NEW k \in Nat,
           NEW a \in Nat, NEW g \in Seq(Nat), NEW n \in Nat,
           OnWire(p, w, a, 4 * n + 2), InOrder(g, w, o, k),
           NEW x, IsPacket(p, x), No(x) = n, x.type = "init" \/ x.type = "reply"
    PROVE  OnWire(p, Append(w, x), a, 4 * n + 3) /\ InOrder(g, Append(w, x), o, k)
  <1>1. PICK b \in Nat : b = 4 * n + 2
    OBVIOUS
  <1>2. Rank(x) = 4 * n + 3 /\ Place(x.type) > 1
    BY Places DEF Rank
  <1>3. /\ OnWire(p, w, a, b) /\ 4 * No(x) <= b /\ b < Rank(x) /\ Rank(x) <= b + 2
        /\ Rank(x) = b + 2 => b = 4 * No(x)
    BY <1>1, <1>2
  <1>4. OnWire(p, Append(w, x), a, Rank(x)) /\ InOrder(g, Append(w, x), o, k)
    BY <1>2, <1>3, FlowKex
  <1> QED
    BY <1>2, <1>4

LEMMA FlowNew ==
    ASSUME NEW p \in Peers, NEW w, NEW o \in Waiting, NEW k \in Nat,
           NEW a \in Nat, NEW g \in Seq(Nat), NEW n \in Nat,
           OnWire(p, w, a, 4 * n + 3), InOrder(g, w, o, k),
           NEW x, IsPacket(p, x), No(x) = n, x.type = "newkeys"
    PROVE  OnWire(p, Append(w, x), a, 4 * n + 4) /\ InOrder(g, Append(w, x), o, k)
  <1>1. PICK b \in Nat : b = 4 * n + 3
    OBVIOUS
  <1>2. Rank(x) = 4 * n + 4 /\ Place(x.type) > 1
    BY Places DEF Rank
  <1>3. /\ OnWire(p, w, a, b) /\ 4 * No(x) <= b /\ b < Rank(x) /\ Rank(x) <= b + 2
        /\ Rank(x) = b + 2 => b = 4 * No(x)
    BY <1>1, <1>2
  <1>4. OnWire(p, Append(w, x), a, Rank(x)) /\ InOrder(g, Append(w, x), o, k)
    BY <1>2, <1>3, FlowKex
  <1> QED
    BY <1>2, <1>4

(* EXT_INFO and UNIMPLEMENTED. *)
LEMMA FlowOther ==
    ASSUME NEW p \in Peers, NEW w, NEW o \in Waiting, NEW k \in Nat,
           NEW a \in Nat, NEW b \in Nat, NEW g \in Seq(Nat),
           OnWire(p, w, a, b), InOrder(g, w, o, k),
           NEW n \in Nat, NEW x, IsPacket(p, x), No(x) = n, 4 * n <= b, b < 4 * n + 4,
           x.type = "unimplemented" \/ (x.type = "ext_info" /\ b = 4 * n)
    PROVE  OnWire(p, Append(w, x), a, b) /\ InOrder(g, Append(w, x), o, k)
  <1>1. w \in Seq(PacketSet) /\ x \in PacketSet /\ x.type # "data"
    BY DEF OnWire, IsPacket
  <1>2. InOrder(g, Append(w, x), o, k)
    BY <1>1, OrderOther
  <1>3. PICK s : s = << x >>
    OBVIOUS
  <1>4. s \in Seq(PacketSet) /\ Len(s) = 1 /\ s[1] = x /\ Append(w, x) = w \o s
    BY <1>1, <1>3, AppendIsConcat
  <1>5. Place(x.type) = 0 \/ (Place(x.type) = 1 /\ b = 4 * n)
    BY Places
  <1>6. \A i \in 1 .. Len(s) : /\ IsPacket(p, s[i]) /\ No(s[i]) = n
                               /\ Place(s[i].type) = 0 \/ (Place(s[i].type) = 1 /\ b = 4 * n)
    BY <1>4, <1>5
  <1>7. OnWire(p, w \o s, a, b)
    BY <1>4, <1>6, WireOther
  <1> QED
    BY <1>2, <1>4, <1>7

(* A packet of a channel that need not wait. *)
LEMMA FlowData ==
    ASSUME NEW p \in Peers, NEW w, NEW k \in Nat, NEW a \in Nat, NEW g \in Seq(Nat),
           NEW n \in Nat, OnWire(p, w, a, 4 * n), InOrder(g, w, << >>, k),
           NEW x, IsPacket(p, x), No(x) = n, x.type = "data", x.val = k + 1
    PROVE  OnWire(p, Append(w, x), a, 4 * n) /\ InOrder(g, Append(w, x), << >>, k + 1)
  <1>1. w \in Seq(PacketSet) /\ x \in PacketSet
    BY DEF OnWire, IsPacket
  <1>2. InOrder(g, Append(w, x), << >>, k + 1)
    BY <1>1, OrderData
  <1>3. PICK s : s = << x >>
    OBVIOUS
  <1>4. s \in Seq(PacketSet) /\ Len(s) = 1 /\ s[1] = x /\ Append(w, x) = w \o s
    BY <1>1, <1>3, AppendIsConcat
  <1>5. \A i \in 1 .. Len(s) : IsPacket(p, s[i]) /\ No(s[i]) = n /\ Place(s[i].type) = 1
    BY <1>4, Places
  <1>6. 4 * n \in Nat /\ 4 * n <= 4 * n /\ 4 * n < 4 * n + 4
    OBVIOUS
  <1>7. OnWire(p, w \o s, a, 4 * n)
    BY <1>4, <1>5, <1>6, WireOther
  <1> QED
    BY <1>2, <1>4, <1>7

LEMMA FunctionSeq ==
    ASSUME NEW m \in Nat, NEW s \in [1 .. m -> PacketSet]
    PROVE  s \in Seq(PacketSet) /\ Len(s) = m
  <1>1. s \in Seq(PacketSet)
    OBVIOUS
  <1> QED
    BY <1>1, LenProperties

(* The packets that wait in the queue o, under key k. *)
Sealed(o, k) == [i \in 1 .. Len(o) |-> [type |-> o[i][1], key |-> k, val |-> o[i][2]]]

(* The queue, once the exchange is over. *)
LEMMA FlowFlush ==
    ASSUME NEW p \in Peers, NEW w, NEW o \in Waiting, NEW k \in Nat, NEW a \in Nat,
           NEW g \in Seq(Nat), NEW n \in Nat, OnWire(p, w, a, 4 * n), InOrder(g, w, o, k),
           NEW s, s = Sealed(o, Key(n))
    PROVE  OnWire(p, w \o s, a, 4 * n) /\ InOrder(g, w \o s, << >>, k)
  <1>1. w \in Seq(PacketSet) /\ o \in Seq(Entries) /\ Len(o) \in Nat
    BY LenProperties DEF OnWire, Waiting
  <1>2. \A i \in 1 .. Len(o) : o[i][1] = "data" /\ o[i][2] \in Nat
    <2>1. \A i \in 1 .. Len(o) : o[i] \in Entries
      BY <1>1, ElementOfSeq
    <2> QED
      BY <2>1 DEF Entries
  <1>3. \A i \in 1 .. Len(o) : /\ s[i] \in PacketSet /\ IsPacket(p, s[i]) /\ No(s[i]) = n
                               /\ s[i].type = "data" /\ s[i].val = o[i][2]
    <2>1. SUFFICES ASSUME NEW i \in 1 .. Len(o)
                   PROVE  /\ s[i] \in PacketSet /\ IsPacket(p, s[i]) /\ No(s[i]) = n
                          /\ s[i].type = "data" /\ s[i].val = o[i][2]
      OBVIOUS
    <2>2. PICK x, v : x = s[i] /\ v = o[i][2]
      OBVIOUS
    <2>3. x = [type |-> "data", key |-> Key(n), val |-> v] /\ v \in Nat /\ "data" \in Types
      BY <1>2, <2>1, <2>2 DEF Types, Sealed
    <2>4. x \in PacketSet /\ IsPacket(p, x) /\ No(x) = n /\ x.type = "data" /\ x.val = v
      <3>1. PICK m : m = "data"
        OBVIOUS
      <3>2. /\ m \in Types /\ x = [type |-> m, key |-> Key(n), val |-> v]
            /\ m \notin {"init", "reply", "kexinit"}
        BY <2>3, <3>1
      <3>3. x \in PacketSet /\ IsPacket(p, x) /\ No(x) = n /\ x.type = m /\ x.val = v
        BY <2>3, <3>2, MakesPacket
      <3> QED
        BY <3>1, <3>3
    <2> QED
      BY <2>2, <2>4
  <1>4. s \in Seq(PacketSet) /\ Len(s) = Len(o)
    <2>1. s = [i \in 1 .. Len(o) |-> s[i]]
      BY DEF Sealed
    <2>2. s \in [1 .. Len(o) -> PacketSet]
      BY <1>3, <2>1
    <2> QED
      BY <1>1, <2>2, FunctionSeq
  <1>5. InOrder(g, w \o s, << >>, k)
    BY <1>1, <1>3, <1>4, OrderFlush
  <1>6. \A i \in 1 .. Len(s) : IsPacket(p, s[i]) /\ No(s[i]) = n /\ Place(s[i].type) = 1
    BY <1>3, <1>4, Places
  <1>7. 4 * n \in Nat /\ 4 * n <= 4 * n /\ 4 * n < 4 * n + 4
    OBVIOUS
  <1>8. OnWire(p, w \o s, a, 4 * n)
    BY <1>4, <1>6, <1>7, WireOther
  <1> QED
    BY <1>5, <1>8

-----------------------------------------------------------------------------
(* The steps of a peer. *)

LEMMA MemoryFacts ==
    ASSUME NEW p \in Peers, NEW t, Memory(p, t)
    PROVE  /\ IsRecord(t) /\ t.server \in BOOLEAN /\ (t.server <=> p = "server")
           /\ t.ext_info_c \in BOOLEAN /\ (t.ext_info_c <=> p = "server")
           /\ t.err = "none" /\ t.p_send \in BOOLEAN /\ t.p_read \in BOOLEAN
           /\ t.my \in 1 .. MaxRounds /\ t.my \in Nat /\ t.apps \in Nat
           /\ t.outgoing \in Waiting /\ t.got \in Seq(Nat)
  <1>1. t.server \in BOOLEAN /\ (t.server <=> p = "server")
    BY DEF Memory
  <1>2. t.ext_info_c \in BOOLEAN /\ (t.ext_info_c <=> p = "server")
    BY DEF Memory
  <1>3. t.my \in 1 .. MaxRounds /\ t.my \in Nat
    BY BoundAssumption DEF Memory
  <1>4. /\ IsRecord(t) /\ t.err = "none" /\ t.p_send \in BOOLEAN /\ t.p_read \in BOOLEAN
        /\ t.apps \in Nat /\ t.outgoing \in Waiting /\ t.got \in Seq(Nat)
    BY DEF Memory, IsRecord
  <1> QED
    BY <1>1, <1>2, <1>3, <1>4

LEMMA Begins ==
    ASSUME NEW p \in Peers, NEW t, Memory(p, t), NEW n \in Nat, Idle(t, n), n < MaxRounds,
           NEW a \in Nat, NEW g \in Seq(Nat), Flow(p, t, a, g),
           NEW u, u = kex_start_rekex(t)
    PROVE  Memory(p, u) /\ Begun(u, n) /\ Flow(p, u, a, g) /\ u.got = t.got
  <1>1. /\ IsRecord(t) /\ t.init_sent = FALSE /\ t.done = TRUE /\ t.my = n /\ t.out = Key(n)
        /\ t.server \in BOOLEAN /\ t.p_read \in BOOLEAN /\ t.outgoing \in Waiting /\ t.apps \in Nat
    BY MemoryFacts DEF Idle
  <1>2. PICK x : x = [type |-> "kexinit", key |-> Key(n), val |-> n + 1]
    OBVIOUS
  <1>3. /\ ButFor(t, u, {"done", "my", "rekeying", "init_sent", "wire", "p_send"})
        /\ u.done = FALSE /\ u.rekeying = TRUE /\ u.init_sent = TRUE /\ u.p_send = TRUE
        /\ u.my = n + 1 /\ u.wire = Append(t.wire, x)
    BY <1>1, <1>2, Starts
  <1>4. /\ u.outgoing = t.outgoing /\ u.p_read = t.p_read /\ u.got = t.got /\ u.apps = t.apps
        /\ u.peer = t.peer /\ u.in = t.in /\ u.out = t.out /\ u.server = t.server
        /\ u.new_in = t.new_in /\ u.new_out = t.new_out /\ u.dispatch = t.dispatch
    BY <1>3 DEF ButFor, Fields
  <1>5. n + 1 \in 1 .. MaxRounds
    BY BoundAssumption
  <1>6. Memory(p, u)
    BY <1>1, <1>3, <1>4, <1>5, MemoryKept
  <1>7. Begun(u, n)
    BY <1>3, <1>4 DEF Idle, Begun, Expects
  <1>8. IsPacket(p, x) /\ No(x) = n /\ x.type = "kexinit"
    <2>1. PICK m, v : m = "kexinit" /\ v = n + 1
      OBVIOUS
    <2>2. /\ m \in Types /\ m \notin {"init", "reply", "data"} /\ v \in Nat
          /\ x = [type |-> m, key |-> Key(n), val |-> v]
      BY <1>2, <2>1 DEF Types
    <2>3. IsPacket(p, x) /\ No(x) = n /\ x.type = m
      BY <2>1, <2>2, MakesPacket
    <2> QED
      BY <2>1, <2>3
  <1>9. Sent(t) = 4 * n /\ Sent(u) = 4 * n + 2
    BY <1>1, <1>4, <1>7, Ranks
  <1>10. PICK w, o, k : w = t.wire /\ o = t.outgoing /\ k = t.apps
    OBVIOUS
  <1>11. OnWire(p, w, a, 4 * n) /\ InOrder(g, w, o, k) /\ o \in Waiting /\ k \in Nat
    BY <1>1, <1>9, <1>10 DEF Flow
  <1>12. OnWire(p, Append(w, x), a, 4 * n + 2) /\ InOrder(g, Append(w, x), o, k)
    BY <1>8, <1>11, FlowInit
  <1> QED
    BY <1>3, <1>4, <1>6, <1>7, <1>9, <1>10, <1>12 DEF Flow

(* A peer after ssh_packet_read_poll2, which may start an exchange. *)
Polled(p, t, s, n, a, g) ==
    /\ Memory(p, s) /\ Flushed(s) /\ Flow(p, s, a, g) /\ s.got = t.got /\ Seen(s) = Seen(t)
    /\ Phase(t, n)
    /\ Idle(t, n) => Idle(s, n) \/ Begun(s, n)
    /\ Begun(t, n) => Begun(s, n)
    /\ Agreed(t, n) => Agreed(s, n)
    /\ Switched(t, n) => Switched(s, n)

LEMMA Polls ==
    ASSUME NEW p \in Peers, NEW t, Memory(p, t), Flushed(t), NEW n \in Nat, Phase(t, n),
           NEW a \in Nat, NEW g \in Seq(Nat), Flow(p, t, a, g),
           NEW x, x.key = Key(n), NEW due \in BOOLEAN, due => t.my < MaxRounds,
           NEW u, u = ssh_packet_read_poll2(t, x, due)
    PROVE  Polled(p, t, u, n, a, g)
  <1>0. SUFFICES /\ Memory(p, u) /\ Flushed(u) /\ Flow(p, u, a, g) /\ u.got = t.got
                 /\ Idle(t, n) => Idle(u, n) \/ Begun(u, n)
                 /\ Begun(t, n) => Begun(u, n)
                 /\ Agreed(t, n) => Agreed(u, n)
                 /\ Switched(t, n) => Switched(u, n)
    <2>1. u.server \in BOOLEAN /\ t.server \in BOOLEAN
      BY <1>0, MemoryFacts
    <2>2. Seen(u) = Seen(t)
      BY <1>0, <2>1, Ranks DEF Phase
    <2> QED
      BY <1>0, <2>2 DEF Polled
  <1>1. PICK s : s = [t EXCEPT !.p_read = TRUE]
    OBVIOUS
  <1>2. IsRecord(t) /\ t.in = Key(n)
    BY MemoryFacts DEF Phase, Idle, Begun, Agreed, Switched
  <1>3. ButFor(t, s, {"p_read"}) /\ s.p_read = TRUE
    BY <1>1, <1>2 DEF IsRecord, ButFor, Fields
  <1>4. /\ s.done = t.done /\ s.rekeying = t.rekeying /\ s.init_sent = t.init_sent
        /\ s.peer = t.peer /\ s.my = t.my /\ s.in = t.in /\ s.out = t.out
        /\ s.new_in = t.new_in /\ s.new_out = t.new_out /\ s.dispatch = t.dispatch
        /\ s.server = t.server /\ s.wire = t.wire /\ s.outgoing = t.outgoing /\ s.apps = t.apps
        /\ s.got = t.got /\ s.p_send = t.p_send
    BY <1>3 DEF ButFor, Fields
  <1>5. Memory(p, s)
    BY <1>3, <1>4, MemoryFacts, MemoryKept
  <1>6. /\ Idle(t, n) => Idle(s, n)
        /\ Begun(t, n) => Begun(s, n)
        /\ Agreed(t, n) => Agreed(s, n)
        /\ Switched(t, n) => Switched(s, n)
    BY <1>4 DEF Idle, Begun, Agreed, Switched, Expects
  <1>7. Flow(p, s, a, g) /\ Flushed(s)
    BY <1>4 DEF Flow, Sent, Flushed
  <1>8. CASE ssh_packet_need_rekeying(s, due)
    <2>1. s.done = TRUE /\ due = TRUE
      BY <1>4, <1>8 DEF ssh_packet_need_rekeying, ssh_packet_is_rekeying, Phase, Idle, Begun, Agreed, Switched
    <2>2. Idle(t, n) /\ ~Begun(t, n) /\ ~Agreed(t, n) /\ ~Switched(t, n)
      BY <1>4, <2>1 DEF Phase, Begun, Agreed, Switched
    <2>3. Idle(s, n) /\ n < MaxRounds
      BY <1>6, <2>1, <2>2 DEF Idle
    <2>4. u = kex_start_rekex(s)
      BY <1>1, <1>2, <1>8 DEF ssh_packet_read_poll2
    <2>5. Memory(p, u) /\ Begun(u, n) /\ Flow(p, u, a, g) /\ u.got = s.got
      BY <1>5, <1>7, <2>3, <2>4, Begins
    <2>6. Flushed(u)
      BY <2>5 DEF Begun, Flushed
    <2> QED
      BY <1>4, <2>1, <2>2, <2>5, <2>6
  <1>9. CASE ~ssh_packet_need_rekeying(s, due)
    <2>1. u = s
      BY <1>1, <1>2, <1>9 DEF ssh_packet_read_poll2
    <2> QED
      BY <1>4, <1>5, <1>6, <1>7, <2>1
  <1> QED
    BY <1>8, <1>9

(* KEXINIT: it is answered, unless ours is already on its way. *)
LEMMA TakesKexinit ==
    ASSUME NEW p \in Peers, NEW t, Memory(p, t), NEW n \in Nat, Idle(t, n) \/ Begun(t, n),
           n < MaxRounds, NEW a \in Nat, NEW g \in Seq(Nat), Flow(p, t, a, g),
           NEW u, u = kex_input_kexinit(t, n + 1)
    PROVE  Memory(p, u) /\ Agreed(u, n) /\ Flow(p, u, a, g) /\ u.got = t.got
  <1>1. /\ IsRecord(t) /\ t.out = Key(n) /\ t.in = Key(n) /\ t.peer = << >>
        /\ Expects(t, "handler", "error", "error", "error")
        /\ t.server \in BOOLEAN /\ t.p_read \in BOOLEAN /\ t.p_send \in BOOLEAN
        /\ t.outgoing \in Waiting /\ t.apps \in Nat /\ (t.server <=> p = "server")
    BY MemoryFacts DEF Idle, Begun
  <1>2. PICK r : r = [t EXCEPT !.dispatch["kexinit"] = "null", !.peer = Append(@, n + 1)]
    OBVIOUS
  <1>3. /\ IsRecord(r) /\ ButFor(t, r, {"dispatch", "peer"}) /\ r.peer = << n + 1 >>
        /\ Expects(r, "null", "error", "error", "error")
    <2>1. ButFor(t, r, {"dispatch", "peer"}) /\ IsRecord(r)
      BY <1>1, <1>2 DEF IsRecord, ButFor, Fields
    <2>2. r.peer = Append(t.peer, n + 1)
      BY <1>1, <1>2 DEF IsRecord, Fields
    <2>3. r.dispatch = [t.dispatch EXCEPT !["kexinit"] = "null"]
      BY <1>1, <1>2 DEF IsRecord, Fields
    <2>4. Expects(r, "null", "error", "error", "error")
      BY <1>1, <2>3 DEF Expects, KexTypes
    <2> QED
      BY <1>1, <2>1, <2>2, <2>4
  <1>4. PICK s : s = kex_send_kexinit(r)
    OBVIOUS
  <1>5. /\ ButFor(t, s, {"dispatch", "peer", "done", "my", "rekeying", "init_sent", "wire", "p_send"})
        /\ s.dispatch = r.dispatch /\ s.peer = r.peer /\ s.p_send \in BOOLEAN
        /\ s.done = FALSE /\ s.rekeying = TRUE /\ s.init_sent = TRUE /\ s.my = n + 1
        /\ OnWire(p, s.wire, a, 4 * n + 2) /\ InOrder(g, s.wire, t.outgoing, t.apps)
    <2>1. CASE Idle(t, n)
      <3>1. /\ r.init_sent = FALSE /\ r.my = n /\ r.out = Key(n) /\ r.wire = t.wire
        BY <1>1, <1>3, <2>1 DEF ButFor, Fields, Idle
      <3>2. PICK x : x = [type |-> "kexinit", key |-> Key(n), val |-> n + 1]
        OBVIOUS
      <3>3. /\ ButFor(r, s, {"done", "my", "rekeying", "init_sent", "wire", "p_send"})
            /\ s.done = FALSE /\ s.rekeying = TRUE /\ s.init_sent = TRUE /\ s.p_send = TRUE
            /\ s.my = n + 1 /\ s.wire = Append(t.wire, x)
        BY <1>3, <1>4, <3>1, <3>2, SendsInit
      <3>4. IsPacket(p, x) /\ No(x) = n /\ x.type = "kexinit"
        <4>1. PICK m, v : m = "kexinit" /\ v = n + 1
          OBVIOUS
        <4>2. /\ m \in Types /\ m \notin {"init", "reply", "data"} /\ v \in Nat
              /\ x = [type |-> m, key |-> Key(n), val |-> v]
          BY <3>2, <4>1 DEF Types
        <4>3. IsPacket(p, x) /\ No(x) = n /\ x.type = m
          BY <4>1, <4>2, MakesPacket
        <4> QED
          BY <4>1, <4>3
      <3>5. PICK w, o, k : w = t.wire /\ o = t.outgoing /\ k = t.apps
        OBVIOUS
      <3>6. OnWire(p, w, a, 4 * n) /\ InOrder(g, w, o, k) /\ o \in Waiting /\ k \in Nat
        <4>1. Sent(t) = 4 * n
          BY <1>1, <2>1, Ranks
        <4> QED
          BY <1>1, <3>5, <4>1 DEF Flow
      <3>7. OnWire(p, Append(w, x), a, 4 * n + 2) /\ InOrder(g, Append(w, x), o, k)
        BY <3>4, <3>6, FlowInit
      <3>8. /\ ButFor(t, s, {"dispatch", "peer", "done", "my", "rekeying", "init_sent", "wire", "p_send"})
            /\ s.dispatch = r.dispatch /\ s.peer = r.peer
        BY <1>3, <3>3 DEF ButFor, Fields
      <3> QED
        BY <3>3, <3>5, <3>7, <3>8
    <2>2. CASE Begun(t, n)
      <3>1. /\ r.init_sent = TRUE /\ r.done = FALSE /\ r.rekeying = TRUE /\ r.my = n + 1
            /\ r.wire = t.wire /\ r.p_send = t.p_send
        BY <1>3, <2>2 DEF ButFor, Fields, Begun
      <3>2. s = r
        BY <1>4, <3>1 DEF kex_send_kexinit
      <3>3. Sent(t) = 4 * n + 2
        BY <1>1, <2>2, Ranks
      <3>4. ButFor(t, s, {"dispatch", "peer", "done", "my", "rekeying", "init_sent", "wire", "p_send"})
        BY <1>3, <3>2 DEF ButFor, Fields
      <3> QED
        BY <1>1, <3>1, <3>2, <3>3, <3>4 DEF Flow
    <2> QED
      BY <2>1, <2>2
  <1>6. PICK c : c = kex_choose_conf(s)
    OBVIOUS
  <1>7. /\ ButFor(s, c, {"new_in", "new_out"}) /\ IsRecord(c)
        /\ c.new_in = Chosen /\ c.new_out = Chosen
    BY <1>5, <1>6 DEF kex_choose_conf, IsRecord, ButFor, Fields
  <1>8. /\ c.done = FALSE /\ c.rekeying = TRUE /\ c.init_sent = TRUE /\ c.my = n + 1
        /\ c.peer = << n + 1 >> /\ c.in = Key(n) /\ c.out = Key(n)
        /\ Expects(c, "null", "error", "error", "error")
        /\ c.wire = s.wire /\ c.p_send \in BOOLEAN
        /\ ButFor(t, c, {"dispatch", "peer", "done", "my", "rekeying", "init_sent", "wire", "p_send",
                         "new_in", "new_out"})
    <2>1. c.dispatch = r.dispatch
      BY <1>5, <1>7 DEF ButFor, Fields
    <2>2. Expects(c, "null", "error", "error", "error")
      BY <1>3, <2>1 DEF Expects
    <2>3. ButFor(t, c, {"dispatch", "peer", "done", "my", "rekeying", "init_sent", "wire", "p_send",
                        "new_in", "new_out"})
      <3>1. PICK F, G, H :
              /\ F = {"dispatch", "peer", "done", "my", "rekeying", "init_sent", "wire", "p_send"}
              /\ G = {"new_in", "new_out"}
              /\ H = {"dispatch", "peer", "done", "my", "rekeying", "init_sent", "wire", "p_send",
                      "new_in", "new_out"}
        OBVIOUS
      <3>2. F \subseteq H /\ G \subseteq H
        BY <3>1
      <3>3. ButFor(t, s, F) /\ ButFor(s, c, G)
        BY <1>5, <1>7, <3>1
      <3>4. ButFor(t, c, H)
        BY <3>2, <3>3, Composed
      <3> QED
        BY <3>1, <3>4
    <2>4. c.done = FALSE /\ c.rekeying = TRUE /\ c.init_sent = TRUE /\ c.my = n + 1
          /\ c.peer = s.peer /\ c.wire = s.wire /\ c.p_send \in BOOLEAN
      BY <1>5, <1>7 DEF ButFor, Fields
    <2>5. c.in = t.in /\ c.out = t.out
      BY <2>3 DEF ButFor, Fields
    <2> QED
      BY <1>1, <1>3, <1>5, <2>2, <2>3, <2>4, <2>5
  <1>9. n + 1 \in 1 .. MaxRounds
    BY BoundAssumption
  <1>10. u = IF t.server THEN kexc25519_server(c) ELSE kexc25519_client(c)
    BY <1>2, <1>4, <1>6 DEF kex_input_kexinit
  <1>11. CASE p = "server"
    <2>1. u = [c EXCEPT !.dispatch["init"] = "handler"]
      BY <1>1, <1>10, <1>11 DEF kexc25519_server
    <2>2. ButFor(c, u, {"dispatch"}) /\ u.dispatch = [c.dispatch EXCEPT !["init"] = "handler"]
      BY <1>7, <2>1 DEF IsRecord, ButFor, Fields
    <2>3. Expects(u, "null", "handler", "error", "error")
      BY <1>8, <2>2 DEF Expects, KexTypes
    <2>4. /\ ButFor(t, u, {"dispatch", "peer", "done", "my", "rekeying", "init_sent", "wire", "p_send",
                           "new_in", "new_out"})
          /\ u.done = FALSE /\ u.rekeying = TRUE /\ u.init_sent = TRUE /\ u.my = n + 1
          /\ u.peer = << n + 1 >> /\ u.in = Key(n) /\ u.out = Key(n)
          /\ u.new_in = Chosen /\ u.new_out = Chosen
          /\ u.wire = s.wire /\ u.p_send \in BOOLEAN
      <3>1. PICK G, H : G = {"dispatch"} /\
                        H = {"dispatch", "peer", "done", "my", "rekeying", "init_sent", "wire", "p_send",
                             "new_in", "new_out"}
        OBVIOUS
      <3>2. ButFor(t, c, H) /\ ButFor(c, u, G) /\ G \subseteq H /\ H \subseteq H
        BY <1>8, <2>2, <3>1
      <3>3. ButFor(t, u, H)
        BY <3>2, Composed
      <3>4. /\ u.done = c.done /\ u.rekeying = c.rekeying /\ u.init_sent = c.init_sent
            /\ u.my = c.my /\ u.peer = c.peer /\ u.in = c.in /\ u.out = c.out
            /\ u.new_in = c.new_in /\ u.new_out = c.new_out /\ u.wire = c.wire /\ u.p_send = c.p_send
        BY <2>2 DEF ButFor, Fields
      <3> QED
        BY <1>7, <1>8, <3>1, <3>3, <3>4
    <2>5. /\ u.server = t.server /\ u.p_read = t.p_read /\ u.outgoing = t.outgoing
          /\ u.apps = t.apps /\ u.got = t.got
      BY <2>4 DEF ButFor, Fields
    <2>6. Memory(p, u)
      BY <1>1, <1>9, <2>4, <2>5, MemoryKept
    <2>7. Agreed(u, n)
      BY <1>1, <1>11, <2>3, <2>4, <2>5 DEF Agreed
    <2>8. Sent(u) = 4 * n + 2
      BY <1>1, <1>11, <2>5, <2>7, Ranks
    <2> QED
      BY <1>5, <2>4, <2>5, <2>6, <2>7, <2>8 DEF Flow
  <1>12. CASE p = "client"
    <2>1. PICK e : e = ssh_packet_send2_wrapped(c, "init", 0)
      OBVIOUS
    <2>2. PICK x : x = [type |-> "init", key |-> Key(n), val |-> 0]
      OBVIOUS
    <2>3. ButFor(c, e, {"wire", "p_send"}) /\ e.p_send = TRUE /\ e.wire = Append(s.wire, x)
          /\ SendKex(c, "init", 0) = e
      <3>1. PICK m : m = "init"
        OBVIOUS
      <3>2. m \notin {"kexinit", "newkeys"} /\ e = ssh_packet_send2_wrapped(c, m, 0)
        BY <2>1, <3>1
      <3>3. /\ ButFor(c, e, {"wire", "p_send"}) /\ e.p_send = TRUE
            /\ OneSent(c, e, m, 0) /\ SendKex(c, m, 0) = e
        BY <1>7, <3>2, SendsOne
      <3> QED
        BY <1>8, <2>2, <3>1, <3>3 DEF OneSent
    <2>4. u = [e EXCEPT !.dispatch["reply"] = "handler"]
      BY <1>1, <1>10, <1>12, <2>3 DEF kexc25519_client
    <2>5. ButFor(e, u, {"dispatch"}) /\ u.dispatch = [e.dispatch EXCEPT !["reply"] = "handler"]
      BY <2>3, <2>4 DEF ButFor, Fields
    <2>6. e.dispatch = c.dispatch
      BY <2>3 DEF ButFor, Fields
    <2>7. Expects(u, "null", "error", "handler", "error")
      <3>1. u.dispatch = [c.dispatch EXCEPT !["reply"] = "handler"]
        BY <2>5, <2>6
      <3> QED
        BY <1>8, <3>1 DEF Expects, KexTypes
    <2>8. /\ ButFor(t, u, {"dispatch", "peer", "done", "my", "rekeying", "init_sent", "wire", "p_send",
                           "new_in", "new_out"})
          /\ u.done = FALSE /\ u.rekeying = TRUE /\ u.init_sent = TRUE /\ u.my = n + 1
          /\ u.peer = << n + 1 >> /\ u.in = Key(n) /\ u.out = Key(n)
          /\ u.new_in = Chosen /\ u.new_out = Chosen
          /\ u.wire = Append(s.wire, x) /\ u.p_send \in BOOLEAN
      <3>1. PICK F, G, H : F = {"wire", "p_send"} /\ G = {"dispatch"} /\
                           H = {"dispatch", "peer", "done", "my", "rekeying", "init_sent", "wire",
                                "p_send", "new_in", "new_out"}
        OBVIOUS
      <3>2. /\ ButFor(t, c, H) /\ ButFor(c, e, F) /\ ButFor(e, u, G)
            /\ F \subseteq H /\ G \subseteq H /\ H \subseteq H
        BY <1>8, <2>3, <2>5, <3>1
      <3>3. ButFor(t, e, H)
        BY <3>2, Composed
      <3>4. ButFor(t, u, H)
        BY <3>2, <3>3, Composed
      <3>5. /\ e.done = c.done /\ e.rekeying = c.rekeying /\ e.init_sent = c.init_sent
            /\ e.my = c.my /\ e.peer = c.peer /\ e.in = c.in /\ e.out = c.out
            /\ e.new_in = c.new_in /\ e.new_out = c.new_out
        BY <2>3 DEF ButFor, Fields
      <3>6. /\ u.done = e.done /\ u.rekeying = e.rekeying /\ u.init_sent = e.init_sent
            /\ u.my = e.my /\ u.peer = e.peer /\ u.in = e.in /\ u.out = e.out
            /\ u.new_in = e.new_in /\ u.new_out = e.new_out /\ u.wire = e.wire /\ u.p_send = e.p_send
        BY <2>5 DEF ButFor, Fields
      <3> QED
        BY <1>7, <1>8, <2>3, <3>1, <3>4, <3>5, <3>6
    <2>9. /\ u.server = t.server /\ u.p_read = t.p_read /\ u.outgoing = t.outgoing
          /\ u.apps = t.apps /\ u.got = t.got
      BY <2>8 DEF ButFor, Fields
    <2>10. Memory(p, u)
      BY <1>1, <1>9, <2>8, <2>9, MemoryKept
    <2>11. Agreed(u, n)
      BY <1>1, <1>12, <2>7, <2>8, <2>9 DEF Agreed
    <2>12. Sent(u) = 4 * n + 3
      BY <1>1, <1>12, <2>9, <2>11, Ranks
    <2>13. IsPacket(p, x) /\ No(x) = n /\ x.type = "init"
      <3>1. PICK m : m = "init"
        OBVIOUS
      <3>2. /\ m \in Types /\ m \notin {"kexinit", "reply", "data"} /\ 0 \in Nat /\ m = Kind(p, 3)
            /\ x = [type |-> m, key |-> Key(n), val |-> 0]
        BY <1>12, <2>2, <3>1 DEF Types, Kind
      <3>3. IsPacket(p, x) /\ No(x) = n /\ x.type = m
        BY <3>2, MakesPacket
      <3> QED
        BY <3>1, <3>3
    <2>14. PICK w, o, k : w = s.wire /\ o = t.outgoing /\ k = t.apps
      OBVIOUS
    <2>15. OnWire(p, w, a, 4 * n + 2) /\ InOrder(g, w, o, k) /\ o \in Waiting /\ k \in Nat
      BY <1>1, <1>5, <2>14
    <2>16. OnWire(p, Append(w, x), a, 4 * n + 3) /\ InOrder(g, Append(w, x), o, k)
      BY <2>13, <2>15, FlowMiddle
    <2> QED
      BY <2>8, <2>9, <2>10, <2>11, <2>12, <2>14, <2>16 DEF Flow
  <1> QED
    BY <1>11, <1>12 DEF Peers

QueueSent(t, u) ==
    /\ t.outgoing = << >> => u.wire = t.wire
    /\ t.outgoing # << >> => u.wire = t.wire \o Sealed(t.outgoing, t.out)

LEMMA SendsQueue ==
    ASSUME NEW t, IsRecord(t), t.done = FALSE, t.p_send \in BOOLEAN, NEW due, NEW u,
           u = SendQueue(t, due)
    PROVE  /\ ButFor(t, u, {"outgoing", "wire", "p_send"}) /\ u.outgoing = << >>
           /\ u.p_send \in BOOLEAN /\ QueueSent(t, u)
  <1>1. CASE t.outgoing = << >>
    <2>1. u = t
      BY <1>1 DEF SendQueue
    <2> QED
      BY <1>1, <2>1 DEF ButFor, IsRecord, QueueSent
  <1>2. CASE t.outgoing # << >>
    <2>1. ~ssh_packet_need_rekeying(t, due)
      BY DEF ssh_packet_need_rekeying, ssh_packet_is_rekeying
    <2>2. PICK s : s = Sealed(t.outgoing, t.out)
      OBVIOUS
    <2>3. u = [t EXCEPT !.outgoing = << >>, !.p_send = TRUE, !.wire = @ \o s]
      BY <1>2, <2>1, <2>2 DEF SendQueue, Packet, Sealed
    <2>4. PICK w : w = t.wire \o s
      OBVIOUS
    <2>5. u = [t EXCEPT !.outgoing = << >>, !.p_send = TRUE, !.wire = w]
      BY <2>3, <2>4
    <2>6. ButFor(t, u, {"outgoing", "wire", "p_send"}) /\ u.outgoing = << >> /\ u.p_send = TRUE
          /\ u.wire = w
      BY <2>5 DEF IsRecord, ButFor, Fields
    <2>7. QueueSent(t, u)
      BY <1>2, <2>2, <2>4, <2>6 DEF QueueSent
    <2> QED
      BY <2>6, <2>7
  <1> QED
    BY <1>1, <1>2

(* NEWKEYS, once the keys are derived, and what has waited for it. *)
Ready(t, n) ==
    /\ t.done = FALSE /\ t.rekeying = TRUE /\ t.init_sent = TRUE /\ t.peer = << n + 1 >>
    /\ t.my = n + 1 /\ t.in = Key(n) /\ t.out = Key(n)
    /\ t.new_in = Chosen /\ t.new_out = Chosen
    /\ t.dispatch = [m \in KexTypes |-> t.dispatch[m]]

LEMMA Switches ==
    ASSUME NEW p \in Peers, NEW t, Memory(p, t), NEW n \in Nat, Ready(t, n),
           NEW a \in Nat, NEW g \in Seq(Nat),
           OnWire(p, t.wire, a, 4 * n + 3), InOrder(g, t.wire, t.outgoing, t.apps),
           NEW due \in BOOLEAN, NEW u, u = kex_send_newkeys(kex_derive_keys(t), due)
    PROVE  Memory(p, u) /\ Switched(u, n) /\ Flushed(u) /\ Flow(p, u, a, g) /\ u.got = t.got
  <1> USE DEF Ready
  <1>1. /\ IsRecord(t) /\ t.server \in BOOLEAN /\ t.p_read \in BOOLEAN /\ t.p_send \in BOOLEAN
        /\ t.outgoing \in Waiting /\ t.apps \in Nat /\ t.ext_info_c \in BOOLEAN
        /\ (t.ext_info_c <=> p = "server") /\ t.err = "none" /\ n + 1 \in 1 .. MaxRounds
    BY MemoryFacts
  <1>2. kex_c25519_hash(t) = Key(n + 1)
    BY DEF kex_c25519_hash, Key
  <1>3. NoKey # Chosen /\ Key(n + 1) \notin {NoKey, Chosen}
    BY DEF NoKey, Chosen, Key
  <1>4. PICK d : d = kex_derive_keys(t)
    OBVIOUS
  <1>5. /\ ButFor(t, d, {"new_in", "new_out"}) /\ IsRecord(d)
        /\ d.new_in = Key(n + 1) /\ d.new_out = Key(n + 1)
    BY <1>1, <1>2, <1>3, <1>4 DEF kex_derive_keys, IsRecord, ButFor, Fields
  <1>6. PICK r : r = kex_reset_dispatch(d)
    OBVIOUS
  <1>7. /\ ButFor(d, r, {"dispatch"}) /\ IsRecord(r)
        /\ Expects(r, "error", "error", "error", "error")
    <2>1. d.dispatch = t.dispatch
      BY <1>5 DEF ButFor, Fields
    <2>2. DOMAIN d.dispatch = KexTypes
      BY <2>1
    <2>3. ButFor(d, r, {"dispatch"}) /\ IsRecord(r) /\ r.dispatch = [m \in KexTypes |-> "error"]
      BY <1>5, <1>6, <2>2 DEF kex_reset_dispatch, IsRecord, ButFor, Fields
    <2> QED
      BY <2>3 DEF Expects, KexTypes
  <1>8. PICK k : k = ssh_packet_send2_wrapped(r, "newkeys", 0)
    OBVIOUS
  <1>9. r.new_out = Key(n + 1) /\ r.out = Key(n) /\ r.wire = t.wire
    BY <1>5, <1>7 DEF ButFor, Fields
  <1>10. PICK x : x = [type |-> "newkeys", key |-> Key(n), val |-> 0]
    OBVIOUS
  <1>11. /\ ButFor(r, k, {"wire", "p_send", "out", "new_out"}) /\ k.p_send = FALSE
         /\ k.wire = Append(t.wire, x) /\ k.out = Key(n + 1) /\ k.new_out = NoKey
    <2>1. IsRecord(r) /\ r.new_out \notin {NoKey, Chosen}
      BY <1>3, <1>7, <1>9
    <2>2. /\ ButFor(r, k, {"wire", "p_send", "out", "new_out"}) /\ k.p_send = FALSE
          /\ k.wire = Append(r.wire, [type |-> "newkeys", key |-> r.out, val |-> 0])
          /\ k.out = r.new_out /\ k.new_out = NoKey
      BY <1>8, <2>1, SendsNewkeys
    <2> QED
      BY <1>9, <1>10, <2>2
  <1>12. PICK e : e = [k EXCEPT !.rekeying = FALSE]
    OBVIOUS
  <1>13. ButFor(k, e, {"rekeying"}) /\ e.rekeying = FALSE /\ IsRecord(e)
    BY <1>11, <1>12 DEF IsRecord, ButFor, Fields
  <1>14. /\ e.done = FALSE /\ e.p_send \in BOOLEAN /\ e.outgoing = t.outgoing
         /\ e.wire = Append(t.wire, x) /\ e.out = Key(n + 1)
    <2>1. e.done = k.done /\ e.p_send = k.p_send /\ e.outgoing = k.outgoing /\ e.wire = k.wire
          /\ e.out = k.out
      BY <1>13 DEF ButFor, Fields
    <2>2. k.done = r.done /\ k.outgoing = r.outgoing
      BY <1>11 DEF ButFor, Fields
    <2>3. r.done = t.done /\ r.outgoing = t.outgoing
      BY <1>5, <1>7 DEF ButFor, Fields
    <2> QED
      BY <1>11, <2>1, <2>2, <2>3
  <1>15. PICK f : f = SendQueue(e, due)
    OBVIOUS
  <1>16. PICK s : s = Sealed(t.outgoing, Key(n + 1))
    OBVIOUS
  <1>17. /\ ButFor(e, f, {"outgoing", "wire", "p_send"}) /\ f.outgoing = << >>
         /\ f.p_send \in BOOLEAN
         /\ t.outgoing = << >> => f.wire = e.wire
         /\ t.outgoing # << >> => f.wire = e.wire \o s
    <2>1. IsRecord(e) /\ e.done = FALSE /\ e.p_send \in BOOLEAN
      BY <1>13, <1>14
    <2>2. /\ ButFor(e, f, {"outgoing", "wire", "p_send"}) /\ f.outgoing = << >>
          /\ f.p_send \in BOOLEAN /\ QueueSent(e, f)
      BY <1>15, <2>1, SendsQueue, ZenonT(60)
    <2>3. PICK o, w, j : o = e.outgoing /\ w = e.wire /\ j = e.out
      OBVIOUS
    <2>4. /\ o = << >> => f.wire = w
          /\ o # << >> => f.wire = w \o Sealed(o, j)
      BY <2>2, <2>3 DEF QueueSent
    <2>5. o = t.outgoing /\ j = Key(n + 1)
      BY <1>14, <2>3
    <2> QED
      BY <1>16, <2>2, <2>3, <2>4, <2>5
  <1>18. SendNewkeys(r, due) = f /\ f.err = "none"
    <2>1. k.err = "none"
      <3>1. d.err = t.err
        BY <1>5 DEF ButFor, Fields
      <3>2. r.err = d.err
        BY <1>7 DEF ButFor, Fields
      <3>3. k.err = r.err
        BY <1>11 DEF ButFor, Fields
      <3> QED
        BY <1>1, <3>1, <3>2, <3>3
    <2>2. e.err = k.err /\ f.err = e.err
      BY <1>13, <1>17 DEF ButFor, Fields
    <2> QED
      BY <1>8, <1>12, <1>15, <2>1, <2>2 DEF SendNewkeys
  <1>19. OnWire(p, f.wire, a, 4 * (n + 1)) /\ InOrder(g, f.wire, << >>, t.apps)
    <2>1. IsPacket(p, x) /\ No(x) = n /\ x.type = "newkeys"
      <3>1. PICK m : m = "newkeys"
        OBVIOUS
      <3>2. /\ m \in Types /\ m \notin {"init", "reply", "kexinit", "data"} /\ 0 \in Nat
            /\ x = [type |-> m, key |-> Key(n), val |-> 0]
        BY <1>10, <3>1 DEF Types
      <3>3. IsPacket(p, x) /\ No(x) = n /\ x.type = m
        BY <3>2, MakesPacket
      <3> QED
        BY <3>1, <3>3
    <2>2. PICK w, o, c : w = t.wire /\ o = t.outgoing /\ c = t.apps
      OBVIOUS
    <2>3. OnWire(p, w, a, 4 * n + 3) /\ InOrder(g, w, o, c) /\ o \in Waiting /\ c \in Nat
      BY <1>1, <2>2
    <2>4. OnWire(p, Append(w, x), a, 4 * n + 4) /\ InOrder(g, Append(w, x), o, c)
      BY <2>1, <2>3, FlowNew
    <2>5. PICK v, j : v = Append(w, x) /\ j = n + 1
      OBVIOUS
    <2>6. j \in Nat /\ OnWire(p, v, a, 4 * j) /\ InOrder(g, v, o, c)
      <3>1. 4 * n + 4 = 4 * j
        BY <2>5
      <3> QED
        BY <2>4, <2>5, <3>1
    <2>7. CASE t.outgoing = << >>
      BY <1>14, <1>17, <2>2, <2>5, <2>6, <2>7
    <2>8. CASE t.outgoing # << >>
      <3>1. s = Sealed(o, Key(j))
        BY <1>16, <2>2, <2>5
      <3>2. OnWire(p, v \o s, a, 4 * j) /\ InOrder(g, v \o s, << >>, c)
        BY <2>3, <2>6, <3>1, FlowFlush
      <3> QED
        BY <1>14, <1>17, <2>2, <2>5, <2>8, <3>2
    <2> QED
      BY <2>7, <2>8
  <1>20. PICK h : h = [f EXCEPT !.dispatch["newkeys"] = "handler"]
    OBVIOUS
  <1>21. /\ ButFor(f, h, {"dispatch"}) /\ IsRecord(h)
         /\ Expects(h, "error", "error", "error", "handler")
    <2>1. IsRecord(f)
      BY <1>17 DEF ButFor, IsRecord
    <2>2. ButFor(f, h, {"dispatch"}) /\ IsRecord(h)
          /\ h.dispatch = [f.dispatch EXCEPT !["newkeys"] = "handler"]
      BY <1>20, <2>1 DEF IsRecord, ButFor, Fields
    <2>3. f.dispatch = e.dispatch /\ e.dispatch = k.dispatch /\ k.dispatch = r.dispatch
      BY <1>11, <1>13, <1>17 DEF ButFor, Fields
    <2>4. h.dispatch = [r.dispatch EXCEPT !["newkeys"] = "handler"]
      BY <2>2, <2>3
    <2>5. Expects(h, "error", "error", "error", "handler")
      BY <1>7, <2>4 DEF Expects, KexTypes
    <2> QED
      BY <2>2, <2>5
  <1>22. PICK H : H = {"new_in", "new_out", "dispatch", "wire", "p_send", "out", "rekeying", "outgoing"}
    OBVIOUS
  <1>23. ButFor(t, h, H)
    <2>1. PICK A, B, C, D, E :
            /\ A = {"new_in", "new_out"} /\ B = {"dispatch"} /\ C = {"wire", "p_send", "out", "new_out"}
            /\ D = {"rekeying"} /\ E = {"outgoing", "wire", "p_send"}
      OBVIOUS
    <2>2. A \subseteq H /\ B \subseteq H /\ C \subseteq H /\ D \subseteq H /\ E \subseteq H
      BY <1>22, <2>1
    <2>3. /\ ButFor(t, d, A) /\ ButFor(d, r, B) /\ ButFor(r, k, C) /\ ButFor(k, e, D)
          /\ ButFor(e, f, E) /\ ButFor(f, h, B)
      BY <1>5, <1>7, <1>11, <1>13, <1>17, <1>21, <2>1
    <2>4. ButFor(t, r, H)
      BY <2>2, <2>3, Composed
    <2>5. ButFor(t, k, H)
      BY <2>2, <2>3, <2>4, Composed
    <2>6. ButFor(t, e, H)
      BY <2>2, <2>3, <2>5, Composed
    <2>7. ButFor(t, f, H)
      BY <2>2, <2>3, <2>6, Composed
    <2> QED
      BY <2>2, <2>3, <2>7, Composed
  <1>24. /\ h.rekeying = FALSE /\ h.out = Key(n + 1) /\ h.new_in = Key(n + 1) /\ h.new_out = NoKey
         /\ h.outgoing = << >> /\ h.wire = f.wire /\ h.p_send \in BOOLEAN
    <2>1. h.rekeying = f.rekeying /\ h.out = f.out /\ h.new_in = f.new_in /\ h.new_out = f.new_out
          /\ h.outgoing = f.outgoing /\ h.wire = f.wire /\ h.p_send = f.p_send
      BY <1>21 DEF ButFor, Fields
    <2>2. f.rekeying = e.rekeying /\ f.out = e.out /\ f.new_in = e.new_in /\ f.new_out = e.new_out
      BY <1>17 DEF ButFor, Fields
    <2>3. e.new_in = k.new_in /\ e.new_out = k.new_out
      BY <1>13 DEF ButFor, Fields
    <2>4. k.new_in = d.new_in
      BY <1>7, <1>11 DEF ButFor, Fields
    <2> QED
      BY <1>5, <1>11, <1>13, <1>14, <1>17, <2>1, <2>2, <2>3, <2>4
  <1>25. /\ h.done = FALSE /\ h.init_sent = TRUE /\ h.peer = << n + 1 >> /\ h.my = n + 1
         /\ h.in = Key(n) /\ h.server = t.server /\ h.ext_info_c = t.ext_info_c
         /\ h.p_read = t.p_read /\ h.apps = t.apps /\ h.got = t.got
    BY <1>22, <1>23 DEF ButFor, Fields
  <1>26. u = IF t.ext_info_c THEN kex_send_ext_info(h, due) ELSE h
    <2>1. d.ext_info_c = t.ext_info_c
      BY <1>5 DEF ButFor, Fields
    <2> QED
      BY <1>4, <1>6, <1>18, <1>20, <2>1 DEF kex_send_newkeys
  <1>27. CASE p = "client"
    <2>1. u = h
      BY <1>1, <1>26, <1>27
    <2>2. Switched(u, n) /\ Flushed(u)
      BY <1>21, <1>24, <1>25, <2>1 DEF Switched, Flushed
    <2>3. Memory(p, u)
      <3>1. {"server", "ext_info_c", "err", "apps", "got"} \cap H = {}
        BY <1>22
      <3>2. << >> \in Waiting
        BY DEF Waiting
      <3> QED
        BY <1>1, <1>23, <1>24, <1>25, <2>1, <3>1, <3>2, MemoryKept
    <2>4. Sent(u) = 4 * (n + 1)
      BY <1>1, <1>25, <2>1, <2>2, Ranks
    <2> QED
      BY <1>19, <1>24, <1>25, <2>1, <2>2, <2>3, <2>4 DEF Flow
  <1>28. CASE p = "server"
    <2>1. u = kex_send_ext_info(h, due)
      BY <1>1, <1>26, <1>28
    <2>2. ~ssh_packet_need_rekeying(h, due)
      BY <1>25 DEF ssh_packet_need_rekeying, ssh_packet_is_rekeying
    <2>3. PICK m : m = "ext_info"
      OBVIOUS
    <2>4. u = ssh_packet_send2_wrapped(h, m, 0)
      BY <1>24, <2>1, <2>2, <2>3 DEF kex_send_ext_info, ssh_packet_send2
    <2>5. PICK y : y = [type |-> m, key |-> Key(n + 1), val |-> 0]
      OBVIOUS
    <2>6. ButFor(h, u, {"wire", "p_send"}) /\ u.p_send = TRUE /\ u.wire = Append(f.wire, y)
      <3>1. m \notin {"kexinit", "newkeys"} /\ IsRecord(h)
        BY <1>21, <2>3
      <3>2. ButFor(h, u, {"wire", "p_send"}) /\ u.p_send = TRUE /\ OneSent(h, u, m, 0)
        BY <2>4, <3>1, SendsOne
      <3> QED
        BY <1>24, <2>5, <3>2 DEF OneSent
    <2>7. /\ u.done = h.done /\ u.rekeying = h.rekeying /\ u.init_sent = h.init_sent
          /\ u.peer = h.peer /\ u.my = h.my /\ u.in = h.in /\ u.out = h.out
          /\ u.new_in = h.new_in /\ u.new_out = h.new_out /\ u.dispatch = h.dispatch
          /\ u.outgoing = h.outgoing /\ u.server = h.server /\ u.apps = h.apps /\ u.got = h.got
          /\ u.p_read = h.p_read
      BY <2>6 DEF ButFor, Fields
    <2>8. Switched(u, n) /\ Flushed(u)
      BY <1>21, <1>24, <1>25, <2>7 DEF Switched, Flushed, Expects
    <2>9. Memory(p, u)
      <3>1. {"server", "ext_info_c", "err", "apps", "got"} \cap H = {}
        BY <1>22
      <3>2. << >> \in Waiting
        BY DEF Waiting
      <3>3. PICK G : G = {"wire", "p_send"}
        OBVIOUS
      <3>4. G \subseteq H /\ ButFor(h, u, G) /\ H \subseteq H
        BY <1>22, <2>6, <3>3
      <3>5. ButFor(t, u, H)
        BY <1>23, <3>4, Composed
      <3> QED
        <4>1. /\ u.p_send \in BOOLEAN /\ u.p_read \in BOOLEAN /\ u.my \in 1 .. MaxRounds
              /\ u.outgoing \in Waiting
          BY <1>1, <1>24, <1>25, <2>6, <2>7, <3>2
        <4> QED
          BY <3>1, <3>5, <4>1, MemoryKept
    <2>10. Sent(u) = 4 * (n + 1)
      BY <1>1, <1>25, <2>7, <2>8, Ranks
    <2>11. PICK j, w, k1 : j = n + 1 /\ w = f.wire /\ k1 = t.apps
      OBVIOUS
    <2>12. IsPacket(p, y) /\ No(y) = j /\ y.type = "ext_info"
      <3>1. /\ m \in Types /\ m \notin {"init", "reply", "kexinit", "data"} /\ 0 \in Nat
            /\ y = [type |-> m, key |-> Key(j), val |-> 0] /\ j \in Nat
        BY <2>3, <2>5, <2>11 DEF Types
      <3>2. IsPacket(p, y) /\ No(y) = j /\ y.type = m
        BY <3>1, MakesPacket
      <3> QED
        BY <2>3, <3>2
    <2>13. PICK b \in Nat : b = 4 * j
      BY <2>11
    <2>14. /\ OnWire(p, w, a, b) /\ InOrder(g, w, << >>, k1) /\ k1 \in Nat /\ << >> \in Waiting
           /\ j \in Nat /\ 4 * j <= b /\ b < 4 * j + 4
      <3>1. << >> \in Waiting
        BY DEF Waiting
      <3>2. j \in Nat /\ 4 * j <= b /\ b < 4 * j + 4
        BY <2>11, <2>13
      <3> QED
        BY <1>1, <1>19, <2>11, <2>13, <3>1, <3>2
    <2>15. OnWire(p, Append(w, y), a, b) /\ InOrder(g, Append(w, y), << >>, k1)
      BY <2>12, <2>13, <2>14, FlowOther
    <2>16. Flow(p, u, a, g)
      BY <1>24, <1>25, <2>6, <2>7, <2>10, <2>11, <2>13, <2>15 DEF Flow
    <2> QED
      BY <1>25, <2>7, <2>8, <2>9, <2>16
  <1> QED
    BY <1>27, <1>28 DEF Peers

LEMMA TakesInit ==
    ASSUME NEW p \in Peers, p = "server", NEW t, Memory(p, t), NEW n \in Nat, Agreed(t, n),
           NEW a \in Nat, NEW g \in Seq(Nat), Flow(p, t, a, g),
           NEW due \in BOOLEAN, NEW u, u = input_kex_c25519_init(t, due)
    PROVE  Memory(p, u) /\ Switched(u, n) /\ Flushed(u) /\ Flow(p, u, a, g) /\ u.got = t.got
  <1>1. /\ IsRecord(t) /\ t.server = TRUE /\ t.p_read \in BOOLEAN /\ t.p_send \in BOOLEAN
        /\ t.outgoing \in Waiting /\ t.apps \in Nat /\ t.my \in 1 .. MaxRounds
    BY MemoryFacts
  <1>2. kex_c25519_hash(t) = Key(n + 1)
    BY <1>1 DEF Agreed, kex_c25519_hash, Key
  <1>3. PICK m, v, e : m = "reply" /\ v = Key(n + 1) /\ e = ssh_packet_send2_wrapped(t, m, v)
    OBVIOUS
  <1>4. m \notin {"kexinit", "newkeys"}
    BY <1>3
  <1>5. /\ ButFor(t, e, {"wire", "p_send"}) /\ e.p_send = TRUE
        /\ OneSent(t, e, m, v) /\ SendKex(t, m, v) = e
    BY <1>1, <1>3, <1>4, SendsOne
  <1>6. u = kex_send_newkeys(kex_derive_keys(e), due)
    BY <1>2, <1>3, <1>5 DEF input_kex_c25519_init
  <1>7. /\ e.done = t.done /\ e.rekeying = t.rekeying /\ e.init_sent = t.init_sent
        /\ e.peer = t.peer /\ e.my = t.my /\ e.in = t.in /\ e.out = t.out
        /\ e.new_in = t.new_in /\ e.new_out = t.new_out /\ e.dispatch = t.dispatch
        /\ e.outgoing = t.outgoing /\ e.apps = t.apps /\ e.got = t.got /\ e.p_read = t.p_read
    BY <1>5 DEF ButFor, Fields
  <1>8. Memory(p, e)
    <2>1. PICK F : F = {"wire", "p_send"}
      OBVIOUS
    <2>2. ButFor(t, e, F) /\ {"server", "ext_info_c", "err", "apps", "got"} \cap F = {}
      BY <1>5, <2>1
    <2>3. /\ e.p_send \in BOOLEAN /\ e.p_read \in BOOLEAN /\ e.my \in 1 .. MaxRounds
          /\ e.outgoing \in Waiting
      BY <1>1, <1>5, <1>7
    <2> QED
      BY <2>2, <2>3, MemoryKept
  <1>9. PICK x : x = [type |-> m, key |-> Key(n), val |-> v]
    OBVIOUS
  <1>10. e.wire = Append(t.wire, x)
    BY <1>5, <1>9 DEF OneSent, Agreed
  <1>11. IsPacket(p, x) /\ No(x) = n /\ x.type = "reply"
    <2>1. m \in Types /\ m \notin {"init", "kexinit", "data"} /\ v \in Nat \X Nat /\ m = Kind(p, 3)
      BY <1>3 DEF Types, Key, Kind
    <2>2. IsPacket(p, x) /\ No(x) = n /\ x.type = m
      BY <1>3, <1>9, <2>1, MakesPacket
    <2> QED
      BY <1>3, <2>2
  <1>12. PICK w, o, k : w = t.wire /\ o = t.outgoing /\ k = t.apps
    OBVIOUS
  <1>13. OnWire(p, w, a, 4 * n + 2) /\ InOrder(g, w, o, k) /\ o \in Waiting /\ k \in Nat
    <2>1. Sent(t) = 4 * n + 2
      BY <1>1, Ranks
    <2> QED
      BY <1>1, <1>12, <2>1 DEF Flow
  <1>14. OnWire(p, Append(w, x), a, 4 * n + 3) /\ InOrder(g, Append(w, x), o, k)
    BY <1>11, <1>13, FlowMiddle
  <1>15. OnWire(p, e.wire, a, 4 * n + 3) /\ InOrder(g, e.wire, e.outgoing, e.apps)
    BY <1>7, <1>10, <1>12, <1>14
  <1>16. Ready(e, n)
    BY <1>1, <1>7 DEF Agreed, Expects, Ready
  <1>17. Memory(p, u) /\ Switched(u, n) /\ Flushed(u) /\ Flow(p, u, a, g) /\ u.got = e.got
    BY <1>6, <1>8, <1>15, <1>16, Switches
  <1> QED
    BY <1>7, <1>17

LEMMA TakesReply ==
    ASSUME NEW p \in Peers, p = "client", NEW t, Memory(p, t), NEW n \in Nat, Agreed(t, n),
           NEW a \in Nat, NEW g \in Seq(Nat), Flow(p, t, a, g),
           NEW due \in BOOLEAN, NEW u, u = input_kex_c25519_reply(t, Key(n + 1), due)
    PROVE  Memory(p, u) /\ Switched(u, n) /\ Flushed(u) /\ Flow(p, u, a, g) /\ u.got = t.got
  <1>1. t.server = FALSE
    BY MemoryFacts
  <1>2. kex_c25519_hash(t) = Key(n + 1)
    BY <1>1 DEF Agreed, kex_c25519_hash, Key
  <1>3. u = kex_send_newkeys(kex_derive_keys(t), due)
    BY <1>2 DEF input_kex_c25519_reply
  <1>4. OnWire(p, t.wire, a, 4 * n + 3) /\ InOrder(g, t.wire, t.outgoing, t.apps)
    <2>1. Sent(t) = 4 * n + 3
      BY <1>1, Ranks
    <2> QED
      BY <2>1 DEF Flow
  <1>5. Ready(t, n)
    BY <1>1 DEF Agreed, Expects, Ready
  <1> QED
    BY <1>3, <1>4, <1>5, Switches

LEMMA TakesNewkeys ==
    ASSUME NEW p \in Peers, NEW t, Memory(p, t), NEW n \in Nat, Switched(t, n), Flushed(t),
           NEW a \in Nat, NEW g \in Seq(Nat), Flow(p, t, a, g),
           NEW u, u = kex_input_newkeys(t)
    PROVE  Memory(p, u) /\ Idle(u, n + 1) /\ Flushed(u) /\ Flow(p, u, a, g) /\ u.got = t.got
  <1>1. /\ IsRecord(t) /\ t.server \in BOOLEAN /\ t.p_read \in BOOLEAN /\ t.p_send \in BOOLEAN
        /\ t.outgoing \in Waiting /\ t.apps \in Nat /\ t.my \in 1 .. MaxRounds /\ t.err = "none"
    BY MemoryFacts
  <1>2. t.new_in \notin {NoKey, Chosen} /\ Expects(t, "error", "error", "error", "handler")
    BY DEF Switched, NoKey, Chosen, Key
  <1>3. PICK F : F = {"dispatch", "in", "new_in", "p_read", "done", "peer", "init_sent"}
    OBVIOUS
  <1>4. /\ ButFor(t, u, F)
        /\ Expects(u, "handler", "error", "error", "error")
        /\ u.in = t.new_in /\ u.new_in = NoKey /\ u.p_read = FALSE
        /\ u.done = TRUE /\ u.peer = << >> /\ u.init_sent = FALSE
    BY <1>1, <1>2, <1>3, TakesNew
  <1>5. /\ u.rekeying = t.rekeying /\ u.my = t.my /\ u.out = t.out /\ u.new_out = t.new_out
        /\ u.outgoing = t.outgoing /\ u.apps = t.apps /\ u.got = t.got /\ u.wire = t.wire
        /\ u.server = t.server /\ u.p_send = t.p_send
    BY <1>3, <1>4 DEF ButFor, Fields
  <1>6. Memory(p, u)
    <2>1. {"server", "ext_info_c", "err", "apps", "got"} \cap F = {}
      BY <1>3
    <2>2. /\ u.p_send \in BOOLEAN /\ u.p_read \in BOOLEAN /\ u.my \in 1 .. MaxRounds
          /\ u.outgoing \in Waiting
      BY <1>1, <1>4, <1>5
    <2> QED
      BY <1>4, <2>1, <2>2, MemoryKept
  <1>7. Idle(u, n + 1) /\ Flushed(u)
    BY <1>4, <1>5 DEF Idle, Switched, Flushed
  <1>8. Sent(u) = Sent(t)
    <2>1. PICK k : k = n + 1
      OBVIOUS
    <2>2. Sent(u) = 4 * k
      BY <1>1, <1>5, <1>7, <2>1, Ranks
    <2>3. Sent(t) = 4 * n + 4
      BY <1>1, Ranks
    <2> QED
      BY <2>1, <2>2, <2>3
  <1> QED
    BY <1>5, <1>6, <1>7, <1>8 DEF Flow

(* A peer that no longer knows EXT_INFO says so, at any time. *)
LEMMA Protests ==
    ASSUME NEW p \in Peers, NEW t, Memory(p, t), NEW n \in Nat, Idle(t, n) \/ Begun(t, n), Flushed(t),
           NEW a \in Nat, NEW g \in Seq(Nat), Flow(p, t, a, g),
           NEW u, u = kex_protocol_error(t)
    PROVE  /\ Memory(p, u) /\ Flushed(u) /\ Flow(p, u, a, g) /\ u.got = t.got
           /\ Idle(t, n) => Idle(u, n)
           /\ Begun(t, n) => Begun(u, n)
  <1>1. /\ IsRecord(t) /\ t.server \in BOOLEAN /\ t.p_read \in BOOLEAN /\ t.p_send \in BOOLEAN
        /\ t.outgoing \in Waiting /\ t.apps \in Nat /\ t.my \in 1 .. MaxRounds
    BY MemoryFacts
  <1>2. PICK m, e : m = "unimplemented" /\ e = ssh_packet_send2_wrapped(t, m, 0)
    OBVIOUS
  <1>3. m \notin {"kexinit", "newkeys"}
    BY <1>2
  <1>4. /\ ButFor(t, e, {"wire", "p_send"}) /\ e.p_send = TRUE
        /\ OneSent(t, e, m, 0) /\ SendKex(t, m, 0) = e
    BY <1>1, <1>2, <1>3, SendsOne
  <1>5. u = e
    BY <1>2, <1>4 DEF kex_protocol_error
  <1>6. /\ u.done = t.done /\ u.rekeying = t.rekeying /\ u.init_sent = t.init_sent
        /\ u.peer = t.peer /\ u.my = t.my /\ u.in = t.in /\ u.out = t.out
        /\ u.new_in = t.new_in /\ u.new_out = t.new_out /\ u.dispatch = t.dispatch
        /\ u.outgoing = t.outgoing /\ u.apps = t.apps /\ u.got = t.got /\ u.p_read = t.p_read
        /\ u.server = t.server
    BY <1>4, <1>5 DEF ButFor, Fields
  <1>7. Memory(p, u)
    <2>1. PICK F : F = {"wire", "p_send"}
      OBVIOUS
    <2>2. ButFor(t, u, F) /\ {"server", "ext_info_c", "err", "apps", "got"} \cap F = {}
      BY <1>4, <1>5, <2>1
    <2>3. /\ u.p_send \in BOOLEAN /\ u.p_read \in BOOLEAN /\ u.my \in 1 .. MaxRounds
          /\ u.outgoing \in Waiting
      BY <1>1, <1>4, <1>5, <1>6
    <2> QED
      BY <2>2, <2>3, MemoryKept
  <1>8. /\ Idle(t, n) => Idle(u, n)
        /\ Begun(t, n) => Begun(u, n)
        /\ Flushed(u) /\ Sent(u) = Sent(t)
    BY <1>6 DEF Idle, Begun, Expects, Flushed, Sent
  <1>9. PICK x : x = [type |-> m, key |-> Key(n), val |-> 0]
    OBVIOUS
  <1>10. u.wire = Append(t.wire, x)
    BY <1>4, <1>5, <1>9 DEF OneSent, Idle, Begun
  <1>11. IsPacket(p, x) /\ No(x) = n /\ x.type = "unimplemented"
    <2>1. m \in Types /\ m \notin {"init", "reply", "kexinit", "data"} /\ 0 \in Nat
      BY <1>2 DEF Types
    <2>2. IsPacket(p, x) /\ No(x) = n /\ x.type = m
      BY <1>9, <2>1, MakesPacket
    <2> QED
      BY <1>2, <2>2
  <1>12. PICK w, o, k, b : w = t.wire /\ o = t.outgoing /\ k = t.apps /\ b = Sent(t)
    OBVIOUS
  <1>13. /\ OnWire(p, w, a, b) /\ InOrder(g, w, o, k) /\ o \in Waiting /\ k \in Nat
         /\ b \in Nat /\ 4 * n <= b /\ b < 4 * n + 4
    <2>1. b = 4 * n \/ b = 4 * n + 2
      BY <1>1, <1>12, Ranks
    <2>2. b \in Nat /\ 4 * n <= b /\ b < 4 * n + 4
      BY <2>1
    <2> QED
      BY <1>1, <1>12, <2>2 DEF Flow
  <1>14. OnWire(p, Append(w, x), a, b) /\ InOrder(g, Append(w, x), o, k)
    BY <1>11, <1>13, FlowOther
  <1> QED
    BY <1>6, <1>7, <1>8, <1>10, <1>12, <1>14 DEF Flow

-----------------------------------------------------------------------------
(* The steps of a peer, from phase to phase. *)

Passes(t, u, n) ==
    \/ Idle(t, n) /\ (Idle(u, n) \/ Begun(u, n) \/ Agreed(u, n))
    \/ Begun(t, n) /\ (Begun(u, n) \/ Agreed(u, n))
    \/ Agreed(t, n) /\ (Agreed(u, n) \/ Switched(u, n))
    \/ Switched(t, n) /\ (Switched(u, n) \/ Idle(u, n + 1))

(* What the phases are about. *)
SamePhase(t, u) ==
    /\ u.done = t.done /\ u.rekeying = t.rekeying /\ u.init_sent = t.init_sent
    /\ u.peer = t.peer /\ u.my = t.my /\ u.in = t.in /\ u.out = t.out
    /\ u.new_in = t.new_in /\ u.new_out = t.new_out /\ u.dispatch = t.dispatch
    /\ u.server = t.server

LEMMA PhaseKept ==
    ASSUME NEW t, NEW u, SamePhase(t, u), NEW n
    PROVE  /\ Idle(t, n) => Idle(u, n)
           /\ Begun(t, n) => Begun(u, n)
           /\ Agreed(t, n) => Agreed(u, n)
           /\ Switched(t, n) => Switched(u, n)
           /\ Phase(t, n) => Passes(t, u, n)
           /\ Sent(u) = Sent(t) /\ Seen(u) = Seen(t)
  <1>1. /\ Idle(t, n) => Idle(u, n)
        /\ Begun(t, n) => Begun(u, n)
        /\ Agreed(t, n) => Agreed(u, n)
        /\ Switched(t, n) => Switched(u, n)
    BY DEF SamePhase, Idle, Begun, Agreed, Switched, Expects
  <1>2. Phase(t, n) => Passes(t, u, n)
    BY <1>1 DEF Phase, Passes
  <1>3. Sent(u) = Sent(t) /\ Seen(u) = Seen(t)
    BY DEF SamePhase, Sent, Seen
  <1> QED
    BY <1>1, <1>2, <1>3

(* What a peer has sent and read after one of its steps. *)
Sends(p, t, u, n, a, g) ==
    /\ Memory(p, u) /\ Flushed(u) /\ Flow(p, u, a, g) /\ Passes(t, u, n)
    /\ Seen(u) = Seen(t) /\ u.got = t.got

(* A packet waits. *)
Queued(t, k) == [t EXCEPT !.apps = k, !.outgoing = Append(@, <<"data", k>>)]

LEMMA Waits ==
    ASSUME NEW p \in Peers, NEW t, Memory(p, t), NEW n \in Nat, Phase(t, n),
           NEW a \in Nat, NEW g \in Seq(Nat), Flow(p, t, a, g), NEW k, k = t.apps + 1,
           NEW u, u = Queued(t, k)
    PROVE  Memory(p, u) /\ SamePhase(t, u) /\ Flow(p, u, a, g) /\ u.got = t.got
  <1>1. IsRecord(t) /\ t.apps \in Nat /\ t.outgoing \in Waiting
    BY MemoryFacts
  <1>2. PICK o : o = Append(t.outgoing, <<"data", k>>)
    OBVIOUS
  <1>3. u = [t EXCEPT !.apps = k, !.outgoing = o]
    BY <1>2 DEF Queued
  <1>4. ButFor(t, u, {"apps", "outgoing"}) /\ u.apps = k /\ u.outgoing = o
    BY <1>1, <1>3 DEF IsRecord, ButFor, Fields
  <1>5. SamePhase(t, u) /\ u.got = t.got /\ u.wire = t.wire
    BY <1>4 DEF ButFor, Fields, SamePhase
  <1>6. o \in Waiting /\ k \in Nat
    <2>1. k \in Nat /\ <<"data", k>> \in Entries
      BY <1>1 DEF Entries
    <2> QED
      BY <1>1, <1>2, <2>1, AppendProperties DEF Waiting
  <1>7. Memory(p, u)
    <2>1. u.server = t.server /\ u.ext_info_c = t.ext_info_c /\ u.err = t.err
          /\ u.got = t.got /\ u = [f \in Fields |-> u[f]] /\ u.p_send = t.p_send
          /\ u.p_read = t.p_read /\ u.my = t.my
      BY <1>4 DEF ButFor, Fields
    <2> QED
      BY <1>4, <1>6, <2>1 DEF Memory
  <1>8. Flow(p, u, a, g)
    <2>1. OnWire(p, t.wire, a, Sent(t)) /\ InOrder(g, t.wire, t.outgoing, t.apps)
      BY DEF Flow
    <2>2. PICK w, i, m : w = t.wire /\ i = t.outgoing /\ m = t.apps
      OBVIOUS
    <2>3. w \in Seq(PacketSet) /\ i \in Waiting /\ m \in Nat /\ InOrder(g, w, i, m)
      BY <1>1, <2>1, <2>2 DEF OnWire
    <2>4. InOrder(g, w, Append(i, <<"data", m + 1>>), m + 1)
      BY <2>3, OrderQueue
    <2>5. InOrder(g, u.wire, u.outgoing, u.apps)
      BY <1>2, <1>4, <1>5, <2>2, <2>4
    <2>6. Sent(u) = Sent(t)
      BY <1>5, PhaseKept
    <2> QED
      BY <1>5, <2>1, <2>5, <2>6 DEF Flow
  <1> QED
    BY <1>5, <1>7, <1>8

(* A packet goes out at once. *)
LEMMA Passed ==
    ASSUME NEW p \in Peers, NEW t, Memory(p, t), Flushed(t), NEW n \in Nat,
           Idle(t, n) \/ Switched(t, n),
           NEW a \in Nat, NEW g \in Seq(Nat), Flow(p, t, a, g), NEW k, k = t.apps + 1,
           NEW u, u = ssh_packet_send2_wrapped([t EXCEPT !.apps = k], "data", k)
    PROVE  Memory(p, u) /\ Flushed(u) /\ SamePhase(t, u) /\ Flow(p, u, a, g) /\ u.got = t.got
  <1>1. /\ IsRecord(t) /\ t.apps \in Nat /\ t.p_read \in BOOLEAN /\ t.server \in BOOLEAN
        /\ t.outgoing = << >>
    BY MemoryFacts DEF Flushed, Idle, Switched
  <1>2. PICK e, m : e = [t EXCEPT !.apps = k] /\ m = "data"
    OBVIOUS
  <1>3. ButFor(t, e, {"apps"}) /\ e.apps = k /\ IsRecord(e)
    BY <1>1, <1>2 DEF IsRecord, ButFor, Fields
  <1>4. m \notin {"kexinit", "newkeys"} /\ u = ssh_packet_send2_wrapped(e, m, k)
    BY <1>2
  <1>5. /\ ButFor(e, u, {"wire", "p_send"}) /\ u.p_send = TRUE
        /\ OneSent(e, u, m, k) /\ SendKex(e, m, k) = u
    BY <1>3, <1>4, SendsOne, ZenonT(60)
  <1>6. u.apps = k /\ e.wire = t.wire /\ e.out = t.out
    BY <1>3, <1>5 DEF ButFor, Fields
  <1>7. /\ u.done = t.done /\ u.rekeying = t.rekeying /\ u.init_sent = t.init_sent
        /\ u.peer = t.peer /\ u.my = t.my /\ u.in = t.in /\ u.out = t.out
        /\ u.new_in = t.new_in /\ u.new_out = t.new_out /\ u.dispatch = t.dispatch
        /\ u.server = t.server /\ u.got = t.got /\ u.outgoing = t.outgoing
        /\ u.ext_info_c = t.ext_info_c /\ u.err = t.err /\ u.p_read = t.p_read
        /\ u = [f \in Fields |-> u[f]]
    BY <1>3, <1>5 DEF ButFor, Fields
  <1>8. SamePhase(t, u) /\ Flushed(u)
    BY <1>7 DEF SamePhase, Flushed
  <1>9. k \in Nat /\ Memory(p, u)
    <2>1. k \in Nat
      BY <1>1
    <2>2. u.p_send \in BOOLEAN
      BY <1>5
    <2> QED
      BY <1>6, <1>7, <2>1, <2>2 DEF Memory
  <1>10. PICK j \in Nat : t.out = Key(j) /\ Sent(t) = 4 * j
    <2>1. CASE Idle(t, n)
      BY <1>1, <2>1, Ranks DEF Idle
    <2>2. CASE Switched(t, n)
      <3>1. t.out = Key(n + 1) /\ Sent(t) = 4 * n + 4
        BY <1>1, <2>2, Ranks DEF Switched
      <3>2. n + 1 \in Nat /\ 4 * n + 4 = 4 * (n + 1)
        OBVIOUS
      <3> QED
        BY <3>1, <3>2
    <2> QED
      BY <2>1, <2>2
  <1>11. PICK x : x = [type |-> m, key |-> Key(j), val |-> k]
    OBVIOUS
  <1>12. u.wire = Append(t.wire, x)
    BY <1>5, <1>6, <1>10, <1>11 DEF OneSent
  <1>13. IsPacket(p, x) /\ No(x) = j /\ x.type = "data" /\ x.val = k
    <2>1. m \in Types /\ m \notin {"init", "reply", "kexinit"}
      BY <1>2 DEF Types
    <2>2. IsPacket(p, x) /\ No(x) = j /\ x.type = m /\ x.val = k
      BY <1>9, <1>11, <2>1, MakesPacket
    <2> QED
      BY <1>2, <2>2
  <1>14. PICK w, c : w = t.wire /\ c = t.apps
    OBVIOUS
  <1>15. OnWire(p, w, a, 4 * j) /\ InOrder(g, w, << >>, c) /\ c \in Nat /\ x.val = c + 1
    BY <1>1, <1>10, <1>13, <1>14 DEF Flow
  <1>16. OnWire(p, Append(w, x), a, 4 * j) /\ InOrder(g, Append(w, x), << >>, c + 1)
    BY <1>13, <1>15, FlowData
  <1>17. Sent(u) = 4 * j
    BY <1>8, <1>10, PhaseKept
  <1>18. Flow(p, u, a, g)
    BY <1>1, <1>6, <1>7, <1>12, <1>14, <1>16, <1>17 DEF Flow
  <1> QED
    BY <1>7, <1>8, <1>9, <1>18

(* ssh_packet_send2 of a packet of a channel. *)
LEMMA SendsData ==
    ASSUME NEW p \in Peers, NEW t, Memory(p, t), Flushed(t), NEW n \in Nat, Phase(t, n),
           NEW a \in Nat, NEW g \in Seq(Nat), Flow(p, t, a, g),
           NEW due \in BOOLEAN, due => t.my < MaxRounds, NEW k, k = t.apps + 1,
           NEW u, u = ssh_packet_send2([t EXCEPT !.apps = k], "data", k, due)
    PROVE  Sends(p, t, u, n, a, g)
  <1>1. IsRecord(t) /\ t.server \in BOOLEAN
    BY MemoryFacts
  <1>2. PICK e : e = [t EXCEPT !.apps = k]
    OBVIOUS
  <1>3. e.done = t.done /\ e.rekeying = t.rekeying /\ e.p_send = t.p_send /\ e.p_read = t.p_read
    BY <1>1, <1>2 DEF IsRecord, Fields
  <1>4. PICK d : d = Queued(t, k)
    OBVIOUS
  <1>5. [e EXCEPT !.outgoing = Append(@, <<"data", k>>)] = d
    BY <1>1, <1>2, <1>4 DEF IsRecord, Fields, Queued
  <1>6. Memory(p, d) /\ SamePhase(t, d) /\ Flow(p, d, a, g) /\ d.got = t.got
    BY <1>4, Waits
  <1>7. CASE ssh_packet_need_rekeying(e, due)
    <2>1. t.done = TRUE /\ due = TRUE
      BY <1>3, <1>7 DEF ssh_packet_need_rekeying, ssh_packet_is_rekeying, Phase, Idle, Begun, Agreed, Switched
    <2>2. Idle(t, n)
      BY <2>1 DEF Phase, Begun, Agreed, Switched
    <2>3. Idle(d, n) /\ n < MaxRounds
      <3>1. Idle(d, n)
        BY <1>6, <2>2, PhaseKept
      <3>2. t.my = n
        BY <2>2 DEF Idle
      <3> QED
        BY <2>1, <3>1, <3>2
    <2>4. u = kex_start_rekex(d)
      BY <1>2, <1>5, <1>7 DEF ssh_packet_send2
    <2>5. Memory(p, u) /\ Begun(u, n) /\ Flow(p, u, a, g) /\ u.got = d.got
      BY <1>6, <2>3, <2>4, Begins
    <2>6. Flushed(u) /\ Passes(t, u, n)
      BY <2>2, <2>5 DEF Begun, Flushed, Passes
    <2>7. u.server \in BOOLEAN
      BY <2>5, MemoryFacts
    <2>8. Seen(u) = Seen(t)
      BY <1>1, <2>2, <2>5, <2>7, Ranks
    <2> QED
      BY <1>6, <2>5, <2>6, <2>8 DEF Sends
  <1>8. CASE ~ssh_packet_need_rekeying(e, due) /\ t.rekeying = TRUE
    <2>1. u = d
      BY <1>2, <1>3, <1>5, <1>8 DEF ssh_packet_send2
    <2>2. Flushed(u)
      BY <1>6, <1>8, <2>1 DEF Flushed, SamePhase
    <2>3. Passes(t, u, n) /\ Seen(u) = Seen(t)
      BY <1>6, <2>1, PhaseKept
    <2> QED
      BY <1>6, <2>1, <2>2, <2>3 DEF Sends
  <1>9. CASE ~ssh_packet_need_rekeying(e, due) /\ t.rekeying = FALSE
    <2>1. u = ssh_packet_send2_wrapped([t EXCEPT !.apps = k], "data", k)
      BY <1>2, <1>3, <1>9 DEF ssh_packet_send2
    <2>2. Idle(t, n) \/ Switched(t, n)
      BY <1>9 DEF Phase, Begun, Agreed
    <2>3. Memory(p, u) /\ Flushed(u) /\ SamePhase(t, u) /\ Flow(p, u, a, g) /\ u.got = t.got
      BY <2>1, <2>2, Passed
    <2>4. Passes(t, u, n) /\ Seen(u) = Seen(t)
      BY <2>3, PhaseKept
    <2> QED
      BY <2>3, <2>4 DEF Sends
  <1>10. t.rekeying \in BOOLEAN
    BY DEF Phase, Idle, Begun, Agreed, Switched
  <1> QED
    BY <1>7, <1>8, <1>9, <1>10

LEMMA PolledPasses ==
    ASSUME NEW p, NEW t, NEW s, NEW n, NEW a, NEW g, Polled(p, t, s, n, a, g)
    PROVE  /\ Phase(s, n) /\ Passes(t, s, n)
           /\ \A u : Passes(s, u, n) => Passes(t, u, n)
  <1>1. Phase(s, n) /\ Passes(t, s, n)
    BY DEF Polled, Phase, Passes
  <1>2. ASSUME NEW u, Passes(s, u, n) PROVE Passes(t, u, n)
    <2>1. CASE Idle(t, n) /\ (Idle(s, n) \/ Begun(s, n))
      <3>1. Idle(u, n) \/ Begun(u, n) \/ Agreed(u, n)
        BY <1>2, <2>1 DEF Passes, Idle, Begun, Agreed, Switched
      <3> QED
        BY <2>1, <3>1 DEF Passes
    <2>2. CASE Begun(t, n) /\ Begun(s, n)
      <3>1. Begun(u, n) \/ Agreed(u, n)
        <4>1. ~Idle(s, n) /\ ~Switched(s, n)
          BY <2>2 DEF Idle, Begun, Switched
        <4>2. ~Agreed(s, n)
          <5>1. s.peer = << >>
            BY <2>2 DEF Begun
          <5>2. << >> # << n + 1 >>
            OBVIOUS
          <5> QED
            BY <5>1, <5>2 DEF Agreed
        <4> QED
          BY <1>2, <4>1, <4>2 DEF Passes
      <3> QED
        BY <2>2, <3>1 DEF Passes
    <2>3. CASE Agreed(t, n) /\ Agreed(s, n)
      <3>1. Agreed(u, n) \/ Switched(u, n)
        <4>1. ~Idle(s, n) /\ ~Switched(s, n)
          BY <2>3 DEF Idle, Agreed, Switched
        <4>2. ~Begun(s, n)
          <5>1. s.peer = << n + 1 >>
            BY <2>3 DEF Agreed
          <5>2. << >> # << n + 1 >>
            OBVIOUS
          <5> QED
            BY <5>1, <5>2 DEF Begun
        <4> QED
          BY <1>2, <4>1, <4>2 DEF Passes
      <3> QED
        BY <2>3, <3>1 DEF Passes
    <2>4. CASE Switched(t, n) /\ Switched(s, n)
      <3>1. Switched(u, n) \/ Idle(u, n + 1)
        <4>1. ~Idle(s, n) /\ ~Begun(s, n) /\ ~Agreed(s, n)
          BY <2>4 DEF Idle, Begun, Agreed, Switched
        <4> QED
          BY <1>2, <4>1 DEF Passes
      <3> QED
        BY <2>4, <3>1 DEF Passes
    <2> QED
      BY <2>1, <2>2, <2>3, <2>4 DEF Polled, Phase
  <1> QED
    BY <1>1, <1>2

(* The branches of ssh_dispatch_run that are taken. *)
Dispatched(s, x, due, u) ==
    /\ x.type = "unimplemented" => u = s
    /\ x.type = "data" => u = [s EXCEPT !.got = Append(@, x.val)]
    /\ x.type = "ext_info" => u = kex_protocol_error(s)
    /\ x.type = "kexinit" /\ s.dispatch["kexinit"] = "handler" => u = kex_input_kexinit(s, x.val)
    /\ x.type = "init" /\ s.dispatch["init"] = "handler" => u = input_kex_c25519_init(s, due)
    /\ x.type = "reply" /\ s.dispatch["reply"] = "handler" =>
         u = input_kex_c25519_reply(s, x.val, due)
    /\ x.type = "newkeys" /\ s.dispatch["newkeys"] = "handler" => u = kex_input_newkeys(s)

LEMMA Dispatches ==
    ASSUME NEW s, s.err = "none", NEW x, NEW due, NEW u, u = ssh_dispatch_run(s, x, due)
    PROVE  Dispatched(s, x, due, u)
  BY DEF ssh_dispatch_run, Dispatched

(* A peer after a step that reads x. *)
Handled(p, t, x, u, n, a, g) ==
    /\ Memory(p, u) /\ Flushed(u) /\ Flow(p, u, a, g) /\ Passes(t, u, n)
    /\ Place(x.type) > 1 => Seen(u) = Rank(x)
    /\ Place(x.type) <= 1 => Seen(u) = Seen(t)
    /\ x.type = "data" => u.got = Append(t.got, x.val)
    /\ x.type # "data" => u.got = t.got

LEMMA HandlesData ==
    ASSUME NEW p \in Peers, NEW t, NEW s, NEW n \in Nat, NEW a \in Nat, NEW g \in Seq(Nat),
           Polled(p, t, s, n, a, g), NEW x, x.type = "data", x.val \in Nat,
           NEW u, u = [s EXCEPT !.got = Append(@, x.val)]
    PROVE  Handled(p, t, x, u, n, a, g)
  <1>1. Memory(p, s) /\ Flushed(s) /\ Flow(p, s, a, g) /\ s.got = t.got /\ Seen(s) = Seen(t)
    BY DEF Polled
  <1>2. IsRecord(s) /\ s.got \in Seq(Nat)
    BY <1>1, MemoryFacts
  <1>3. PICK h : h = Append(s.got, x.val)
    OBVIOUS
  <1>4. h \in Seq(Nat)
    BY <1>2, <1>3, AppendProperties
  <1>5. u = [s EXCEPT !.got = h]
    BY <1>3
  <1>6. ButFor(s, u, {"got"}) /\ u.got = h
    BY <1>2, <1>5 DEF IsRecord, ButFor, Fields
  <1>7. SamePhase(s, u) /\ u.wire = s.wire /\ u.outgoing = s.outgoing /\ u.apps = s.apps
    BY <1>6 DEF ButFor, Fields, SamePhase
  <1>8. Memory(p, u)
    <2>1. u.server = s.server /\ u.ext_info_c = s.ext_info_c /\ u.err = s.err
          /\ u = [f \in Fields |-> u[f]] /\ u.p_send = s.p_send
          /\ u.p_read = s.p_read /\ u.my = s.my /\ u.apps = s.apps /\ u.outgoing = s.outgoing
      BY <1>6 DEF ButFor, Fields
    <2> QED
      BY <1>1, <1>4, <1>6, <2>1 DEF Memory
  <1>9. Phase(s, n) /\ (Passes(s, u, n) => Passes(t, u, n))
    BY PolledPasses
  <1>10. Sent(u) = Sent(s) /\ Seen(u) = Seen(s) /\ Passes(t, u, n)
    BY <1>7, <1>9, PhaseKept
  <1>11. Flushed(u) /\ Flow(p, u, a, g)
    BY <1>1, <1>7, <1>10 DEF Flushed, Flow, SamePhase
  <1>12. Place(x.type) = 1
    BY Places
  <1> QED
    BY <1>1, <1>3, <1>6, <1>8, <1>10, <1>11, <1>12 DEF Handled

LEMMA HandlesExtInfo ==
    ASSUME NEW p \in Peers, NEW t, NEW s, NEW n \in Nat, NEW a \in Nat, NEW g \in Seq(Nat),
           Polled(p, t, s, n, a, g), Idle(s, n) \/ Begun(s, n), NEW x, x.type = "ext_info",
           NEW u, u = kex_protocol_error(s)
    PROVE  Handled(p, t, x, u, n, a, g)
  <1>1. Memory(p, s) /\ Flushed(s) /\ Flow(p, s, a, g) /\ s.got = t.got /\ Seen(s) = Seen(t)
    BY DEF Polled
  <1>2. /\ Memory(p, u) /\ Flushed(u) /\ Flow(p, u, a, g) /\ u.got = s.got
        /\ Idle(s, n) => Idle(u, n)
        /\ Begun(s, n) => Begun(u, n)
    BY <1>1, Protests
  <1>3. Passes(s, u, n)
    BY <1>2 DEF Passes
  <1>4. Passes(t, u, n)
    BY <1>3, PolledPasses
  <1>5. s.server \in BOOLEAN /\ u.server \in BOOLEAN
    BY <1>1, <1>2, MemoryFacts
  <1>6. Seen(u) = Seen(s)
    BY <1>2, <1>5, Ranks
  <1>7. Place(x.type) = 1
    BY Places
  <1> QED
    BY <1>1, <1>2, <1>4, <1>6, <1>7 DEF Handled

LEMMA HandlesKexinit ==
    ASSUME NEW p \in Peers, NEW t, NEW s, NEW n \in Nat, NEW a \in Nat, NEW g \in Seq(Nat),
           Polled(p, t, s, n, a, g), Idle(s, n) \/ Begun(s, n), n < MaxRounds,
           NEW x, x.type = "kexinit", No(x) = n, NEW u, u = kex_input_kexinit(s, n + 1)
    PROVE  Handled(p, t, x, u, n, a, g)
  <1>1. Memory(p, s) /\ Flushed(s) /\ Flow(p, s, a, g) /\ s.got = t.got
    BY DEF Polled
  <1>2. Memory(p, u) /\ Agreed(u, n) /\ Flow(p, u, a, g) /\ u.got = s.got
    BY <1>1, TakesKexinit
  <1>3. Passes(s, u, n) /\ Flushed(u)
    BY <1>2 DEF Passes, Flushed, Agreed
  <1>4. Passes(t, u, n)
    BY <1>3, PolledPasses
  <1>5. Seen(u) = 4 * n + 2
    BY <1>2, MemoryFacts, Ranks
  <1>6. Place(x.type) = 2 /\ Rank(x) = 4 * n + 2
    BY Places DEF Rank
  <1> QED
    BY <1>1, <1>2, <1>3, <1>4, <1>5, <1>6 DEF Handled

(* After the keys are made. *)
LEMMA HandlesMiddle ==
    ASSUME NEW p \in Peers, NEW t, NEW s, NEW n \in Nat, NEW a \in Nat, NEW g \in Seq(Nat),
           Polled(p, t, s, n, a, g), Agreed(s, n),
           NEW x, x.type = "init" \/ x.type = "reply", No(x) = n,
           NEW u, Memory(p, u), Switched(u, n), Flushed(u), Flow(p, u, a, g), u.got = s.got
    PROVE  Handled(p, t, x, u, n, a, g)
  <1>1. s.got = t.got
    BY DEF Polled
  <1>2. Passes(s, u, n)
    BY DEF Passes
  <1>3. Passes(t, u, n)
    BY <1>2, PolledPasses
  <1>4. Seen(u) = 4 * n + 3
    BY MemoryFacts, Ranks
  <1>5. Place(x.type) = 3 /\ Rank(x) = 4 * n + 3
    BY Places DEF Rank
  <1> QED
    BY <1>1, <1>3, <1>4, <1>5 DEF Handled

LEMMA HandlesInit ==
    ASSUME NEW p \in Peers, p = "server", NEW t, NEW s, NEW n \in Nat, NEW a \in Nat,
           NEW g \in Seq(Nat), Polled(p, t, s, n, a, g), Agreed(s, n),
           NEW x, x.type = "init", No(x) = n, NEW due \in BOOLEAN,
           NEW u, u = input_kex_c25519_init(s, due)
    PROVE  Handled(p, t, x, u, n, a, g)
  <1>1. Memory(p, s) /\ Flow(p, s, a, g)
    BY DEF Polled
  <1>2. Memory(p, u) /\ Switched(u, n) /\ Flushed(u) /\ Flow(p, u, a, g) /\ u.got = s.got
    BY <1>1, TakesInit
  <1> QED
    BY <1>2, HandlesMiddle

LEMMA HandlesReply ==
    ASSUME NEW p \in Peers, p = "client", NEW t, NEW s, NEW n \in Nat, NEW a \in Nat,
           NEW g \in Seq(Nat), Polled(p, t, s, n, a, g), Agreed(s, n),
           NEW x, x.type = "reply", No(x) = n, NEW due \in BOOLEAN,
           NEW u, u = input_kex_c25519_reply(s, Key(n + 1), due)
    PROVE  Handled(p, t, x, u, n, a, g)
  <1>1. Memory(p, s) /\ Flow(p, s, a, g)
    BY DEF Polled
  <1>2. Memory(p, u) /\ Switched(u, n) /\ Flushed(u) /\ Flow(p, u, a, g) /\ u.got = s.got
    BY <1>1, TakesReply
  <1> QED
    BY <1>2, HandlesMiddle

LEMMA HandlesNewkeys ==
    ASSUME NEW p \in Peers, NEW t, NEW s, NEW n \in Nat, NEW a \in Nat, NEW g \in Seq(Nat),
           Polled(p, t, s, n, a, g), Switched(s, n),
           NEW x, x.type = "newkeys", No(x) = n, NEW u, u = kex_input_newkeys(s)
    PROVE  Handled(p, t, x, u, n, a, g)
  <1>1. Memory(p, s) /\ Flushed(s) /\ Flow(p, s, a, g) /\ s.got = t.got
    BY DEF Polled
  <1>2. Memory(p, u) /\ Idle(u, n + 1) /\ Flushed(u) /\ Flow(p, u, a, g) /\ u.got = s.got
    BY <1>1, TakesNewkeys
  <1>3. Passes(s, u, n)
    BY <1>2 DEF Passes
  <1>4. Passes(t, u, n)
    BY <1>3, PolledPasses
  <1>5. PICK k \in Nat : k = n + 1
    OBVIOUS
  <1>6. Seen(u) = 4 * k
    BY <1>2, <1>5, MemoryFacts, Ranks
  <1>7. Place(x.type) = 4 /\ Rank(x) = 4 * n + 4
    BY Places DEF Rank
  <1>8. Seen(u) = Rank(x)
    BY <1>5, <1>6, <1>7
  <1> QED
    BY <1>1, <1>2, <1>4, <1>7, <1>8 DEF Handled

(* The packet that comes is one the peer expects: this is where the wire   *)
(* rules out the pairs of phases that do not fit.                          *)
LEMMA Comes ==
    ASSUME NEW p \in Peers, NEW t, Memory(p, t), NEW n \in Nat, Phase(t, n),
           NEW w, w # << >>, NEW b \in Nat, b <= 4 * MaxRounds,
           OnWire(Other(p), w, Seen(t), b), NEW x, x = w[1]
    PROVE  /\ IsPacket(Other(p), x) /\ No(x) = n /\ x.key = Key(n)
           /\ x.type \in {"data", "ext_info", "kexinit"} => Idle(t, n) \/ Begun(t, n)
           /\ x.type = "kexinit" => n < MaxRounds /\ x.val = n + 1
           /\ x.type = "init" => Agreed(t, n) /\ p = "server"
           /\ x.type = "reply" => Agreed(t, n) /\ p = "client" /\ x.val = Key(n + 1)
           /\ x.type = "newkeys" => Switched(t, n)
           /\ x.type = "data" => x.val \in Nat
  <1>1. PICK q \in Peers : q = Other(p)
    BY DEF Other, Peers
  <1>2. t.server \in BOOLEAN
    BY MemoryFacts
  <1>3. PICK c : c = Seen(t)
    OBVIOUS
  <1>4. /\ Idle(t, n) \/ Begun(t, n) => c = 4 * n
        /\ Agreed(t, n) => c = 4 * n + 2
        /\ Switched(t, n) => c = 4 * n + 3
    BY <1>2, <1>3, Ranks
  <1>5. c \in Nat /\ 4 * n <= c /\ c < 4 * n + 4
    <2>1. c = 4 * n \/ c = 4 * n + 2 \/ c = 4 * n + 3
      BY <1>4 DEF Phase
    <2> QED
      BY <2>1
  <1>6. OnWire(q, w, c, b)
    BY <1>1, <1>3
  <1>7. /\ Len(w) >= 1 /\ IsPacket(q, w[1]) /\ No(w[1]) = n /\ w[1].key = Key(n)
        /\ Place(w[1].type) = 1 => c < Rank(w[1])
        /\ Place(w[1].type) > 1 =>
             /\ c < Rank(w[1]) /\ Rank(w[1]) <= b
             /\ \A d \in 2 .. 4 : c < 4 * n + d => Place(w[1].type) <= d
    BY <1>5, <1>6, WireHead
  <1>8. PICK l : l = Place(x.type)
    OBVIOUS
  <1>9. Rank(x) = 4 * n + l /\ l \in 0 .. 4
    BY <1>7, <1>8, PlaceOf DEF Rank
  <1>10. /\ l = 1 => c < 4 * n + 1
         /\ l > 1 => c < 4 * n + l /\ 4 * n + l <= b /\ \A d \in 2 .. 4 : c < 4 * n + d => l <= d
    BY <1>7, <1>8, <1>9
  <1>11. /\ l = 1 \/ l = 2 => c = 4 * n \/ c = 4 * n + 1
         /\ l = 2 => n < MaxRounds
         /\ l = 3 => c = 4 * n + 2
         /\ l = 4 => c = 4 * n + 3
    <2>1. l = 3 => ~(c < 4 * n + 2)
      BY <1>10
    <2>2. l = 4 => ~(c < 4 * n + 2) /\ ~(c < 4 * n + 3)
      BY <1>10
    <2>3. MaxRounds \in Nat
      BY BoundAssumption
    <2> QED
      BY <1>5, <1>9, <1>10, <2>1, <2>2, <2>3
  <1>12. /\ l = 1 \/ l = 2 => Idle(t, n) \/ Begun(t, n)
         /\ l = 3 => Agreed(t, n)
         /\ l = 4 => Switched(t, n)
    <2>1. CASE Idle(t, n) \/ Begun(t, n)
      BY <1>4, <1>11, <2>1
    <2>2. CASE Agreed(t, n)
      BY <1>4, <1>11, <2>2
    <2>3. CASE Switched(t, n)
      BY <1>4, <1>11, <2>3
    <2> QED
      BY <2>1, <2>2, <2>3 DEF Phase
  <1>13. /\ x.type \in {"data", "ext_info"} => l = 1
         /\ x.type = "kexinit" => l = 2
         /\ x.type \in {"init", "reply"} => l = 3
         /\ x.type = "newkeys" => l = 4
    BY <1>8, Places
  <1>14. IsPacket(q, x) /\ No(x) = n /\ x.key = Key(n)
    BY <1>7
  <1>15. /\ x.type = "data" => x.val \in Nat
         /\ x.type = "kexinit" => x.val = n + 1
         /\ x.type = "reply" => x.val = Key(n + 1)
    BY <1>14 DEF IsPacket
  <1>16. /\ x.type = "init" => p = "server"
         /\ x.type = "reply" => p = "client"
    BY <1>1, <1>14 DEF IsPacket, Kind, Other, Peers
  <1> QED
    BY <1>1, <1>11, <1>12, <1>13, <1>14, <1>15, <1>16

LEMMA Handles ==
    ASSUME NEW p \in Peers, NEW t, Memory(p, t), Flushed(t), NEW n \in Nat, Phase(t, n),
           NEW a \in Nat, NEW g \in Seq(Nat), Flow(p, t, a, g),
           NEW w, w # << >>, NEW b \in Nat, b <= 4 * MaxRounds,
           OnWire(Other(p), w, Seen(t), b), NEW x, x = w[1],
           NEW due \in BOOLEAN, due => t.my < MaxRounds,
           NEW u, u = ssh_dispatch_run(ssh_packet_read_poll2(t, x, due), x, due)
    PROVE  Handled(p, t, x, u, n, a, g)
  <1>1. /\ IsPacket(Other(p), x) /\ No(x) = n /\ x.key = Key(n)
        /\ x.type \in {"data", "ext_info", "kexinit"} => Idle(t, n) \/ Begun(t, n)
        /\ x.type = "kexinit" => n < MaxRounds /\ x.val = n + 1
        /\ x.type = "init" => Agreed(t, n) /\ p = "server"
        /\ x.type = "reply" => Agreed(t, n) /\ p = "client" /\ x.val = Key(n + 1)
        /\ x.type = "newkeys" => Switched(t, n)
        /\ x.type = "data" => x.val \in Nat
    BY Comes
  <1>2. PICK s : s = ssh_packet_read_poll2(t, x, due)
    OBVIOUS
  <1>3. Polled(p, t, s, n, a, g)
    BY <1>1, <1>2, Polls
  <1>4. Memory(p, s) /\ Flushed(s) /\ Flow(p, s, a, g) /\ s.got = t.got /\ Seen(s) = Seen(t)
    BY <1>3 DEF Polled
  <1>5. s.err = "none" /\ s.server \in BOOLEAN /\ (s.server <=> p = "server")
    BY <1>4, MemoryFacts
  <1>6. u = ssh_dispatch_run(s, x, due)
    BY <1>2
  <1>7. Dispatched(s, x, due, u)
    BY <1>5, <1>6, Dispatches
  <1>8. /\ Idle(t, n) \/ Begun(t, n) => Idle(s, n) \/ Begun(s, n)
        /\ Agreed(t, n) => Agreed(s, n)
        /\ Switched(t, n) => Switched(s, n)
    BY <1>3 DEF Polled
  <1>9. CASE x.type = "unimplemented"
    <2>1. u = s
      BY <1>7, <1>9 DEF Dispatched
    <2>2. Passes(t, s, n) /\ Place(x.type) = 0
      BY <1>3, <1>9, PolledPasses, Places
    <2> QED
      BY <1>4, <1>9, <2>1, <2>2 DEF Handled
  <1>10. CASE x.type = "data"
    <2>1. u = [s EXCEPT !.got = Append(@, x.val)]
      BY <1>7, <1>10 DEF Dispatched
    <2> QED
      BY <1>1, <1>3, <1>10, <2>1, HandlesData
  <1>11. CASE x.type = "ext_info"
    <2>1. Idle(s, n) \/ Begun(s, n)
      BY <1>1, <1>8, <1>11
    <2>2. u = kex_protocol_error(s)
      BY <1>7, <1>11 DEF Dispatched
    <2> QED
      BY <1>3, <1>11, <2>1, <2>2, HandlesExtInfo
  <1>12. CASE x.type = "kexinit"
    <2>1. Idle(s, n) \/ Begun(s, n)
      BY <1>1, <1>8, <1>12
    <2>2. s.dispatch["kexinit"] = "handler"
      BY <2>1 DEF Idle, Begun, Expects
    <2>3. u = kex_input_kexinit(s, n + 1) /\ n < MaxRounds
      BY <1>1, <1>7, <1>12, <2>2 DEF Dispatched
    <2> QED
      BY <1>1, <1>3, <1>12, <2>1, <2>3, HandlesKexinit
  <1>13. CASE x.type = "init"
    <2>1. Agreed(s, n) /\ p = "server"
      BY <1>1, <1>8, <1>13
    <2>2. s.dispatch["init"] = "handler"
      BY <1>5, <2>1 DEF Agreed, Expects
    <2>3. u = input_kex_c25519_init(s, due)
      BY <1>7, <1>13, <2>2 DEF Dispatched
    <2> QED
      BY <1>1, <1>3, <1>13, <2>1, <2>3, HandlesInit
  <1>14. CASE x.type = "reply"
    <2>1. Agreed(s, n) /\ p = "client"
      BY <1>1, <1>8, <1>14
    <2>2. s.dispatch["reply"] = "handler"
      BY <1>5, <2>1 DEF Agreed, Expects
    <2>3. u = input_kex_c25519_reply(s, Key(n + 1), due)
      BY <1>1, <1>7, <1>14, <2>2 DEF Dispatched
    <2> QED
      BY <1>1, <1>3, <1>14, <2>1, <2>3, HandlesReply
  <1>15. CASE x.type = "newkeys"
    <2>1. Switched(s, n)
      BY <1>1, <1>8, <1>15
    <2>2. s.dispatch["newkeys"] = "handler"
      BY <2>1 DEF Switched, Expects
    <2>3. u = kex_input_newkeys(s)
      BY <1>7, <1>15, <2>2 DEF Dispatched
    <2> QED
      BY <1>1, <1>3, <1>15, <2>1, <2>3, HandlesNewkeys
  <1>16. x.type \in Types
    BY <1>1 DEF IsPacket, PacketSet
  <1> QED
    BY <1>9, <1>10, <1>11, <1>12, <1>13, <1>14, <1>15, <1>16 DEF Types

(* The peer whose packet was read. *)
Shortened(v) == [v EXCEPT !.wire = Tail(@)]
First(v, x) == v.wire # << >> /\ x = v.wire[1]

Reaches(q, v, t) ==
    /\ Memory(q, v) /\ Flushed(v) /\ Flow(q, v, Seen(t), t.got)
    /\ Seen(t) \in Nat /\ t.got \in Seq(Nat) /\ Sent(v) \in Nat

LEMMA IsRead ==
    ASSUME NEW p \in Peers, NEW q \in Peers, NEW v, NEW t, Reaches(q, v, t),
           NEW x, First(v, x), NEW u, NEW n, NEW a, NEW g, Handled(p, t, x, u, n, a, g),
           NEW y, y = Shortened(v)
    PROVE  /\ Memory(q, y) /\ Flushed(y) /\ SamePhase(v, y) /\ y.got = v.got
           /\ Flow(q, y, Seen(u), u.got)
  <1> USE DEF Reaches, First
  <1>1. IsRecord(v) /\ v.outgoing \in Waiting /\ v.apps \in Nat
    BY MemoryFacts
  <1>2. PICK w, z : w = v.wire /\ z = Tail(w)
    OBVIOUS
  <1>3. y = [v EXCEPT !.wire = z]
    BY <1>2 DEF Shortened
  <1>4. ButFor(v, y, {"wire"}) /\ y.wire = z
    BY <1>1, <1>3 DEF IsRecord, ButFor, Fields
  <1>5. /\ SamePhase(v, y) /\ y.got = v.got /\ y.outgoing = v.outgoing /\ y.apps = v.apps
        /\ y.rekeying = v.rekeying
    BY <1>4 DEF ButFor, Fields, SamePhase
  <1>6. Memory(q, y)
    <2>1. y.server = v.server /\ y.ext_info_c = v.ext_info_c /\ y.err = v.err
          /\ y = [f \in Fields |-> y[f]] /\ y.p_send = v.p_send
          /\ y.p_read = v.p_read /\ y.my = v.my
      BY <1>4 DEF ButFor, Fields
    <2> QED
      BY <1>5, <2>1 DEF Memory
  <1>7. Flushed(y)
    BY <1>5 DEF Flushed
  <1>8. PICK c, b, h : c = Seen(t) /\ b = Sent(v) /\ h = t.got
    OBVIOUS
  <1>9. /\ c \in Nat /\ b \in Nat /\ h \in Seq(Nat) /\ OnWire(q, w, c, b) /\ w # << >>
        /\ InOrder(h, w, v.outgoing, v.apps) /\ w \in Seq(PacketSet)
    BY <1>2, <1>8 DEF Flow, OnWire
  <1>10. /\ Place(w[1].type) > 1 => OnWire(q, Tail(w), Rank(w[1]), b)
         /\ Place(w[1].type) <= 1 => OnWire(q, Tail(w), c, b)
    BY <1>9, WireTail
  <1>11. PICK o, k : o = v.outgoing /\ k = v.apps
    OBVIOUS
  <1>12. o \in Waiting /\ k \in Nat /\ InOrder(h, w, o, k)
    BY <1>1, <1>9, <1>11
  <1>13. /\ w[1].type = "data" =>
              Append(h, w[1].val) \in Seq(Nat) /\ InOrder(Append(h, w[1].val), Tail(w), o, k)
         /\ w[1].type # "data" => InOrder(h, Tail(w), o, k)
    BY <1>9, <1>12, OrderRead
  <1>14. /\ Place(x.type) > 1 => Seen(u) = Rank(x)
         /\ Place(x.type) <= 1 => Seen(u) = c
         /\ x.type = "data" => u.got = Append(h, x.val)
         /\ x.type # "data" => u.got = h
    BY <1>8 DEF Handled
  <1>15. Place(x.type) > 1 \/ Place(x.type) <= 1
    <2>1. IsPacket(q, x)
      <3>1. Len(w) \in Nat /\ Len(w) # 0
        BY <1>9, LenProperties, EmptySeq
      <3>2. 1 \in 1 .. Len(w)
        BY <3>1
      <3> QED
        BY <1>2, <1>9, <3>2 DEF OnWire
    <2>2. Place(x.type) \in 0 .. 4
      BY <2>1, PlaceOf
    <2> QED
      BY <2>2
  <1>16. OnWire(q, z, Seen(u), b)
    BY <1>2, <1>10, <1>14, <1>15
  <1>17. InOrder(u.got, z, o, k)
    BY <1>2, <1>13, <1>14
  <1>18. Sent(y) = b
    BY <1>5, <1>8, PhaseKept
  <1>19. Flow(q, y, Seen(u), u.got)
    BY <1>4, <1>5, <1>11, <1>16, <1>17, <1>18 DEF Flow
  <1> QED
    BY <1>5, <1>6, <1>7, <1>19

-----------------------------------------------------------------------------
(* The invariant. *)

LEMMA Sides ==
    ASSUME NEW p \in Peers
    PROVE  /\ Other(p) \in Peers /\ Other(p) # p /\ Other(Other(p)) = p
           /\ \A r \in Peers : r = p \/ r = Other(p)
  BY DEF Other, Peers

LEMMA SentBound ==
    ASSUME NEW p \in Peers, NEW t, Peer(p, t)
    PROVE  Sent(t) <= 4 * MaxRounds
  <1>1. PICK n \in 1 .. MaxRounds : Phase(t, n)
    BY DEF Peer
  <1>2. t.server \in BOOLEAN /\ t.my \in 1 .. MaxRounds
    BY MemoryFacts DEF Peer
  <1>3. n \in Nat /\ n <= MaxRounds /\ MaxRounds \in Nat
    BY BoundAssumption
  <1>4. CASE Idle(t, n)
    BY <1>2, <1>3, <1>4, Ranks
  <1>5. CASE Begun(t, n) \/ Agreed(t, n) \/ Switched(t, n)
    <2>1. n + 1 <= MaxRounds
      BY <1>2, <1>5 DEF Begun, Agreed, Switched
    <2>2. Sent(t) = 4 * n + 2 \/ Sent(t) = 4 * n + 3 \/ Sent(t) = 4 * n + 4
      BY <1>2, <1>3, <1>5, Ranks
    <2> QED
      BY <1>3, <2>1, <2>2
  <1> QED
    BY <1>1, <1>4, <1>5 DEF Phase

LEMMA NextPhase ==
    ASSUME NEW p \in Peers, NEW t, NEW u, Memory(p, u), Flushed(u),
           NEW n \in 1 .. MaxRounds, Passes(t, u, n)
    PROVE  Peer(p, u)
  <1>1. CASE Idle(u, n + 1)
    <2>1. n + 1 \in 1 .. MaxRounds
      BY <1>1, MemoryFacts DEF Idle
    <2> QED
      BY <1>1, <2>1 DEF Peer, Phase
  <1>2. CASE Phase(u, n)
    BY <1>2 DEF Peer
  <1> QED
    BY <1>1, <1>2 DEF Passes, Phase

LEMMA MakesInv ==
    ASSUME NEW p \in Peers, NEW q, q = Other(p), NEW u, NEW y,
           st' = [r \in Peers |-> st'[r]], st'[p] = u, st'[q] = y,
           Peer(p, u), Peer(q, y), Flow(p, u, Seen(y), y.got), Flow(q, y, Seen(u), u.got)
    PROVE  Inv'
  <1>1. q \in Peers /\ Other(q) = p /\ \A r \in Peers : r = p \/ r = q
    BY Sides
  <1>2. ASSUME NEW r \in Peers
        PROVE  Peer(r, st'[r]) /\ Flow(r, st'[r], Seen(st'[Other(r)]), st'[Other(r)].got)
    <2>1. CASE r = p
      BY <2>1
    <2>2. CASE r = q
      BY <1>1, <2>2
    <2> QED
      BY <1>1, <2>1, <2>2
  <1> QED
    BY <1>2 DEF Inv

(* Each peer stays in its phase or passes to the next one. *)
Move == \A p \in Peers : \E n \in 1 .. MaxRounds : Passes(st[p], st'[p], n)

LEMMA Stays ==
    ASSUME NEW p \in Peers, NEW t, Peer(p, t), NEW u, SamePhase(t, u)
    PROVE  \E n \in 1 .. MaxRounds : Passes(t, u, n)
  BY PhaseKept DEF Peer

LEMMA SendStep ==
    ASSUME Inv, NEW p \in Peers, SendData(p)
    PROVE  Inv' /\ Move
  <1>1. PICK q \in Peers : q = Other(p) /\ q # p /\ \A r \in Peers : r = p \/ r = q
    BY Sides
  <1>2. PICK t, v : t = st[p] /\ v = st[q]
    OBVIOUS
  <1>3. Peer(p, t) /\ Flow(p, t, Seen(v), v.got) /\ Peer(q, v) /\ Flow(q, v, Seen(t), t.got)
    BY <1>1, <1>2, Sides DEF Inv
  <1>4. PICK k, due, u :
          /\ k = t.apps + 1 /\ due \in BOOLEAN /\ (due => t.my < MaxRounds)
          /\ u = ssh_packet_send2([t EXCEPT !.apps = k], "data", k, due)
          /\ st' = [st EXCEPT ![p] = u]
    BY <1>2 DEF SendData, Due
  <1>5. st' = [r \in Peers |-> st'[r]] /\ st'[p] = u /\ st'[q] = v
    BY <1>1, <1>2, <1>4 DEF Inv
  <1>6. Memory(p, t) /\ Flushed(t) /\ Seen(v) \in Nat /\ v.got \in Seq(Nat)
    BY <1>3, RankTypes, MemoryFacts DEF Peer
  <1>7. PICK n \in 1 .. MaxRounds : Phase(t, n)
    BY <1>3 DEF Peer
  <1>8. PICK a, g : a = Seen(v) /\ g = v.got
    OBVIOUS
  <1>9. n \in Nat /\ a \in Nat /\ g \in Seq(Nat) /\ Flow(p, t, a, g)
    BY <1>3, <1>6, <1>8, BoundAssumption
  <1>10. Sends(p, t, u, n, a, g)
    BY <1>4, <1>6, <1>7, <1>9, SendsData
  <1>11. /\ Memory(p, u) /\ Flushed(u) /\ Flow(p, u, a, g) /\ Passes(t, u, n)
         /\ Seen(u) = Seen(t) /\ u.got = t.got
    BY <1>10 DEF Sends
  <1>12. Peer(p, u)
    BY <1>11, NextPhase
  <1>13. Flow(p, u, Seen(v), v.got) /\ Flow(q, v, Seen(u), u.got)
    BY <1>3, <1>8, <1>11
  <1>14. Inv'
    BY <1>1, <1>3, <1>5, <1>12, <1>13, MakesInv
  <1>15. \E m \in 1 .. MaxRounds : Passes(v, v, m)
    <2>1. SamePhase(v, v)
      BY DEF SamePhase
    <2> QED
      BY <1>3, <2>1, Stays
  <1>16. Move
    BY <1>1, <1>2, <1>5, <1>11, <1>15 DEF Move
  <1> QED
    BY <1>14, <1>16

LEMMA ReadStep ==
    ASSUME Inv, NEW p \in Peers, Read(p)
    PROVE  Inv' /\ Move
  <1>1. PICK q \in Peers : q = Other(p) /\ q # p /\ \A r \in Peers : r = p \/ r = q
    BY Sides
  <1>2. PICK t, v : t = st[p] /\ v = st[q]
    OBVIOUS
  <1>3. Peer(p, t) /\ Flow(p, t, Seen(v), v.got) /\ Peer(q, v) /\ Flow(q, v, Seen(t), t.got)
    BY <1>1, <1>2, Sides DEF Inv
  <1>4. PICK due, x, u, y :
          /\ due \in BOOLEAN /\ (due => t.my < MaxRounds) /\ v.wire # << >> /\ x = Head(v.wire)
          /\ u = ssh_dispatch_run(ssh_packet_read_poll2(t, x, due), x, due)
          /\ y = Shortened(v)
          /\ st' = [st EXCEPT ![p] = u, ![q].wire = Tail(@)]
    <2>1. PICK due \in Due(p) :
            /\ v.wire # << >>
            /\ st' = [st EXCEPT ![p] = ssh_dispatch_run(ssh_packet_read_poll2(@, Head(v.wire), due),
                                                        Head(v.wire), due),
                                ![q].wire = Tail(@)]
      BY <1>1, <1>2 DEF Read
    <2>2. PICK x, u, y : /\ x = Head(v.wire) /\ y = Shortened(v)
                         /\ u = ssh_dispatch_run(ssh_packet_read_poll2(t, x, due), x, due)
      OBVIOUS
    <2>3. st' = [st EXCEPT ![p] = u, ![q].wire = Tail(@)]
      BY <1>2, <2>1, <2>2 DEF Inv
    <2>4. due \in BOOLEAN /\ (due => t.my < MaxRounds)
      BY <1>2 DEF Due
    <2> QED
      BY <2>1, <2>2, <2>3, <2>4, ZenonT(60)
  <1>5. st' = [r \in Peers |-> st'[r]] /\ st'[p] = u /\ st'[q] = y
    BY <1>1, <1>2, <1>4 DEF Inv, Shortened
  <1>6. /\ Memory(p, t) /\ Flushed(t) /\ Seen(v) \in Nat /\ v.got \in Seq(Nat)
        /\ Memory(q, v) /\ Flushed(v) /\ Seen(t) \in Nat /\ t.got \in Seq(Nat)
        /\ Sent(v) \in Nat /\ Sent(v) <= 4 * MaxRounds
    BY <1>3, RankTypes, SentBound, MemoryFacts DEF Peer
  <1>7. PICK n \in 1 .. MaxRounds : Phase(t, n)
    BY <1>3 DEF Peer
  <1>8. PICK a, g, w, b : a = Seen(v) /\ g = v.got /\ w = v.wire /\ b = Sent(v)
    OBVIOUS
  <1>9. /\ n \in Nat /\ a \in Nat /\ g \in Seq(Nat) /\ Flow(p, t, a, g)
        /\ w # << >> /\ b \in Nat /\ b <= 4 * MaxRounds /\ OnWire(Other(p), w, Seen(t), b)
        /\ x = w[1]
    BY <1>1, <1>3, <1>4, <1>6, <1>8, BoundAssumption DEF Flow
  <1>10. Handled(p, t, x, u, n, a, g)
    BY <1>4, <1>6, <1>7, <1>9, Handles
  <1>11. /\ Memory(q, y) /\ Flushed(y) /\ SamePhase(v, y) /\ y.got = v.got
         /\ Flow(q, y, Seen(u), u.got)
    <2>1. First(v, x) /\ y = Shortened(v)
      BY <1>4, <1>8, <1>9 DEF First
    <2>2. Reaches(q, v, t)
      BY <1>3, <1>6 DEF Reaches
    <2> QED
      BY <1>10, <2>1, <2>2, IsRead
  <1>12. Memory(p, u) /\ Flushed(u) /\ Flow(p, u, a, g) /\ Passes(t, u, n)
    BY <1>10 DEF Handled
  <1>13. \E m \in 1 .. MaxRounds : Passes(v, y, m)
    BY <1>3, <1>11, Stays
  <1>14. Peer(p, u) /\ Peer(q, y)
    BY <1>11, <1>12, <1>13, NextPhase
  <1>15. Seen(y) = Seen(v)
    BY <1>11, PhaseKept
  <1>16. Flow(p, u, Seen(y), y.got)
    BY <1>8, <1>11, <1>12, <1>15
  <1>17. Inv'
    BY <1>1, <1>5, <1>11, <1>14, <1>16, MakesInv
  <1>18. Move
    BY <1>1, <1>2, <1>5, <1>12, <1>13 DEF Move
  <1> QED
    BY <1>17, <1>18

LEMMA StepInv ==
    ASSUME Inv, [Next]_st
    PROVE  Inv' /\ Move
  <1>1. CASE Next
    BY <1>1, SendStep, ReadStep DEF Next
  <1>2. CASE UNCHANGED st
    <2>1. Inv'
      BY <1>2 DEF Inv
    <2>2. ASSUME NEW p \in Peers PROVE \E n \in 1 .. MaxRounds : Passes(st[p], st'[p], n)
      <3>1. Peer(p, st[p]) /\ SamePhase(st[p], st'[p])
        BY <1>2 DEF Inv, SamePhase
      <3> QED
        BY <3>1, Stays
    <2> QED
      BY <2>1, <2>2 DEF Move
  <1> QED
    BY <1>1, <1>2

LEMMA InitInv ==
    ASSUME Init
    PROVE  Inv
  <1>1. st = [p \in Peers |-> st[p]] /\ \A p \in Peers : st[p] = Authenticated(p)
    BY DEF Init
  <1>2. ASSUME NEW p \in Peers, NEW t, t = Authenticated(p)
        PROVE  /\ Memory(p, t) /\ Flushed(t) /\ Idle(t, 1) /\ t.got = << >> /\ t.wire = << >>
               /\ t.outgoing = << >> /\ t.apps = 0
    <2>1. /\ t.server = (p = "server") /\ t.ext_info_c = (p = "server") /\ t.rekeying = FALSE
          /\ t.done = TRUE /\ t.init_sent = FALSE
          /\ t.dispatch = [m \in {"kexinit", "init", "reply", "newkeys"} |->
                              IF m = "kexinit" THEN "handler" ELSE "error"]
          /\ t.in = Key(1) /\ t.out = Key(1) /\ t.new_in = NoKey /\ t.new_out = NoKey
          /\ t.p_send = TRUE /\ t.p_read = TRUE /\ t.my = 1 /\ t.peer = << >>
          /\ t.outgoing = << >> /\ t.wire = << >> /\ t.apps = 0 /\ t.got = << >> /\ t.err = "none"
      BY <1>2 DEF Authenticated, Key, FirstKey
    <2>2. t = [f \in Fields |-> t[f]]
      BY <1>2 DEF Authenticated, Fields
    <2>3. Expects(t, "handler", "error", "error", "error")
      BY <2>1 DEF Expects, KexTypes
    <2>4. Idle(t, 1)
      BY <2>1, <2>3 DEF Idle
    <2>5. << >> \in Waiting /\ << >> \in Seq(Nat) /\ 1 \in 1 .. MaxRounds
      BY BoundAssumption DEF Waiting
    <2>6. t.p_send \in BOOLEAN /\ t.p_read \in BOOLEAN
      BY <2>1
    <2>7. t.my \in 1 .. MaxRounds /\ t.apps \in Nat /\ t.outgoing \in Waiting /\ t.got \in Seq(Nat)
      BY <2>1, <2>5
    <2>8. t.server = (p = "server") /\ t.ext_info_c = (p = "server") /\ t.err = "none"
      BY <2>1
    <2>9. Memory(p, t)
      BY <2>2, <2>6, <2>7, <2>8, Zenon DEF Memory
    <2> QED
      BY <2>1, <2>4, <2>9 DEF Flushed
  <1>3. OnWire("server", << >>, 4, 4) /\ OnWire("client", << >>, 4, 4)
    BY DEF OnWire
  <1>4. InOrder(<< >>, << >>, << >>, 0)
    BY DEF InOrder
  <1>5. ASSUME NEW p \in Peers
        PROVE  Peer(p, st[p]) /\ Flow(p, st[p], Seen(st[Other(p)]), st[Other(p)].got)
    <2>1. PICK t, v, q : t = st[p] /\ q = Other(p) /\ v = st[q]
      OBVIOUS
    <2>2. q \in Peers
      BY <2>1, Sides
    <2>3. t = Authenticated(p) /\ v = Authenticated(q)
      BY <1>1, <2>1, <2>2
    <2>4. /\ Memory(p, t) /\ Flushed(t) /\ Idle(t, 1) /\ t.wire = << >>
          /\ t.outgoing = << >> /\ t.apps = 0
          /\ Memory(q, v) /\ Idle(v, 1) /\ v.got = << >>
      BY <1>2, <2>2, <2>3
    <2>5. Peer(p, t)
      BY <2>4, BoundAssumption DEF Peer, Phase
    <2>6. t.server \in BOOLEAN /\ v.server \in BOOLEAN
      BY <2>2, <2>4, MemoryFacts
    <2>7. Sent(t) = 4 * 1 /\ Seen(v) = 4 * 1
      BY <2>4, <2>6, Ranks
    <2>8. Flow(p, t, Seen(v), v.got)
      BY <1>3, <1>4, <2>4, <2>7 DEF Flow, Peers
    <2> QED
      BY <2>1, <2>5, <2>8
  <1> QED
    BY <1>1, <1>5 DEF Inv

-----------------------------------------------------------------------------
(* What the invariant says. *)

(* Between a message of exchange n and the channels' packets under a later *)
(* key, NEWKEYS of exchange n is on the wire.                              *)
LEMMA NewkeysBetween ==
    ASSUME NEW p \in Peers, NEW w, NEW a \in Nat, NEW b \in Nat, OnWire(p, w, a, b),
           NEW j \in 1 .. Len(w), NEW n \in Nat, n < No(w[j]), a < 4 * n + 4
    PROVE  \E k \in 1 .. Len(w) : k <= j /\ No(w[k]) = n /\ w[k].type = "newkeys"
  <1>1. IsPacket(p, w[j]) /\ Within(w[j], a, b)
    BY DEF OnWire
  <1>2. No(w[j]) \in Nat /\ 4 * No(w[j]) <= b
    BY <1>1, PlaceOf DEF Within
  <1>3. n \in 0 .. b /\ 4 * n + 4 <= b
    BY <1>2
  <1>4. PICK k \in 1 .. Len(w) : No(w[k]) = n /\ w[k].type = Kind(p, 4)
    BY <1>3 DEF OnWire
  <1>5. w[k].type = "newkeys"
    BY <1>4 DEF Kind
  <1>6. ~(j < k)
    <2>1. SUFFICES ASSUME j < k PROVE FALSE
      OBVIOUS
    <2>2. Follows(w[j], w[k])
      BY <2>1 DEF OnWire
    <2> QED
      BY <1>2, <1>4, <2>2 DEF Follows
  <1>7. j \in Int /\ k \in Int
    OBVIOUS
  <1> QED
    BY <1>4, <1>5, <1>6, <1>7

LEMMA InvKexOnly ==
    ASSUME Inv
    PROVE  KexOnly
  <1>1. SUFFICES ASSUME NEW p \in Peers, NEW w, w = st[p].wire, NEW j \in DOMAIN w,
                        ~ssh_packet_type_is_kex(w[j].type)
                 PROVE  /\ \A i \in 1..(j - 1) : w[i].type = "kexinit" =>
                             \E k \in i..j : w[k].type = "newkeys"
                        /\ st[Other(p)].peer # << >> => \E k \in 1..j : w[k].type = "newkeys"
    BY DEF KexOnly
  <1>2. PICK q \in Peers : q = Other(p)
    BY Sides
  <1>3. PICK t, v, a, b : t = st[p] /\ v = st[q] /\ a = Seen(v) /\ b = Sent(t)
    OBVIOUS
  <1>4. /\ Peer(p, t) /\ Peer(q, v) /\ OnWire(p, w, a, b)
    BY <1>1, <1>2, <1>3 DEF Inv, Flow
  <1>5. a \in Nat /\ b \in Nat
    BY <1>3, <1>4, RankTypes
  <1>6. w \in Seq(PacketSet) /\ Len(w) \in Nat /\ j \in 1 .. Len(w)
    BY <1>1, <1>4, LenProperties DEF OnWire
  <1>7. IsPacket(p, w[j]) /\ Within(w[j], a, b)
    BY <1>4, <1>6 DEF OnWire
  <1>8. w[j].type \in {"data", "ext_info"}
    BY <1>1 DEF ssh_packet_type_is_kex
  <1>9. No(w[j]) \in Nat /\ Place(w[j].type) = 1 /\ a < 4 * No(w[j]) + 1
    BY <1>7, <1>8, PlaceOf DEF Within, Rank
  <1>10. ASSUME NEW i \in 1 .. (j - 1), w[i].type = "kexinit"
         PROVE  \E k \in i .. j : w[k].type = "newkeys"
    <2>1. i \in 1 .. Len(w) /\ i < j
      BY <1>6, <1>10
    <2>2. IsPacket(p, w[i]) /\ Within(w[i], a, b) /\ Follows(w[i], w[j])
      BY <1>4, <1>6, <2>1 DEF OnWire
    <2>3. No(w[i]) \in Nat /\ Place(w[i].type) = 2
      BY <1>10, <2>2, PlaceOf
    <2>4. a < 4 * No(w[i]) + 4
      BY <2>2 DEF Within
    <2>5. No(w[i]) < No(w[j])
      <3>1. No(w[i]) <= No(w[j]) /\ (No(w[i]) = No(w[j]) => Place(w[i].type) < Place(w[j].type)
                                       \/ Place(w[i].type) = 1)
        BY <1>9, <2>2, <2>3 DEF Follows
      <3> QED
        BY <1>9, <2>3, <3>1
    <2>6. PICK n : n = No(w[i])
      OBVIOUS
    <2>7. n \in Nat /\ n < No(w[j]) /\ a < 4 * n + 4
      BY <2>3, <2>4, <2>5, <2>6
    <2>8. PICK k \in 1 .. Len(w) : k <= j /\ No(w[k]) = n /\ w[k].type = "newkeys"
      BY <1>4, <1>5, <1>6, <2>7, NewkeysBetween
    <2>9. ~(k < i)
      <3>1. SUFFICES ASSUME k < i PROVE FALSE
        OBVIOUS
      <3>2. Follows(w[k], w[i])
        BY <1>4, <2>1, <3>1 DEF OnWire
      <3> QED
        BY <2>6, <2>8, <3>2 DEF Follows
    <2>10. k \in i .. j
      BY <1>6, <2>1, <2>8, <2>9
    <2> QED
      BY <2>8, <2>10
  <1>11. ASSUME v.peer # << >>
         PROVE  \E k \in 1 .. j : w[k].type = "newkeys"
    <2>1. PICK n \in 1 .. MaxRounds : Phase(v, n)
      BY <1>4 DEF Peer
    <2>2. n \in Nat /\ v.server \in BOOLEAN
      BY <1>4, MemoryFacts, BoundAssumption DEF Peer
    <2>3. Agreed(v, n) \/ Switched(v, n)
      BY <1>11, <2>1 DEF Phase, Idle, Begun
    <2>4. a = 4 * n + 2 \/ a = 4 * n + 3
      BY <1>3, <2>2, <2>3, Ranks
    <2>5. n < No(w[j]) /\ a < 4 * n + 4
      BY <1>9, <2>2, <2>4
    <2>6. PICK k \in 1 .. Len(w) : k <= j /\ No(w[k]) = n /\ w[k].type = "newkeys"
      BY <1>4, <1>5, <1>6, <2>2, <2>5, NewkeysBetween
    <2>7. k \in 1 .. j
      BY <1>6, <2>6
    <2> QED
      BY <2>6, <2>7
  <1> QED
    BY <1>2, <1>3, <1>10, <1>11

LEMMA InvTypes ==
    ASSUME Inv
    PROVE  TypeOK
  <1>1. SUFFICES ASSUME NEW p \in Peers, NEW t, t = st[p]
                 PROVE  /\ t.rekeying \in BOOLEAN /\ t.done \in BOOLEAN /\ t.init_sent \in BOOLEAN
                        /\ t.in \in Keys \ {NoKey, Chosen} /\ t.out \in Keys \ {NoKey, Chosen}
                        /\ t.new_in \in Keys /\ t.new_out \in Keys
                        /\ t.my \in 1..MaxRounds /\ Len(t.peer) <= 1
                        /\ t.done => t.new_in = NoKey /\ t.new_out = NoKey /\ t.peer = << >>
                        /\ \A m \in DOMAIN t.dispatch : t.dispatch[m] \in Handlers
                        /\ \A i \in DOMAIN t.wire : t.wire[i].type \in Types
    BY DEF TypeOK
  <1>2. Peer(p, t) /\ t.wire \in Seq(PacketSet)
    BY <1>1 DEF Inv, Flow, OnWire
  <1>3. PICK n \in 1 .. MaxRounds : Phase(t, n)
    BY <1>2 DEF Peer
  <1>4. n \in Nat /\ t.my \in 1 .. MaxRounds /\ t.server \in BOOLEAN
    BY <1>2, MemoryFacts, BoundAssumption DEF Peer
  <1>5. \A k \in 1 .. MaxRounds : Key(k) \in Keys \ {NoKey, Chosen}
    BY DEF Keys, Key, NoKey, Chosen
  <1>6. /\ t.rekeying \in BOOLEAN /\ t.done \in BOOLEAN /\ t.init_sent \in BOOLEAN
        /\ t.done => t.new_in = NoKey /\ t.new_out = NoKey /\ t.peer = << >>
    BY <1>3 DEF Phase, Idle, Begun, Agreed, Switched
  <1>7. Len(t.peer) <= 1
    <2>1. t.peer = << >> \/ t.peer = << n + 1 >>
      BY <1>3 DEF Phase, Idle, Begun, Agreed, Switched
    <2>2. CASE t.peer = << >>
      <3>1. Len(t.peer) = 0
        BY <2>2
      <3> QED
        BY <3>1
    <2>3. CASE t.peer = << n + 1 >>
      <3>1. Len(t.peer) = 1
        BY <2>3
      <3> QED
        BY <3>1
    <2> QED
      BY <2>1, <2>2, <2>3
  <1>8. /\ t.in = Key(n) /\ (t.out = Key(n) \/ (t.out = Key(n + 1) /\ n + 1 = t.my))
        /\ t.new_in \in {NoKey, Chosen} \/ (t.new_in = Key(n + 1) /\ n + 1 = t.my)
        /\ t.new_out \in {NoKey, Chosen}
    BY <1>3 DEF Phase, Idle, Begun, Agreed, Switched
  <1>9. /\ t.in \in Keys \ {NoKey, Chosen} /\ t.out \in Keys \ {NoKey, Chosen}
        /\ t.new_in \in Keys /\ t.new_out \in Keys
    <2>1. {NoKey, Chosen} \subseteq Keys
      BY DEF Keys
    <2> QED
      BY <1>4, <1>5, <1>8, <2>1
  <1>10. \A m \in DOMAIN t.dispatch : t.dispatch[m] \in Handlers
    <2>1. PICK k, i, r, l : Expects(t, k, i, r, l) /\ {k, i, r, l} \subseteq Handlers
      BY <1>3, <1>4 DEF Phase, Idle, Begun, Agreed, Switched, Handlers
    <2> QED
      BY <2>1 DEF Expects, KexTypes
  <1>11. ASSUME NEW i \in DOMAIN t.wire PROVE t.wire[i].type \in Types
    <2>1. t.wire[i] \in PacketSet
      BY <1>2
    <2> QED
      BY <2>1 DEF PacketSet
  <1> QED
    BY <1>4, <1>6, <1>7, <1>9, <1>10, <1>11

LEMMA InvNoError ==
    ASSUME Inv
    PROVE  NoError
  <1>1. \A p \in Peers : st[p].err = "none"
    BY MemoryFacts DEF Inv, Peer
  <1> QED
    BY <1>1, InvTypes, InvKexOnly DEF NoError

LEMMA InvOrderKept ==
    ASSUME Inv
    PROVE  OrderKept
  BY DEF Inv, Flow, OrderKept

LEMMA MoveFresh ==
    ASSUME Move
    PROVE  \A p \in Peers :
             /\ st[p].rekeying /\ ~st'[p].rekeying => Newer(st'[p].out, st[p].out)
             /\ ~st[p].done /\ st'[p].done => Newer(st'[p].in, st[p].in)
  <1>1. SUFFICES ASSUME NEW p \in Peers, NEW t, NEW u, t = st[p], u = st'[p]
                 PROVE  /\ t.rekeying /\ ~u.rekeying => Newer(u.out, t.out)
                        /\ ~t.done /\ u.done => Newer(u.in, t.in)
    OBVIOUS
  <1>2. PICK n \in 1 .. MaxRounds : Passes(t, u, n)
    BY <1>1 DEF Move
  <1>3. Newer(Key(n + 1), Key(n))
    BY DEF Newer, Key
  <1>4. CASE Idle(t, n) \/ Begun(t, n)
    <2>1. Idle(t, n) => t.rekeying = FALSE /\ t.done = TRUE
      BY DEF Idle
    <2>2. ~Idle(t, n) => Begun(u, n) \/ Agreed(u, n) \/ Switched(u, n) \/ Idle(u, n + 1)
      BY <1>2 DEF Passes
    <2>3. Begun(t, n) => t.rekeying = TRUE /\ t.done = FALSE /\ t.peer = << >>
      BY DEF Begun
    <2>4. << >> # << n + 1 >>
      OBVIOUS
    <2>5. Begun(t, n) => ~Idle(t, n) /\ ~Agreed(t, n) /\ ~Switched(t, n)
      BY <2>3, <2>4 DEF Idle, Agreed, Switched
    <2>6. Begun(t, n) => Begun(u, n) \/ Agreed(u, n)
      BY <1>2, <2>5 DEF Passes
    <2>7. Begun(t, n) => u.rekeying = TRUE /\ u.done = FALSE
      BY <2>6 DEF Begun, Agreed
    <2> QED
      BY <1>4, <2>1, <2>7
  <1>5. CASE Agreed(t, n) /\ (Agreed(u, n) \/ Switched(u, n))
    BY <1>3, <1>5 DEF Agreed, Switched
  <1>6. CASE Switched(t, n) /\ (Switched(u, n) \/ Idle(u, n + 1))
    BY <1>3, <1>6 DEF Switched, Idle
  <1> QED
    BY <1>2, <1>4, <1>5, <1>6 DEF Passes

(* Every reachable state: both peers are in a phase, and their wires hold  *)
(* what lies between the ranks one has sent and the other has seen.        *)
THEOREM RekeyInvariant == Spec => []Inv
  <1>1. Init => Inv
    BY InitInv
  <1>2. Inv /\ [Next]_st => Inv'
    BY StepInv
  <1> QED
    BY <1>1, <1>2, PTL DEF Spec

(* No exchange fails, whoever starts one and whenever: no packet is read   *)
(* under another key than it was sent under, no message of an exchange     *)
(* finds its handler gone, kex_start_rekex is never asked twice and the    *)
(* keys are there when ssh_set_newkeys wants them; and nothing but         *)
(* messages of the exchange lies between a peer's KEXINIT and NEWKEYS.     *)
THEOREM RekeyNoError == Spec => []NoError
  BY RekeyInvariant, InvNoError, PTL

(* ssh_packet_send2: the packets of the channels are read once each and in *)
(* order, however many exchanges they waited for.                          *)
THEOREM RekeyOrderKept == Spec => []OrderKept
  BY RekeyInvariant, InvOrderKept, PTL

(* Every exchange replaces the keys of both directions by keys made from   *)
(* cookies of both sides that were not used before.                        *)
THEOREM RekeyKeysFresh == Spec => KeysFresh
  <1>1. Inv /\ [Next]_st =>
          \A p \in Peers :
            /\ st[p].rekeying /\ ~st'[p].rekeying => Newer(st'[p].out, st[p].out)
            /\ ~st[p].done /\ st'[p].done => Newer(st'[p].in, st[p].in)
    BY StepInv, MoveFresh
  <1> QED
    BY <1>1, RekeyInvariant, PTL DEF Spec, KeysFresh
=============================================================================

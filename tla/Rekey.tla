------------------------------- MODULE Rekey -------------------------------
(***************************************************************************)
(* Key re-exchange on an authenticated connection: the packet layer        *)
(* (packet.c), the exchange of KEXINIT and NEWKEYS (kex.c) and the two     *)
(* sides of the curve25519 exchange (kexc25519s.c, kexc25519c.c).  Either  *)
(* peer may start an exchange whenever it sends or reads a packet, so two  *)
(* exchanges may be requested at once and data is in flight meanwhile.     *)
(*                                                                         *)
(* A function of the C code is an operator from the memory t of one peer   *)
(* to its memory after the call; t.wire are the packets it has sent that   *)
(* the other peer has not read.  A key is named after the two KEXINIT      *)
(* cookies it is derived from: <<the client's, the server's>>.             *)
(***************************************************************************)
EXTENDS Integers, Sequences

CONSTANTS MaxApp,       \* bound on the packets a peer sends over the channels
          MaxRounds     \* bound on the cookies of a peer, the first exchange included

ASSUME BoundAssumption == MaxApp \in Nat /\ MaxRounds \in Nat \ {0}

VARIABLE st     \* the memory of each peer

Peers == {"server", "client"}
Other(p) == IF p = "server" THEN "client" ELSE "server"

NoKey == <<0, 0>>           \* kex->newkeys[mode] is NULL
Chosen == <<-1, -1>>        \* algorithms chosen, keys not derived yet
FirstKey == <<1, 1>>        \* of the exchange before authentication

Types == {"kexinit", "init", "reply", "newkeys", "ext_info", "unimplemented", "data"}
Handlers == {"error", "null", "handler"}

(* The state a peer is in when authentication has just succeeded.          *)
(* ext_info_c: the client asks for SSH2_MSG_EXT_INFO, the server sends it. *)
Authenticated(p) ==
    [server |-> p = "server", ext_info_c |-> p = "server",
     rekeying |-> FALSE, done |-> TRUE, init_sent |-> FALSE,
     dispatch |-> [m \in {"kexinit", "init", "reply", "newkeys"} |->
                       IF m = "kexinit" THEN "handler" ELSE "error"],
     in |-> FirstKey, out |-> FirstKey, new_in |-> NoKey, new_out |-> NoKey,
     p_send |-> TRUE, p_read |-> TRUE,
     my |-> 1, peer |-> << >>,
     outgoing |-> << >>, wire |-> << >>, apps |-> 0, got |-> << >>, err |-> "none"]

Init == st = [p \in Peers |-> Authenticated(p)]

-----------------------------------------------------------------------------
(* packet.c.  p_send and p_read: has a packet been sent, or read, under    *)
(* the present keys?  A suffix names a slip the function might have.       *)

ssh_packet_is_rekeying(t) == t.rekeying \/ ~t.done

(* due: the time, packet or block limit has been reached. *)
ssh_packet_need_rekeying(t, due) ==
    /\ ~ssh_packet_is_rekeying(t)
    /\ t.p_send \/ t.p_read
    /\ due

ssh_set_newkeys_in(t) ==
    IF t.new_in \in {NoKey, Chosen} THEN [t EXCEPT !.err = "no keys"]
    ELSE [t EXCEPT !.in = t.new_in, !.new_in = NoKey, !.p_read = FALSE]

ssh_set_newkeys_out(t) ==
    IF t.new_out \in {NoKey, Chosen} THEN [t EXCEPT !.err = "no keys"]
    ELSE [t EXCEPT !.out = t.new_out, !.new_out = NoKey, !.p_send = FALSE]

Packet(t, m, v) == [type |-> m, key |-> t.out, val |-> v]

(* Encrypts under the present keys; NEWKEYS is the last packet under them. *)
ssh_packet_send2_wrapped(t, m, v) ==
    LET u == [t EXCEPT !.wire = Append(@, Packet(t, m, v)), !.p_send = TRUE]
    IN  IF m = "newkeys" THEN ssh_set_newkeys_out(u) ELSE u

ssh_packet_type_is_kex(m) == m \notin {"data", "ext_info"}

(* ssh_packet_send2 of a message of the exchange other than NEWKEYS. *)
SendKex(t, m, v) ==
    ssh_packet_send2_wrapped(IF m = "kexinit" THEN [t EXCEPT !.rekeying = TRUE] ELSE t, m, v)

(* Slip: the cookie of the last exchange is used again. *)
kex_send_kexinit_SameCookie(t) ==
    IF t.init_sent THEN t
    ELSE LET u == [t EXCEPT !.done = FALSE]
         IN  [SendKex(u, "kexinit", u.my) EXCEPT !.init_sent = TRUE]

(* Slip: a second KEXINIT goes out when the peer's crosses ours. *)
kex_send_kexinit_Twice(t) ==
    LET u == [t EXCEPT !.done = FALSE, !.my = @ + 1]
    IN  [SendKex(u, "kexinit", u.my) EXCEPT !.init_sent = TRUE]

kex_send_kexinit(t) ==
    IF t.init_sent THEN t
    ELSE LET u == [t EXCEPT !.done = FALSE, !.my = @ + 1]
         IN  [SendKex(u, "kexinit", u.my) EXCEPT !.init_sent = TRUE]

kex_start_rekex(t) ==
    IF ~t.done THEN [t EXCEPT !.err = "requested twice"]
    ELSE kex_send_kexinit([t EXCEPT !.done = FALSE])

(* ssh_packet_send2 of any other packet: it waits for the end of an        *)
(* exchange, and may start one.                                            *)
ssh_packet_send2(t, m, v, due) ==
    LET queued == [t EXCEPT !.outgoing = Append(@, <<m, v>>)]
    IN  IF ssh_packet_need_rekeying(t, due) THEN kex_start_rekex(queued)
        ELSE IF t.rekeying THEN queued
        ELSE ssh_packet_send2_wrapped(t, m, v)

(* Slip: what waited stays in the queue. *)
SendQueue_Kept(t, due) == t

(* The loop that sends what has waited.  kex->done does not change in it,  *)
(* so every packet gets the same answer about a new exchange.              *)
SendQueue(t, due) ==
    IF t.outgoing = << >> THEN t
    ELSE IF ssh_packet_need_rekeying(t, due) THEN kex_start_rekex(t)
    ELSE [t EXCEPT !.outgoing = << >>, !.p_send = TRUE,
                   !.wire = @ \o [i \in 1..Len(t.outgoing) |->
                                      Packet(t, t.outgoing[i][1], t.outgoing[i][2])]]

(* ssh_packet_send2 of NEWKEYS. *)
SendNewkeys(t, due) ==
    LET u == ssh_packet_send2_wrapped(t, "newkeys", 0)
    IN  IF u.err # "none" THEN u ELSE SendQueue([u EXCEPT !.rekeying = FALSE], due)

-----------------------------------------------------------------------------
(* kex.c and kexc25519*.c. *)

(* Another message of the exchange than the expected one. *)
kex_protocol_error(t) == SendKex(t, "unimplemented", 0)

kex_reset_dispatch(t) == [t EXCEPT !.dispatch = [m \in DOMAIN @ |-> "error"]]

kex_send_ext_info(t, due) == ssh_packet_send2(t, "ext_info", 0, due)

kex_send_newkeys(t, due) ==
    LET u == SendNewkeys(kex_reset_dispatch(t), due)
        w == [u EXCEPT !.dispatch["newkeys"] = "handler"]
    IN  IF u.err # "none" THEN u
        ELSE IF t.ext_info_c THEN kex_send_ext_info(w, due) ELSE w

(* Slip: kex->done stays 0. *)
kex_input_newkeys_NotDone(t) ==
    LET u == ssh_set_newkeys_in([t EXCEPT !.dispatch["newkeys"] = "error",
                                          !.dispatch["kexinit"] = "handler"])
    IN  IF u.err # "none" THEN u ELSE [u EXCEPT !.peer = << >>, !.init_sent = FALSE]

kex_input_newkeys(t) ==
    LET u == ssh_set_newkeys_in([t EXCEPT !.dispatch["newkeys"] = "error",
                                          !.dispatch["kexinit"] = "handler"])
    IN  IF u.err # "none" THEN u
        ELSE [u EXCEPT !.done = TRUE, !.peer = << >>, !.init_sent = FALSE]

(* Matching algorithms are found: room for the keys of both directions.    *)
(* The proposals are read from the start of kex->my and kex->peer; kex.c   *)
(* proposes the same each time and never guesses, so that ext_info_c and   *)
(* dispatch_skip_packets keep their values.                                *)
kex_choose_conf(t) == [t EXCEPT !.new_in = Chosen, !.new_out = Chosen]

kexc25519_server(t) == [t EXCEPT !.dispatch["init"] = "handler"]

kexc25519_client(t) == [SendKex(t, "init", 0) EXCEPT !.dispatch["reply"] = "handler"]

kex_input_kexinit(t, v) ==
    LET u == kex_choose_conf(kex_send_kexinit(
                 [t EXCEPT !.dispatch["kexinit"] = "null", !.peer = Append(@, v)]))
    IN  IF t.server THEN kexc25519_server(u) ELSE kexc25519_client(u)

(* The exchange hash covers both KEXINIT messages as this peer holds them. *)
kex_c25519_hash(t) == IF t.server THEN <<t.peer[1], t.my>> ELSE <<t.my, t.peer[1]>>

kex_derive_keys(t) ==
    IF t.new_in = NoKey \/ t.new_out = NoKey THEN [t EXCEPT !.err = "no keys"]
    ELSE [t EXCEPT !.new_in = kex_c25519_hash(t), !.new_out = kex_c25519_hash(t)]

input_kex_c25519_init(t, due) ==
    kex_send_newkeys(kex_derive_keys(SendKex(t, "reply", kex_c25519_hash(t))), due)

(* The server signed its hash: the client refuses another. *)
input_kex_c25519_reply(t, v, due) ==
    IF v # kex_c25519_hash(t) THEN [t EXCEPT !.err = "signature"]
    ELSE kex_send_newkeys(kex_derive_keys(t), due)

-----------------------------------------------------------------------------
(* Reading a packet. *)

ssh_packet_read_poll2(t, pkt, due) ==
    IF pkt.key # t.in THEN [t EXCEPT !.err = "mac"]
    ELSE LET u == [t EXCEPT !.p_read = TRUE]
         IN  IF ssh_packet_need_rekeying(u, due) THEN kex_start_rekex(u) ELSE u

(* ssh_packet_read_poll_seqnr consumes UNIMPLEMENTED; the messages of the  *)
(* channels have handlers throughout.  After the first exchange no handler *)
(* is left for EXT_INFO.                                                   *)
ssh_dispatch_run(t, pkt, due) ==
    LET m == pkt.type
    IN  CASE t.err # "none" -> t
          [] m = "unimplemented" -> t
          [] m = "data" -> [t EXCEPT !.got = Append(@, pkt.val)]
          [] m = "ext_info" -> kex_protocol_error(t)
          [] OTHER ->
               CASE t.dispatch[m] = "null" -> [t EXCEPT !.err = "disconnect"]
                 [] t.dispatch[m] = "error" -> kex_protocol_error(t)
                 [] m = "kexinit" -> kex_input_kexinit(t, pkt.val)
                 [] m = "init"    -> input_kex_c25519_init(t, due)
                 [] m = "reply"   -> input_kex_c25519_reply(t, pkt.val, due)
                 [] m = "newkeys" -> kex_input_newkeys(t)

-----------------------------------------------------------------------------
(* Past MaxRounds no limit is reached again. *)
Due(p) == IF st[p].my < MaxRounds THEN BOOLEAN ELSE {FALSE}

(* A peer sends a packet of a channel. *)
SendData(p) ==
    /\ st[p].err = "none" /\ st[p].apps < MaxApp
    /\ \E due \in Due(p) :
         LET n == st[p].apps + 1
         IN  st' = [st EXCEPT ![p] = ssh_packet_send2([@ EXCEPT !.apps = n], "data", n, due)]

(* A peer reads a packet and handles it. *)
Read(p) ==
    LET q == Other(p)
    IN  /\ st[p].err = "none" /\ st[q].wire # << >>
        /\ \E due \in Due(p) :
             LET pkt == Head(st[q].wire)
             IN  st' = [st EXCEPT ![p] = ssh_dispatch_run(ssh_packet_read_poll2(@, pkt, due), pkt, due),
                                  ![q].wire = Tail(@)]

Next == \E p \in Peers : SendData(p) \/ Read(p)

Spec == Init /\ [][Next]_st

(* Both processes keep reading their end of the connection. *)
FairSpec == Spec /\ \A p \in Peers : WF_st(Read(p))

-----------------------------------------------------------------------------
(* Properties. *)

IsData(pkt) == pkt.type = "data"

(* Of the packets 1 .. n of the channels, those in read have been read,    *)
(* those in wire are on the wire and the others wait in queue: none is     *)
(* missing, none is there twice and all are in their order.                *)
InOrder(read, wire, queue, n) ==
    /\ Len(read) <= n
    /\ \A i \in DOMAIN read : read[i] = i
    /\ \A k \in (Len(read) + 1) .. n :
         \/ \E i \in DOMAIN wire : IsData(wire[i]) /\ wire[i].val = k
         \/ \E i \in DOMAIN queue : queue[i] = <<"data", k>>
    /\ \A i \in DOMAIN wire : IsData(wire[i]) =>
         /\ wire[i].val \in (Len(read) + 1) .. n
         /\ \A j \in DOMAIN wire : j < i /\ IsData(wire[j]) => wire[j].val < wire[i].val
    /\ \A i \in DOMAIN queue : queue[i][1] = "data" =>
         /\ queue[i][2] \in (Len(read) + 1) .. n
         /\ \A j \in DOMAIN queue : j < i /\ queue[j][1] = "data" => queue[j][2] < queue[i][2]
         /\ \A j \in DOMAIN wire : IsData(wire[j]) => wire[j].val < queue[i][2]

Keys == {NoKey, Chosen} \cup (1..MaxRounds) \X (1..MaxRounds)

(* The values of the state: at most one proposal of the peer is held, and  *)
(* no key outlives the exchange it was made for in kex->newkeys.           *)
TypeOK ==
    \A p \in Peers :
      LET t == st[p]
      IN  /\ t.rekeying \in BOOLEAN /\ t.done \in BOOLEAN /\ t.init_sent \in BOOLEAN
          /\ t.in \in Keys \ {NoKey, Chosen} /\ t.out \in Keys \ {NoKey, Chosen}
          /\ t.new_in \in Keys /\ t.new_out \in Keys
          /\ t.my \in 1..MaxRounds /\ Len(t.peer) <= 1
          /\ t.done => t.new_in = NoKey /\ t.new_out = NoKey /\ t.peer = << >>
          /\ \A m \in DOMAIN t.dispatch : t.dispatch[m] \in Handlers
          /\ \A i \in DOMAIN t.wire : t.wire[i].type \in Types

(* "During rekeying we can only send key exchange messages" (packet.c):    *)
(* behind a peer's KEXINIT, read or still on the wire, there is nothing    *)
(* but messages of the exchange until its NEWKEYS.                         *)
KexOnly ==
    \A p \in Peers : LET w == st[p].wire IN
      \A j \in DOMAIN w :
        ~ssh_packet_type_is_kex(w[j].type) =>
          /\ \A i \in 1..(j - 1) : w[i].type = "kexinit" =>
               \E k \in i..j : w[k].type = "newkeys"
          /\ st[Other(p)].peer # << >> => \E k \in 1..j : w[k].type = "newkeys"

(* ssh_packet_read_poll2, kex_start_rekex, ssh_set_newkeys: whoever starts *)
(* an exchange and whenever, no packet is read under the wrong key, none   *)
(* is refused, no exchange is started twice or without keys, and a peer    *)
(* that refuses other packets during an exchange would find none either.   *)
NoError == TypeOK /\ KexOnly /\ \A p \in Peers : st[p].err = "none"

(* ssh_packet_send2: the packets of the channels arrive once each, in the  *)
(* order they were sent in, whether they went out at once or waited in the  *)
(* queue for the end of an exchange.                                       *)
OrderKept ==
    \A p \in Peers : InOrder(st[Other(p)].got, st[p].wire, st[p].outgoing, st[p].apps)

Newer(new, old) == new[1] > old[1] /\ new[2] > old[2]

(* kex_send_kexinit: "generate a random cookie".  The keys in force after  *)
(* an exchange are made from a new cookie of both sides, in either         *)
(* direction and whoever asked for the exchange: no keys come back.        *)
KeysFresh ==
    [][\A p \in Peers :
         /\ st[p].rekeying /\ ~st'[p].rekeying => Newer(st'[p].out, st[p].out)
         /\ ~st[p].done /\ st'[p].done => Newer(st'[p].in, st[p].in)]_st

(* Every exchange ends and what waited for it is read: again and again     *)
(* both peers are done, with nothing queued and nothing on the wire.       *)
ExchangesEnd ==
    []<>(\A p \in Peers : /\ ~ssh_packet_is_rekeying(st[p])
                          /\ st[p].outgoing = << >> /\ st[p].wire = << >>)
=============================================================================

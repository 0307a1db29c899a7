-------------------------- MODULE AmqpLinkProofs --------------------------
(***************************************************************************)
(* Proofs about the frames that a session sends to the broker, for any     *)
(* number of messages, connections and heartbeats, any login time and any  *)
(* socket that takes the handshake.                                        *)
(*                                                                         *)
(* Neither WholeFrames nor NoGap is inductive.  The invariant I joins what *)
(* is in flight and what a call has still to send into one stream and says *)
(* which half may follow which, which one is last at each place of the     *)
(* client, and that the first one is what the broker expects.  It says     *)
(* nothing of the bytes the client reads: whatever the decoder makes of    *)
(* them, a call gets some frame and fails or goes on, and either preserves *)
(* I.  It takes its parts as arguments, because an action applies several  *)
(* functions of the library to the memory in a row.  The proof goes        *)
(*   - from the stream, which grows, is read and is dropped,               *)
(*   - over the functions of amqp_socket.c and amqp_connection.c, which    *)
(*     turn one memory into the next (Goes),                               *)
(*   - to the actions of the client, and then of the broker.               *)
(***************************************************************************)
EXTENDS AmqpLink, SequenceTheorems, TLAPS

(* The frames the client sends. *)
FrameNames == {"header", "start_ok", "tune_ok", "open", "chan_open", "publish",
               "header_frame", "body", "chan_close", "conn_close", "heartbeat"}

(* Half a frame: the name of the frame, the number of the message, the   *)
(* half.                                                                 *)
Unit == [f : FrameNames, n : Nat, h : {1, 2}]

(* The members of the client's memory, and of the broker's end of a      *)
(* connection.                                                           *)
Fields == {"sock", "at", "out", "dl", "want", "hb", "ns", "nr", "trying", "state",
           "buf", "target", "inb", "queue", "msg", "conns", "rc", "fresh", "odd", "cut"}
LinkFields == {"conn", "chan", "expect", "dying", "tuned", "hb"}

(* Where mq-notify.c and the library may be; in Login, the connection is *)
(* being opened.                                                         *)
Places == {"start", "tune", "tune_ok", "open", "chan", "idle", "publish", "chan_close",
           "conn_close", "closed", "end", "crashed", "aborted"}
Login == {"start", "tune", "tune_ok", "open"}

(* The frames of a message. *)
Contents == {"publish", "header_frame", "body"}

(* The frames that a call sends. *)
Names(at) ==
    CASE at = "start" -> {"header", "heartbeat"}
      [] at = "tune" -> {"start_ok", "heartbeat"}
      [] at = "tune_ok" -> {"tune_ok"}
      [] at = "open" -> {"open", "heartbeat"}
      [] at = "chan" -> {"chan_open", "heartbeat"}
      [] at = "publish" -> Contents
      [] at = "chan_close" -> {"chan_close", "heartbeat"}
      [] at = "conn_close" -> {"conn_close", "heartbeat"}
      [] OTHER -> {}

(* Types of what the invariant says about the client's memory. *)
Memory(m) ==
    /\ DOMAIN m = Fields
    /\ m.at \in Places /\ m.sock \in BOOLEAN /\ m.cut \in BOOLEAN /\ m.trying \in BOOLEAN
    /\ m.want \in Nat /\ m.hb \in Nat /\ m.msg \in Nat
    /\ m.out \in Seq(Unit)
    /\ m.at \in {"end", "crashed"} => ~m.sock

(* The second half of a frame follows the first. *)
Follow(x, y) == IF x.h = 1 THEN y.f = x.f /\ y.n = x.n /\ y.h = 2 ELSE y.h = 1

(* What a call has still to send ends with a whole frame and is of that  *)
(* call; it waits in the middle of sending only while something is left. *)
Outgoing(m) ==
    /\ \A i \in 1..Len(m.out) : m.out[i].f \in Names(m.at)
    /\ \A i \in 1..(Len(m.out) - 1) : Follow(m.out[i], m.out[i + 1])
    /\ m.out # << >> => m.out[Len(m.out)].h = 2
    /\ m.trying => m.out # << >>

(* Without heartbeats there are no deadlines but that of the login, and  *)
(* no call stops sending to read in the middle of a frame; a client that *)
(* asked for heartbeats and has none yet has published nothing.          *)
Timing(m) ==
    /\ m.want = 0 => m.hb = 0 /\ m.ns = INF /\ m.nr = INF /\ ~m.trying
    /\ m.want = 0 /\ m.msg > 0 => m.at \in {"idle", "publish", "chan_close", "conn_close",
                                           "end", "crashed"}
    /\ m.want > 0 /\ m.hb = 0 => /\ m.msg = 0
                                 /\ m.at \notin {"tune_ok", "open", "chan", "idle", "publish"}
    /\ m.at = "publish" => m.msg > 0

(* Types of the broker's end. *)
Broker(b) ==
    /\ DOMAIN b = {"link", "rcvd", "refused"}
    /\ DOMAIN b.link = LinkFields
    /\ b.link.hb \in Nat /\ b.rcvd \in Seq(Nat)

(* The halves alternate, and a second half belongs to the first one      *)
(* before it.                                                            *)
Paired(u) ==
    \A i \in 1..Len(u) :
        /\ u[i].h = 2 - (i % 2)
        /\ i % 2 = 0 => u[i].f = u[i - 1].f /\ u[i].n = u[i - 1].n

(* What is in flight are whole frames and, while the broker reads, what  *)
(* is to be sent completes the last of them; without a socket nothing is *)
(* in flight.                                                            *)
Wire(m, u, b) ==
    /\ u \in Seq(Unit)
    /\ ~m.sock => u = << >> /\ b.link = NoBroker
    /\ ~m.cut => Paired(u)
    /\ ~m.cut /\ b.link.conn = "open" =>
          IF m.out # << >> /\ m.out[1].h = 2
          THEN /\ Len(u) % 2 = 1
               /\ u[Len(u)].f = m.out[1].f /\ u[Len(u)].n = m.out[1].n
          ELSE Len(u) % 2 = 0
    /\ m.msg = 0 => b.rcvd = << >> /\ \A i \in 1..Len(u) : u[i].f \notin Contents

(* Which half may come next on a connection without heartbeats: the      *)
(* three frames of a message are together, and messages are numbered in  *)
(* order from the opening of the channel to its end.                     *)
Successor(x, y) ==
    IF x.h = 1 THEN y.f = x.f /\ y.n = x.n /\ y.h = 2
    ELSE /\ y.h = 1
         /\ CASE x.f = "publish" -> y.f = "header_frame" /\ y.n = x.n
              [] x.f = "header_frame" -> y.f = "body" /\ y.n = x.n
              [] x.f = "body" -> (y.f = "publish" /\ y.n = x.n + 1) \/ y.f = "chan_close"
              [] x.f = "chan_open" -> (y.f = "publish" /\ y.n = 1) \/ y.f = "chan_close"
              [] x.f = "chan_close" -> y.f = "conn_close"
              [] x.f = "conn_close" -> FALSE
              [] OTHER -> y.f \in {"start_ok", "tune_ok", "open", "chan_open", "chan_close"}

(* The last half of the stream, by the place where the client is. *)
LastIs(at, msg, x) ==
    /\ x.h = 2
    /\ CASE at = "start" -> x.f = "header"
         [] at = "tune" -> x.f = "start_ok"
         [] at = "tune_ok" -> x.f = "tune_ok"
         [] at = "open" -> x.f = "open"
         [] at = "chan" -> x.f = "chan_open"
         [] at = "closed" -> x.f \in {"start_ok", "open", "chan_open"}
         [] at = "aborted" -> x.f \in {"start_ok", "tune_ok"}
         [] at = "idle" -> \/ (msg = 0 /\ x.f = "chan_open")
                           \/ (msg > 0 /\ x.f = "body" /\ x.n = msg)
         [] at = "publish" -> x.f = "body" /\ x.n = msg
         [] at = "chan_close" -> x.f = "chan_close"
         [] at = "conn_close" -> x.f = "conn_close"
         [] OTHER -> FALSE

(* What the broker reads first on an open channel, which has k messages, *)
(* is what it expects.                                                   *)
Starts(x, expect, k) ==
    /\ x.h = 1
    /\ CASE expect = "method" -> (x.f = "publish" /\ x.n = k + 1) \/ x.f = "chan_close"
         [] expect = "header_frame" -> x.f = "header_frame" /\ x.n = k + 1
         [] expect = "body" -> x.f = "body" /\ x.n = k + 1
         [] OTHER -> FALSE

(* The stream S of what is in flight and what is still to be sent,       *)
(* against the state l of the broker's end and the messages r it has. A  *)
(* channel is opened at most once in the life of a connection. Nothing   *)
(* here depends on the client's decoder, so it holds too of a connection *)
(* opened with what the decoder kept of an earlier one.                  *)
Flow(S, at, msg, l, r) ==
    /\ \A i \in 1..(Len(S) - 1) : Successor(S[i], S[i + 1])
    /\ S # << >> => LastIs(at, msg, S[Len(S)])
    /\ at \in Login => l.chan = "none" /\ l.expect = "method"
    /\ at \in Login => \A i \in 1..Len(S) : S[i].f # "chan_open"
    /\ \A i \in 1..Len(S) : S[i].f = "chan_open" =>
          /\ l.chan = "none" /\ l.expect = "method" /\ r = << >>
          /\ \A j \in (i + 1)..Len(S) : S[j].f = "chan_open" => S[i].h = 1 /\ j = i + 1
    /\ l.chan = "open" =>
          /\ ~l.dying
          /\ IF S = << >> THEN /\ l.expect = "method" /\ Len(r) = msg
                              /\ at \notin {"chan_close", "conn_close"}
             ELSE Starts(S[1], l.expect, Len(r))

(* Without heartbeats the broker has the messages from the first one on, *)
(* and an open connection is one that flows.                             *)
Gapless(m, u, b) ==
    m.want = 0 =>
        /\ \A i \in 1..Len(b.rcvd) : b.rcvd[i] = i
        /\ b.link.conn = "open" =>
              ~m.cut /\ Flow(u \o m.out, m.at, m.msg, b.link, b.rcvd)

(* The inductive invariant, over the memory, the bytes in flight and the *)
(* broker.                                                               *)
I(m, u, b) ==
    /\ Memory(m) /\ Outgoing(m) /\ Timing(m) /\ Broker(b)
    /\ Wire(m, u, b)
    /\ Gapless(m, u, b)

(* The part that is about the memory alone. *)
Local(m) == Memory(m) /\ Outgoing(m) /\ Timing(m)

(* The part that outlives a connection: the messages received. *)
Received(m, b) ==
    /\ m.msg = 0 => b.rcvd = << >>
    /\ m.want = 0 => \A i \in 1..Len(b.rcvd) : b.rcvd[i] = i

-----------------------------------------------------------------------------
(* The two halves of a frame. *)
LEMMA HalvesAre ==
    ASSUME NEW f \in FrameNames, NEW n \in Nat
    PROVE  /\ Halves(f, n) \in Seq(Unit) /\ Len(Halves(f, n)) = 2
           /\ Halves(f, n) # << >>
           /\ Halves(f, n)[1] = [f |-> f, n |-> n, h |-> 1]
           /\ Halves(f, n)[2] = [f |-> f, n |-> n, h |-> 2]
  BY DEF Halves, Unit

(* The rest of a sequence. *)
LEMMA Suffix ==
    ASSUME NEW X, NEW s \in Seq(X), NEW k \in 1..(Len(s) + 1)
    PROVE  LET t == SubSeq(s, k, Len(s))
           IN  t \in Seq(X) /\ Len(t) = Len(s) - k + 1 /\ \A i \in 1..Len(t) : t[i] = s[k + i - 1]
  BY SubSeqProperties, LenProperties

(* The beginning of a sequence. *)
LEMMA Prefix ==
    ASSUME NEW X, NEW s \in Seq(X), NEW k \in 0..Len(s)
    PROVE  LET t == SubSeq(s, 1, k)
           IN  t \in Seq(X) /\ Len(t) = k /\ \A i \in 1..k : t[i] = s[i]
<1>1. /\ SubSeq(s, 1, k) \in Seq(X)
      /\ Len(SubSeq(s, 1, k)) = IF 1 <= k THEN k - 1 + 1 ELSE 0
      /\ \A i \in 1..(k - 1 + 1) : SubSeq(s, 1, k)[i] = s[1 + i - 1]
  BY SubSeqProperties, LenProperties
<1>2. \A i \in 1..k : 1 + i - 1 = i
  OBVIOUS
<1> QED  BY <1>1, <1>2

(* Two sequences joined. *)
LEMMA Joined ==
    ASSUME NEW X, NEW s \in Seq(X), NEW t \in Seq(X)
    PROVE  /\ s \o t \in Seq(X) /\ Len(s \o t) = Len(s) + Len(t)
           /\ \A i \in 1..(Len(s) + Len(t)) :
                 (s \o t)[i] = IF i <= Len(s) THEN s[i] ELSE t[i - Len(s)]
  OBVIOUS

(* Bytes that move from the front of one sequence to the end of another  *)
(* leave the stream as it is.                                            *)
LEMMA Moves ==
    ASSUME NEW X, NEW a \in Seq(X), NEW b \in Seq(X), NEW n \in 0..Len(b)
    PROVE  (a \o SubSeq(b, 1, n)) \o SubSeq(b, n + 1, Len(b)) = a \o b
<1> DEFINE x == SubSeq(b, 1, n)
           y == SubSeq(b, n + 1, Len(b))
<1>1. x \in Seq(X) /\ y \in Seq(X)
  <2>1. n + 1 \in 1..(Len(b) + 1)
    OBVIOUS
  <2> QED  BY <2>1, Prefix, Suffix
<1>2. x \o y = SubSeq(b, 1, Len(b))
  <2>1. 1 \in 1..(Len(b) + 1) /\ n \in (1 - 1)..Len(b) /\ Len(b) \in n..Len(b)
    OBVIOUS
  <2> QED  BY <2>1, ConcatAdjacentSubSeq, Zenon
<1>3. SubSeq(b, 1, Len(b)) = b
  BY SubSeqFull, Zenon
<1> HIDE DEF x, y
<1>4. (a \o x) \o y = a \o (x \o y)
  BY <1>1, ConcatAssociative, SMTT(60)
<1>5. (a \o x) \o y = a \o b
  BY <1>2, <1>3, <1>4
<1> QED  BY <1>5 DEF x, y

(* Bytes that leave the front of what is in flight leave the front of    *)
(* the stream.                                                           *)
LEMMA Drops ==
    ASSUME NEW X, NEW a \in Seq(X), NEW b \in Seq(X), NEW k \in 1..(Len(a) + 1)
    PROVE  SubSeq(a, k, Len(a)) \o b = SubSeq(a \o b, k, Len(a \o b))
<1> DEFINE t == SubSeq(a, k, Len(a))
           s == SubSeq(a \o b, k, Len(a \o b))
<1>1. t \in Seq(X) /\ Len(t) = Len(a) - k + 1 /\ \A i \in 1..Len(t) : t[i] = a[k + i - 1]
  BY Suffix
<1>2. a \o b \in Seq(X) /\ Len(a \o b) = Len(a) + Len(b)
  OBVIOUS
<1>3. k \in 1..(Len(a \o b) + 1)
  BY <1>2
<1>4. /\ s \in Seq(X) /\ Len(s) = Len(a) + Len(b) - k + 1
      /\ \A i \in 1..Len(s) : s[i] = (a \o b)[k + i - 1]
  BY <1>2, <1>3, Suffix
<1> HIDE DEF s, t
<1>5. t \o b \in Seq(X) /\ Len(t \o b) = Len(s)
  BY <1>1, <1>4
<1>6. ASSUME NEW i \in 1..Len(s)
      PROVE  (t \o b)[i] = s[i]
  <2>1. CASE i <= Len(t)
    <3>1. (t \o b)[i] = t[i]
      BY <2>1, <1>1, <1>4, Joined
    <3>2. t[i] = a[k + i - 1] /\ k + i - 1 \in 1..Len(a)
      BY <2>1, <1>1, <1>4
    <3>3. (a \o b)[k + i - 1] = a[k + i - 1]
      BY <3>2, Joined
    <3> QED  BY <3>1, <3>2, <3>3, <1>4
  <2>2. CASE i > Len(t)
    <3>1. (t \o b)[i] = b[i - Len(t)]
      BY <2>2, <1>1, <1>5
    <3>2. (a \o b)[k + i - 1] = b[(k + i - 1) - Len(a)]
      BY <2>2, <1>1, <1>2, <1>4
    <3>3. (k + i - 1) - Len(a) = i - Len(t)
      BY <1>1
    <3> QED  BY <3>1, <3>2, <3>3, <1>4
  <2> QED  BY <2>1, <2>2, <1>1, <1>4
<1>7. t \o b = s
  BY <1>4, <1>5, <1>6, SeqEqual
<1> QED  BY <1>7 DEF s, t

(* The client moves on and sends nothing. *)
LEMMA FlowMoves ==
    ASSUME NEW S \in Seq(Unit), NEW at, NEW to, NEW msg, NEW l, NEW r,
           Flow(S, at, msg, l, r),
           S # << >> => LastIs(to, msg, S[Len(S)]),
           to \in Login => at \in Login,
           to \notin {"chan_close", "conn_close"}
    PROVE  Flow(S, to, msg, l, r)
  BY DEF Flow

(* The client adds frames, E, to the stream. *)
LEMMA FlowGrows ==
    ASSUME NEW S \in Seq(Unit), NEW E \in Seq(Unit), NEW at, NEW to, NEW msg, NEW n,
           NEW l, NEW r,
           Flow(S, at, msg, l, r),
           E # << >>,
           \A i \in 1..(Len(E) - 1) : Successor(E[i], E[i + 1]),
           S # << >> => Successor(S[Len(S)], E[1]),
           LastIs(to, n, E[Len(E)]),
           to \in Login => at \in Login /\ \A i \in 1..Len(E) : E[i].f # "chan_open",
           \A i \in 1..Len(E) : E[i].f = "chan_open" =>
               /\ at \in Login /\ r = << >>
               /\ \A j \in (i + 1)..Len(E) : E[j].f = "chan_open" => E[i].h = 1 /\ j = i + 1,
           l.chan = "open" /\ S = << >> => Starts(E[1], l.expect, Len(r))
    PROVE  Flow(S \o E, to, n, l, r)
<1> DEFINE T == S \o E
<1>1. T \in Seq(Unit) /\ Len(T) = Len(S) + Len(E) /\ Len(E) > 0 /\ T # << >>
  OBVIOUS
<1>2. \A i \in 1..Len(T) : T[i] = IF i <= Len(S) THEN S[i] ELSE E[i - Len(S)]
  OBVIOUS
<1> HIDE DEF T
<1>3. \A i \in 1..(Len(T) - 1) : Successor(T[i], T[i + 1])
  <2> SUFFICES ASSUME NEW i \in 1..(Len(T) - 1)
               PROVE  Successor(T[i], T[i + 1])
    OBVIOUS
  <2>1. CASE i < Len(S)
    <3>0. /\ i \in 1..Len(T) /\ i <= Len(S)
          /\ i + 1 \in 1..Len(T) /\ i + 1 <= Len(S)
          /\ i \in 1..(Len(S) - 1)
      BY <2>1, <1>1
    <3>1. T[i] = S[i] /\ T[i + 1] = S[i + 1]
      BY <3>0, <1>2
    <3> QED  BY <3>0, <3>1 DEF Flow
  <2>2. CASE i = Len(S)
    <3>1. T[i] = S[i]
      BY <2>2, <1>1, <1>2
    <3>4. T[i + 1] = E[i + 1 - Len(S)]
      <4>1. i + 1 \in 1..Len(T) /\ ~(i + 1 <= Len(S))
        BY <2>2, <1>1
      <4> QED  BY <4>1, <1>2
    <3>2. i + 1 - Len(S) = 1
      BY <2>2
    <3>3. S # << >>
      BY <2>2
    <3> QED  BY <3>1, <3>2, <3>3, <3>4, <2>2
  <2>3. CASE i > Len(S)
    <3>1. T[i] = E[i - Len(S)] /\ T[i + 1] = E[(i - Len(S)) + 1]
      BY <2>3, <1>1, <1>2
    <3>2. i - Len(S) \in 1..(Len(E) - 1)
      BY <2>3, <1>1
    <3> QED  BY <3>1, <3>2
  <2> QED  BY <2>1, <2>2, <2>3
<1>4. LastIs(to, n, T[Len(T)])
  <2>1. T[Len(T)] = E[Len(E)]
    BY <1>1, <1>2
  <2> QED  BY <2>1
<1>5. to \in Login => /\ l.chan = "none" /\ l.expect = "method"
                      /\ \A i \in 1..Len(T) : T[i].f # "chan_open"
  <2> SUFFICES ASSUME to \in Login
               PROVE  /\ l.chan = "none" /\ l.expect = "method"
                      /\ \A i \in 1..Len(T) : T[i].f # "chan_open"
    OBVIOUS
  <2>1. l.chan = "none" /\ l.expect = "method" /\ \A i \in 1..Len(S) : S[i].f # "chan_open"
    BY DEF Flow
  <2>2. ASSUME NEW i \in 1..Len(T)
        PROVE  T[i].f # "chan_open"
    <3>1. CASE i <= Len(S)
      BY <3>1, <2>1, <1>2
    <3>2. CASE i > Len(S)
      <4>1. T[i] = E[i - Len(S)] /\ i - Len(S) \in 1..Len(E)
        BY <3>2, <1>1, <1>2
      <4> QED  BY <4>1
    <3> QED  BY <3>1, <3>2
  <2> QED  BY <2>1, <2>2
<1>6. ASSUME NEW i \in 1..Len(T), T[i].f = "chan_open"
      PROVE  /\ l.chan = "none" /\ l.expect = "method" /\ r = << >>
             /\ \A j \in (i + 1)..Len(T) : T[j].f = "chan_open" => T[i].h = 1 /\ j = i + 1
  <2>1. CASE i <= Len(S)
    <3>1. T[i] = S[i] /\ i \in 1..Len(S) /\ at \notin Login
      BY <2>1, <1>6, <1>1, <1>2 DEF Flow
    <3>2. /\ l.chan = "none" /\ l.expect = "method" /\ r = << >>
          /\ \A j \in (i + 1)..Len(S) : S[j].f = "chan_open" => S[i].h = 1 /\ j = i + 1
      BY <3>1, <1>6 DEF Flow
    <3>3. ASSUME NEW j \in (i + 1)..Len(T), T[j].f = "chan_open"
          PROVE  T[i].h = 1 /\ j = i + 1
      <4>1. CASE j <= Len(S)
        BY <4>1, <3>1, <3>2, <3>3, <1>1, <1>2
      <4>2. CASE j > Len(S)
        <5>1. T[j] = E[j - Len(S)] /\ j - Len(S) \in 1..Len(E)
          BY <4>2, <1>1, <1>2
        <5> QED  BY <5>1, <3>1, <3>3
      <4> QED  BY <4>1, <4>2
    <3> QED  BY <3>2, <3>3
  <2>2. CASE i > Len(S)
    <3> DEFINE k == i - Len(S)
    <3>1. T[i] = E[k] /\ k \in 1..Len(E)
      BY <2>2, <1>1, <1>2
    <3>2. /\ at \in Login /\ r = << >>
          /\ \A j \in (k + 1)..Len(E) : E[j].f = "chan_open" => E[k].h = 1 /\ j = k + 1
      BY <3>1, <1>6
    <3>3. l.chan = "none" /\ l.expect = "method"
      BY <3>2 DEF Flow
    <3>4. ASSUME NEW j \in (i + 1)..Len(T), T[j].f = "chan_open"
          PROVE  T[i].h = 1 /\ j = i + 1
      <4>1. T[j] = E[j - Len(S)] /\ j - Len(S) \in (k + 1)..Len(E)
        BY <2>2, <1>1, <1>2
      <4>2. E[k].h = 1 /\ j - Len(S) = k + 1
        BY <4>1, <3>2, <3>4
      <4> QED  BY <4>2, <3>1
    <3> QED  BY <3>2, <3>3, <3>4
  <2> QED  BY <2>1, <2>2
<1>7. l.chan = "open" => ~l.dying /\ Starts(T[1], l.expect, Len(r))
  <2> SUFFICES ASSUME l.chan = "open"
               PROVE  ~l.dying /\ Starts(T[1], l.expect, Len(r))
    OBVIOUS
  <2>1. CASE S = << >>
    <3>1. T[1] = E[1]
      BY <2>1, <1>1, <1>2
    <3> QED  BY <2>1, <3>1 DEF Flow
  <2>2. CASE S # << >>
    <3>1. T[1] = S[1]
      BY <2>2, <1>1, <1>2
    <3> QED  BY <2>2, <3>1 DEF Flow
  <2> QED  BY <2>1, <2>2
<1>8. Flow(T, to, n, l, r)
  BY <1>1, <1>3, <1>4, <1>5, <1>6, <1>7 DEF Flow
<1> QED  BY <1>8 DEF T

(* The broker reads a frame, and becomes k with the messages q. *)
LEMMA FlowReads ==
    ASSUME NEW S \in Seq(Unit), Len(S) >= 2, NEW at, NEW msg, NEW l, NEW r, NEW k, NEW q,
           Flow(S, at, msg, l, r),
           at \in Login => k.chan = "none" /\ k.expect = "method",
           \A i \in 3..Len(S) : S[i].f = "chan_open" =>
               k.chan = "none" /\ k.expect = "method" /\ q = << >>,
           k.chan = "open" => /\ ~k.dying
                              /\ Len(S) = 2 => /\ k.expect = "method" /\ Len(q) = msg
                                               /\ at \notin {"chan_close", "conn_close"}
                              /\ Len(S) > 2 => Starts(S[3], k.expect, Len(q))
    PROVE  Flow(SubSeq(S, 3, Len(S)), at, msg, k, q)
<1> DEFINE T == SubSeq(S, 3, Len(S))
<1>0. T \in Seq(Unit) /\ Len(T) = Len(S) - 3 + 1 /\ \A i \in 1..Len(T) : T[i] = S[3 + i - 1]
  <2>1. 3 \in 1..(Len(S) + 1)
    OBVIOUS
  <2> QED  BY <2>1, Suffix
<1>1. T \in Seq(Unit) /\ Len(T) = Len(S) - 2 /\ (T = << >> <=> Len(S) = 2)
  <2> HIDE DEF T
  <2>1. Len(T) = Len(S) - 2 /\ (T = << >> <=> Len(T) = 0)
    BY <1>0
  <2> QED  BY <2>1, <1>0
<1>2. \A i \in 1..Len(T) : T[i] = S[i + 2] /\ i + 2 \in 3..Len(S)
  <2>1. \A i \in 1..Len(T) : 3 + i - 1 = i + 2 /\ i + 2 \in 3..Len(S)
    BY <1>1
  <2> QED  BY <1>0, <2>1
<1> HIDE DEF T
<1>3. \A i \in 1..(Len(T) - 1) : Successor(T[i], T[i + 1])
  <2> SUFFICES ASSUME NEW i \in 1..(Len(T) - 1)
               PROVE  Successor(T[i], T[i + 1])
    OBVIOUS
  <2>1. T[i] = S[i + 2] /\ T[i + 1] = S[i + 1 + 2] /\ i + 2 \in 1..(Len(S) - 1)
    BY <1>1, <1>2
  <2>2. i + 1 + 2 = i + 2 + 1
    OBVIOUS
  <2> QED  BY <2>1, <2>2 DEF Flow
<1>4. T # << >> => LastIs(at, msg, T[Len(T)])
  <2> SUFFICES ASSUME T # << >>
               PROVE  LastIs(at, msg, T[Len(T)])
    OBVIOUS
  <2>1. T[Len(T)] = S[Len(T) + 2] /\ Len(T) + 2 = Len(S) /\ S # << >>
    BY <1>1, <1>2
  <2> QED  BY <2>1 DEF Flow
<1>5. at \in Login => /\ k.chan = "none" /\ k.expect = "method"
                      /\ \A i \in 1..Len(T) : T[i].f # "chan_open"
  BY <1>1, <1>2 DEF Flow
<1>6. ASSUME NEW i \in 1..Len(T), T[i].f = "chan_open"
      PROVE  /\ k.chan = "none" /\ k.expect = "method" /\ q = << >>
             /\ \A j \in (i + 1)..Len(T) : T[j].f = "chan_open" => T[i].h = 1 /\ j = i + 1
  <2>1. T[i] = S[i + 2] /\ i + 2 \in 3..Len(S)
    BY <1>2
  <2>2. k.chan = "none" /\ k.expect = "method" /\ q = << >>
    BY <2>1, <1>6
  <2>3. \A j \in (i + 2 + 1)..Len(S) : S[j].f = "chan_open" => S[i + 2].h = 1 /\ j = i + 2 + 1
    BY <2>1, <1>6 DEF Flow
  <2>4. ASSUME NEW j \in (i + 1)..Len(T), T[j].f = "chan_open"
        PROVE  T[i].h = 1 /\ j = i + 1
    <3>1. T[j] = S[j + 2] /\ j + 2 \in (i + 2 + 1)..Len(S)
      BY <1>1, <1>2
    <3>2. S[i + 2].h = 1 /\ j + 2 = i + 2 + 1
      BY <3>1, <2>3, <2>4
    <3> QED  BY <3>2, <2>1
  <2> QED  BY <2>2, <2>4
<1>7. k.chan = "open" => /\ ~k.dying
                         /\ IF T = << >> THEN /\ k.expect = "method" /\ Len(q) = msg
                                              /\ at \notin {"chan_close", "conn_close"}
                            ELSE Starts(T[1], k.expect, Len(q))
  <2>1. T # << >> => T[1] = S[3] /\ Len(S) > 2
    BY <1>1, <1>2
  <2> QED  BY <2>1, <1>1
<1>8. Flow(T, at, msg, k, q)
  BY <1>3, <1>4, <1>5, <1>6, <1>7 DEF Flow
<1> QED  BY <1>8 DEF T

(* The socket is closed: what was in flight is lost, and the rest of the *)
(* invariant stays.                                                      *)
LEMMA Closes ==
    ASSUME NEW m, NEW b, Local(m), ~m.sock, Broker(b), Received(m, b)
    PROVE  I(m, << >>, [b EXCEPT !.link = NoBroker])
<1> DEFINE d == [b EXCEPT !.link = NoBroker]
<1>1. Broker(d) /\ d.link = NoBroker /\ d.rcvd = b.rcvd /\ d.link.conn = "none"
  BY DEF Broker, NoBroker, LinkFields
<1>2. << >> \in Seq(Unit) /\ Len(<< >>) = 0
  OBVIOUS
<1> HIDE DEF d
<1>3. Wire(m, << >>, d)
  BY <1>1, <1>2 DEF Wire, Paired, Received
<1>4. Gapless(m, << >>, d)
  BY <1>1 DEF Gapless, Received
<1>5. I(m, << >>, d)
  BY <1>1, <1>3, <1>4 DEF I, Local
<1> QED  BY <1>5 DEF d

(* The parts of the invariant that a closed connection needs. *)
LEMMA IsReceived ==
    ASSUME NEW m, NEW u, NEW b, I(m, u, b)
    PROVE  Received(m, b) /\ Local(m) /\ Broker(b)
  BY DEF I, Wire, Gapless, Received, Local

(* The two memories differ only in what the invariant does not look at:  *)
(* the decoder and its queue.                                            *)
Alike(m, n) ==
    /\ DOMAIN n = Fields
    /\ n.sock = m.sock /\ n.at = m.at /\ n.out = m.out /\ n.want = m.want /\ n.hb = m.hb
    /\ n.ns = m.ns /\ n.nr = m.nr /\ n.trying = m.trying /\ n.msg = m.msg /\ n.cut = m.cut

(* Such a change preserves the invariant. *)
LEMMA AlikeKeeps ==
    ASSUME NEW m, NEW n, NEW u, NEW b, I(m, u, b), Alike(m, n)
    PROVE  I(n, u, b)
<1>1. Memory(n)
  BY DEF I, Memory, Alike
<1>2. Outgoing(n) /\ Timing(n)
  BY DEF I, Outgoing, Timing, Alike
<1>3. Wire(n, u, b)
  BY DEF I, Wire, Alike
<1>4. Gapless(n, u, b)
  BY DEF I, Gapless, Alike
<1> QED  BY <1>1, <1>2, <1>3, <1>4 DEF I

(* Only the place in the program and the bytes to send differ. *)
SameBut(m, n) ==
    /\ DOMAIN n = Fields
    /\ n.sock = m.sock /\ n.want = m.want /\ n.hb = m.hb
    /\ n.ns = m.ns /\ n.nr = m.nr /\ n.trying = m.trying /\ n.msg = m.msg /\ n.cut = m.cut

(* A place that the client may move to. *)
Allowed(m, to) ==
    /\ to \in Places
    /\ to \in {"end", "crashed"} => ~m.sock
    /\ m.want = 0 /\ m.msg > 0 => to \in {"idle", "publish", "chan_close", "conn_close",
                                         "end", "crashed"}
    /\ m.want > 0 /\ m.hb = 0 => to \notin {"tune_ok", "open", "chan", "idle", "publish"}
    /\ to = "publish" => m.msg > 0

(* The call goes on or returns, with nothing to send. *)
LEMMA Turns ==
    ASSUME NEW m, NEW n, NEW u, NEW b, I(m, u, b), SameBut(m, n),
           m.out = << >>, n.out = << >>, Allowed(m, n.at),
           n.at \in Login => m.at \in Login,
           n.at \notin {"chan_close", "conn_close"},
           m.want = 0 /\ b.link.conn = "open" /\ u # << >> => LastIs(n.at, m.msg, u[Len(u)])
    PROVE  I(n, u, b)
<1>1. Memory(n) /\ Outgoing(n) /\ Timing(n)
  BY DEF I, Memory, Outgoing, Timing, SameBut, Allowed
<1>2. Wire(n, u, b)
  BY DEF I, Wire, SameBut
<1>3. Gapless(n, u, b)
  <2> SUFFICES ASSUME m.want = 0, b.link.conn = "open"
               PROVE  ~n.cut /\ Flow(u \o n.out, n.at, n.msg, b.link, b.rcvd)
    BY DEF I, Gapless, SameBut
  <2>1. u \in Seq(Unit) /\ u \o m.out = u /\ u \o n.out = u
    BY DEF I, Wire
  <2>2. ~m.cut /\ Flow(u, m.at, m.msg, b.link, b.rcvd)
    BY <2>1 DEF I, Gapless
  <2>3. Flow(u, n.at, m.msg, b.link, b.rcvd)
    BY <2>1, <2>2, FlowMoves
  <2> QED  BY <2>1, <2>2, <2>3 DEF SameBut
<1> QED  BY <1>1, <1>2, <1>3 DEF I

(* The call sends a frame. *)
LEMMA Calls ==
    ASSUME NEW m, NEW n, NEW u, NEW b, I(m, u, b), SameBut(m, n),
           NEW f \in FrameNames, NEW k \in Nat,
           m.out = << >>, n.out = Halves(f, k), Allowed(m, n.at),
           f \in Names(n.at),
           m.want = 0 /\ b.link.conn = "open" =>
               /\ u # << >> => Successor(u[Len(u)], [f |-> f, n |-> k, h |-> 1])
               /\ LastIs(n.at, m.msg, [f |-> f, n |-> k, h |-> 2])
               /\ n.at \in Login => m.at \in Login /\ f # "chan_open"
               /\ f = "chan_open" => m.at \in Login
               /\ b.link.chan = "open" /\ u = << >> =>
                     Starts([f |-> f, n |-> k, h |-> 1], b.link.expect, Len(b.rcvd))
    PROVE  I(n, u, b)
<1> DEFINE E == Halves(f, k)
<1>0. /\ E \in Seq(Unit) /\ Len(E) = 2 /\ E # << >>
      /\ E[1] = [f |-> f, n |-> k, h |-> 1] /\ E[2] = [f |-> f, n |-> k, h |-> 2]
  BY HalvesAre
<1> HIDE DEF E
<1>a. n.out = E
  BY DEF E
<1>1. Memory(n) /\ Timing(n)
  BY <1>0, <1>a DEF I, Memory, Timing, SameBut, Allowed
<1>2. Outgoing(n)
  <2>1. \A i \in 1..2 : E[i].f \in Names(n.at)
    BY <1>0
  <2>2. Follow(E[1], E[2])
    BY <1>0 DEF Follow
  <2>3. ASSUME NEW i \in 1..(Len(E) - 1)
        PROVE  Follow(E[i], E[i + 1])
    <3>1. i = 1 /\ i + 1 = 2
      BY <1>0
    <3> QED  BY <2>2, <3>1
  <2>4. E[Len(E)].h = 2
    BY <1>0
  <2>5. \A i \in 1..Len(E) : E[i].f \in Names(n.at)
    BY <1>0, <2>1
  <2> QED  BY <1>0, <1>a, <2>3, <2>4, <2>5 DEF Outgoing
<1>3. Wire(n, u, b)
  BY <1>0, <1>a DEF I, Wire, SameBut
<1>4. Gapless(n, u, b)
  <2> SUFFICES ASSUME m.want = 0, b.link.conn = "open"
               PROVE  ~n.cut /\ Flow(u \o n.out, n.at, n.msg, b.link, b.rcvd)
    BY DEF I, Gapless, SameBut
  <2>1. u \in Seq(Unit) /\ u \o m.out = u
    BY DEF I, Wire
  <2>2. ~m.cut /\ Flow(u, m.at, m.msg, b.link, b.rcvd)
    BY <2>1 DEF I, Gapless
  <2>3. f = "chan_open" => b.rcvd = << >>
    <3>1. m.at \in Login => m.msg = 0
      BY DEF I, Timing, Memory, Login
    <3> QED  BY <3>1 DEF I, Wire
  <2>4. \A i \in 1..(Len(E) - 1) : Successor(E[i], E[i + 1])
    BY <1>0 DEF Successor
  <2>5. \A i \in 1..Len(E) : E[i].f = "chan_open" =>
               /\ m.at \in Login /\ b.rcvd = << >>
               /\ \A j \in (i + 1)..Len(E) : E[j].f = "chan_open" => E[i].h = 1 /\ j = i + 1
    BY <1>0, <2>3
  <2>6. n.at \in Login => m.at \in Login /\ \A i \in 1..Len(E) : E[i].f # "chan_open"
    BY <1>0
  <2>7. Flow(u \o E, n.at, m.msg, b.link, b.rcvd)
    BY <1>0, <2>1, <2>2, <2>4, <2>5, <2>6, FlowGrows
  <2> QED  BY <1>a, <2>2, <2>7 DEF SameBut
<1> QED  BY <1>1, <1>2, <1>3, <1>4 DEF I

(* The invariant after Becomes(n): a client that closed its socket loses *)
(* the connection.                                                       *)
Goes(n, u, b) ==
    IF n.sock THEN I(n, u, b) ELSE I(n, << >>, [b EXCEPT !.link = NoBroker])

(* What a failed call leaves behind. *)
LEMMA FailIs ==
    ASSUME NEW m, Local(m)
    PROVE  LET n == Fail(m)
           IN  /\ DOMAIN n = Fields /\ n.out = << >> /\ n.trying = FALSE
               /\ n.want = m.want /\ n.hb = m.hb /\ n.ns = m.ns /\ n.nr = m.nr /\ n.msg = m.msg
               /\ n.sock = (m.sock /\ m.at \in {"open", "chan", "publish"})
               /\ n.cut = (m.cut \/ (m.out # << >> /\ m.out[1].h = 2))
               /\ n.at = CASE m.at = "publish" -> "idle"
                           [] m.at \in {"chan_close", "conn_close"} -> "end"
                           [] OTHER -> "closed"
  BY DEF Fail, Local, Memory, Fields

(* The memory is in order after a failed call. *)
LEMMA FailLocal ==
    ASSUME NEW m, Local(m), m.at \notin {"idle", "end", "crashed", "aborted"}
    PROVE  Local(Fail(m))
<1> DEFINE n == Fail(m)
<1>1. /\ DOMAIN n = Fields /\ n.out = << >> /\ n.trying = FALSE
      /\ n.want = m.want /\ n.hb = m.hb /\ n.ns = m.ns /\ n.nr = m.nr /\ n.msg = m.msg
      /\ n.sock = (m.sock /\ m.at \in {"open", "chan", "publish"})
      /\ n.cut = (m.cut \/ (m.out # << >> /\ m.out[1].h = 2))
      /\ n.at = CASE m.at = "publish" -> "idle"
                  [] m.at \in {"chan_close", "conn_close"} -> "end"
                  [] OTHER -> "closed"
  BY FailIs
<1> HIDE DEF n
<1>2. Memory(n)
  <2>1. n.cut \in BOOLEAN /\ n.sock \in BOOLEAN
    BY <1>1, Zenon
  <2>2. n.at \in Places /\ (n.at \in {"end", "crashed"} => ~n.sock)
    BY <1>1 DEF Local, Memory, Places
  <2>3. n.out \in Seq(Unit)
    BY <1>1
  <2> QED  BY <1>1, <2>1, <2>2, <2>3 DEF Local, Memory
<1>3. Outgoing(n)
  BY <1>1 DEF Outgoing
<1>4. Timing(n)
  BY <1>1 DEF Local, Timing, Memory, Places
<1>5. Local(n)
  BY <1>2, <1>3, <1>4 DEF Local
<1> QED  BY <1>5 DEF n

(* A call fails; while the broker reads, all of its frame has been sent. *)
LEMMA FailGoes ==
    ASSUME NEW m, NEW u, NEW b, I(m, u, b),
           m.at \notin {"idle", "end", "crashed", "aborted"},
           m.want = 0 /\ b.link.conn = "open" => m.out = << >>
    PROVE  Goes(Fail(m), u, b)
<1> DEFINE n == Fail(m)
<1>0. Local(m) /\ Received(m, b) /\ Broker(b)
  BY IsReceived
<1>1. /\ DOMAIN n = Fields /\ n.out = << >> /\ n.trying = FALSE
      /\ n.want = m.want /\ n.hb = m.hb /\ n.ns = m.ns /\ n.nr = m.nr /\ n.msg = m.msg
      /\ n.sock = (m.sock /\ m.at \in {"open", "chan", "publish"})
      /\ n.cut = (m.cut \/ (m.out # << >> /\ m.out[1].h = 2))
      /\ n.at = CASE m.at = "publish" -> "idle"
                  [] m.at \in {"chan_close", "conn_close"} -> "end"
                  [] OTHER -> "closed"
  BY <1>0, FailIs
<1>2. Local(n)
  BY <1>0, FailLocal
<1> HIDE DEF n
<1>3. Received(n, b)
  BY <1>0, <1>1 DEF Received
<1>4. CASE ~n.sock
  BY <1>0, <1>2, <1>3, <1>4, Closes DEF Goes, n
<1>5. CASE n.sock
  <2>0. m.at \in {"open", "chan", "publish"}
    BY <1>1, <1>5
  <2>1. Wire(n, u, b)
    <3>1. ~n.cut /\ b.link.conn = "open" => Len(u) % 2 = 0
      BY <1>1 DEF I, Wire
    <3> QED  BY <1>1, <1>5, <3>1 DEF I, Wire
  <2>2. Gapless(n, u, b)
    <3> SUFFICES ASSUME m.want = 0, b.link.conn = "open"
                 PROVE  ~n.cut /\ Flow(u \o n.out, n.at, n.msg, b.link, b.rcvd)
      BY <1>1 DEF I, Gapless
    <3>1. u \in Seq(Unit) /\ u \o m.out = u /\ u \o n.out = u
      BY <1>1 DEF I, Wire
    <3>2. ~m.cut /\ Flow(u, m.at, m.msg, b.link, b.rcvd)
      BY <3>1 DEF I, Gapless
    <3>3. u # << >> => LastIs(m.at, m.msg, u[Len(u)])
      BY <3>2 DEF Flow
    <3>4. (m.at = "publish" => m.msg > 0) /\ n.at \notin Login
          /\ n.at \notin {"chan_close", "conn_close"}
      BY <2>0, <1>1 DEF I, Timing, Login
    <3>5. u # << >> => LastIs(n.at, m.msg, u[Len(u)])
      BY <3>3, <3>4, <2>0, <1>1 DEF LastIs
    <3>6. Flow(u, n.at, m.msg, b.link, b.rcvd)
      BY <3>1, <3>2, <3>4, <3>5, FlowMoves
    <3> QED  BY <1>1, <3>1, <3>2, <3>6
  <2>3. I(n, u, b)
    BY <1>0, <1>2, <2>1, <2>2 DEF I, Local
  <2> QED  BY <1>5, <2>3 DEF Goes, n
<1> QED  BY <1>4, <1>5

(* A call fails by a timeout and the socket is closed: the frame may be  *)
(* half sent.                                                            *)
LEMMA FailClosedGoes ==
    ASSUME NEW m, NEW u, NEW b, I(m, u, b),
           m.at \notin {"idle", "end", "crashed", "aborted"}
    PROVE  Goes(FailClosed(m), u, b) /\ ~FailClosed(m).sock
<1> DEFINE n == Fail(m)
           k == FailClosed(m)
<1>0. Local(m) /\ Received(m, b) /\ Broker(b)
  BY IsReceived
<1>1. Local(n) /\ n.msg = m.msg /\ n.want = m.want /\ DOMAIN n = Fields
  BY <1>0, FailIs, FailLocal
<1>2. k = [n EXCEPT !.sock = FALSE]
  BY DEF FailClosed
<1> HIDE DEF n, k
<1>3. SameBut([n EXCEPT !.sock = FALSE], k) /\ k.at = n.at /\ k.out = n.out /\ ~k.sock
      /\ k.msg = n.msg /\ k.want = n.want
  BY <1>1, <1>2 DEF SameBut, Fields
<1>4. Memory(k) /\ Outgoing(k) /\ Timing(k)
  BY <1>1, <1>2 DEF Local, Memory, Outgoing, Timing, Fields
<1>5. Local(k) /\ Received(k, b)
  BY <1>0, <1>1, <1>3, <1>4 DEF Local, Received
<1>6. Goes(k, u, b)
  BY <1>0, <1>3, <1>5, Closes DEF Goes
<1> QED  BY <1>3, <1>6 DEF k

(* The client waits for an answer and has nothing to send. *)
Waiting(m) == m.out = << >> /\ ~m.trying /\ m.at \in Waits

(* While the broker reads, the last frame sent is that of the call. *)
LEMMA LastSent ==
    ASSUME NEW m, NEW u, NEW b, I(m, u, b), m.out = << >>,
           m.want = 0, b.link.conn = "open"
    PROVE  /\ u \in Seq(Unit) /\ Flow(u, m.at, m.msg, b.link, b.rcvd)
           /\ u # << >> => LastIs(m.at, m.msg, u[Len(u)])
<1>1. u \in Seq(Unit) /\ u \o m.out = u
  BY DEF I, Wire
<1>2. Flow(u, m.at, m.msg, b.link, b.rcvd)
  BY <1>1 DEF I, Gapless
<1> QED  BY <1>1, <1>2 DEF Flow

(* The answer that the call waits for has come, and mq-notify.c makes    *)
(* the next call.                                                        *)
LEMMA AnsweredGoes ==
    ASSUME NEW m, NEW u, NEW b, I(m, u, b), Waiting(m),
           m.at \in {"open", "chan", "chan_close", "conn_close"}
    PROVE  Goes(Answered(m), u, b)
<1> DEFINE n == Answered(m)
<1>0. Memory(m) /\ Timing(m) /\ m.out = << >> /\ m.msg \in Nat /\ ~m.trying
  BY DEF I, Waiting, Memory
<1>1. CASE m.at = "open"
  <2>1. SameBut(m, n) /\ n.at = "chan" /\ n.out = Halves("chan_open", 0)
    BY <1>0, <1>1 DEF Answered, Call, SameBut, Memory, Fields
  <2>2. Allowed(m, n.at) /\ "chan_open" \in Names(n.at)
    BY <2>1, <1>0, <1>1 DEF Allowed, Timing, Places, Names
  <2>3. ASSUME m.want = 0, b.link.conn = "open"
        PROVE  /\ u # << >> => Successor(u[Len(u)], [f |-> "chan_open", n |-> 0, h |-> 1])
               /\ LastIs("chan", m.msg, [f |-> "chan_open", n |-> 0, h |-> 2])
               /\ b.link.chan # "open"
    <3>1. /\ Flow(u, "open", m.msg, b.link, b.rcvd)
          /\ u # << >> => LastIs("open", m.msg, u[Len(u)])
      BY <1>0, <1>1, <2>3, LastSent
    <3> QED  BY <3>1 DEF Flow, LastIs, Successor, Login
  <2> HIDE DEF n
  <2>4. n.at \notin Login /\ m.at \in Login /\ "chan_open" \in FrameNames
    BY <1>1, <2>1 DEF Login, FrameNames
  <2>7. I(n, u, b)
    BY <1>0, <2>1, <2>2, <2>3, <2>4, Calls
  <2>5. CASE n.sock
    BY <2>7, <2>5 DEF Goes, n
  <2>6. CASE ~n.sock
    BY <2>7, <2>6, IsReceived, Closes DEF Goes, n
  <2> QED  BY <2>5, <2>6
<1>2. CASE m.at = "chan"
  <2>1. SameBut(m, n) /\ n.at = "idle" /\ n.out = << >>
    BY <1>0, <1>2 DEF Answered, SameBut, Memory, Fields
  <2>2. Allowed(m, "idle")
    BY <1>0, <1>2 DEF Allowed, Timing, Places
  <2>3. m.want = 0 /\ b.link.conn = "open" /\ u # << >> => LastIs("idle", m.msg, u[Len(u)])
    <3> SUFFICES ASSUME m.want = 0, b.link.conn = "open", u # << >>
                 PROVE  LastIs("idle", m.msg, u[Len(u)])
      OBVIOUS
    <3>1. LastIs("chan", m.msg, u[Len(u)]) /\ m.msg = 0
      BY <1>0, <1>2, LastSent DEF Timing
    <3> QED  BY <3>1 DEF LastIs
  <2> HIDE DEF n
  <2>4. I(n, u, b)
    BY <1>0, <2>1, <2>2, <2>3, Turns DEF Login
  <2>5. CASE n.sock
    BY <2>4, <2>5 DEF Goes, n
  <2>6. CASE ~n.sock
    BY <2>4, <2>6, IsReceived, Closes DEF Goes, n
  <2> QED  BY <2>5, <2>6
<1>3. CASE m.at = "chan_close"
  <2>1. SameBut(m, n) /\ n.at = "conn_close" /\ n.out = Halves("conn_close", 0)
    BY <1>0, <1>3 DEF Answered, Call, SameBut, Memory, Fields
  <2>2. Allowed(m, n.at) /\ "conn_close" \in Names(n.at)
    BY <2>1, <1>0, <1>3 DEF Allowed, Timing, Places, Names
  <2>3. ASSUME m.want = 0, b.link.conn = "open"
        PROVE  /\ u # << >> => Successor(u[Len(u)], [f |-> "conn_close", n |-> 0, h |-> 1])
               /\ LastIs("conn_close", m.msg, [f |-> "conn_close", n |-> 0, h |-> 2])
               /\ b.link.chan = "open" /\ u = << >> =>
                     Starts([f |-> "conn_close", n |-> 0, h |-> 1], b.link.expect, Len(b.rcvd))
    <3>1. /\ Flow(u, "chan_close", m.msg, b.link, b.rcvd)
          /\ u # << >> => LastIs("chan_close", m.msg, u[Len(u)])
      BY <1>0, <1>3, <2>3, LastSent
    <3> QED  BY <3>1 DEF Flow, LastIs, Successor
  <2> HIDE DEF n
  <2>4. n.at \notin Login /\ "conn_close" \in FrameNames
    BY <2>1 DEF Login, FrameNames
  <2>7. I(n, u, b)
    BY <1>0, <2>1, <2>2, <2>3, <2>4, Calls
  <2>5. CASE n.sock
    BY <2>7, <2>5 DEF Goes, n
  <2>6. CASE ~n.sock
    BY <2>7, <2>6, IsReceived, Closes DEF Goes, n
  <2> QED  BY <2>5, <2>6
<1>4. CASE m.at = "conn_close"
  <2>1. /\ DOMAIN n = Fields /\ n.at = "end" /\ n.out = << >> /\ ~n.sock
        /\ n.want = m.want /\ n.hb = m.hb /\ n.ns = m.ns /\ n.nr = m.nr /\ n.msg = m.msg
        /\ n.trying = m.trying /\ n.cut = m.cut /\ n.sock = FALSE
    BY <1>0, <1>4 DEF Answered, Memory, Fields
  <2> HIDE DEF n
  <2>3. Received(m, b) /\ Broker(b)
    BY IsReceived
  <2>4. Received(n, b)
    BY <2>1, <2>3 DEF Received
  <2>5. Memory(n)
    BY <1>0, <2>1 DEF Memory, Places
  <2>2. Memory(n) /\ Outgoing(n) /\ Timing(n) /\ Received(n, b) /\ Broker(b)
    BY <1>0, <2>1, <2>3, <2>4, <2>5 DEF Outgoing, Timing
  <2> QED  BY <2>1, <2>2, Closes DEF Goes, Local, n
<1> QED  BY <1>1, <1>2, <1>3, <1>4

(* simple_rpc_inner gets a frame, whatever it is. *)
LEMMA RpcGoes ==
    ASSUME NEW m, NEW u, NEW b, I(m, u, b), Waiting(m),
           m.at \in {"open", "chan", "chan_close", "conn_close"}, NEW f
    PROVE  Goes(simple_rpc_inner(m, f), u, b)
<1>0. m.at \notin {"idle", "end", "crashed", "aborted"} /\ m.out = << >>
  BY DEF Waiting
<1>1. Goes(Answered(m), u, b)
  BY AnsweredGoes
<1>2. Goes(Fail(m), u, b)
  BY <1>0, FailGoes
<1>3. Goes(amqp_queue_frame(m, f), u, b)
  <2> DEFINE n == amqp_queue_frame(m, f)
  <2>1. Alike(m, n)
    BY DEF amqp_queue_frame, Alike, I, Memory, Fields
  <2> HIDE DEF n
  <2>2. I(n, u, b)
    BY <2>1, AlikeKeeps
  <2>3. CASE n.sock
    BY <2>2, <2>3 DEF Goes, n
  <2>4. CASE ~n.sock
    BY <2>2, <2>4, IsReceived, Closes DEF Goes, n
  <2> QED  BY <2>3, <2>4
<1> HIDE DEF Goes
<1> QED  BY <1>1, <1>2, <1>3 DEF simple_rpc_inner

(* A client that goes on keeps its connection. *)
LEMMA KeptGoes ==
    ASSUME NEW n, NEW u, NEW b, I(n, u, b)
    PROVE  Goes(n, u, b)
<1>1. CASE n.sock
  BY <1>1 DEF Goes
<1>2. CASE ~n.sock
  BY <1>2, IsReceived, Closes DEF Goes
<1> QED  BY <1>1, <1>2

(* amqp_tune_connection: a client that asked for no heartbeats gets      *)
(* none, and one that asked for some gets some, whatever the broker      *)
(* proposes.                                                             *)
LEMMA TuneKeeps ==
    ASSUME NEW m, NEW u, NEW b, I(m, u, b), Waiting(m), m.at = "tune", NEW h \in Nat,
           NEW n, n = amqp_tune_connection(m, tune_heartbeat(m.want, h))
    PROVE  /\ I(n, u, b) /\ n.out = << >> /\ n.want = m.want /\ n.msg = m.msg
           /\ n.at \in {"tune", "aborted"}
           /\ n.want > 0 => n.hb > 0
<1> DEFINE v == tune_heartbeat(m.want, h)
           k == [[m EXCEPT !.hb = v] EXCEPT !.ns = amqp_time_s_from_now(v),
                                           !.nr = amqp_time_s_from_now(2 * v)]
<1>0. Memory(m) /\ Timing(m) /\ m.out = << >> /\ m.want \in Nat /\ m.at = "tune"
      /\ ~m.trying
  BY DEF I, Waiting, Memory
<1>1. v \in Nat /\ (m.want = 0 => v = 0) /\ (m.want > 0 => v > 0)
  BY <1>0 DEF tune_heartbeat
<1>2. n = ENFORCE_STATE(k)
  <2>1. [m EXCEPT !.hb = v].hb = v
    BY <1>0 DEF Memory, Fields
  <2> QED  BY <2>1 DEF amqp_tune_connection, amqp_heartbeat_send, amqp_heartbeat_recv
<1> HIDE DEF v
<1>3. /\ DOMAIN k = Fields
      /\ k.sock = m.sock /\ k.at = m.at /\ k.out = m.out /\ k.want = m.want /\ k.hb = v
      /\ k.ns = amqp_time_s_from_now(v) /\ k.nr = amqp_time_s_from_now(2 * v)
      /\ k.trying = m.trying /\ k.msg = m.msg /\ k.cut = m.cut
  BY <1>0 DEF Memory, Fields
<1> HIDE DEF k
<1>4. m.want = 0 => k.ns = INF /\ k.nr = INF
  BY <1>1, <1>3 DEF amqp_time_s_from_now
<1>5. Memory(k) /\ Outgoing(k) /\ Timing(k)
  <2>1. Memory(k)
    BY <1>0, <1>1, <1>3 DEF Memory
  <2>2. Outgoing(k)
    BY <1>0, <1>3 DEF Outgoing
  <2>3. Timing(k)
    BY <1>0, <1>1, <1>3, <1>4 DEF Timing
  <2> QED  BY <2>1, <2>2, <2>3
<1>6. Wire(k, u, b) /\ Gapless(k, u, b)
  BY <1>3 DEF I, Wire, Gapless
<1>7. I(k, u, b)
  BY <1>5, <1>6 DEF I
<1>8. CASE k.state = "IDLE"
  BY <1>0, <1>1, <1>2, <1>3, <1>7, <1>8 DEF ENFORCE_STATE
<1>9. CASE k.state # "IDLE"
  <2>1. SameBut(k, n) /\ n.at = "aborted" /\ n.out = << >>
    BY <1>0, <1>2, <1>3, <1>9 DEF ENFORCE_STATE, SameBut, Fields
  <2>2. Allowed(k, n.at)
    BY <1>0, <1>3, <2>1 DEF Allowed, Places, Timing, Memory
  <2>3. n.at \notin Login /\ n.at \notin {"chan_close", "conn_close"} /\ k.out = << >>
    BY <2>1, <1>0, <1>3 DEF Login
  <2>4. k.want = 0 /\ b.link.conn = "open" /\ u # << >> => LastIs(n.at, k.msg, u[Len(u)])
    <3> SUFFICES ASSUME k.want = 0, b.link.conn = "open", u # << >>
                 PROVE  LastIs(n.at, k.msg, u[Len(u)])
      OBVIOUS
    <3>1. LastIs("tune", k.msg, u[Len(u)])
      BY <1>0, <1>3, <1>7, <2>3, LastSent
    <3> QED  BY <3>1, <2>1 DEF LastIs
  <2>5. I(n, u, b)
    BY <1>7, <2>1, <2>2, <2>3, <2>4, Turns
  <2>6. n.want = m.want /\ n.msg = m.msg /\ n.hb = v
    BY <1>3, <2>1 DEF SameBut
  <2> QED  BY <1>0, <1>1, <2>1, <2>5, <2>6
<1> QED  BY <1>8, <1>9

(* amqp_login_inner gets a frame, whatever it is. *)
LEMMA LoginGoes ==
    ASSUME NEW m, NEW u, NEW b, I(m, u, b), Waiting(m), m.at \in {"start", "tune"},
           NEW f, NEW h \in Nat
    PROVE  Goes(amqp_login_inner(m, f, h), u, b)
<1> DEFINE r == amqp_login_inner(m, f, h)
<1>0. Memory(m) /\ Timing(m) /\ m.out = << >> /\ m.msg \in Nat /\ ~m.trying
  BY DEF I, Waiting, Memory
<1>a. m.at \notin {"idle", "end", "crashed", "aborted"}
  OBVIOUS
<1>1. CASE m.at = "start" /\ f = MethodFrame("start")
  <2> DEFINE n == Call(m, "tune", Halves("start_ok", 0), m.dl)
  <2>0. r = n
    BY <1>1 DEF amqp_login_inner
  <2>1. SameBut(m, n) /\ n.at = "tune" /\ n.out = Halves("start_ok", 0)
    BY <1>0 DEF Call, SameBut, Memory, Fields
  <2> HIDE DEF n
  <2>2. Allowed(m, n.at) /\ "start_ok" \in Names(n.at)
    BY <1>0, <1>1, <2>1 DEF Allowed, Timing, Places, Names
  <2>3. ASSUME m.want = 0, b.link.conn = "open"
        PROVE  /\ u # << >> => Successor(u[Len(u)], [f |-> "start_ok", n |-> 0, h |-> 1])
               /\ LastIs(n.at, m.msg, [f |-> "start_ok", n |-> 0, h |-> 2])
               /\ b.link.chan # "open"
    <3>1. /\ Flow(u, "start", m.msg, b.link, b.rcvd)
          /\ u # << >> => LastIs("start", m.msg, u[Len(u)])
      BY <1>0, <1>1, <2>3, LastSent
    <3> QED  BY <3>1, <2>1 DEF Flow, LastIs, Successor, Login
  <2>4. m.at \in Login /\ "start_ok" \in FrameNames
    BY <1>1 DEF Login, FrameNames
  <2>5. I(n, u, b)
    BY <1>0, <2>1, <2>2, <2>3, <2>4, Calls
  <2> QED  BY <2>0, <2>5, KeptGoes
<1>2. CASE m.at = "tune" /\ f = MethodFrame("tune")
  <2> DEFINE n == amqp_tune_connection(m, tune_heartbeat(m.want, h))
             k == Call(n, "tune_ok", Halves("tune_ok", n.hb), m.dl)
  <2>0. r = IF n.at = "aborted" THEN n ELSE k
    <3> HIDE DEF n
    <3>1. MethodFrame("tune") # MethodFrame("conn_close")
      BY DEF MethodFrame
    <3> QED  BY <1>2, <3>1 DEF amqp_login_inner, n
  <2>1. /\ I(n, u, b) /\ n.out = << >> /\ n.want = m.want /\ n.msg = m.msg
        /\ n.at \in {"tune", "aborted"}
        /\ n.want > 0 => n.hb > 0
    BY <1>2, TuneKeeps
  <2>2. CASE n.at = "aborted"
    BY <2>0, <2>1, <2>2, KeptGoes
  <2>3. CASE n.at # "aborted"
    <3>0. Memory(n) /\ Timing(n) /\ n.hb \in Nat /\ n.msg \in Nat /\ n.at = "tune"
      BY <2>1, <2>3 DEF I, Memory
    <3> HIDE DEF n
    <3>1. SameBut(n, k) /\ k.at = "tune_ok" /\ k.out = Halves("tune_ok", n.hb)
      BY <3>0 DEF Call, SameBut, Memory, Fields
    <3> HIDE DEF k
    <3>2. Allowed(n, k.at) /\ "tune_ok" \in Names(k.at)
      BY <3>0, <3>1, <2>1 DEF Allowed, Timing, Places, Names
    <3>3. ASSUME n.want = 0, b.link.conn = "open"
          PROVE  /\ u # << >> => Successor(u[Len(u)], [f |-> "tune_ok", n |-> n.hb, h |-> 1])
                 /\ LastIs(k.at, n.msg, [f |-> "tune_ok", n |-> n.hb, h |-> 2])
                 /\ b.link.chan # "open"
      <4>1. /\ Flow(u, "tune", n.msg, b.link, b.rcvd)
            /\ u # << >> => LastIs("tune", n.msg, u[Len(u)])
        BY <3>0, <2>1, <3>3, LastSent
      <4> QED  BY <4>1, <3>1 DEF Flow, LastIs, Successor, Login
    <3>4. n.at \in Login /\ "tune_ok" \in FrameNames
      BY <3>0 DEF Login, FrameNames
    <3>5. I(k, u, b)
      BY <2>1, <3>0, <3>1, <3>2, <3>3, <3>4, Calls
    <3> QED  BY <2>0, <2>3, <3>5, KeptGoes
  <2> QED  BY <2>2, <2>3
<1>3. CASE m.at = "tune" /\ f = MethodFrame("conn_close")
  <2> DEFINE n == [m EXCEPT !.at = "closed", !.dl = INF]
  <2>0. r = n
    BY <1>3 DEF amqp_login_inner, MethodFrame
  <2>1. SameBut(m, n) /\ n.at = "closed" /\ n.out = << >>
    BY <1>0 DEF SameBut, Memory, Fields
  <2> HIDE DEF n
  <2>2. Allowed(m, n.at)
    BY <1>0, <1>3, <2>1 DEF Allowed, Timing, Places
  <2>3. n.at \notin Login /\ n.at \notin {"chan_close", "conn_close"}
    BY <2>1 DEF Login
  <2>4. m.want = 0 /\ b.link.conn = "open" /\ u # << >> => LastIs(n.at, m.msg, u[Len(u)])
    <3> SUFFICES ASSUME m.want = 0, b.link.conn = "open", u # << >>
                 PROVE  LastIs(n.at, m.msg, u[Len(u)])
      OBVIOUS
    <3>1. LastIs("tune", m.msg, u[Len(u)])
      BY <1>0, <1>3, LastSent
    <3> QED  BY <3>1, <2>1 DEF LastIs
  <2>5. I(n, u, b)
    BY <1>0, <2>1, <2>2, <2>3, <2>4, Turns
  <2> QED  BY <2>0, <2>5, KeptGoes
<1>4. CASE /\ ~(m.at = "start" /\ f = MethodFrame("start"))
           /\ ~(m.at = "tune" /\ f = MethodFrame("tune"))
           /\ ~(m.at = "tune" /\ f = MethodFrame("conn_close"))
  <2>1. r = FailClosed(m)
    BY <1>4 DEF amqp_login_inner
  <2> QED  BY <2>1, <1>a, FailClosedGoes
<1> QED  BY <1>1, <1>2, <1>3, <1>4

(* A frame is handed to the call that waits. *)
LEMMA DeliverGoes ==
    ASSUME NEW m, I(m, up, br), Waiting(m), NEW f
    PROVE  Goes(Deliver(m, f), up, br)
<1>0. br.link.hb \in Nat
  BY DEF I, Broker
<1>1. CASE m.at \in {"start", "tune"}
  BY <1>0, <1>1, LoginGoes DEF Deliver
<1>2. CASE m.at \notin {"start", "tune"}
  <2>1. m.at \in {"open", "chan", "chan_close", "conn_close"}
    BY <1>2 DEF Waiting, Waits
  <2> QED  BY <1>2, <2>1, RpcGoes DEF Deliver
<1> QED  BY <1>1, <1>2

(* The invariant of the specification. *)
Inv == I(c, up, br)

(* The actions of the client end with Becomes. *)
LEMMA BecomesKeeps ==
    ASSUME NEW n, Goes(n, up, br), Becomes(n)
    PROVE  Inv'
<1>1. CASE n.sock
  BY <1>1 DEF Goes, Becomes, Inv
<1>2. CASE ~n.sock
  BY <1>2 DEF Goes, Becomes, Disconnected, Inv
<1> QED  BY <1>1, <1>2

(* Changes of the decoder may follow one another. *)
LEMMA AlikeTransitive ==
    ASSUME NEW m, NEW n, NEW k, Alike(m, n), Alike(n, k)
    PROVE  Alike(m, k)
  BY DEF Alike

(* The parts of amqp_handle_input change the decoder and nothing else. *)
LEMMA ConsumeAlike ==
    ASSUME NEW m, DOMAIN m = Fields
    PROVE  Alike(m, consume_data(m)) /\ Alike(m, return_to_idle(m))
  BY DEF consume_data, return_to_idle, Alike, Fields

(* So does the first part of amqp_handle_input. *)
LEMMA StartAlike ==
    ASSUME NEW m, DOMAIN m = Fields
    PROVE  Alike(m, handle_start(m))
<1> DEFINE n == [m EXCEPT !.state = IF @ = "IDLE" THEN "HEADER" ELSE @]
<1>1. Alike(m, n) /\ DOMAIN n = Fields
  BY DEF Alike, Fields
<1> HIDE DEF n
<1>2. Alike(n, consume_data(n))
  BY <1>1, ConsumeAlike
<1>3. handle_start(m) = consume_data(n)
  BY DEF handle_start, n
<1> QED  BY <1>1, <1>2, <1>3, AlikeTransitive

(* So does the case of a complete header. *)
LEMMA HeaderAlike ==
    ASSUME NEW m, DOMAIN m = Fields
    PROVE  Alike(m, handle_header(m))
<1> DEFINE size == m.buf[2] + HEADER_SIZE + FOOTER_SIZE
           copy == [i \in 1..Len(m.buf) |-> IF i <= HEADER_SIZE THEN m.buf[i] ELSE 0]
           bad == [m EXCEPT !.target = size, !.state = "BAD"]
           n == [m EXCEPT !.state = "BODY", !.target = size, !.buf = copy]
<1>0. handle_header(m) = CASE Len(m.buf) < m.target \/ m.state = "BODY" -> m
                           [] m.state = "INITIAL" /\ m.buf[1] = 65 -> m
                           [] FRAME_MAX < size -> bad
                           [] OTHER -> consume_data(n)
  BY DEF handle_header
<1> HIDE DEF size, copy
<1>1. Alike(m, bad) /\ Alike(m, n) /\ DOMAIN n = Fields /\ Alike(m, m)
  BY DEF Alike, Fields
<1> HIDE DEF bad, n
<1>2. Alike(m, consume_data(n))
  BY <1>1, ConsumeAlike, AlikeTransitive
<1>3. handle_header(m) \in {m, bad, consume_data(n)}
  BY <1>0
<1> QED  BY <1>1, <1>2, <1>3

(* So does the case of a complete frame. *)
LEMMA BodyAlike ==
    ASSUME NEW m, DOMAIN m = Fields
    PROVE  Alike(m, handle_body(m).mem)
<1> DEFINE bad == [m EXCEPT !.state = "BAD"]
           idle == return_to_idle(m)
<1>1. Alike(m, bad) /\ Alike(m, idle) /\ Alike(m, m)
  BY ConsumeAlike DEF Alike, Fields
<1> HIDE DEF bad, idle
<1>2. handle_body(m).mem \in {m, bad, idle}
  BY DEF handle_body, Result, bad, idle
<1> QED  BY <1>1, <1>2

(* Outside a call there is nothing to send. *)
LEMMA NothingToSend ==
    ASSUME NEW m, Local(m), m.at \in {"idle", "closed", "end", "crashed", "aborted"}
    PROVE  m.out = << >> /\ ~m.trying
<1>1. Names(m.at) = {}
  BY DEF Names
<1>2. m.out # << >> => 1 \in 1..Len(m.out)
  BY DEF Local, Memory
<1> QED  BY <1>1, <1>2 DEF Local, Outgoing

(* Time passes, deadlines are set, or the socket is read. *)
LEMMA TimeKeeps ==
    ASSUME NEW m, NEW n, NEW u, NEW b, I(m, u, b),
           DOMAIN n = Fields,
           n.sock = m.sock /\ n.at = m.at /\ n.out = m.out /\ n.want = m.want /\ n.hb = m.hb,
           n.msg = m.msg /\ n.cut = m.cut,
           m.want = 0 => n.ns = INF /\ n.nr = INF /\ ~n.trying,
           n.trying \in BOOLEAN, n.trying => n.out # << >>
    PROVE  I(n, u, b)
<1>1. Memory(n)
  BY DEF I, Memory
<1>2. Outgoing(n) /\ Timing(n)
  BY DEF I, Outgoing, Timing
<1>3. Wire(n, u, b) /\ Gapless(n, u, b)
  BY DEF I, Wire, Gapless
<1> QED  BY <1>1, <1>2, <1>3 DEF I

(* The invariant holds of a new connection state and a broker that has   *)
(* nothing.                                                              *)
LEMMA InitInv ==
    Init => Inv
<1> SUFFICES ASSUME Init
             PROVE  Inv
  OBVIOUS
<1>1. PICK h \in Heartbeats : c = amqp_new_connection(h)
  BY DEF Init
<1>2. h \in Nat
  BY HeartbeatAssumption
<1>3. /\ DOMAIN c = Fields /\ c.sock = FALSE /\ c.at = "closed" /\ c.out = << >> /\ c.want = h
      /\ c.hb = 0 /\ c.ns = INF /\ c.nr = INF /\ c.trying = FALSE /\ c.msg = 0 /\ c.cut = FALSE
  BY <1>1 DEF amqp_new_connection, Fields
<1>4. Local(c)
  <2>0. c.out \in Seq(Unit) /\ c.at \in Places /\ ~(c.at \in {"end", "crashed"})
    BY <1>3 DEF Places
  <2>4. c.want \in Nat /\ c.hb \in Nat /\ c.msg \in Nat
    BY <1>2, <1>3
  <2>5. c.sock \in BOOLEAN /\ c.cut \in BOOLEAN /\ c.trying \in BOOLEAN
    BY <1>3
  <2>1. Memory(c)
    BY <1>3, <2>0, <2>4, <2>5 DEF Memory
  <2>2. Outgoing(c)
    BY <1>3 DEF Outgoing
  <2>3. Timing(c)
    BY <1>2, <1>3 DEF Timing
  <2> QED  BY <2>1, <2>2, <2>3 DEF Local
<1>5. Broker(br) /\ br.rcvd = << >> /\ br.link = NoBroker /\ br.link.conn = "none"
  BY DEF Init, Broker, NoBroker, LinkFields
<1>6. up = << >>
  BY DEF Init
<1>7. Wire(c, up, br)
  BY <1>3, <1>5, <1>6 DEF Wire, Paired
<1>8. Gapless(c, up, br)
  BY <1>3, <1>5 DEF Gapless
<1> QED  BY <1>4, <1>5, <1>7, <1>8 DEF Inv, I, Local

(* A client that reads is in a call; without heartbeats it has sent all  *)
(* of its frame.                                                         *)
LEMMA ReceivingAt ==
    ASSUME Inv, Receiving
    PROVE  /\ c.at \notin {"idle", "end", "crashed", "aborted"}
           /\ ~c.trying => Waiting(c)
           /\ c.want = 0 => c.out = << >>
<1>0. Local(c)
  BY IsReceived DEF Inv
<1>1. CASE c.trying
  <2>1. c.at \notin {"idle", "closed", "end", "crashed", "aborted"}
    BY <1>0, <1>1, NothingToSend
  <2> QED  BY <1>0, <1>1, <2>1 DEF Local, Timing
<1>2. CASE ~c.trying
  BY <1>2 DEF Receiving, Waiting, Waits
<1> QED  BY <1>1, <1>2

(* A client that sends is in a call. *)
LEMMA SendingAt ==
    ASSUME Inv, Sending
    PROVE  /\ c.at \notin {"idle", "closed", "end", "crashed", "aborted"}
           /\ c.out # << >> /\ ~c.trying
<1>0. Local(c)
  BY IsReceived DEF Inv
<1> QED  BY <1>0, NothingToSend DEF Sending

(* amqp_socket_send fails. *)
LEMMA SendErrorKeeps ==
    ASSUME Inv, send_error
    PROVE  Inv'
<1>1. c.at \notin {"idle", "end", "crashed", "aborted"}
  BY SendingAt DEF send_error
<1>2. br.link.conn # "open"
  BY DEF send_error, Inv, I, Wire, NoBroker
<1>3. Goes(Fail(c), up, br)
  BY <1>1, <1>2, FailGoes DEF Inv
<1> QED  BY <1>3, BecomesKeeps DEF send_error

(* The socket was full until the deadline of the login, and is closed,   *)
(* or until the broker's heartbeat is overdue, and the client reads in   *)
(* the middle of a frame.                                                *)
LEMMA SendTimeoutKeeps ==
    ASSUME Inv, send_timeout
    PROVE  Inv'
<1>1. /\ c.at \notin {"idle", "end", "crashed", "aborted"}
      /\ c.out # << >> /\ ~c.trying
  BY SendingAt DEF send_timeout
<1>2. CASE SendDeadline = 0
  <2>1. Goes(FailClosed(c), up, br)
    BY <1>1, FailClosedGoes DEF Inv
  <2> QED  BY <1>2, <2>1, BecomesKeeps DEF send_timeout
<1>3. CASE SendDeadline # 0
  <2> DEFINE n == [c EXCEPT !.trying = TRUE]
  <2>0. Memory(c) /\ Timing(c)
    BY DEF Inv, I
  <2>1. c.want # 0
    <3>1. c.nr = 0
      BY <1>3 DEF send_timeout, Least
    <3> QED  BY <3>1, <2>0 DEF Timing, INF
  <2>2. /\ DOMAIN n = Fields
        /\ n.sock = c.sock /\ n.at = c.at /\ n.out = c.out /\ n.want = c.want /\ n.hb = c.hb
        /\ n.msg = c.msg /\ n.cut = c.cut /\ n.trying = TRUE
    BY <2>0 DEF Memory, Fields
  <2> HIDE DEF n
  <2>3. I(n, up, br)
    BY <1>1, <2>1, <2>2, TimeKeeps DEF Inv
  <2>4. Goes(n, up, br)
    BY <2>3, KeptGoes
  <2>5. Becomes(n)
    BY <1>3 DEF send_timeout, n
  <2> QED  BY <2>4, <2>5, BecomesKeeps
<1> QED  BY <1>2, <1>3

(* A heartbeat is due while an answer is waited for. *)
LEMMA HeartbeatKeeps ==
    ASSUME Inv, send_heartbeat
    PROVE  Inv'
<1> DEFINE n == [c EXCEPT !.out = Halves("heartbeat", 0)]
<1>0. Memory(c) /\ Timing(c) /\ Waiting(c)
  BY ReceivingAt DEF Inv, I, send_heartbeat
<1>1. c.want # 0
  BY <1>0 DEF send_heartbeat, Timing, INF
<1>2. SameBut(c, n) /\ n.at = c.at /\ n.out = Halves("heartbeat", 0)
  BY <1>0 DEF SameBut, Memory, Fields
<1>3. c' = n /\ UNCHANGED <<up, br>>
  BY DEF send_heartbeat
<1> HIDE DEF n
<1>4. Allowed(c, n.at)
  BY <1>0, <1>2 DEF Allowed, Memory, Timing
<1>5. "heartbeat" \in Names(n.at) /\ "heartbeat" \in FrameNames /\ c.out = << >>
  BY <1>0, <1>2 DEF Waiting, Waits, Names, FrameNames
<1>6. I(n, up, br)
  BY <1>1, <1>2, <1>4, <1>5, Calls DEF Inv
<1> QED  BY <1>3, <1>6 DEF Inv

(* recv() returns some bytes. *)
LEMMA RecvKeeps ==
    ASSUME Inv, NEW n \in 1..Len(down), recv_with_timeout(n)
    PROVE  Inv'
<1> DEFINE m == [c EXCEPT !.inb = SubSeq(down, 1, n), !.trying = FALSE,
                          !.nr = amqp_time_s_from_now(amqp_heartbeat_recv(c))]
<1>0. Memory(c) /\ Timing(c)
  BY DEF Inv, I
<1>1. /\ DOMAIN m = Fields
      /\ m.sock = c.sock /\ m.at = c.at /\ m.out = c.out /\ m.want = c.want /\ m.hb = c.hb
      /\ m.msg = c.msg /\ m.cut = c.cut /\ m.trying = FALSE /\ m.ns = c.ns
      /\ m.nr = amqp_time_s_from_now(amqp_heartbeat_recv(c))
  BY <1>0 DEF Memory, Fields
<1>2. c' = m /\ UNCHANGED <<up, br>>
  BY DEF recv_with_timeout
<1> HIDE DEF m
<1>3. c.want = 0 => m.ns = INF /\ m.nr = INF
  BY <1>0, <1>1 DEF Timing, amqp_time_s_from_now, amqp_heartbeat_recv
<1>4. I(m, up, br)
  BY <1>1, <1>3, TimeKeeps DEF Inv
<1> QED  BY <1>2, <1>4 DEF Inv

(* recv() finds the end of the stream. *)
LEMMA RecvClosedKeeps ==
    ASSUME Inv, recv_closed
    PROVE  Inv'
<1>1. c.at \notin {"idle", "end", "crashed", "aborted"}
  BY ReceivingAt DEF recv_closed, Reading
<1>2. br.link.conn # "open"
  BY DEF recv_closed, Inv, I, Wire, NoBroker
<1>3. Goes(Fail(c), up, br)
  BY <1>1, <1>2, FailGoes DEF Inv
<1> QED  BY <1>3, BecomesKeeps DEF recv_closed

(* amqp_try_recv finds nothing to read, and the frame is given up. *)
LEMMA TryRecvTimeoutKeeps ==
    ASSUME Inv, try_recv_timeout
    PROVE  Inv'
<1>1. c.at \notin {"idle", "end", "crashed", "aborted"} /\ (c.want = 0 => c.out = << >>)
  BY ReceivingAt DEF try_recv_timeout, Reading
<1>2. Goes(Fail(c), up, br)
  BY <1>1, FailGoes DEF Inv
<1> QED  BY <1>2, BecomesKeeps DEF try_recv_timeout

(* The broker's heartbeat is missing, or no answer came in time. *)
LEMMA WaitTimeoutKeeps ==
    ASSUME Inv, wait_timeout
    PROVE  Inv'
<1>1. c.at \notin {"idle", "end", "crashed", "aborted"}
  BY ReceivingAt DEF wait_timeout, Reading
<1>2. Goes(FailClosed(c), up, br)
  BY <1>1, FailClosedGoes DEF Inv
<1> QED  BY <1>2, BecomesKeeps DEF wait_timeout

(* A frame is taken from the queue. *)
LEMMA QueuedKeeps ==
    ASSUME Inv, wait_queued
    PROVE  Inv'
<1> DEFINE m == [c EXCEPT !.queue = Tail(@)]
<1>0. Memory(c) /\ Waiting(c)
  BY ReceivingAt DEF Inv, I, wait_queued, FromQueue
<1>1. Alike(c, m)
  BY <1>0 DEF Alike, Memory, Fields
<1>2. Becomes(Deliver(m, Head(c.queue)))
  BY DEF wait_queued
<1> HIDE DEF m
<1>3. I(m, up, br) /\ Waiting(m)
  BY <1>0, <1>1, AlikeKeeps DEF Inv, Waiting, Alike
<1>4. Goes(Deliver(m, Head(c.queue)), up, br)
  BY <1>3, DeliverGoes
<1> QED  BY <1>2, <1>4, BecomesKeeps

(* Time passes. *)
LEMMA TickKeeps ==
    ASSUME Inv, Tick
    PROVE  Inv'
<1> DEFINE Later(t) == IF t \in {0, INF} THEN t ELSE t - 1
           m == [c EXCEPT !.dl = Later(@), !.ns = Later(@), !.nr = Later(@)]
<1>0. Memory(c) /\ Timing(c) /\ Outgoing(c)
  BY DEF Inv, I
<1>1. c' = m /\ UNCHANGED <<up, br>>
  BY DEF Tick
<1>2. /\ DOMAIN m = Fields
      /\ m.sock = c.sock /\ m.at = c.at /\ m.out = c.out /\ m.want = c.want /\ m.hb = c.hb
      /\ m.msg = c.msg /\ m.cut = c.cut /\ m.trying = c.trying
      /\ m.ns = Later(c.ns) /\ m.nr = Later(c.nr)
  BY <1>0 DEF Memory, Fields
<1>3. Later(INF) = INF
  OBVIOUS
<1> HIDE DEF m, Later
<1>4. c.want = 0 => m.ns = INF /\ m.nr = INF /\ ~m.trying
  BY <1>0, <1>2, <1>3 DEF Timing
<1>5. m.trying \in BOOLEAN /\ (m.trying => m.out # << >>)
  BY <1>0, <1>2 DEF Memory, Outgoing
<1>6. I(m, up, br)
  BY <1>2, <1>4, <1>5, TimeKeeps DEF Inv
<1> QED  BY <1>1, <1>6 DEF Inv

(* A frame is decoded, and handed over or queued. *)
LEMMA ConsumeKeeps ==
    ASSUME Inv, consume_one_frame
    PROVE  Inv'
<1>0. /\ Memory(c) /\ c.at \notin {"idle", "end", "crashed", "aborted"}
      /\ (~c.trying => Waiting(c)) /\ (c.want = 0 => c.out = << >>)
      /\ Local(c) /\ Received(c, br) /\ Broker(br) /\ DOMAIN c = Fields
  BY ReceivingAt, IsReceived DEF Inv, I, consume_one_frame, Memory
<1>1. PICK r : /\ Alike(c, r.mem)
               /\ c' = Consumed(r)
               /\ IF Consumed(r).sock THEN UNCHANGED <<up, br>>
                  ELSE up' = << >> /\ br' = [br EXCEPT !.link = NoBroker]
  <2> DEFINE m == handle_start(c)
             b == handle_header(m)
             r == handle_body(b)
  <2>1. Alike(c, m) /\ DOMAIN m = Fields
    BY <1>0, StartAlike DEF Alike
  <2>2. Alike(m, b) /\ DOMAIN b = Fields
    BY <2>1, HeaderAlike DEF Alike
  <2>3. Alike(b, r.mem)
    BY <2>2, BodyAlike
  <2>4. c' = Consumed(r)
    BY DEF consume_one_frame
  <2>5. IF Consumed(r).sock THEN UNCHANGED <<up, br>>
        ELSE up' = << >> /\ br' = [br EXCEPT !.link = NoBroker]
    <3> HIDE DEF m, b, r
    <3>1. IF Consumed(r).sock
          THEN /\ pend' = IF r.frame.type = "none" \/ pend = << >> THEN pend ELSE Tail(pend)
               /\ UNCHANGED <<up, down, br>>
          ELSE Disconnected
      BY DEF consume_one_frame, m, b, r
    <3> QED  BY <3>1 DEF Disconnected
  <2> HIDE DEF m, b, r
  <2>6. Alike(c, r.mem)
    BY <2>1, <2>2, <2>3, AlikeTransitive
  <2> QED  BY <2>4, <2>5, <2>6
<1>2. I(r.mem, up, br)
  BY <1>1, AlikeKeeps DEF Inv
<1>3. Goes(Consumed(r), up, br)
  <2>1. CASE c.state = "BAD"
    <3> DEFINE n == [c EXCEPT !.at = "crashed", !.sock = FALSE, !.out = << >>, !.trying = FALSE]
    <3>1. Consumed(r) = n
      BY <2>1 DEF Consumed
    <3>2. /\ DOMAIN n = Fields /\ n.sock = FALSE /\ n.at = "crashed" /\ n.out = << >>
          /\ n.want = c.want /\ n.hb = c.hb /\ n.ns = c.ns /\ n.nr = c.nr
          /\ n.trying = FALSE /\ n.msg = c.msg /\ n.cut = c.cut
      BY <1>0 DEF Fields
    <3> HIDE DEF n
    <3>3. Memory(n)
      <4>1. n.out \in Seq(Unit) /\ n.at \in Places
        BY <3>2 DEF Places
      <4>2. n.trying \in BOOLEAN /\ n.sock \in BOOLEAN
        BY <3>2
      <4> QED  BY <1>0, <3>2, <4>1, <4>2 DEF Memory
    <3>4. Outgoing(n) /\ Timing(n) /\ Received(n, br)
      BY <1>0, <3>2 DEF Local, Outgoing, Timing, Received
    <3> QED  BY <1>0, <3>1, <3>2, <3>3, <3>4, Closes DEF Goes, Local
  <2>2. CASE c.state # "BAD" /\ r.mem.state = "BAD"
    <3>1. Consumed(r) = Fail(r.mem)
      BY <2>2 DEF Consumed
    <3>2. /\ r.mem.at \notin {"idle", "end", "crashed", "aborted"}
          /\ r.mem.want = 0 => r.mem.out = << >>
      BY <1>0, <1>1 DEF Alike
    <3> QED  BY <1>2, <3>1, <3>2, FailGoes
  <2>3. CASE c.state # "BAD" /\ r.mem.state # "BAD"
    <3> DEFINE w == r.frame.type # "none" /\ (pend = << >> \/ Head(pend) # r.frame)
               n == [r.mem EXCEPT !.odd = @ \/ w]
               f == r.frame
    <3>1. Consumed(r) = Decoded(n, f)
      BY <2>3 DEF Consumed
    <3> HIDE DEF w
    <3>2. Alike(r.mem, n)
      BY <1>1 DEF Alike, Fields
    <3> HIDE DEF n, f
    <3>3. I(n, up, br) /\ Alike(c, n)
      BY <1>1, <1>2, <3>2, AlikeKeeps, AlikeTransitive
    <3>4. CASE f.type = "none" \/ (f = Heartbeat /\ ~n.trying)
      <4>1. Decoded(n, f) = n
        BY <3>4 DEF Decoded, Heartbeat
      <4> QED  BY <3>1, <3>3, <4>1, KeptGoes
    <3>5. CASE f.type # "none" /\ n.trying
      <4>1. Decoded(n, f) = amqp_queue_frame(n, f)
        BY <3>5 DEF Decoded, Heartbeat
      <4>2. Alike(n, amqp_queue_frame(n, f))
        BY <3>3 DEF amqp_queue_frame, Alike, Fields
      <4>3. I(amqp_queue_frame(n, f), up, br)
        BY <3>3, <4>2, AlikeKeeps
      <4> QED  BY <3>1, <4>1, <4>3, KeptGoes
    <3>6. CASE f.type # "none" /\ f # Heartbeat /\ ~n.trying
      <4>1. Decoded(n, f) = Deliver(n, f)
        BY <3>6 DEF Decoded
      <4>2. Waiting(n)
        BY <1>0, <3>3, <3>6 DEF Alike, Waiting
      <4> QED  BY <3>1, <3>3, <4>1, <4>2, DeliverGoes
    <3> QED  BY <3>4, <3>5, <3>6
  <2> QED  BY <2>1, <2>2, <2>3
<1>4. CASE Consumed(r).sock
  BY <1>1, <1>3, <1>4 DEF Goes, Inv
<1>5. CASE ~Consumed(r).sock
  BY <1>1, <1>3, <1>5 DEF Goes, Inv
<1> QED  BY <1>4, <1>5

(* mq_open_connection, with the decoder as the last connection left it. *)
LEMMA OpenKeeps ==
    ASSUME Inv, mq_open_connection
    PROVE  Inv'
<1> DEFINE E == Halves("header", 0)
           l == br'.link
<1>0. Local(c) /\ Received(c, br) /\ Broker(br) /\ ~c.sock /\ c.at = "closed"
      /\ up = << >> /\ br.link = NoBroker /\ DOMAIN c = Fields
  BY IsReceived DEF Inv, I, Wire, Memory, mq_open_connection
<1>1. /\ DOMAIN c' = Fields /\ c'.sock = TRUE /\ c'.at = "start" /\ c'.out = E
      /\ c'.want = c.want /\ c'.hb = c.hb /\ c'.ns = c.ns /\ c'.nr = c.nr
      /\ c'.trying = c.trying /\ c'.msg = c.msg /\ c'.cut = FALSE
  BY <1>0 DEF mq_open_connection, Call, Fields
<1>2. /\ br' = [br EXCEPT !.link.conn = "open"] /\ up' = << >>
  BY <1>0 DEF mq_open_connection
<1>3. /\ DOMAIN br' = {"link", "rcvd", "refused"} /\ DOMAIN l = LinkFields
      /\ l.hb = 0 /\ br'.rcvd = br.rcvd
      /\ l.conn = "open" /\ l.chan = "none" /\ l.expect = "method"
  BY <1>0, <1>2 DEF Broker, NoBroker, LinkFields
<1>4. /\ E \in Seq(Unit) /\ Len(E) = 2 /\ E # << >>
      /\ E[1] = [f |-> "header", n |-> 0, h |-> 1] /\ E[2] = [f |-> "header", n |-> 0, h |-> 2]
  BY HalvesAre DEF FrameNames
<1> HIDE DEF E, l
<1>5. Memory(c')
  <2>1. c'.at \in Places /\ ~(c'.at \in {"end", "crashed"})
    BY <1>1 DEF Places
  <2>2. c'.sock \in BOOLEAN /\ c'.cut \in BOOLEAN
    BY <1>1
  <2> QED  BY <1>0, <1>1, <1>4, <2>1, <2>2 DEF Local, Memory
<1>6. Outgoing(c')
  <2>1. \A i \in 1..Len(E) : E[i].f \in Names("start")
    BY <1>4 DEF Names
  <2>2. ASSUME NEW i \in 1..(Len(E) - 1)
        PROVE  Follow(E[i], E[i + 1])
    <3>1. i = 1 /\ i + 1 = 2
      BY <1>4
    <3> QED  BY <3>1, <1>4 DEF Follow
  <2> QED  BY <1>1, <1>4, <2>1, <2>2 DEF Outgoing
<1>7. Timing(c')
  BY <1>0, <1>1 DEF Local, Timing, Memory
<1>8. Broker(br')
  BY <1>0, <1>3 DEF Broker, l
<1>9. Wire(c', up', br')
  BY <1>0, <1>1, <1>2, <1>3, <1>4 DEF Wire, Paired, Received
<1>10. Gapless(c', up', br')
  <2>1. Flow(<< >>, "start", c.msg, l, br.rcvd)
    BY <1>3 DEF Flow, Login
  <2>2. \A i \in 1..(Len(E) - 1) : Successor(E[i], E[i + 1])
    BY <1>4 DEF Successor
  <2>3. LastIs("start", c.msg, E[Len(E)])
    BY <1>4 DEF LastIs
  <2>4. \A i \in 1..Len(E) : E[i].f # "chan_open"
    BY <1>4
  <2>5. Flow(<< >> \o E, "start", c.msg, l, br.rcvd)
    <3>1. << >> \in Seq(Unit) /\ "start" \in Login
      BY DEF Login
    <3> QED  BY <1>3, <1>4, <2>1, <2>2, <2>3, <2>4, <3>1, FlowGrows
  <2> QED  BY <1>0, <1>1, <1>2, <1>3, <2>5 DEF Gapless, Received, l
<1> QED  BY <1>5, <1>6, <1>7, <1>8, <1>9, <1>10 DEF Inv, I

(* mq_clean begins to close the channel and the connection. *)
LEMMA CleanKeeps ==
    ASSUME Inv, mq_clean
    PROVE  Inv'
<1> DEFINE n == Call(c, "chan_close", Halves("chan_close", 0), INF)
<1>0. Local(c) /\ Memory(c) /\ Timing(c) /\ c.at \in {"idle", "closed"} /\ c.out = << >>
  BY IsReceived, NothingToSend DEF Inv, I, mq_clean
<1>1. SameBut(c, n) /\ n.at = "chan_close" /\ n.out = Halves("chan_close", 0)
  BY <1>0 DEF Call, SameBut, Memory, Fields
<1>2. Becomes(n)
  BY DEF mq_clean
<1> HIDE DEF n
<1>3. Allowed(c, n.at) /\ "chan_close" \in Names(n.at) /\ "chan_close" \in FrameNames
  BY <1>0, <1>1 DEF Allowed, Timing, Places, Names, FrameNames
<1>4. ASSUME c.want = 0, br.link.conn = "open"
      PROVE  /\ up # << >> => Successor(up[Len(up)], [f |-> "chan_close", n |-> 0, h |-> 1])
             /\ LastIs(n.at, c.msg, [f |-> "chan_close", n |-> 0, h |-> 2])
             /\ n.at \notin Login
             /\ br.link.chan = "open" /\ up = << >> =>
                   Starts([f |-> "chan_close", n |-> 0, h |-> 1], br.link.expect, Len(br.rcvd))
  <2>1. /\ Flow(up, c.at, c.msg, br.link, br.rcvd)
        /\ up # << >> => LastIs(c.at, c.msg, up[Len(up)])
    BY <1>0, <1>4, LastSent DEF Inv
  <2>2. up # << >> => Successor(up[Len(up)], [f |-> "chan_close", n |-> 0, h |-> 1])
    BY <1>0, <2>1 DEF LastIs, Successor
  <2>3. br.link.chan = "open" /\ up = << >> => br.link.expect = "method"
    BY <2>1 DEF Flow
  <2> QED  BY <1>1, <2>2, <2>3 DEF LastIs, Starts, Login
<1>5. I(n, up, br)
  BY <1>0, <1>1, <1>3, <1>4, Calls DEF Inv
<1> QED  BY <1>2, <1>5, KeptGoes, BecomesKeeps

(* The three frames of a message, in halves. *)
LEMMA MessageIs ==
    ASSUME NEW n \in Nat
    PROVE  LET E == Halves("publish", n) \o Halves("header_frame", n) \o Halves("body", n)
           IN  /\ E \in Seq(Unit) /\ Len(E) = 6 /\ E # << >>
               /\ E[1] = [f |-> "publish", n |-> n, h |-> 1]
               /\ E[2] = [f |-> "publish", n |-> n, h |-> 2]
               /\ E[3] = [f |-> "header_frame", n |-> n, h |-> 1]
               /\ E[4] = [f |-> "header_frame", n |-> n, h |-> 2]
               /\ E[5] = [f |-> "body", n |-> n, h |-> 1]
               /\ E[6] = [f |-> "body", n |-> n, h |-> 2]
<1> DEFINE a == Halves("publish", n)
           b == Halves("header_frame", n)
           d == Halves("body", n)
<1>1. /\ a \in Seq(Unit) /\ Len(a) = 2
      /\ a[1] = [f |-> "publish", n |-> n, h |-> 1]
      /\ a[2] = [f |-> "publish", n |-> n, h |-> 2]
  BY HalvesAre DEF FrameNames
<1>2. /\ b \in Seq(Unit) /\ Len(b) = 2
      /\ b[1] = [f |-> "header_frame", n |-> n, h |-> 1]
      /\ b[2] = [f |-> "header_frame", n |-> n, h |-> 2]
  BY HalvesAre DEF FrameNames
<1>3. /\ d \in Seq(Unit) /\ Len(d) = 2
      /\ d[1] = [f |-> "body", n |-> n, h |-> 1]
      /\ d[2] = [f |-> "body", n |-> n, h |-> 2]
  BY HalvesAre DEF FrameNames
<1> HIDE DEF a, b, d
<1> DEFINE e == a \o b
           E == e \o d
<1>4. /\ e \in Seq(Unit) /\ Len(e) = 4
      /\ e[1] = a[1] /\ e[2] = a[2] /\ e[3] = b[1] /\ e[4] = b[2]
  <2>0. a \in Seq(Unit) /\ Len(a) = 2 /\ b \in Seq(Unit) /\ Len(b) = 2
    BY <1>1, <1>2
  <2>4. /\ e \in Seq(Unit) /\ Len(e) = Len(a) + Len(b)
        /\ \A i \in 1..(Len(a) + Len(b)) : e[i] = IF i <= Len(a) THEN a[i] ELSE b[i - Len(a)]
    BY <2>0, Joined
  <2>1. e \in Seq(Unit) /\ Len(e) = 4
    BY <2>0, <2>4
  <2>2. \A i \in 1..4 : e[i] = IF i <= 2 THEN a[i] ELSE b[i - 2]
    BY <2>0, <2>4
  <2> HIDE DEF e
  <2>3. e[1] = a[1] /\ e[2] = a[2] /\ e[3] = b[3 - 2] /\ e[4] = b[4 - 2]
    BY <2>2
  <2> QED  BY <2>1, <2>3
<1> HIDE DEF e
<1>5. /\ E \in Seq(Unit) /\ Len(E) = 6 /\ E # << >>
      /\ E[1] = e[1] /\ E[2] = e[2] /\ E[3] = e[3] /\ E[4] = e[4]
      /\ E[5] = d[1] /\ E[6] = d[2]
  <2>0. e \in Seq(Unit) /\ Len(e) = 4 /\ d \in Seq(Unit) /\ Len(d) = 2
    BY <1>3, <1>4
  <2>5. /\ E \in Seq(Unit) /\ Len(E) = Len(e) + Len(d)
        /\ \A i \in 1..(Len(e) + Len(d)) : E[i] = IF i <= Len(e) THEN e[i] ELSE d[i - Len(e)]
    BY <2>0, Joined
  <2>1. E \in Seq(Unit) /\ Len(E) = 6
    BY <2>0, <2>5
  <2>2. \A i \in 1..6 : E[i] = IF i <= 4 THEN e[i] ELSE d[i - 4]
    BY <2>0, <2>5
  <2> HIDE DEF E
  <2>3. /\ E[1] = e[1] /\ E[2] = e[2] /\ E[3] = e[3] /\ E[4] = e[4]
        /\ E[5] = d[5 - 4] /\ E[6] = d[6 - 4]
    BY <2>2
  <2>4. E # << >>
    BY <2>1
  <2> QED  BY <2>1, <2>3, <2>4
<1> HIDE DEF E
<1>6. E = Halves("publish", n) \o Halves("header_frame", n) \o Halves("body", n)
  BY DEF E, e, a, b, d
<1> QED  BY <1>1, <1>2, <1>3, <1>4, <1>5, <1>6

(* amqp_basic_publish sends a message on an open channel. *)
LEMMA PublishKeeps ==
    ASSUME Inv, amqp_basic_publish
    PROVE  Inv'
<1> DEFINE n == c.msg + 1
           E == Halves("publish", n) \o Halves("header_frame", n) \o Halves("body", n)
<1>0. Local(c) /\ Memory(c) /\ Timing(c) /\ c.at = "idle" /\ c.out = << >> /\ c.msg \in Nat
      /\ Broker(br) /\ Received(c, br) /\ DOMAIN c = Fields /\ n \in Nat /\ n > 0
  BY IsReceived, NothingToSend DEF Inv, I, amqp_basic_publish, Memory
<1>1. /\ E \in Seq(Unit) /\ Len(E) = 6 /\ E # << >>
      /\ E[1] = [f |-> "publish", n |-> n, h |-> 1]
      /\ E[2] = [f |-> "publish", n |-> n, h |-> 2]
      /\ E[3] = [f |-> "header_frame", n |-> n, h |-> 1]
      /\ E[4] = [f |-> "header_frame", n |-> n, h |-> 2]
      /\ E[5] = [f |-> "body", n |-> n, h |-> 1]
      /\ E[6] = [f |-> "body", n |-> n, h |-> 2]
  BY <1>0, MessageIs
<1>2. /\ DOMAIN c' = Fields /\ c'.sock = c.sock /\ c'.at = "publish" /\ c'.out = E
      /\ c'.want = c.want /\ c'.hb = c.hb /\ c'.ns = c.ns /\ c'.nr = c.nr
      /\ c'.trying = (c.nr = 0) /\ c'.msg = n /\ c'.cut = c.cut
      /\ UNCHANGED <<up, br>>
  BY <1>0 DEF amqp_basic_publish, Call, Fields
<1> HIDE DEF E
<1>a. \A i \in 1..(Len(E) - 1) : Successor(E[i], E[i + 1]) /\ Follow(E[i], E[i + 1])
  <2> SUFFICES ASSUME NEW i \in 1..5
               PROVE  Successor(E[i], E[i + 1]) /\ Follow(E[i], E[i + 1])
    BY <1>1
  <2>1. CASE i = 1
    BY <2>1, <1>1 DEF Successor, Follow
  <2>2. CASE i = 2
    BY <2>2, <1>1 DEF Successor, Follow
  <2>3. CASE i = 3
    BY <2>3, <1>1 DEF Successor, Follow
  <2>4. CASE i = 4
    BY <2>4, <1>1 DEF Successor, Follow
  <2>5. CASE i = 5
    BY <2>5, <1>1 DEF Successor, Follow
  <2> QED  BY <2>1, <2>2, <2>3, <2>4, <2>5
<1>b. \A i \in 1..Len(E) : E[i].f \in Contents /\ E[i].f # "chan_open"
  BY <1>1 DEF Contents
<1>3. Memory(c')
  <2>1. c'.at \in Places /\ ~(c'.at \in {"end", "crashed"})
    BY <1>2 DEF Places
  <2>2. c'.trying \in BOOLEAN
    BY <1>2
  <2> QED  BY <1>0, <1>1, <1>2, <2>1, <2>2 DEF Memory
<1>4. Outgoing(c')
  <2>1. Names("publish") = Contents
    BY DEF Names
  <2>2. E[Len(E)].h = 2 /\ E # << >>
    BY <1>1
  <2>3. \A i \in 1..Len(E) : E[i].f \in Names("publish")
    BY <1>b, <2>1
  <2> QED  BY <1>2, <1>a, <2>2, <2>3 DEF Outgoing
<1>5. Timing(c')
  <2>1. c.want = 0 => ~c'.trying
    <3>1. c.want = 0 => c.nr # 0
      BY <1>0 DEF Timing, INF
    <3>2. c'.trying = (c.nr = 0)
      BY <1>2
    <3> QED  BY <3>1, <3>2
  <2> QED  BY <1>0, <1>2, <2>1 DEF Timing
<1>6. Wire(c', up', br')
  <2>1. ~c.cut /\ br.link.conn = "open" => Len(up) % 2 = 0
    BY <1>0 DEF Inv, I, Wire
  <2> QED  BY <1>0, <1>1, <1>2, <2>1 DEF Inv, I, Wire
<1>7. Gapless(c', up', br')
  <2> SUFFICES ASSUME c.want = 0, br.link.conn = "open"
               PROVE  ~c.cut /\ Flow(up \o E, "publish", n, br.link, br.rcvd)
    BY <1>2 DEF Inv, I, Gapless
  <2>1. /\ up \in Seq(Unit) /\ Flow(up, "idle", c.msg, br.link, br.rcvd)
        /\ up # << >> => LastIs("idle", c.msg, up[Len(up)])
    BY <1>0, LastSent DEF Inv
  <2>2. up # << >> => Successor(up[Len(up)], E[1])
    BY <1>0, <1>1, <2>1 DEF LastIs, Successor
  <2>3. LastIs("publish", n, E[Len(E)])
    BY <1>1 DEF LastIs
  <2>4. br.link.chan = "open" /\ up = << >> => Starts(E[1], br.link.expect, Len(br.rcvd))
    BY <1>0, <1>1, <2>1 DEF Flow, Starts
  <2>5. "publish" \notin Login
    BY DEF Login
  <2>6. Flow(up \o E, "publish", n, br.link, br.rcvd)
    BY <1>1, <1>a, <1>b, <2>1, <2>2, <2>3, <2>4, <2>5, FlowGrows
  <2> QED  BY <2>6 DEF Inv, I, Gapless
<1> QED  BY <1>0, <1>2, <1>3, <1>4, <1>5, <1>6, <1>7 DEF Inv, I

(* The socket has taken the last byte of a frame. *)
LEMMA SentKeeps ==
    ASSUME NEW m, NEW u, NEW b, I(m, u, b), m.out = << >>, NEW f \in Names(m.at)
    PROVE  I(Sent(m, f), u, b)
<1> DEFINE n == Sent(m, f)
<1>0. Memory(m) /\ Timing(m) /\ DOMAIN m = Fields /\ m.msg \in Nat
  BY DEF I, Memory
<1>1. CASE f \notin {"start_ok", "tune_ok", "body"}
  BY <1>1 DEF Sent
<1>2. CASE f \in {"start_ok", "tune_ok"} /\ m.state # "IDLE"
  <2>1. m.at \in {"tune", "tune_ok"}
    BY <1>2 DEF Names, Contents
  <2>2. n = [m EXCEPT !.at = "aborted"]
    BY <1>0, <1>2 DEF Sent, amqp_release_buffers, ENFORCE_STATE, Fields
  <2>3. SameBut(m, n) /\ n.at = "aborted" /\ n.out = << >>
    BY <1>0, <2>2 DEF SameBut, Fields
  <2> HIDE DEF n
  <2>4. Allowed(m, n.at) /\ n.at \notin Login /\ n.at \notin {"chan_close", "conn_close"}
    BY <1>0, <2>1, <2>3 DEF Allowed, Places, Timing, Memory, Login
  <2>5. m.want = 0 /\ b.link.conn = "open" /\ u # << >> => LastIs(n.at, m.msg, u[Len(u)])
    <3> SUFFICES ASSUME m.want = 0, b.link.conn = "open", u # << >>
                 PROVE  LastIs(n.at, m.msg, u[Len(u)])
      OBVIOUS
    <3>1. LastIs(m.at, m.msg, u[Len(u)])
      BY LastSent
    <3> QED  BY <3>1, <2>1, <2>3 DEF LastIs
  <2>6. I(n, u, b)
    BY <2>3, <2>4, <2>5, Turns
  <2> QED  BY <2>6 DEF n
<1>3. CASE f = "start_ok" /\ m.state = "IDLE"
  BY <1>3 DEF Sent, amqp_release_buffers, ENFORCE_STATE
<1>4. CASE f = "tune_ok" /\ m.state = "IDLE"
  <2>1. m.at = "tune_ok"
    BY <1>4 DEF Names, Contents
  <2>2. n = Call(m, "open", Halves("open", 0), m.dl)
    BY <1>4, <2>1 DEF Sent, amqp_release_buffers, ENFORCE_STATE
  <2>3. SameBut(m, n) /\ n.at = "open" /\ n.out = Halves("open", 0)
    BY <1>0, <2>2 DEF SameBut, Fields, Call
  <2> HIDE DEF n
  <2>4. Allowed(m, n.at) /\ "open" \in Names(n.at) /\ "open" \in FrameNames
    BY <1>0, <2>1, <2>3 DEF Allowed, Timing, Places, Names, FrameNames
  <2>5. ASSUME m.want = 0, b.link.conn = "open"
        PROVE  /\ u # << >> => Successor(u[Len(u)], [f |-> "open", n |-> 0, h |-> 1])
               /\ LastIs(n.at, m.msg, [f |-> "open", n |-> 0, h |-> 2])
               /\ b.link.chan # "open"
    <3>1. /\ Flow(u, "tune_ok", m.msg, b.link, b.rcvd)
          /\ u # << >> => LastIs("tune_ok", m.msg, u[Len(u)])
      BY <2>1, <2>5, LastSent
    <3> QED  BY <3>1, <2>3 DEF Flow, LastIs, Successor, Login
  <2>6. m.at \in Login
    BY <2>1 DEF Login
  <2>7. I(n, u, b)
    BY <1>0, <2>3, <2>4, <2>5, <2>6, Calls
  <2> QED  BY <2>7 DEF n
<1>5. CASE f = "body"
  <2>1. m.at = "publish"
    BY <1>5 DEF Names
  <2>2. SameBut(m, n) /\ n.at = "idle" /\ n.out = << >>
    BY <1>0, <1>5 DEF Sent, SameBut, Fields
  <2> HIDE DEF n
  <2>3. Allowed(m, n.at) /\ n.at \notin Login /\ n.at \notin {"chan_close", "conn_close"}
    BY <1>0, <2>1, <2>2 DEF Allowed, Places, Timing, Login
  <2>4. m.want = 0 /\ b.link.conn = "open" /\ u # << >> => LastIs(n.at, m.msg, u[Len(u)])
    <3> SUFFICES ASSUME m.want = 0, b.link.conn = "open", u # << >>
                 PROVE  LastIs(n.at, m.msg, u[Len(u)])
      OBVIOUS
    <3>1. LastIs("publish", m.msg, u[Len(u)]) /\ m.msg > 0
      BY <1>0, <2>1, LastSent DEF Timing
    <3> QED  BY <3>1, <2>2 DEF LastIs
  <2>5. I(n, u, b)
    BY <2>2, <2>3, <2>4, Turns
  <2> QED  BY <2>5 DEF n
<1> QED  BY <1>1, <1>2, <1>3, <1>4, <1>5

(* How many halves of the frame the socket takes. *)
LEMMA FitsIs ==
    ASSUME Inv, Sending, Fits > 0
    PROVE  /\ c.out \in Seq(Unit) /\ c.out # << >> /\ up \in Seq(Unit)
           /\ Fits \in 1..2 /\ Fits <= Len(c.out)
           /\ c.out[1].h \in {1, 2}
           /\ Fits = 2 => c.out[1].h = 1
<1>0. c.out \in Seq(Unit) /\ c.out # << >> /\ up \in Seq(Unit) /\ Outgoing(c)
  BY DEF Inv, I, Memory, Wire, Sending
<1>1. Head(c.out) = c.out[1] /\ c.out[1] \in Unit /\ Len(c.out) \in Nat /\ Len(c.out) > 0
  BY <1>0
<1>2. c.out[1].h \in {1, 2}
  BY <1>1 DEF Unit
<1>3. Fits = Least(SockCap - Len(up), 3 - c.out[1].h)
  BY <1>1 DEF Fits
<1>4. Fits \in Int /\ Fits <= 3 - c.out[1].h
  BY <1>0, <1>2, <1>3, SockCapAssumption DEF Least
<1>5. Fits \in 1..2 /\ (Fits = 2 => c.out[1].h = 1)
  BY <1>2, <1>4
<1>6. c.out[1].h = 1 => Len(c.out) >= 2
  BY <1>0, <1>1 DEF Outgoing
<1> QED  BY <1>0, <1>1, <1>2, <1>5, <1>6

(* A half that the socket takes belongs to the half before it. *)
LEMMA PairedMore ==
    ASSUME NEW u \in Seq(Unit), Paired(u), NEW x \in Unit,
           IF x.h = 2 THEN Len(u) % 2 = 1 /\ u[Len(u)].f = x.f /\ u[Len(u)].n = x.n
           ELSE Len(u) % 2 = 0
    PROVE  Paired(Append(u, x))
<1> DEFINE v == Append(u, x)
<1>1. v \in Seq(Unit) /\ Len(v) = Len(u) + 1 /\ v[Len(u) + 1] = x
      /\ \A i \in 1..Len(u) : v[i] = u[i]
  OBVIOUS
<1>2. x.h \in {1, 2} /\ Len(u) \in Nat
  BY DEF Unit
<1> HIDE DEF v
<1> SUFFICES ASSUME NEW i \in 1..Len(v)
             PROVE  /\ v[i].h = 2 - (i % 2)
                    /\ i % 2 = 0 => v[i].f = v[i - 1].f /\ v[i].n = v[i - 1].n
  BY DEF Paired, v
<1>3. CASE i <= Len(u)
  <2>1. v[i] = u[i] /\ i \in 1..Len(u)
    BY <1>1, <1>2, <1>3
  <2>2. i % 2 = 0 => v[i - 1] = u[i - 1]
    <3>1. i % 2 = 0 => i - 1 \in 1..Len(u)
      BY <1>3, <1>2
    <3> QED  BY <3>1, <1>1
  <2> QED  BY <2>1, <2>2 DEF Paired
<1>4. CASE i = Len(u) + 1
  <2>1. v[i] = x
    BY <1>1, <1>4
  <2>2. CASE x.h = 1
    <3>1. Len(u) % 2 = 0
      BY <2>2
    <3>2. i % 2 = 1
      BY <3>1, <1>2, <1>4
    <3> QED  BY <2>1, <2>2, <3>2
  <2>3. CASE x.h = 2
    <3>1. Len(u) % 2 = 1 /\ u[Len(u)].f = x.f /\ u[Len(u)].n = x.n
      BY <2>3
    <3>2. i % 2 = 0 /\ i - 1 = Len(u) /\ Len(u) \in 1..Len(u)
      BY <3>1, <1>2, <1>4
    <3>3. v[i - 1] = u[Len(u)]
      BY <3>2, <1>1
    <3> QED  BY <2>1, <2>3, <3>1, <3>2, <3>3
  <2> QED  BY <1>2, <2>2, <2>3
<1> QED  BY <1>1, <1>2, <1>3, <1>4

(* What is to be sent, o, goes on where the bytes in flight end. *)
Aligned(u, o) ==
    IF o # << >> /\ o[1].h = 2
    THEN Len(u) % 2 = 1 /\ u[Len(u)].f = o[1].f /\ u[Len(u)].n = o[1].n
    ELSE Len(u) % 2 = 0

(* What is to be sent are whole frames, but for the half already sent. *)
Ordered(o) ==
    /\ \A i \in 1..(Len(o) - 1) : Follow(o[i], o[i + 1])
    /\ o # << >> => o[Len(o)].h = 2

(* Odd and even lengths alternate. *)
LEMMA Parity ==
    ASSUME NEW k \in Nat
    PROVE  (k % 2 = 0 => (k + 1) % 2 = 1) /\ (k % 2 = 1 => (k + 1) % 2 = 0)
  OBVIOUS

(* The socket takes a half. *)
LEMMA OneMoves ==
    ASSUME NEW u \in Seq(Unit), NEW o \in Seq(Unit), o # << >>,
           Paired(u), Aligned(u, o), Ordered(o)
    PROVE  /\ Append(u, o[1]) \in Seq(Unit) /\ Tail(o) \in Seq(Unit)
           /\ Paired(Append(u, o[1])) /\ Aligned(Append(u, o[1]), Tail(o)) /\ Ordered(Tail(o))
<1> DEFINE v == Append(u, o[1])
           t == Tail(o)
<1>1. /\ v \in Seq(Unit) /\ Len(v) = Len(u) + 1 /\ v[Len(v)] = o[1]
      /\ t \in Seq(Unit) /\ Len(t) = Len(o) - 1 /\ \A i \in 1..Len(t) : t[i] = o[i + 1]
      /\ o[1] \in Unit /\ Len(o) > 0
  OBVIOUS
<1>2. o[1].h \in {1, 2} /\ Len(u) \in Nat /\ Len(o) \in Nat
  BY <1>1 DEF Unit
<1>3. Paired(v)
  BY <1>1, <1>2, PairedMore DEF Aligned
<1> HIDE DEF v, t
<1>4. Ordered(t)
  <2>1. ASSUME NEW i \in 1..(Len(t) - 1)
        PROVE  Follow(t[i], t[i + 1])
    <3>1. i \in 1..Len(t) /\ i + 1 \in 1..Len(t) /\ i + 1 \in 1..(Len(o) - 1)
      BY <1>1, <1>2
    <3>2. t[i] = o[i + 1] /\ t[i + 1] = o[(i + 1) + 1]
      BY <1>1, <3>1
    <3> QED  BY <3>1, <3>2 DEF Ordered
  <2>2. t # << >> => t[Len(t)].h = 2
    BY <1>1, <1>2 DEF Ordered
  <2> QED  BY <2>1, <2>2 DEF Ordered
<1>5. Aligned(v, t)
  <2>1. CASE o[1].h = 1
    <3>1. Len(o) > 1
      BY <1>2, <2>1, <1>1 DEF Ordered
    <3>2. t # << >> /\ t[1] = o[2] /\ 1 \in 1..(Len(o) - 1)
      BY <3>1, <1>1, <1>2
    <3>3. t[1].f = o[1].f /\ t[1].n = o[1].n /\ t[1].h = 2
      BY <3>2, <2>1 DEF Ordered, Follow
    <3>4. Len(u) % 2 = 0
      BY <2>1 DEF Aligned
    <3>5. Len(v) % 2 = 1
      BY <3>4, <1>1, <1>2, Parity
    <3> QED  BY <3>2, <3>3, <3>5, <1>1 DEF Aligned
  <2>2. CASE o[1].h = 2
    <3>1. t # << >> => t[1].h = 1
      <4>1. t # << >> => t[1] = o[2] /\ 1 \in 1..(Len(o) - 1)
        BY <1>1, <1>2
      <4> QED  BY <4>1, <2>2 DEF Ordered, Follow
    <3>2. Len(u) % 2 = 1
      BY <2>2 DEF Aligned
    <3>3. Len(v) % 2 = 0
      BY <3>2, <1>1, <1>2, Parity
    <3> QED  BY <3>1, <3>3 DEF Aligned
  <2> QED  BY <1>2, <2>1, <2>2
<1> QED  BY <1>1, <1>3, <1>4, <1>5 DEF v, t

(* The socket takes as much as fits. *)
LEMMA SomeMove ==
    ASSUME NEW u \in Seq(Unit), NEW o \in Seq(Unit), NEW n \in 1..2, n <= Len(o),
           Paired(u), Aligned(u, o), Ordered(o)
    PROVE  LET v == u \o SubSeq(o, 1, n)
               t == SubSeq(o, n + 1, Len(o))
           IN  Paired(v) /\ Aligned(v, t)
<1> DEFINE v == Append(u, o[1])
           t == Tail(o)
           w == Append(v, t[1])
           x == Tail(t)
<1>0. o # << >> /\ Len(o) \in Nat /\ Len(o) >= 1 /\ o[1] \in Unit
  OBVIOUS
<1>1. /\ v \in Seq(Unit) /\ t \in Seq(Unit)
      /\ Paired(v) /\ Aligned(v, t) /\ Ordered(t)
  BY <1>0, OneMoves
<1>2. << o[1] >> \in Seq(Unit) /\ v = u \o << o[1] >>
  BY <1>0, AppendIsConcat
<1>3. SubSeq(o, 1, 1) = << o[1] >>
  <2>1. 1 \in 1..Len(o) /\ 1 \in 1..Len(o) /\ 1 - 1 = 0
    BY <1>0
  <2>2. SubSeq(o, 1, 1) = SubSeq(o, 1, 1 - 1) \o << o[1] >>
    BY <2>1, SubSeqRecursiveSecond
  <2>3. SubSeq(o, 1, 0) = << >>
    BY SubSeqEmpty
  <2>4. << >> \o << o[1] >> = << o[1] >>
    BY <1>2, ConcatEmptySeq
  <2> QED  BY <2>1, <2>2, <2>3, <2>4
<1>4. t = SubSeq(o, 2, Len(o))
  BY <1>0, TailIsSubSeq
<1>5. CASE n = 1
  <2>1. n + 1 = 2
    BY <1>5
  <2> QED  BY <1>1, <1>2, <1>3, <1>4, <1>5, <2>1
<1>6. CASE n = 2
  <2>0. Len(o) >= 2 /\ 2 \in 1..Len(o) /\ Len(o) \in 2..Len(o) /\ o[2] \in Unit
    BY <1>0, <1>6
  <2>1. Head(t) = o[2] /\ x = SubSeq(o, 2 + 1, Len(o))
    BY <1>4, <2>0, HeadTailOfSubSeq
  <2>2. t # << >> /\ t[1] = o[2]
    <3>1. Len(t) = Len(o) - 1
      BY <1>0
    <3> HIDE DEF t
    <3>2. t # << >>
      BY <1>1, <2>0, <3>1
    <3>3. Head(t) = t[1]
      BY <1>1, <3>2
    <3> QED  BY <2>1, <3>2, <3>3
  <2>3. Paired(w) /\ Aligned(w, x)
    BY <1>1, <2>2, OneMoves
  <2>4. << o[2] >> \in Seq(Unit) /\ w = v \o << o[2] >>
    <3> HIDE DEF v, t
    <3> QED  BY <1>1, <2>0, <2>2, AppendIsConcat
  <2>5. SubSeq(o, 1, 2) = << o[1] >> \o << o[2] >>
    <3>1. SubSeq(o, 1, 2) = SubSeq(o, 1, 2 - 1) \o << o[2] >>
      BY <2>0, SubSeqRecursiveSecond
    <3> QED  BY <1>3, <3>1
  <2>6. u \o (<< o[1] >> \o << o[2] >>) = (u \o << o[1] >>) \o << o[2] >>
    BY <1>2, <2>4, ConcatAssociative
  <2>7. u \o SubSeq(o, 1, 2) = w
    BY <1>2, <2>4, <2>5, <2>6
  <2> QED  BY <1>6, <2>1, <2>3, <2>7
<1> QED  BY <1>5, <1>6

(* amqp_try_send: the frame goes to a socket that may take only a part   *)
(* of it.                                                                *)
LEMMA TrySendKeeps ==
    ASSUME Inv, amqp_try_send
    PROVE  Inv'
<1> DEFINE n == Fits
           o == c.out
           rest == SubSeq(o, n + 1, Len(o))
           last == o[n]
           m == [c EXCEPT !.out = rest,
                          !.ns = IF last.h = 2
                                 THEN amqp_time_s_from_now(amqp_heartbeat_send(c)) ELSE @]
           v == IF br.link.conn = "open" THEN up \o SubSeq(o, 1, n) ELSE up
<1>0. /\ Memory(c) /\ Outgoing(c) /\ Timing(c) /\ Broker(br) /\ Wire(c, up, br)
      /\ Gapless(c, up, br) /\ c.sock /\ DOMAIN c = Fields /\ ~c.trying
  BY DEF Inv, I, amqp_try_send, Sending, Memory
<1>1. /\ o \in Seq(Unit) /\ o # << >> /\ up \in Seq(Unit)
      /\ n \in 1..2 /\ n <= Len(o)
  BY FitsIs DEF amqp_try_send
<1>2. /\ c' = IF rest = << >> THEN Sent(m, last.f) ELSE m
      /\ up' = v /\ UNCHANGED br
  BY DEF amqp_try_send, Sends
<1> HIDE DEF n
<1>3. /\ rest \in Seq(Unit) /\ Len(rest) = Len(o) - n
      /\ \A i \in 1..Len(rest) : rest[i] = o[i + n] /\ i + n \in 1..Len(o)
  <2>1. n + 1 \in 1..(Len(o) + 1)
    BY <1>1
  <2>2. /\ rest \in Seq(Unit) /\ Len(rest) = Len(o) - (n + 1) + 1
        /\ \A i \in 1..Len(rest) : rest[i] = o[(n + 1) + i - 1]
    BY <1>1, <2>1, Suffix
  <2> HIDE DEF rest
  <2>3. Len(rest) = Len(o) - n
    BY <1>1, <2>2
  <2>4. \A i \in 1..Len(rest) : (n + 1) + i - 1 = i + n /\ i + n \in 1..Len(o)
    BY <1>1, <2>3
  <2> QED  BY <2>2, <2>3, <2>4
<1>4. /\ SubSeq(o, 1, n) \in Seq(Unit) /\ Len(SubSeq(o, 1, n)) = n
      /\ \A i \in 1..n : SubSeq(o, 1, n)[i] = o[i]
  BY <1>1, Prefix
<1> HIDE DEF rest
<1>5. /\ DOMAIN m = Fields /\ m.sock = c.sock /\ m.at = c.at /\ m.out = rest
      /\ m.want = c.want /\ m.hb = c.hb /\ m.nr = c.nr
      /\ m.ns = (IF last.h = 2 THEN amqp_time_s_from_now(amqp_heartbeat_send(c)) ELSE c.ns)
      /\ m.trying = c.trying /\ m.msg = c.msg /\ m.cut = c.cut
  BY <1>0 DEF Fields
<1> HIDE DEF m
<1>6. Memory(m)
  BY <1>0, <1>3, <1>5 DEF Memory
<1>7. Outgoing(m)
  <2>1. \A i \in 1..Len(rest) : rest[i].f \in Names(c.at)
    BY <1>0, <1>3 DEF Outgoing
  <2>2. ASSUME NEW i \in 1..(Len(rest) - 1)
        PROVE  Follow(rest[i], rest[i + 1])
    <3>1. i \in 1..Len(rest) /\ i + 1 \in 1..Len(rest) /\ i + n \in 1..(Len(o) - 1)
          /\ (i + 1) + n = (i + n) + 1
      BY <1>1, <1>3
    <3>2. rest[i] = o[i + n] /\ rest[i + 1] = o[(i + n) + 1]
      BY <1>3, <3>1
    <3> QED  BY <1>0, <3>1, <3>2 DEF Outgoing
  <2>3. rest # << >> => rest[Len(rest)].h = 2
    <3> SUFFICES ASSUME rest # << >>
                 PROVE  rest[Len(rest)].h = 2
      OBVIOUS
    <3>1. Len(rest) \in 1..Len(rest) /\ Len(rest) + n = Len(o)
      BY <1>1, <1>3
    <3>2. rest[Len(rest)] = o[Len(o)]
      BY <1>3, <3>1
    <3> QED  BY <1>0, <1>1, <3>2 DEF Outgoing
  <2> QED  BY <1>0, <1>5, <2>1, <2>2, <2>3 DEF Outgoing
<1>8. Timing(m)
  <2>1. c.want = 0 => m.ns = INF
    BY <1>0, <1>5 DEF Timing, amqp_time_s_from_now, amqp_heartbeat_send
  <2> QED  BY <1>0, <1>5, <2>1 DEF Timing
<1>9. v \in Seq(Unit) /\ (br.link.conn = "open" => v = up \o SubSeq(o, 1, n))
      /\ (br.link.conn # "open" => v = up)
  <2>1. up \o SubSeq(o, 1, n) \in Seq(Unit)
    BY <1>1, <1>4, Joined
  <2> QED  BY <1>1, <2>1
<1> HIDE DEF v
<1>10. c.msg = 0 => \A i \in 1..Len(v) : v[i].f \notin Contents
  <2> SUFFICES ASSUME c.msg = 0, NEW i \in 1..Len(v)
               PROVE  v[i].f \notin Contents
    OBVIOUS
  <2>1. \A j \in 1..Len(up) : up[j].f \notin Contents
    BY <1>0 DEF Wire
  <2>2. c.at # "publish"
    BY <1>0 DEF Timing
  <2>3. Names(c.at) \cap Contents = {}
    BY <2>2 DEF Names, Contents
  <2>4. CASE br.link.conn = "open"
    <3> DEFINE p == SubSeq(o, 1, n)
    <3>1. p \in Seq(Unit) /\ Len(p) = n /\ \A j \in 1..n : p[j] = o[j]
      BY <1>4
    <3> HIDE DEF p
    <3>2. /\ Len(v) = Len(up) + Len(p)
          /\ v[i] = IF i <= Len(up) THEN up[i] ELSE p[i - Len(up)]
      BY <1>1, <1>9, <2>4, <3>1, Joined DEF p
    <3>3. CASE i <= Len(up)
      BY <2>1, <3>2, <3>3
    <3>4. CASE i > Len(up)
      <4>1. v[i] = o[i - Len(up)] /\ i - Len(up) \in 1..Len(o)
        BY <1>1, <3>1, <3>2, <3>4
      <4>2. o[i - Len(up)].f \in Names(c.at)
        BY <1>0, <4>1 DEF Outgoing
      <4> QED  BY <2>3, <4>1, <4>2
    <3> QED  BY <1>1, <3>3, <3>4
  <2>5. CASE br.link.conn # "open"
    BY <1>9, <2>1, <2>5
  <2> QED  BY <2>4, <2>5
<1>11. Wire(m, v, br)
  <2>1. ~c.cut /\ br.link.conn = "open" => Paired(v) /\ Aligned(v, rest)
    <3> SUFFICES ASSUME ~c.cut, br.link.conn = "open"
                 PROVE  Paired(v) /\ Aligned(v, rest)
      OBVIOUS
    <3>1. Paired(up) /\ Aligned(up, o) /\ Ordered(o)
      BY <1>0 DEF Wire, Aligned, Outgoing, Ordered
    <3>2. /\ Paired(up \o SubSeq(o, 1, n))
          /\ Aligned(up \o SubSeq(o, 1, n), SubSeq(o, n + 1, Len(o)))
      BY <1>1, <3>1, SomeMove
    <3> QED  BY <1>9, <3>2 DEF rest
  <2>2. ~c.cut => Paired(v)
    BY <1>0, <1>9, <2>1 DEF Wire
  <2>3. c.msg = 0 => br.rcvd = << >>
    BY <1>0 DEF Wire
  <2> QED  BY <1>0, <1>5, <1>9, <1>10, <2>1, <2>2, <2>3 DEF Wire, Aligned
<1>12. Gapless(m, v, br)
  <2>1. br.link.conn = "open" => v \o rest = up \o o
    <3>1. n \in 0..Len(o)
      BY <1>1
    <3>2. (up \o SubSeq(o, 1, n)) \o SubSeq(o, n + 1, Len(o)) = up \o o
      BY <1>1, <3>1, Moves
    <3> QED  BY <1>9, <3>2 DEF rest
  <2> QED  BY <1>0, <1>5, <2>1 DEF Gapless
<1>13. I(m, v, br)
  BY <1>0, <1>6, <1>7, <1>8, <1>11, <1>12 DEF I
<1>14. CASE rest = << >>
  <2>1. last.f \in Names(m.at)
    BY <1>0, <1>1, <1>5 DEF Outgoing
  <2>2. I(Sent(m, last.f), v, br)
    BY <1>5, <1>13, <1>14, <2>1, SentKeeps
  <2> QED  BY <1>2, <1>14, <2>2 DEF Inv
<1>15. CASE rest # << >>
  BY <1>2, <1>13, <1>15 DEF Inv
<1> QED  BY <1>14, <1>15

-----------------------------------------------------------------------------
(* The broker reads a frame, and whole frames are left. *)
LEMMA PairedLess ==
    ASSUME NEW u \in Seq(Unit), Paired(u), Len(u) >= 2
    PROVE  Paired(SubSeq(u, 3, Len(u)))
<1> DEFINE t == SubSeq(u, 3, Len(u))
<1>1. /\ t \in Seq(Unit) /\ Len(t) = Len(u) - 3 + 1
      /\ \A i \in 1..Len(t) : t[i] = u[3 + i - 1]
  <2>1. 3 \in 1..(Len(u) + 1)
    OBVIOUS
  <2> QED  BY <2>1, Suffix
<1> HIDE DEF t
<1>2. \A i \in 1..Len(t) : t[i] = u[i + 2] /\ i + 2 \in 1..Len(u)
  <2>1. \A i \in 1..Len(t) : 3 + i - 1 = i + 2 /\ i + 2 \in 1..Len(u)
    BY <1>1
  <2> QED  BY <1>1, <2>1
<1>3. ASSUME NEW i \in 1..Len(t)
      PROVE  /\ t[i].h = 2 - (i % 2)
             /\ i % 2 = 0 => t[i].f = t[i - 1].f /\ t[i].n = t[i - 1].n
  <2>1. t[i] = u[i + 2] /\ i + 2 \in 1..Len(u) /\ (i + 2) % 2 = i % 2
    BY <1>2
  <2>2. t[i].h = 2 - (i % 2)
    BY <2>1 DEF Paired
  <2>3. i % 2 = 0 => t[i - 1] = u[(i + 2) - 1]
    <3>0. Len(t) \in Nat /\ (i % 2 = 0 => i # 1)
      BY <1>1
    <3>1. i % 2 = 0 => i - 1 \in 1..Len(t) /\ (i - 1) + 2 = (i + 2) - 1
      BY <3>0
    <3> QED  BY <1>2, <3>1
  <2> QED  BY <2>1, <2>2, <2>3 DEF Paired
<1>4. Paired(t)
  BY <1>3 DEF Paired
<1> QED  BY <1>4 DEF t

(* What is to be sent still goes on where the bytes in flight end. *)
LEMMA AlignedLess ==
    ASSUME NEW u \in Seq(Unit), NEW o, Aligned(u, o), Len(u) >= 2
    PROVE  Aligned(SubSeq(u, 3, Len(u)), o)
<1> DEFINE t == SubSeq(u, 3, Len(u))
<1>1. /\ t \in Seq(Unit) /\ Len(t) = Len(u) - 3 + 1
      /\ \A i \in 1..Len(t) : t[i] = u[3 + i - 1]
  <2>1. 3 \in 1..(Len(u) + 1)
    OBVIOUS
  <2> QED  BY <2>1, Suffix
<1> HIDE DEF t
<1>2. Len(t) % 2 = Len(u) % 2 /\ Len(t) = Len(u) - 2
  BY <1>1
<1>3. Len(u) % 2 = 1 => t[Len(t)] = u[Len(u)]
  <2>1. Len(u) % 2 = 1 => Len(t) \in 1..Len(t) /\ 3 + Len(t) - 1 = Len(u)
    BY <1>1, <1>2
  <2> QED  BY <1>1, <2>1
<1>4. Aligned(t, o)
  BY <1>2, <1>3 DEF Aligned
<1> QED  BY <1>4 DEF t

(* What the broker becomes, d, must fit what it has read. *)
LEMMA ReadKeeps ==
    ASSUME NEW m, NEW u, NEW b, NEW d, I(m, u, b), Len(u) >= 2, b.link.conn = "open",
           Broker(d), d.link.conn \in {"open", "closed"},
           m.msg = 0 => d.rcvd = << >>,
           m.want = 0 => \A i \in 1..Len(d.rcvd) : d.rcvd[i] = i,
           m.want = 0 /\ d.link.conn = "open" =>
               Flow(SubSeq(u \o m.out, 3, Len(u \o m.out)), m.at, m.msg, d.link, d.rcvd)
    PROVE  I(m, SubSeq(u, 3, Len(u)), d)
<1> DEFINE t == SubSeq(u, 3, Len(u))
<1>0. /\ Memory(m) /\ Outgoing(m) /\ Timing(m) /\ Wire(m, u, b) /\ Gapless(m, u, b)
      /\ u \in Seq(Unit) /\ m.out \in Seq(Unit) /\ m.sock /\ 3 \in 1..(Len(u) + 1)
  BY DEF I, Memory, Wire, NoBroker
<1>1. /\ t \in Seq(Unit) /\ Len(t) = Len(u) - 3 + 1
      /\ \A i \in 1..Len(t) : t[i] = u[3 + i - 1]
  <2>1. u \in Seq(Unit) /\ 3 \in 1..(Len(u) + 1)
    BY <1>0
  <2> QED  BY <2>1, Suffix
<1>2. ~m.cut => Paired(t)
  BY <1>0, PairedLess DEF Wire
<1>3. ~m.cut => Aligned(t, m.out)
  <2>1. ~m.cut => Aligned(u, m.out)
    BY <1>0 DEF Wire, Aligned
  <2> QED  BY <1>0, <2>1, AlignedLess
<1>4. t \o m.out = SubSeq(u \o m.out, 3, Len(u \o m.out))
  BY <1>0, Drops
<1> HIDE DEF t
<1>5. m.msg = 0 => \A i \in 1..Len(t) : t[i].f \notin Contents
  <2> SUFFICES ASSUME m.msg = 0, NEW i \in 1..Len(t)
               PROVE  t[i].f \notin Contents
    OBVIOUS
  <2>1. t[i] = u[3 + i - 1] /\ 3 + i - 1 \in 1..Len(u)
    BY <1>0, <1>1
  <2> QED  BY <1>0, <2>1 DEF Wire
<1>6. Wire(m, t, d)
  BY <1>0, <1>1, <1>2, <1>3, <1>5 DEF Wire, Aligned
<1>7. Gapless(m, t, d)
  BY <1>0, <1>4 DEF Gapless
<1>8. I(m, t, d)
  BY <1>0, <1>6, <1>7 DEF I
<1> QED  BY <1>8 DEF t

(* The broker closes the connection. *)
Hung(b, d) == d.link.conn = "closed" /\ d.rcvd = b.rcvd

(* It reads a frame that changes neither the channel nor the messages. *)
Passed(b, d, x) ==
    /\ d.link.conn = "open" /\ d.rcvd = b.rcvd
    /\ d.link.chan = b.link.chan /\ d.link.expect = b.link.expect
    /\ \/ b.link.chan # "open" \/ b.link.dying
       \/ x.f \notin Contents \cup {"chan_close", "chan_open"}

(* It opens the channel. *)
Opened(b, d, x) ==
    /\ x.f = "chan_open" /\ ~b.link.dying
    /\ d.link = [b.link EXCEPT !.chan = "open"] /\ d.rcvd = b.rcvd

(* It reads the method or the header of a message. *)
Parted(b, d, x) ==
    /\ x.f \in {"publish", "header_frame"} /\ ~b.link.dying /\ b.link.chan = "open"
    /\ x.f = IF b.link.expect = "method" THEN "publish" ELSE b.link.expect
    /\ d.link = [b.link EXCEPT !.expect = IF x.f = "publish" THEN "header_frame" ELSE "body"]
    /\ d.rcvd = b.rcvd

(* It takes a message. *)
Taken(b, d, x) ==
    /\ x.f = "body" /\ ~b.link.dying /\ b.link.chan = "open"
    /\ x.f = IF b.link.expect = "method" THEN "publish" ELSE b.link.expect
    /\ d.link = [b.link EXCEPT !.expect = "method"]
    /\ d.rcvd = Append(b.rcvd, x.n)

(* It closes the channel, because it refuses a message or because it is  *)
(* asked to.                                                             *)
Shut(b, d, x) ==
    /\ d.rcvd = b.rcvd /\ d.link.conn = "open"
    /\ \/ x.f = "body" /\ b.link.chan = "open" /\ d.link.chan = "closing"
       \/ x.f = "chan_close" /\ b.link.chan # "none" /\ d.link.chan = "none"

(* All that the broker does with a frame x. *)
Reads(b, d, x) ==
    \/ Hung(b, d) \/ Passed(b, d, x) \/ Opened(b, d, x)
    \/ Parted(b, d, x) \/ Taken(b, d, x) \/ Shut(b, d, x)

(* Frames of the handshake. *)
LEMMA HandshakeReads ==
    ASSUME Broker(br), br.link.conn = "open", ~br.link.dying, NEW x \in Unit, Handshake(x)
    PROVE  Broker(br') /\ Reads(br, br', x)
<1> DEFINE B == {"link", "rcvd", "refused"}
<1>0. /\ DOMAIN br = B /\ DOMAIN br.link = LinkFields /\ br.link.hb \in Nat
      /\ br.rcvd \in Seq(Nat) /\ x.n \in Nat
  BY DEF Broker, Unit
<1>1. CASE br' = br /\ x.f \in {"header", "open"}
  BY <1>0, <1>1 DEF Broker, Reads, Passed, Contents
<1>2. CASE br' = [br EXCEPT !.link = Hangs(@)]
  BY <1>0, <1>2 DEF Broker, Reads, Hung, Hangs, LinkFields
<1>3. CASE x.f = "start_ok" /\ \E h \in Heartbeats : br' = [br EXCEPT !.link.hb = h]
  <2>1. PICK h \in Heartbeats : br' = [br EXCEPT !.link.hb = h]
    BY <1>3
  <2>2. h \in Nat
    BY HeartbeatAssumption
  <2> QED  BY <1>0, <1>3, <2>1, <2>2 DEF Broker, Reads, Passed, Contents, LinkFields
<1>4. CASE x.f \in {"start_ok", "open"} /\ br' = [br EXCEPT !.link.dying = TRUE]
  BY <1>0, <1>4 DEF Broker, Reads, Passed, Contents, LinkFields
<1>5. CASE x.f = "tune_ok" /\ br' = [br EXCEPT !.link.hb = x.n, !.link.tuned = TRUE]
  BY <1>0, <1>5 DEF Broker, Reads, Passed, Contents, LinkFields
<1>6. CASE x.f = "chan_open" /\ br' = [br EXCEPT !.link.chan = "open"]
  BY <1>0, <1>6 DEF Broker, Reads, Opened, LinkFields
<1> QED  BY <1>1, <1>2, <1>3, <1>4, <1>5, <1>6 DEF Handshake, Refuse

(* Frames of a message. *)
LEMMA ContentReads ==
    ASSUME Broker(br), br.link.conn = "open", ~br.link.dying, NEW x \in Unit, Content(x)
    PROVE  Broker(br') /\ Reads(br, br', x)
<1> DEFINE B == {"link", "rcvd", "refused"}
           due == IF br.link.expect = "method" THEN "publish" ELSE br.link.expect
           Next3 == [publish |-> "header_frame", header_frame |-> "body", body |-> "publish"]
<1>0. /\ DOMAIN br = B /\ DOMAIN br.link = LinkFields /\ br.link.hb \in Nat
      /\ br.rcvd \in Seq(Nat) /\ x.n \in Nat
  BY DEF Broker, Unit
<1>a. x.f \in Contents
  BY DEF Content, Contents
<1>1. CASE br.link.chan # "open" /\ br' = br
  BY <1>0, <1>1 DEF Broker, Reads, Passed
<1>2. CASE br' = [br EXCEPT !.link = Hangs(@)]
  BY <1>0, <1>2 DEF Broker, Reads, Hung, Hangs, LinkFields
<1>3. CASE /\ br.link.chan = "open" /\ x.f = due /\ x.f # "body"
           /\ br' = [br EXCEPT !.link.expect = Next3[x.f]]
  <2>1. Next3[x.f] = IF x.f = "publish" THEN "header_frame" ELSE "body"
    BY <1>a, <1>3 DEF Contents
  <2>2. x.f \in {"publish", "header_frame"}
    BY <1>a, <1>3 DEF Contents
  <2> HIDE DEF Next3
  <2> QED  BY <1>0, <1>3, <2>1, <2>2 DEF Broker, Reads, Parted, LinkFields
<1>4. CASE /\ br.link.chan = "open" /\ x.f = due /\ x.f = "body"
           /\ br' = [br EXCEPT !.link.expect = "method", !.rcvd = Append(@, x.n)]
  <2>1. Append(br.rcvd, x.n) \in Seq(Nat)
    BY <1>0
  <2> QED  BY <1>0, <1>4, <2>1 DEF Broker, Reads, Taken, LinkFields
<1>5. CASE /\ br.link.chan = "open" /\ x.f = "body"
           /\ br' = [br EXCEPT !.link.expect = "method", !.link.chan = "closing",
                               !.refused = TRUE]
  BY <1>0, <1>5 DEF Broker, Reads, Shut, LinkFields
<1> QED  BY <1>1, <1>2, <1>3, <1>4, <1>5 DEF Content, link

(* Frames that close the channel or the connection. *)
LEMMA ClosingReads ==
    ASSUME Broker(br), br.link.conn = "open", NEW x \in Unit, Closing(x)
    PROVE  Broker(br') /\ Reads(br, br', x)
<1> DEFINE B == {"link", "rcvd", "refused"}
<1>0. /\ DOMAIN br = B /\ DOMAIN br.link = LinkFields /\ br.link.hb \in Nat
      /\ br.rcvd \in Seq(Nat) /\ x.n \in Nat
  BY DEF Broker, Unit
<1>1. CASE x.f = "heartbeat" /\ br' = br
  BY <1>0, <1>1 DEF Broker, Reads, Passed, Contents
<1>2. CASE br' = [br EXCEPT !.link = Hangs(@)]
  BY <1>0, <1>2 DEF Broker, Reads, Hung, Hangs, LinkFields
<1>3. CASE br.link.chan = "none" /\ br' = [br EXCEPT !.link.dying = TRUE]
  BY <1>0, <1>3 DEF Broker, Reads, Passed, LinkFields
<1>4. CASE x.f = "chan_close" /\ br.link.chan # "none" /\ br' = [br EXCEPT !.link.chan = "none"]
  BY <1>0, <1>4 DEF Broker, Reads, Shut, LinkFields
<1> QED  BY <1>1, <1>2, <1>3, <1>4 DEF Closing, Refuse, link

(* BrokerReads is one of these. *)
LEMMA ReadsForms ==
    ASSUME Inv, BrokerReads
    PROVE  /\ c' = c /\ up' = SubSeq(up, 3, Len(up))
           /\ Len(up) >= 2 /\ br.link.conn = "open" /\ Broker(br')
           /\ Reads(br, br', up[1])
           /\ Hung(br, br') \/ (up[2].f = up[1].f /\ up[2].h = 2)
<1>0. Broker(br) /\ up \in Seq(Unit) /\ Len(up) >= 2 /\ br.link.conn = "open"
  BY DEF Inv, I, Wire, BrokerReads, link
<1>1. up[1] \in Unit
  BY <1>0
<1>2. c' = c /\ up' = SubSeq(up, 3, Len(up))
  BY DEF BrokerReads
<1>3. CASE br' = [br EXCEPT !.link = Hangs(@)]
  BY <1>0, <1>2, <1>3 DEF Broker, Reads, Hung, Hangs, LinkFields
<1>4. CASE /\ up[1].f = up[2].f /\ up[2].h = 2
           /\ br.link.dying /\ up[1].f = "conn_close" /\ Closing(up[1])
  BY <1>0, <1>1, <1>2, <1>4, ClosingReads
<1>5. CASE /\ up[1].f = up[2].f /\ up[2].h = 2 /\ br.link.dying /\ br' = br
  BY <1>0, <1>2, <1>5 DEF Reads, Passed
<1>6. CASE /\ up[1].f = up[2].f /\ up[2].h = 2 /\ ~br.link.dying
           /\ Handshake(up[1]) \/ Content(up[1]) \/ Closing(up[1])
  BY <1>0, <1>1, <1>2, <1>6, ClosingReads, HandshakeReads, ContentReads
<1> QED  BY <1>3, <1>4, <1>5, <1>6 DEF BrokerReads, link

(* The rest of the stream fits what the broker has become. *)
LEMMA FlowAfterRead ==
    ASSUME NEW S \in Seq(Unit), Len(S) >= 2, NEW at, NEW msg, NEW b, NEW d,
           Broker(b), Broker(d), msg \in Nat,
           Flow(S, at, msg, b.link, b.rcvd),
           S[1].h = 1, S[2].f = S[1].f, S[2].h = 2, S[2].n = S[1].n,
           at = "chan" \/ at = "closed" => msg = 0,
           Reads(b, d, S[1]), d.link.conn = "open"
    PROVE  Flow(SubSeq(S, 3, Len(S)), at, msg, d.link, d.rcvd)
<1> DEFINE l == b.link
           k == d.link
           r == b.rcvd
           q == d.rcvd
           T == SubSeq(S, 3, Len(S))
<1>0. /\ DOMAIN l = LinkFields /\ S # << >> /\ r \in Seq(Nat) /\ Len(r) \in Nat
      /\ 1 \in 1..Len(S) /\ 2 \in 1..Len(S) /\ S[1] \in Unit /\ Len(S) \in Nat
  BY DEF Broker
<1>1. l.chan = "open" => ~l.dying /\ Starts(S[1], l.expect, Len(r))
  BY <1>0 DEF Flow
<1>2. /\ at \in Login => l.chan = "none" /\ l.expect = "method"
      /\ at \in Login => S[1].f # "chan_open"
  BY <1>0 DEF Flow
<1>3. \A i \in 1..Len(S) : S[i].f = "chan_open" =>
          l.chan = "none" /\ l.expect = "method" /\ r = << >>
  BY DEF Flow
<1>4. Len(S) = 2 => LastIs(at, msg, S[2])
  BY <1>0 DEF Flow
<1>5. Len(S) > 2 => Successor(S[2], S[3])
  <2>1. Len(S) > 2 => 2 \in 1..(Len(S) - 1) /\ 2 + 1 = 3
    BY <1>0
  <2> QED  BY <2>1 DEF Flow
<1>6. CASE Hung(b, d)
  BY <1>6 DEF Hung
<1>7. CASE Passed(b, d, S[1])
  <2>1. k.chan = l.chan /\ k.expect = l.expect /\ q = r
    BY <1>7 DEF Passed
  <2>2. l.chan # "open"
    <3>1. l.chan = "open" => S[1].f \in Contents \cup {"chan_close"}
      BY <1>1 DEF Starts, Contents
    <3> QED  BY <1>1, <1>7, <3>1 DEF Passed
  <2> HIDE DEF l, k, r, q
  <2>3. Flow(S, at, msg, l, r)
    BY DEF l, r
  <2>4. \A i \in 3..Len(S) : S[i].f = "chan_open" =>
            k.chan = "none" /\ k.expect = "method" /\ q = << >>
    BY <1>0, <1>3, <2>1
  <2>5. at \in Login => k.chan = "none" /\ k.expect = "method"
    BY <1>2, <2>1
  <2>6. k.chan # "open"
    BY <2>1, <2>2
  <2>7. Flow(T, at, msg, k, q)
    BY <2>3, <2>4, <2>5, <2>6, FlowReads
  <2> QED  BY <2>7 DEF k, q
<1>8. CASE Opened(b, d, S[1])
  <2>1. /\ S[1].f = "chan_open" /\ ~l.dying /\ k = [l EXCEPT !.chan = "open"] /\ q = r
    BY <1>8 DEF Opened
  <2>2. /\ l.expect = "method" /\ r = << >> /\ at \notin Login
        /\ \A j \in 2..Len(S) : S[j].f = "chan_open" => j = 2
    <3>1. l.expect = "method" /\ r = << >>
      BY <1>0, <1>3, <2>1
    <3>2. at \notin Login
      BY <1>2, <2>1
    <3>3. \A j \in (1 + 1)..Len(S) : S[j].f = "chan_open" => j = 1 + 1
      BY <1>0, <2>1 DEF Flow
    <3>4. 1 + 1 = 2
      OBVIOUS
    <3> QED  BY <3>1, <3>2, <3>3, <3>4
  <2>3. k.chan = "open" /\ k.expect = "method" /\ ~k.dying
    BY <1>0, <2>1, <2>2 DEF LinkFields
  <2>4. Len(S) = 2 => Len(q) = msg /\ at \notin {"chan_close", "conn_close"}
    BY <1>4, <2>1, <2>2 DEF LastIs
  <2>5. Len(S) > 2 => Starts(S[3], k.expect, Len(q))
    BY <1>5, <2>1, <2>2, <2>3 DEF Successor, Starts
  <2>6. \A i \in 3..Len(S) : S[i].f # "chan_open"
    BY <1>0, <2>2
  <2> HIDE DEF l, k, r, q
  <2>7. Flow(S, at, msg, l, r)
    BY DEF l, r
  <2>8. Flow(T, at, msg, k, q)
    BY <2>2, <2>3, <2>4, <2>5, <2>6, <2>7, FlowReads
  <2> QED  BY <2>8 DEF k, q
<1>9. CASE Parted(b, d, S[1])
  <2>1. /\ S[1].f \in {"publish", "header_frame"} /\ l.chan = "open" /\ q = r
        /\ S[1].f = IF l.expect = "method" THEN "publish" ELSE l.expect
        /\ k = [l EXCEPT !.expect = IF S[1].f = "publish" THEN "header_frame" ELSE "body"]
    BY <1>9 DEF Parted
  <2>2. /\ k.chan = "open" /\ ~k.dying
        /\ k.expect = IF S[1].f = "publish" THEN "header_frame" ELSE "body"
    BY <1>0, <1>1, <2>1 DEF LinkFields
  <2>3. S[1].n = Len(r) + 1
    BY <1>1, <2>1 DEF Starts
  <2>4. Len(S) # 2
    BY <1>4, <2>1 DEF LastIs
  <2>5. Len(S) > 2 => Starts(S[3], k.expect, Len(q))
    BY <1>5, <2>1, <2>2, <2>3 DEF Successor, Starts
  <2>6. at \notin Login /\ \A i \in 3..Len(S) : S[i].f # "chan_open"
    BY <1>0, <1>2, <1>3, <2>1
  <2> HIDE DEF l, k, r, q
  <2>7. Flow(S, at, msg, l, r)
    BY DEF l, r
  <2>8. Flow(T, at, msg, k, q)
    BY <2>2, <2>4, <2>5, <2>6, <2>7, FlowReads
  <2> QED  BY <2>8 DEF k, q
<1>10. CASE Taken(b, d, S[1])
  <2>1. /\ S[1].f = "body" /\ l.chan = "open" /\ q = Append(r, S[1].n)
        /\ S[1].f = IF l.expect = "method" THEN "publish" ELSE l.expect
        /\ k = [l EXCEPT !.expect = "method"]
    BY <1>10 DEF Taken
  <2>2. k.chan = "open" /\ ~k.dying /\ k.expect = "method"
    BY <1>0, <1>1, <2>1 DEF LinkFields
  <2>3. S[1].n = Len(r) + 1
    BY <1>1, <2>1 DEF Starts
  <2>9. Len(q) = Len(r) + 1
    BY <1>0, <2>1
  <2>4. Len(S) = 2 => Len(q) = msg /\ at \notin {"chan_close", "conn_close"}
    BY <1>4, <2>1, <2>3, <2>9 DEF LastIs
  <2>5. Len(S) > 2 => Starts(S[3], k.expect, Len(q))
    BY <1>5, <2>1, <2>2, <2>3, <2>9 DEF Successor, Starts
  <2>6. at \notin Login /\ \A i \in 3..Len(S) : S[i].f # "chan_open"
    BY <1>0, <1>2, <1>3, <2>1
  <2> HIDE DEF l, k, r, q
  <2>7. Flow(S, at, msg, l, r)
    BY DEF l, r
  <2>8. Flow(T, at, msg, k, q)
    BY <2>2, <2>4, <2>5, <2>6, <2>7, FlowReads
  <2> QED  BY <2>8 DEF k, q
<1>11. CASE Shut(b, d, S[1])
  <2>1. l.chan # "none" /\ k.chan # "open"
    BY <1>11 DEF Shut
  <2>2. at \notin Login /\ \A i \in 3..Len(S) : S[i].f # "chan_open"
    BY <1>0, <1>2, <1>3, <2>1
  <2> HIDE DEF l, k, r, q
  <2>3. Flow(S, at, msg, l, r)
    BY DEF l, r
  <2>4. Flow(T, at, msg, k, q)
    BY <2>1, <2>2, <2>3, FlowReads
  <2> QED  BY <2>4 DEF k, q
<1> QED  BY <1>6, <1>7, <1>8, <1>9, <1>10, <1>11 DEF Reads

(* The broker reads a frame. *)
LEMMA BrokerReadsKeeps ==
    ASSUME Inv, BrokerReads
    PROVE  Inv'
<1> DEFINE S == up \o c.out
<1>0. /\ c' = c /\ up' = SubSeq(up, 3, Len(up))
      /\ Len(up) >= 2 /\ br.link.conn = "open" /\ Broker(br')
      /\ Reads(br, br', up[1])
      /\ Hung(br, br') \/ (up[2].f = up[1].f /\ up[2].h = 2)
  BY ReadsForms
<1>1. /\ Memory(c) /\ Timing(c) /\ Wire(c, up, br) /\ Gapless(c, up, br) /\ Broker(br)
      /\ up \in Seq(Unit) /\ c.out \in Seq(Unit) /\ up[1] \in Unit /\ br.rcvd \in Seq(Nat)
  BY <1>0 DEF Inv, I, Memory, Wire, Broker
<1>2. br'.link.conn \in {"open", "closed"}
  BY <1>0, <1>1 DEF Reads, Hung, Passed, Opened, Parted, Taken, Shut, Broker, LinkFields
<1>3. c.msg = 0 => br'.rcvd = << >>
  <2> SUFFICES ASSUME c.msg = 0
               PROVE  br'.rcvd = << >>
    OBVIOUS
  <2>1. br.rcvd = << >> /\ up[1].f \notin Contents
    BY <1>0, <1>1 DEF Wire
  <2> QED  BY <1>0, <2>1 DEF Reads, Hung, Passed, Opened, Parted, Taken, Shut, Contents
<1>4. ASSUME c.want = 0
      PROVE  /\ \A i \in 1..Len(br'.rcvd) : br'.rcvd[i] = i
             /\ br'.link.conn = "open" =>
                   Flow(SubSeq(S, 3, Len(S)), c.at, c.msg, br'.link, br'.rcvd)
  <2>1. /\ ~c.cut /\ Flow(S, c.at, c.msg, br.link, br.rcvd) /\ Paired(up)
        /\ \A i \in 1..Len(br.rcvd) : br.rcvd[i] = i
    BY <1>0, <1>1, <1>4 DEF Gapless, Wire
  <2>2. S \in Seq(Unit) /\ Len(S) >= 2 /\ S[1] = up[1] /\ S[2] = up[2] /\ S # << >>
    BY <1>0, <1>1
  <2>3. up[1].h = 1 /\ up[2].n = up[1].n
    BY <1>0, <1>1, <2>1 DEF Paired
  <2>4. c.at = "chan" \/ c.at = "closed" => c.msg = 0
    BY <1>1, <1>4 DEF Timing, Memory
  <2>5. \A i \in 1..Len(br'.rcvd) : br'.rcvd[i] = i
    <3>1. CASE br'.rcvd = br.rcvd
      BY <2>1, <3>1
    <3>2. CASE Taken(br, br', up[1])
      <4>1. Starts(S[1], br.link.expect, Len(br.rcvd))
        BY <2>1, <2>2, <3>2 DEF Flow, Taken
      <4>2. up[1].n = Len(br.rcvd) + 1 /\ br'.rcvd = Append(br.rcvd, up[1].n)
        BY <2>2, <3>2, <4>1 DEF Starts, Taken
      <4> QED  BY <1>1, <2>1, <4>2
    <3> QED  BY <1>0, <3>1, <3>2 DEF Reads, Hung, Passed, Opened, Parted, Shut
  <2>6. ASSUME br'.link.conn = "open"
        PROVE  Flow(SubSeq(S, 3, Len(S)), c.at, c.msg, br'.link, br'.rcvd)
    <3>1. up[2].f = up[1].f /\ up[2].h = 2
      BY <1>0, <2>6 DEF Hung
    <3>2. c.msg \in Nat
      BY <1>1 DEF Memory
    <3> HIDE DEF S
    <3> QED  BY <1>0, <1>1, <2>1, <2>2, <2>3, <2>4, <2>6, <3>1, <3>2, FlowAfterRead
  <2> QED  BY <2>5, <2>6
<1>5. I(c, SubSeq(up, 3, Len(up)), br')
  BY <1>0, <1>2, <1>3, <1>4, ReadKeeps DEF Inv
<1> QED  BY <1>0, <1>5 DEF Inv

(* The broker gives up the connection. *)
LEMMA BrokerClosesKeeps ==
    ASSUME Inv, NEW n, BrokerCloses(n)
    PROVE  Inv'
<1>0. /\ Memory(c) /\ Outgoing(c) /\ Timing(c) /\ Wire(c, up, br) /\ Gapless(c, up, br)
      /\ Broker(br) /\ br.link.conn = "open"
  BY DEF Inv, I, BrokerCloses, link
<1>1. c' = c /\ up' = up /\ br' = [br EXCEPT !.link = Hangs(@)]
  BY DEF BrokerCloses
<1>2. Broker(br') /\ br'.link.conn = "closed" /\ br'.rcvd = br.rcvd
  BY <1>0, <1>1 DEF Broker, Hangs, LinkFields
<1>3. Wire(c, up, br')
  BY <1>0, <1>2 DEF Wire, NoBroker
<1>4. Gapless(c, up, br')
  BY <1>0, <1>2 DEF Gapless
<1> QED  BY <1>0, <1>1, <1>2, <1>3, <1>4 DEF Inv, I

(* Every step preserves the invariant. *)
LEMMA NextKeeps ==
    ASSUME Inv, [Next]_vars
    PROVE  Inv'
<1>1. CASE mq_open_connection
  BY <1>1, OpenKeeps
<1>2. CASE amqp_basic_publish
  BY <1>2, PublishKeeps
<1>3. CASE mq_clean
  BY <1>3, CleanKeeps
<1>4. CASE ClientStep
  BY <1>4, TrySendKeeps, SendErrorKeeps, SendTimeoutKeeps, HeartbeatKeeps, QueuedKeeps,
     ConsumeKeeps, RecvKeeps, RecvClosedKeeps, TryRecvTimeoutKeeps, WaitTimeoutKeeps
     DEF ClientStep
<1>5. CASE Tick
  BY <1>5, TickKeeps
<1>6. CASE BrokerStep
  <2>1. CASE BrokerBeats
    BY <2>1 DEF BrokerBeats, Inv
  <2> QED  BY <1>6, <2>1, BrokerReadsKeeps, BrokerClosesKeeps DEF BrokerStep
<1>7. CASE UNCHANGED vars
  BY <1>7 DEF vars, Inv
<1> QED  BY <1>1, <1>2, <1>3, <1>4, <1>5, <1>6, <1>7 DEF Next

(* What is on its way to the broker are whole frames in order, however   *)
(* often amqp_try_send was interrupted by a full socket, unless a call   *)
(* gave up in the middle of one: for any number of messages, connections *)
(* and heartbeats and any socket that takes the handshake.               *)
THEOREM WholeFramesHold == Spec => []WholeFrames
<1>1. Inv => WholeFrames
  BY DEF Inv, I, Wire, Paired, WholeFrames
<1> QED  BY <1>1, InitInv, NextKeeps, PTL DEF Spec

(* A client without heartbeats never loses a message in the middle: the  *)
(* messages that the broker has are the first ones of the session,       *)
(* whatever it refuses, however it closes the connection, and also after *)
(* a login on a connection state that was used before.                   *)
THEOREM NoGapHolds == Spec => []NoGap
<1>1. Inv => NoGap
  <2> SUFFICES ASSUME Inv, c.hb = 0
               PROVE  \A i \in 1..Len(br.rcvd) : br.rcvd[i] = i
    BY DEF NoGap
  <2>1. CASE c.want = 0
    BY <2>1 DEF Inv, I, Gapless
  <2>2. CASE c.want # 0
    <3>1. c.msg = 0
      BY <2>2 DEF Inv, I, Memory, Timing
    <3>2. br.rcvd = << >>
      BY <3>1 DEF Inv, I, Wire
    <3> QED  BY <3>2
  <2> QED  BY <2>1, <2>2
<1> QED  BY <1>1, InitInv, NextKeeps, PTL DEF Spec
=============================================================================

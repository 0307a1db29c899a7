------------------------ MODULE SessionChannelProofs ------------------------
(***************************************************************************)
(* Proofs about the session channel of sshd, for every size of window,     *)
(* packet, pipe and socket.                                                *)
(*                                                                         *)
(* None of the five invariants of SessionChannel is inductive: what a      *)
(* channel owes the client is spread over the pipes, the buffers, the      *)
(* packets not written, the socket, and what client and child have         *)
(* counted.  The invariant K states what these add up to, which messages   *)
(* may follow which, and how the states of nchan.c, the flags, the         *)
(* descriptors and the session go with one another.  It takes its parts    *)
(* as arguments, because one step of the loop calls several functions of   *)
(* channels.c, nchan.c and session.c in a row.  The proof goes             *)
(*   - from the smallest changes of these functions (a message sent, a     *)
(*     flag set, a buffer filled), each of which preserves K,              *)
(*   - over the functions, made of those changes,                          *)
(*   - to the actions of the specification, made of the functions.         *)
(***************************************************************************)
EXTENDS SessionChannel, SequenceTheorems, FunctionTheorems, FiniteSetTheorems, TLAPS

(* What the two ends say to one another: the types of the SSH messages of  *)
(* a session channel.                                                      *)
Words == {"OPEN", "exec", "subsystem", "CONFIRM", "ADJUST", "SUCCESS", "FAILURE",
          "DATA", "EXT", "EOF", "EOW", "STATUS", "CLOSE"}

(* A message is its type and a count, of bytes or of window. *)
Messages == Words \X Nat

-----------------------------------------------------------------------------
(* What a queue carries. *)

(* An interval from one has as many elements as its end says. *)
LEMMA UpTo ==
    ASSUME NEW n \in Nat
    PROVE  IsFiniteSet(1 .. n) /\ Cardinality(1 .. n) = n
  <1>1. 1 \in Int /\ n \in Int
    OBVIOUS
  <1>2. IsFiniteSet(1 .. n) /\ Cardinality(1 .. n) = IF 1 > n THEN 0 ELSE n - 1 + 1
    BY <1>1, FS_Interval, Zenon
  <1> QED
    BY <1>2

(* A byte of a queue is a place in it and a place in the message there. *)
LEMMA Unit ==
    ASSUME NEW q \in Seq(Messages), NEW m, NEW x
    PROVE  x \in Units(q, m) <=>
               \E i \in 1 .. Len(q) : \E k \in 1 .. q[i][2] : q[i][1] = m /\ x = <<i, k>>
  BY DEF Units

(* A queue carries finitely many bytes of any type of message. *)
LEMMA UnitsFinite ==
    ASSUME NEW q \in Seq(Messages), NEW m
    PROVE  IsFiniteSet(Units(q, m)) /\ Bytes(q, m) \in Nat
  <1> DEFINE At == {j \in 1 .. Len(q) : q[j][1] = m}
             All == {{i} \X (1 .. q[i][2]) : i \in At}
  <1>1. Len(q) \in Nat /\ \A i \in 1 .. Len(q) : q[i][2] \in Nat
    BY DEF Messages
  <1>2. IsFiniteSet(1 .. Len(q))
    BY <1>1, UpTo
  <1>3. IsFiniteSet(At)
    BY <1>2, FS_Subset
  <1>4. \A T \in All : IsFiniteSet(T)
    <2>1. TAKE T \in All
    <2>2. PICK i \in At : T = {i} \X (1 .. q[i][2])
      OBVIOUS
    <2>3. IsFiniteSet({i})
      BY FS_Singleton
    <2>4. IsFiniteSet(1 .. q[i][2])
      BY <1>1, UpTo
    <2> QED
      BY <2>2, <2>3, <2>4, FS_Product
  <1>5. IsFiniteSet(All)
    <2> DEFINE f == [i \in At |-> {i} \X (1 .. q[i][2])]
    <2>1. f \in [At -> All] /\ \A T \in All : \E i \in At : f[i] = T
      OBVIOUS
    <2> HIDE DEF f, At, All
    <2>2. f \in Surjection(At, All)
      BY <2>1, Fun_IsSurj
    <2> QED
      BY <1>3, <2>2, FS_Surjection
  <1>6. Units(q, m) = UNION All
    BY DEF Units
  <1>7. IsFiniteSet(Units(q, m))
    BY <1>4, <1>5, <1>6, FS_UNION
  <1> QED
    BY <1>7, FS_CardinalityType DEF Bytes

(* An empty queue carries nothing. *)
LEMMA BytesEmpty ==
    ASSUME NEW m
    PROVE  Bytes(<< >>, m) = 0
  <1>1. Units(<< >>, m) = {}
    BY DEF Units
  <1> QED
    BY <1>1, FS_EmptySet DEF Bytes

(* One message carries its count. *)
LEMMA BytesOne ==
    ASSUME NEW x \in Messages, NEW m
    PROVE  Bytes(<<x>>, m) = IF x[1] = m THEN x[2] ELSE 0
  <1>1. <<x>> \in Seq(Messages) /\ Len(<<x>>) = 1 /\ <<x>>[1] = x /\ x[2] \in Nat
    BY DEF Messages
  <1>2. CASE x[1] = m
    <2>1. Units(<<x>>, m) = {1} \X (1 .. x[2])
      BY <1>1, <1>2 DEF Units
    <2>2. IsFiniteSet({1}) /\ Cardinality({1}) = 1
      BY FS_Singleton
    <2>3. IsFiniteSet(1 .. x[2]) /\ Cardinality(1 .. x[2]) = x[2]
      BY <1>1, UpTo
    <2>4. Cardinality({1} \X (1 .. x[2])) = Cardinality({1}) * Cardinality(1 .. x[2])
      BY <2>2, <2>3, FS_Product, Zenon
    <2>5. Cardinality({1} \X (1 .. x[2])) = x[2]
      BY <1>1, <2>2, <2>3, <2>4
    <2> QED
      BY <1>1, <1>2, <2>1, <2>5 DEF Bytes
  <1>3. CASE x[1] # m
    <2>1. Units(<<x>>, m) = {}
      BY <1>1, <1>3 DEF Units
    <2> QED
      BY <1>3, <2>1, FS_EmptySet DEF Bytes
  <1> QED
    BY <1>2, <1>3

(* Two queues behind one another carry what each of them carries. *)
LEMMA BytesConcat ==
    ASSUME NEW p \in Seq(Messages), NEW q \in Seq(Messages), NEW m
    PROVE  Bytes(p \o q, m) = Bytes(p, m) + Bytes(q, m)
  <1> DEFINE r == p \o q
             S == Units(q, m)
             T == {<<Len(p) + x[1], x[2]>> : x \in S}
             f == [x \in S |-> <<Len(p) + x[1], x[2]>>]
  <1>1. /\ r \in Seq(Messages) /\ Len(p) \in Nat /\ Len(q) \in Nat
        /\ Len(r) = Len(p) + Len(q)
        /\ \A i \in 1 .. Len(p) : r[i] = p[i]
        /\ \A i \in 1 .. Len(q) : r[Len(p) + i] = q[i]
    BY ConcatProperties
  <1> HIDE DEF r
  <1>0. r \in Seq(Messages)
    BY <1>1
  <1>2. \A x \in S : x = <<x[1], x[2]>> /\ x[1] \in 1 .. Len(q) /\ x[2] \in 1 .. q[x[1]][2]
                     /\ q[x[1]][1] = m
    BY Unit
  <1>3. Bytes(q, m) = Cardinality(T) /\ IsFiniteSet(T)
    <2>1. f \in [S -> T] /\ \A y \in T : \E x \in S : f[x] = y
      OBVIOUS
    <2>2. \A x, y \in S : f[x] = f[y] => x = y
      <3>1. SUFFICES ASSUME NEW x \in S, NEW y \in S, f[x] = f[y]
                     PROVE  x = y
        OBVIOUS
      <3>2. Len(p) + x[1] = Len(p) + y[1] /\ x[2] = y[2]
        BY <3>1
      <3>3. x[1] = y[1]
        BY <1>1, <1>2, <3>2
      <3> QED
        BY <1>2, <3>2, <3>3
    <2> HIDE DEF f, S, T
    <2>3. f \in Bijection(S, T)
      BY <2>1, <2>2, Fun_IsBij
    <2>4. IsFiniteSet(S)
      BY UnitsFinite DEF S
    <2> QED
      BY <2>3, <2>4, FS_Bijection DEF ExistsBijection, Bytes, S
  <1>4. Units(r, m) = Units(p, m) \cup T
    <2>1. ASSUME NEW x \in Units(p, m) PROVE x \in Units(r, m)
      <3>1. PICK i \in 1 .. Len(p) : \E k \in 1 .. p[i][2] : p[i][1] = m /\ x = <<i, k>>
        BY Unit
      <3>2. i \in 1 .. Len(r) /\ r[i] = p[i]
        BY <1>1
      <3> QED
        BY <1>1, <3>1, <3>2, Unit
    <2>2. ASSUME NEW x \in T PROVE x \in Units(r, m)
      <3>0. PICK i \in 1 .. Len(q) :
                \E k \in 1 .. q[i][2] : q[i][1] = m /\ x = <<Len(p) + i, k>>
        BY <1>2
      <3>1. PICK k \in 1 .. q[i][2] : q[i][1] = m /\ x = <<Len(p) + i, k>>
        BY <3>0
      <3>2. Len(p) + i \in 1 .. Len(r)
        BY <1>1
      <3> QED
        BY <1>1, <3>1, <3>2, Unit
    <2>3. ASSUME NEW x \in Units(r, m) PROVE x \in Units(p, m) \cup T
      <3>0. PICK i \in 1 .. Len(r) :
                \E k \in 1 .. r[i][2] : r[i][1] = m /\ x = <<i, k>>
        BY <1>0, Unit
      <3>1. PICK k \in 1 .. r[i][2] : r[i][1] = m /\ x = <<i, k>>
        BY <3>0
      <3>2. CASE i <= Len(p)
        BY <1>1, <3>1, <3>2, Unit
      <3>3. CASE i > Len(p)
        <4>1. PICK j \in 1 .. Len(q) : i = Len(p) + j
          <5>1. i - Len(p) \in 1 .. Len(q) /\ i = Len(p) + (i - Len(p))
            BY <1>1, <3>3
          <5> QED
            BY <5>1
        <4>2. r[i] = q[j]
          BY <1>1, <4>1
        <4>3. k \in 1 .. q[j][2] /\ q[j][1] = m
          BY <3>1, <4>2
        <4>4. <<j, k>> \in S
          BY <4>3, Unit
        <4>5. <<j, k>>[1] = j /\ <<j, k>>[2] = k
          OBVIOUS
        <4>6. x = <<Len(p) + <<j, k>>[1], <<j, k>>[2]>>
          BY <3>1, <4>1, <4>5
        <4> QED
          BY <4>4, <4>6
      <3> QED
        BY <1>1, <3>2, <3>3
    <2> QED
      BY <2>1, <2>2, <2>3
  <1>5. Units(p, m) \cap T = {}
    <2>1. SUFFICES ASSUME NEW x \in Units(p, m), x \in T PROVE FALSE
      OBVIOUS
    <2>2. PICK i \in 1 .. Len(p) : x[1] = i
      BY Unit
    <2>3. PICK j \in 1 .. Len(q) : x[1] = Len(p) + j
      BY <1>2, <2>1
    <2> QED
      BY <1>1, <2>2, <2>3
  <1>6. IsFiniteSet(Units(p, m)) /\ Bytes(p, m) \in Nat
    BY UnitsFinite
  <1> HIDE DEF T
  <1>7. Cardinality(Units(p, m) \cup T) = Cardinality(Units(p, m)) + Cardinality(T) - 0
    BY <1>3, <1>5, <1>6, FS_Union, FS_EmptySet
  <1>8. Bytes(q, m) \in Nat
    BY UnitsFinite
  <1> QED
    BY <1>3, <1>4, <1>6, <1>7, <1>8 DEF Bytes, r

(* A message put at the end of a queue adds what it carries. *)
LEMMA BytesAppend ==
    ASSUME NEW q \in Seq(Messages), NEW x \in Messages, NEW m
    PROVE  Bytes(Append(q, x), m) = Bytes(q, m) + IF x[1] = m THEN x[2] ELSE 0
  <1>1. Append(q, x) = q \o <<x>> /\ <<x>> \in Seq(Messages)
    BY AppendIsConcat
  <1>2. Bytes(q \o <<x>>, m) = Bytes(q, m) + Bytes(<<x>>, m)
    BY <1>1, BytesConcat
  <1> QED
    BY <1>1, <1>2, BytesOne

(* The message at the head of a queue takes with it what it carries. *)
LEMMA BytesTail ==
    ASSUME NEW q \in Seq(Messages), q # << >>, NEW m
    PROVE  Bytes(q, m) = Bytes(Tail(q), m) + IF Head(q)[1] = m THEN Head(q)[2] ELSE 0
  <1>1. Head(q) \in Messages /\ Tail(q) \in Seq(Messages) /\ <<Head(q)>> \in Seq(Messages)
    BY HeadTailProperties
  <1>2. q = <<Head(q)>> \o Tail(q)
    <2> DEFINE r == <<Head(q)>> \o Tail(q)
    <2>1. Len(q) \in Nat /\ Len(q) >= 1 /\ Len(Tail(q)) = Len(q) - 1
          /\ \A i \in 1 .. Len(Tail(q)) : Tail(q)[i] = q[i + 1]
      BY HeadTailProperties, EmptySeq, LenProperties
    <2>2. /\ r \in Seq(Messages) /\ Len(r) = 1 + Len(Tail(q))
          /\ \A i \in 1 .. 1 + Len(Tail(q)) :
                r[i] = IF i <= 1 THEN <<Head(q)>>[i] ELSE Tail(q)[i - 1]
      BY <1>1, ConcatProperties
    <2>3. \A i \in 1 .. Len(q) : q[i] = r[i]
      BY <2>1, <2>2
    <2> HIDE DEF r
    <2>4. q = r
      BY <2>1, <2>2, <2>3, SeqEqual
    <2> QED
      BY <2>4 DEF r
  <1>3. Bytes(<<Head(q)>> \o Tail(q), m) = Bytes(<<Head(q)>>, m) + Bytes(Tail(q), m)
    BY <1>1, BytesConcat
  <1>4. Bytes(Tail(q), m) \in Nat /\ Bytes(<<Head(q)>>, m) \in Nat
    BY <1>1, UnitsFinite
  <1>5. Bytes(<<Head(q)>>, m) = IF Head(q)[1] = m THEN Head(q)[2] ELSE 0
    BY <1>1, BytesOne
  <1>6. Bytes(q, m) = Bytes(<<Head(q)>>, m) + Bytes(Tail(q), m)
    BY <1>2, <1>3
  <1> HIDE <1>2
  <1> QED
    BY <1>4, <1>5, <1>6

(* A queue without a message of the type carries nothing of it. *)
LEMMA BytesNone ==
    ASSUME NEW q \in Seq(Messages), NEW m, \A i \in 1 .. Len(q) : q[i][1] # m
    PROVE  Bytes(q, m) = 0
  <1>1. Units(q, m) = {}
    BY Unit
  <1> QED
    BY <1>1, FS_EmptySet DEF Bytes

-----------------------------------------------------------------------------
(* The inductive invariant. *)

(* The flags of a channel, CHAN_EOF_SENT to CHAN_CLOSE_RCVD. *)
Flags == {"eof_sent", "eof_rcvd", "close_sent", "close_rcvd"}

(* The types of the records: the channel, sshd around it, the client, the  *)
(* child and the pipes between sshd and the child.                         *)
Channels ==
    [type : {"none", "larval", "open"}, istate : {"open", "drain", "closed"},
     ostate : {"open", "drain", "closed"}, flags : SUBSET Flags,
     input : Nat, output : Nat, extended : Nat, usage : {"ignore", "read"},
     local_window : Int, local_consumed : Nat, remote_window : Nat,
     rfd : BOOLEAN, wfd : BOOLEAN, efd : BOOLEAN,
     detach_user : BOOLEAN, detach_close : BOOLEAN]
Sessions == [c : Channels, used : BOOLEAN, pid : BOOLEAN, over : BOOLEAN,
             out : Seq(Messages)]
Clients == [stage : {"new", "opening", "larval", "waiting", "running", "refused", "gone"},
            kind : {"none", "exec", "subsystem"}, win : Nat, sent : Nat,
            eof : BOOLEAN, close : BOOLEAN, got : Nat, errs : Nat,
            seen : SUBSET Words, early : BOOLEAN]
Children == [state : {"none", "running", "zombie", "reaped"}, stdin : BOOLEAN,
             got : Nat, wrote : Nat, errs : Nat]
Pipes == [in : 0 .. InPipe, out : 0 .. OutPipe, err : 0 .. OutPipe]

(* q holds a message m; its first is m with the count n; it ends in r; the *)
(* client cl has seen m, or will when it has read q.                       *)
Holds(q, m) == \E i \in 1 .. Len(q) : q[i][1] = m
First(q, m, n) == q # << >> /\ Head(q)[1] = m /\ Head(q)[2] = n
EndsIn(q, r) == r \in Seq(Messages) /\ \E a \in Seq(Messages) : q = a \o r
Told(q, cl, m) == m \in cl.seen \/ Holds(q, m)

(* The packets of the client. It opens, asks once, and then sends data,    *)
(* EOF and window until it closes; nothing follows its CLOSE, and no data  *)
(* its EOF; what has been received is flagged.                             *)
Spoken(t, in, cl) ==
    /\ t.c.type = "none" => in = << >> \/ in = <<<<"OPEN", ClientWindow>>>>
    /\ t.c.type = "larval" =>
          \A i \in 1 .. Len(in) :
              \/ in[i][1] = "CLOSE"
              \/ i = 1 /\ in[i][1] \in {"exec", "subsystem"} /\ in[i][1] = cl.kind
    /\ t.c.type = "open" =>
          \A i \in 1 .. Len(in) : in[i][1] \in {"DATA", "EOF", "ADJUST", "CLOSE"}
    /\ \A i \in 1 .. Len(in) : in[i][1] = "CLOSE" => i = Len(in) /\ cl.close
    /\ \A i \in 1 .. Len(in) : in[i][1] = "EOF" =>
          cl.eof /\ \A j \in 1 .. Len(in) : i < j => in[j][1] # "DATA"
    /\ \A i \in 1 .. Len(in) : in[i][1] = "DATA" => in[i][2] \in 1 .. MaxPacket
    /\ Has(t, "close_rcvd") => in = << >> /\ cl.close
    /\ Has(t, "eof_rcvd") => cl.eof /\ ~Holds(in, "DATA")

(* A client that has not been granted anything, and has got nothing. *)
Idle(cl) ==
    /\ cl.win = 0 /\ cl.sent = 0 /\ cl.got = 0 /\ cl.errs = 0 /\ cl.seen = {} /\ ~cl.eof

(* How far the client is, and how far the channel is: which of the two may *)
(* be ahead, and by which messages.                                        *)
Staged(t, in, q, cl, ch) ==
    /\ cl.stage = "new" => t.c.type = "none" /\ in = << >>
    /\ cl.stage = "new" \/ (t.c.type = "none" /\ in # << >>) =>
          /\ q = << >> /\ Idle(cl) /\ ~cl.close /\ ~cl.early /\ ch.state = "none"
    /\ t.c.type = "none" /\ in # << >> => cl.stage \in {"opening", "gone"}
    /\ t.c.type = "none" => cl.stage \in {"new", "opening", "gone"} \/ cl.close
    /\ t.c.type = "larval" =>
          /\ Idle(cl) /\ ch.state = "none"
          /\ \A i \in 1 .. Len(q) : q[i][1] \in {"CONFIRM", "FAILURE"}
    /\ cl.stage = "opening" =>
          \/ t.c.type = "none" /\ in # << >>
          \/ t.c.type = "larval" /\ in = << >> /\ q = <<<<"CONFIRM", 0>>>> /\ ~cl.close
    /\ Holds(q, "CONFIRM") => cl.stage \in {"opening", "gone"}
    /\ cl.stage = "larval" => cl.close \/ (t.c.type = "larval" /\ in = << >>)
    /\ cl.stage = "running" => cl.close \/ t.c.type = "open"
    /\ \A i \in 1 .. Len(q) : q[i][1] \in {"SUCCESS", "DATA", "EXT"}
       => cl.close \/ t.c.type = "open"

(* The channel, the session and the child. A session has a channel         *)
(* (detach_user is its callback), a pid while its child is not collected,  *)
(* and the descriptors and flags of a channel fit the states of its two    *)
(* halves: nchan.c sends EOF from a closed input only, CLOSE when both     *)
(* halves are closed and the child is collected, and the output drains     *)
(* only after an EOF or a CLOSE of the client.                             *)
Tied(t, cl, ch, p) ==
    /\ ~t.over
    /\ t.used <=> t.c.type # "none"
    /\ t.c.detach_user <=> t.c.type # "none"
    /\ t.pid <=> ch.state \in {"running", "zombie"}
    /\ t.pid => t.c.type = "open"
    /\ ch.stdin => ch.state = "running"
    /\ ch.state = "none" =>
          /\ ch.got = 0 /\ ch.wrote = 0 /\ ch.errs = 0
          /\ p.in = 0 /\ p.out = 0 /\ p.err = 0
    /\ t.c.type = "none" => t.c = NoChannel
    /\ t.c.type = "larval" =>
          /\ t.c.flags \subseteq {"close_rcvd"}
          /\ t.c.istate = t.c.ostate /\ t.c.istate # "drain"
          /\ t.c.istate = "closed" <=> Has(t, "close_rcvd")
          /\ t.c.input = 0 /\ t.c.output = 0 /\ t.c.extended = 0
          /\ t.c.local_window = 0 /\ t.c.local_consumed = 0
          /\ ~t.c.rfd /\ ~t.c.wfd /\ ~t.c.efd /\ ~t.c.detach_close
    /\ t.c.type = "open" =>
          /\ ch.state # "none"
          /\ t.c.detach_close <=> ch.state = "reaped"
          /\ t.c.wfd <=> t.c.ostate # "closed"
          /\ t.c.rfd <=> t.c.istate = "open"
          /\ t.c.ostate = "closed" => t.c.output = 0
          /\ Has(t, "close_sent") => BothClosed(t) /\ t.c.detach_close
          /\ Has(t, "eof_sent") => t.c.istate = "closed"
          /\ Has(t, "close_rcvd") => t.c.istate = "closed"
          /\ t.c.ostate = "drain" \/ (t.c.ostate = "closed" /\ ch.stdin) =>
                Has(t, "eof_rcvd") \/ Has(t, "close_rcvd")
          /\ t.c.usage = "read" <=> cl.kind = "exec"

(* The windows. What the client may send is what sshd expects, less what   *)
(* is on its way, and what sshd expects is what is neither consumed nor    *)
(* buffered; once output is closed data may be lost, and once the client   *)
(* is gone packets are, so that only the inequality is left.               *)
Windows(t, in, q, cl) ==
    /\ t.c.type = "open" =>
          /\ cl.win + Bytes(in, "DATA") + Bytes(q, "ADJUST") <= t.c.local_window
          /\ cl.stage # "gone" =>
                cl.win + Bytes(in, "DATA") + Bytes(q, "ADJUST") = t.c.local_window
          /\ t.c.local_window + t.c.local_consumed + t.c.output <= WindowMax
          /\ t.c.ostate # "closed" =>
                t.c.local_window + t.c.local_consumed + t.c.output = WindowMax
    /\ t.c.type # "none" =>
          LET sum == t.c.remote_window + Bytes(in, "ADJUST") + Bytes(q, "DATA")
                     + Bytes(q, "EXT")
          IN  sum <= ClientWindow /\ (~cl.close /\ cl.stage # "gone" => sum = ClientWindow)

(* Every byte the client sent is read by the child, in its pipe, buffered  *)
(* or on its way, while the child reads.                                   *)
InputKept(t, in, cl, ch, p) ==
    ch.stdin => ch.got + p.in + t.c.output + Bytes(in, "DATA") = cl.sent

(* Every byte the child wrote has reached the client, is on its way,       *)
(* buffered or in the pipe. Input closes (chan_ibuf_empty) with pipe and   *)
(* buffer empty and the child dead.                                        *)
OutputKept(t, q, cl, ch, p) ==
    t.c.type = "open" /\ ~Has(t, "close_rcvd") =>
          /\ cl.stage # "gone" => cl.got + Bytes(q, "DATA") + t.c.input + p.out = ch.wrote
          /\ cl.stage # "gone" /\ t.c.usage = "read" =>
                cl.errs + Bytes(q, "EXT") + t.c.extended + p.err = ch.errs
          /\ t.c.istate # "open" => p.out = 0 /\ ch.state # "running"
          /\ ~t.c.efd => p.err = 0 /\ ch.state # "running"
          /\ t.c.istate = "closed" =>
                /\ t.c.input = 0 /\ Has(t, "eof_sent")
                /\ t.c.usage = "read" => ~t.c.efd /\ t.c.extended = 0

(* The messages q for a client that has seen the types in seen: nothing    *)
(* after CLOSE, no data after EOF, one EOF and one exit status.            *)
Orderly(seen, q) ==
    \A i \in 1 .. Len(q) :
        LET Before(m) == m \in seen \/ \E j \in 1 .. i - 1 : q[j][1] = m
        IN  /\ ~Before("CLOSE")
            /\ q[i][1] \in {"DATA", "EXT", "EOF"} => ~Before("EOF")
            /\ q[i][1] = "STATUS" => ~Before("STATUS")

(* What the client has been told is so, and what has happened it is told:  *)
(* each flag of the channel is set with the message it stands for.         *)
Truthful(t, q, cl, ch) ==
    /\ Told(q, cl, "CLOSE") => t.c.type = "none" \/ Has(t, "close_sent")
    /\ Told(q, cl, "EOF") => t.c.type = "none" \/ Has(t, "eof_sent")
    /\ Told(q, cl, "STATUS") => ch.state = "reaped"
    /\ t.c.type = "open" /\ cl.stage # "gone" =>
          /\ Has(t, "eof_sent") => Told(q, cl, "EOF")
          /\ ch.state = "reaped" => Told(q, cl, "STATUS")
    /\ Orderly(cl.seen, q)

(* Before a CLOSE that does not answer the client's own comes all that the *)
(* child has written, EOF and the exit status.                             *)
Complete(q, cl, ch) ==
    /\ cl.close => cl.early \/ "CLOSE" \in cl.seen
    /\ cl.early => cl.close
    /\ ~cl.early /\ ("CLOSE" \in cl.seen \/ (cl.stage # "gone" /\ Holds(q, "CLOSE"))) =>
          /\ ch.state # "running"
          /\ cl.got + Bytes(q, "DATA") = ch.wrote
          /\ cl.kind = "exec" => cl.errs + Bytes(q, "EXT") = ch.errs
          /\ Told(q, cl, "EOF") /\ Told(q, cl, "STATUS")

(* The types of what K is about. *)
Typed(t, in, q, cl, ch, p) ==
    /\ t \in Sessions /\ in \in Seq(Messages) /\ q \in Seq(Messages)
    /\ cl \in Clients /\ ch \in Children /\ p \in Pipes

(* The inductive invariant of an open connection. t is the memory of sshd, *)
(* in are the packets from the client on their way to the channel, q the   *)
(* messages on their way to the client, cl is the client, ch the child and *)
(* p the pipes.                                                            *)
K(t, in, q, cl, ch, p) ==
    /\ Typed(t, in, q, cl, ch, p)
    /\ Spoken(t, in, cl)
    /\ Staged(t, in, q, cl, ch)
    /\ Tied(t, cl, ch, p)
    /\ Windows(t, in, q, cl)
    /\ InputKept(t, in, cl, ch, p)
    /\ OutputKept(t, q, cl, ch, p)
    /\ Truthful(t, q, cl, ch)
    /\ Complete(q, cl, ch)

-----------------------------------------------------------------------------

(* What a queue is after a message has been put at its end. *)
LEMMA Said ==
    ASSUME NEW q \in Seq(Messages), NEW a \in Words, NEW n \in Nat
    PROVE  LET r == Append(q, <<a, n>>)
           IN  /\ r \in Seq(Messages) /\ r # << >>
               /\ Len(q) \in Nat /\ Len(r) = Len(q) + 1
               /\ \A i \in 1 .. Len(q) : r[i] = q[i]
               /\ r[Len(q) + 1][1] = a /\ r[Len(q) + 1][2] = n
               /\ \A m : Holds(r, m) <=> Holds(q, m) \/ a = m
  <1> DEFINE x == <<a, n>>
  <1>1. x \in Messages /\ x[1] = a /\ x[2] = n
    BY DEF Messages
  <1> HIDE DEF x
  <1>2. /\ Append(q, x) \in Seq(Messages) /\ Append(q, x) # << >>
        /\ Len(q) \in Nat /\ Len(Append(q, x)) = Len(q) + 1
        /\ \A i \in 1 .. Len(q) : Append(q, x)[i] = q[i]
        /\ Append(q, x)[Len(q) + 1] = x
    BY <1>1, AppendProperties
  <1>3. \A m : Holds(Append(q, x), m) <=> Holds(q, m) \/ a = m
    BY <1>1, <1>2 DEF Holds
  <1> QED
    BY <1>1, <1>2, <1>3 DEF x

(* And what it carries. *)
LEMMA SaidBytes ==
    ASSUME NEW q \in Seq(Messages), NEW a \in Words, NEW n \in Nat, NEW m
    PROVE  /\ Bytes(q, m) \in Nat
           /\ a = m => Bytes(Append(q, <<a, n>>), m) = Bytes(q, m) + n
           /\ a # m => Bytes(Append(q, <<a, n>>), m) = Bytes(q, m)
  <1> DEFINE x == <<a, n>>
  <1>1. x \in Messages /\ x[1] = a /\ x[2] = n
    BY DEF Messages
  <1> HIDE DEF x
  <1>2. Bytes(q, m) \in Nat
    BY UnitsFinite
  <1>3. Bytes(Append(q, x), m) = Bytes(q, m) + IF x[1] = m THEN x[2] ELSE 0
    BY <1>1, BytesAppend
  <1> QED
    BY <1>1, <1>2, <1>3 DEF x

(* Send touches the packets to write, Flag the flags and Drain the output  *)
(* of the channel, and nothing else.                                       *)
LEMMA SendFields ==
    ASSUME NEW t \in Sessions, NEW a \in Words, NEW n \in Nat
    PROVE  /\ Send(t, a, n) \in Sessions
           /\ Send(t, a, n).c = t.c /\ Send(t, a, n).used = t.used
           /\ Send(t, a, n).pid = t.pid /\ Send(t, a, n).over = t.over
           /\ Send(t, a, n).out = Append(t.out, <<a, n>>)
  <1>1. t.out \in Seq(Messages)
    BY DEF Sessions
  <1>2. Append(t.out, <<a, n>>) \in Seq(Messages)
    BY <1>1, Said
  <1> QED
    BY <1>2 DEF Sessions, Send

LEMMA FlagFields ==
    ASSUME NEW t \in Sessions, NEW f \in Flags
    PROVE  /\ Flag(t, f) \in Sessions
           /\ Flag(t, f).c = [t.c EXCEPT !.flags = @ \cup {f}]
           /\ Flag(t, f).used = t.used
           /\ Flag(t, f).pid = t.pid /\ Flag(t, f).over = t.over
           /\ Flag(t, f).out = t.out
  <1>1. t.c \in Channels
    BY DEF Sessions
  <1>2. [t.c EXCEPT !.flags = @ \cup {f}] \in Channels
    BY <1>1 DEF Channels
  <1> QED
    BY <1>2 DEF Sessions, Flag

LEMMA DrainFields ==
    ASSUME NEW f \in Sessions
    PROVE  /\ Drain(f) \in Sessions
           /\ Drain(f).c = [f.c EXCEPT !.ostate = IF @ = "open" THEN "drain" ELSE @]
           /\ Drain(f).used = f.used /\ Drain(f).pid = f.pid /\ Drain(f).over = f.over
           /\ Drain(f).out = f.out
  <1>1. f.c \in Channels
    BY DEF Sessions
  <1>2. f.c.ostate # "open" => f.c = [f.c EXCEPT !.ostate =
                                      IF @ = "open" THEN "drain" ELSE @]
    BY <1>1 DEF Channels
  <1>3. CASE f.c.ostate = "open"
    BY <1>1, <1>3 DEF Sessions, Channels, Drain
  <1>4. CASE f.c.ostate # "open"
    BY <1>2, <1>4 DEF Drain
  <1> QED
    BY <1>3, <1>4

(* A message may follow what has been sent when CLOSE has not been sent,   *)
(* and, for data, EOF has not been, and, for the exit status, it has not   *)
(* been.                                                                   *)
LEMMA OrderlySaid ==
    ASSUME NEW q \in Seq(Messages), NEW a \in Words, NEW n \in Nat, NEW seen,
           Orderly(seen, q), "CLOSE" \notin seen, ~Holds(q, "CLOSE"),
           a \in {"DATA", "EXT", "EOF"} => "EOF" \notin seen /\ ~Holds(q, "EOF"),
           a = "STATUS" => "STATUS" \notin seen /\ ~Holds(q, "STATUS")
    PROVE  Orderly(seen, Append(q, <<a, n>>))
  <1> DEFINE r == Append(q, <<a, n>>)
  <1>1. /\ Len(q) \in Nat /\ Len(r) = Len(q) + 1
        /\ \A i \in 1 .. Len(q) : r[i] = q[i]
        /\ r[Len(q) + 1][1] = a
    BY Said
  <1> HIDE DEF r
  <1>2. ASSUME NEW i \in 1 .. Len(r)
        PROVE  /\ ~("CLOSE" \in seen \/ \E j \in 1 .. i - 1 : r[j][1] = "CLOSE")
               /\ r[i][1] \in {"DATA", "EXT", "EOF"} =>
                     ~("EOF" \in seen \/ \E j \in 1 .. i - 1 : r[j][1] = "EOF")
               /\ r[i][1] = "STATUS" =>
                     ~("STATUS" \in seen \/ \E j \in 1 .. i - 1 : r[j][1] = "STATUS")
    <2>1. CASE i \in 1 .. Len(q)
      <3>1. \A j \in 1 .. i - 1 : r[j] = q[j]
        BY <1>1, <2>1
      <3> QED
        BY <1>1, <2>1, <3>1 DEF Orderly
    <2>2. CASE i = Len(q) + 1
      <3>1. i - 1 = Len(q) /\ r[i][1] = a
        BY <1>1, <2>2
      <3> QED
        BY <1>1, <3>1 DEF Holds
    <2> QED
      BY <1>1, <2>1, <2>2
  <1>3. Orderly(seen, r)
    BY <1>2 DEF Orderly
  <1> QED
    BY <1>3 DEF r

(* The types of the messages and the flags that sshd uses. *)
LEMMA WordFacts ==
    /\ {"CONFIRM", "ADJUST", "SUCCESS", "FAILURE", "DATA", "EXT", "EOF", "EOW", "STATUS",
        "CLOSE", "OPEN", "exec", "subsystem"} \subseteq Words
    /\ "eof_sent" \in Flags /\ "eof_rcvd" \in Flags
    /\ "close_sent" \in Flags /\ "close_rcvd" \in Flags
  BY DEF Words, Flags

(* A message that follows no CLOSE does not matter to a client that waits  *)
(* for one.                                                                *)
LEMMA CompleteSaid ==
    ASSUME NEW q \in Seq(Messages), NEW a \in Words, NEW n \in Nat, NEW cl, NEW ch,
           Complete(q, cl, ch), a # "CLOSE", ~Told(q, cl, "CLOSE")
    PROVE  Complete(Append(q, <<a, n>>), cl, ch)
  <1>1. ~Holds(Append(q, <<a, n>>), "CLOSE")
    BY Said DEF Told
  <1> QED
    BY <1>1 DEF Complete, Told

(* A slot without a channel. *)
LEMMA NoChannelFacts ==
    /\ NoChannel \in Channels
    /\ NoChannel.type = "none" /\ NoChannel.flags = {} /\ ~NoChannel.detach_user
    /\ ~NoChannel.detach_close /\ NoChannel.input = 0 /\ NoChannel.output = 0
    /\ NoChannel.extended = 0 /\ NoChannel.local_window = 0
    /\ NoChannel.local_consumed = 0 /\ NoChannel.remote_window = 0
    /\ ~NoChannel.rfd /\ ~NoChannel.wfd /\ ~NoChannel.efd
  BY DEF NoChannel, Channels, Flags

(* The numbers in the state. *)
LEMMA Numbers ==
    ASSUME NEW t, NEW in, NEW q, NEW cl, NEW ch, NEW p, Typed(t, in, q, cl, ch, p)
    PROVE  /\ t.c.input \in Nat /\ t.c.output \in Nat /\ t.c.extended \in Nat
           /\ t.c.local_window \in Int /\ t.c.local_consumed \in Nat
           /\ t.c.remote_window \in Nat
           /\ cl.win \in Nat /\ cl.sent \in Nat /\ cl.got \in Nat /\ cl.errs \in Nat
           /\ ch.got \in Nat /\ ch.wrote \in Nat /\ ch.errs \in Nat
           /\ p.in \in Nat /\ p.in <= InPipe /\ p.out \in Nat /\ p.out <= OutPipe
           /\ p.err \in Nat /\ p.err <= OutPipe
           /\ InPipe \in Nat /\ OutPipe \in Nat
           /\ Bytes(in, "DATA") \in Nat /\ Bytes(in, "ADJUST") \in Nat
           /\ Bytes(q, "DATA") \in Nat /\ Bytes(q, "EXT") \in Nat
           /\ Bytes(q, "ADJUST") \in Nat
  <1>1. t.c \in Channels
    BY DEF Typed, Sessions
  <1>2. /\ t.c.input \in Nat /\ t.c.output \in Nat /\ t.c.extended \in Nat
        /\ t.c.local_window \in Int /\ t.c.local_consumed \in Nat
        /\ t.c.remote_window \in Nat
    BY <1>1 DEF Channels
  <1>3. /\ cl.win \in Nat /\ cl.sent \in Nat /\ cl.got \in Nat /\ cl.errs \in Nat
        /\ ch.got \in Nat /\ ch.wrote \in Nat /\ ch.errs \in Nat
    BY DEF Typed, Clients, Children
  <1>4. /\ p.in \in Nat /\ p.in <= InPipe /\ p.out \in Nat /\ p.out <= OutPipe
        /\ p.err \in Nat /\ p.err <= OutPipe /\ InPipe \in Nat /\ OutPipe \in Nat
    BY SizeAssumption DEF Typed, Pipes
  <1>5. /\ Bytes(in, "DATA") \in Nat /\ Bytes(in, "ADJUST") \in Nat
        /\ Bytes(q, "DATA") \in Nat /\ Bytes(q, "EXT") \in Nat /\ Bytes(q, "ADJUST") \in Nat
    BY UnitsFinite DEF Typed
  <1> QED
    BY <1>2, <1>3, <1>4, <1>5

(* What is left of a queue when its first message is taken. *)
LEMMA Heard ==
    ASSUME NEW q \in Seq(Messages), q # << >>
    PROVE  /\ Tail(q) \in Seq(Messages) /\ Len(q) \in Nat /\ Len(q) >= 1
           /\ Len(Tail(q)) \in Nat /\ Len(Tail(q)) = Len(q) - 1
           /\ \A i \in 1 .. Len(Tail(q)) : Tail(q)[i] = q[i + 1] /\ i + 1 \in 1 .. Len(q)
           /\ 1 \in 1 .. Len(q) /\ q[1] = Head(q)
           /\ Head(q)[1] \in Words /\ Head(q)[2] \in Nat
           /\ \A m : Holds(q, m) <=> Head(q)[1] = m \/ Holds(Tail(q), m)
  <1>1. /\ Head(q) \in Messages /\ Tail(q) \in Seq(Messages) /\ Head(q) = q[1]
        /\ Len(Tail(q)) = Len(q) - 1
        /\ \A i \in 1 .. Len(Tail(q)) : Tail(q)[i] = q[i + 1]
    BY HeadTailProperties
  <1>2. Len(q) \in Nat /\ Len(q) >= 1 /\ Len(Tail(q)) \in Nat
    BY <1>1, EmptySeq, LenProperties
  <1>3. \A i \in 1 .. Len(Tail(q)) : i + 1 \in 1 .. Len(q)
    BY <1>1, <1>2
  <1>4. ASSUME NEW m
        PROVE  Holds(q, m) <=> Head(q)[1] = m \/ Holds(Tail(q), m)
    <2>1. ASSUME Holds(Tail(q), m) PROVE Holds(q, m)
      BY <1>1, <1>3, <2>1 DEF Holds
    <2>2. ASSUME Head(q)[1] = m PROVE Holds(q, m)
      BY <1>1, <1>2, <2>2 DEF Holds
    <2>3. ASSUME Holds(q, m), Head(q)[1] # m PROVE Holds(Tail(q), m)
      <3>1. PICK i \in 1 .. Len(q) : q[i][1] = m
        BY <2>3 DEF Holds
      <3>2. i # 1
        BY <1>1, <2>3, <3>1
      <3>3. i - 1 \in 1 .. Len(Tail(q)) /\ (i - 1) + 1 = i
        BY <1>1, <1>2, <3>2
      <3>4. Tail(q)[i - 1] = q[i]
        BY <1>1, <3>3
      <3> QED
        BY <3>1, <3>3, <3>4 DEF Holds
    <2> QED
      BY <2>1, <2>2, <2>3
  <1>5. Head(q)[1] \in Words /\ Head(q)[2] \in Nat
    BY <1>1 DEF Messages
  <1> QED
    BY <1>1, <1>2, <1>3, <1>4, <1>5

(* And what is left carries less, by what the first message carried. *)
LEMMA HeardBytes ==
    ASSUME NEW q \in Seq(Messages), q # << >>, NEW m
    PROVE  /\ Bytes(q, m) \in Nat /\ Bytes(Tail(q), m) \in Nat
           /\ Head(q)[1] = m => Bytes(q, m) = Bytes(Tail(q), m) + Head(q)[2]
           /\ Head(q)[1] # m => Bytes(q, m) = Bytes(Tail(q), m)
  <1>1. Tail(q) \in Seq(Messages)
    BY Heard
  <1>2. Bytes(q, m) \in Nat /\ Bytes(Tail(q), m) \in Nat
    BY <1>1, UnitsFinite
  <1>3. Bytes(q, m) = Bytes(Tail(q), m) + IF Head(q)[1] = m THEN Head(q)[2] ELSE 0
    BY BytesTail
  <1> QED
    BY <1>2, <1>3

(* The packet that comes next, and those after it. *)
LEMMA SpokenRest ==
    ASSUME NEW t, NEW in \in Seq(Messages), NEW cl, in # << >>, Spoken(t, in, cl)
    PROVE  /\ Spoken(t, Tail(in), cl)
           /\ ~Has(t, "close_rcvd")
           /\ Head(in)[1] = "CLOSE" => Tail(in) = << >> /\ cl.close
           /\ Head(in)[1] = "EOF" => cl.eof /\ ~Holds(Tail(in), "DATA")
           /\ Head(in)[1] = "DATA" => Head(in)[2] \in 1 .. MaxPacket /\ ~Has(t, "eof_rcvd")
           /\ t.c.type = "none" => Head(in) = <<"OPEN", ClientWindow>> /\ Tail(in) = << >>
           /\ t.c.type = "larval" =>
                 /\ Head(in)[1] = cl.kind \/ Head(in)[1] = "CLOSE"
                 /\ Head(in)[1] \in {"exec", "subsystem", "CLOSE"}
                 /\ \A i \in 1 .. Len(Tail(in)) : Tail(in)[i][1] = "CLOSE"
           /\ t.c.type = "open" => Head(in)[1] \in {"DATA", "EOF", "ADJUST", "CLOSE"}
  <1> DEFINE rest == Tail(in)
             x == Head(in)
  <1>1. /\ rest \in Seq(Messages) /\ Len(in) \in Nat /\ Len(in) >= 1
        /\ Len(rest) \in Nat /\ Len(rest) = Len(in) - 1
        /\ \A i \in 1 .. Len(rest) : rest[i] = in[i + 1] /\ i + 1 \in 1 .. Len(in)
        /\ 1 \in 1 .. Len(in) /\ in[1] = x
        /\ \A m : Holds(in, m) <=> x[1] = m \/ Holds(rest, m)
    BY Heard
  <1>2. t.c.type = "none" => x = <<"OPEN", ClientWindow>> /\ rest = << >>
    BY DEF Spoken
  <1>3. Len(rest) = 0 => rest = << >>
    BY <1>1, EmptySeq
  <1> HIDE DEF rest, x
  <1>4. ~Has(t, "close_rcvd")
    BY DEF Spoken
  <1>5. x[1] = "CLOSE" => rest = << >> /\ cl.close
    BY <1>1, <1>3 DEF Spoken
  <1>6. x[1] = "EOF" => cl.eof /\ ~Holds(rest, "DATA")
    <2>1. ASSUME x[1] = "EOF" PROVE cl.eof /\ \A j \in 1 .. Len(in) : 1 < j
                   => in[j][1] # "DATA"
      BY <1>1, <2>1 DEF Spoken
    <2>2. ASSUME x[1] = "EOF", NEW j \in 1 .. Len(rest) PROVE rest[j][1] # "DATA"
      BY <1>1, <2>1, <2>2
    <2> QED
      BY <2>1, <2>2 DEF Holds
  <1>7. x[1] = "DATA" => x[2] \in 1 .. MaxPacket /\ ~Has(t, "eof_rcvd")
    BY <1>1 DEF Spoken
  <1>8. t.c.type = "larval" =>
            /\ x[1] = cl.kind \/ x[1] = "CLOSE"
            /\ x[1] \in {"exec", "subsystem", "CLOSE"}
            /\ \A i \in 1 .. Len(rest) : rest[i][1] = "CLOSE"
    <2>1. ASSUME t.c.type = "larval", NEW i \in 1 .. Len(rest) PROVE rest[i][1] = "CLOSE"
      <3>1. rest[i] = in[i + 1] /\ i + 1 \in 1 .. Len(in) /\ i + 1 # 1
        BY <1>1
      <3> QED
        BY <2>1, <3>1 DEF Spoken
    <2> QED
      BY <1>1, <2>1 DEF Spoken
  <1>9. t.c.type = "open" => x[1] \in {"DATA", "EOF", "ADJUST", "CLOSE"}
    BY <1>1 DEF Spoken
  <1>10. Spoken(t, rest, cl)
    <2>1. ASSUME t.c.type = "open", NEW i \in 1 .. Len(rest)
          PROVE  rest[i][1] \in {"DATA", "EOF", "ADJUST", "CLOSE"}
      BY <1>1, <2>1 DEF Spoken
    <2>2. ASSUME NEW i \in 1 .. Len(rest), rest[i][1] = "CLOSE"
          PROVE  i = Len(rest) /\ cl.close
      <3>1. i + 1 = Len(in) /\ cl.close
        BY <1>1, <2>2 DEF Spoken
      <3> QED
        BY <1>1, <3>1
    <2>3. ASSUME NEW i \in 1 .. Len(rest), rest[i][1] = "EOF"
          PROVE  cl.eof /\ \A j \in 1 .. Len(rest) : i < j => rest[j][1] # "DATA"
      <3>1. cl.eof /\ \A j \in 1 .. Len(in) : i + 1 < j => in[j][1] # "DATA"
        <4>1. rest[i] = in[i + 1] /\ i + 1 \in 1 .. Len(in)
          BY <1>1
        <4> QED
          BY <2>3, <4>1 DEF Spoken
      <3>2. ASSUME NEW j \in 1 .. Len(rest), i < j PROVE rest[j][1] # "DATA"
        <4>1. i + 1 < j + 1 /\ j + 1 \in 1 .. Len(in) /\ rest[j] = in[j + 1]
          BY <1>1, <3>2
        <4> QED
          BY <3>1, <4>1
      <3> QED
        BY <3>1, <3>2
    <2>4. ASSUME NEW i \in 1 .. Len(rest), rest[i][1] = "DATA"
          PROVE  rest[i][2] \in 1 .. MaxPacket
      BY <1>1, <2>4 DEF Spoken
    <2>5. Has(t, "eof_rcvd") => cl.eof /\ ~Holds(rest, "DATA")
      BY <1>1 DEF Spoken
    <2> QED
      BY <1>2, <1>4, <1>8, <2>1, <2>2, <2>3, <2>4, <2>5 DEF Spoken
  <1> QED
    BY <1>2, <1>4, <1>5, <1>6, <1>7, <1>8, <1>9, <1>10 DEF rest, x

(* A message that the client has read counts as seen. *)
LEMMA OrderlyHeard ==
    ASSUME NEW q \in Seq(Messages), q # << >>, NEW seen, Orderly(seen, q)
    PROVE  /\ Orderly(seen, Tail(q)) /\ Orderly(seen \cup {Head(q)[1]}, Tail(q))
           /\ "CLOSE" \notin seen
  <1> DEFINE r == Tail(q)
             x == Head(q)[1]
             more == seen \cup {x}
  <1>1. /\ Len(q) \in Nat /\ Len(r) \in Nat /\ Len(r) = Len(q) - 1
        /\ \A i \in 1 .. Len(r) : r[i] = q[i + 1] /\ i + 1 \in 1 .. Len(q)
        /\ 1 \in 1 .. Len(q) /\ q[1][1] = x
    BY Heard
  <1> HIDE DEF r, x
  <1>2. "CLOSE" \notin seen
    BY <1>1 DEF Orderly
  <1>3. ASSUME NEW i \in 1 .. Len(r), NEW m, ~(m \in seen
                                               \/ \E j \in 1 .. (i + 1) - 1 : q[j][1] = m)
        PROVE  ~(m \in more \/ \E j \in 1 .. i - 1 : r[j][1] = m)
    <2>1. m # x
      BY <1>1, <1>3
    <2>2. ASSUME NEW j \in 1 .. i - 1 PROVE r[j][1] # m
      <3>1. r[j] = q[j + 1] /\ j + 1 \in 1 .. (i + 1) - 1
        BY <1>1
      <3> QED
        BY <1>3, <3>1
    <2> QED
      BY <1>3, <2>1, <2>2
  <1>4. ASSUME NEW i \in 1 .. Len(r)
        PROVE  /\ ~("CLOSE" \in more \/ \E j \in 1 .. i - 1 : r[j][1] = "CLOSE")
               /\ r[i][1] \in {"DATA", "EXT", "EOF"} =>
                     ~("EOF" \in more \/ \E j \in 1 .. i - 1 : r[j][1] = "EOF")
               /\ r[i][1] = "STATUS" =>
                     ~("STATUS" \in more \/ \E j \in 1 .. i - 1 : r[j][1] = "STATUS")
    <2>1. r[i] = q[i + 1] /\ i + 1 \in 1 .. Len(q)
      BY <1>1
    <2>2. /\ ~("CLOSE" \in seen \/ \E j \in 1 .. (i + 1) - 1 : q[j][1] = "CLOSE")
          /\ q[i + 1][1] \in {"DATA", "EXT", "EOF"} =>
                ~("EOF" \in seen \/ \E j \in 1 .. (i + 1) - 1 : q[j][1] = "EOF")
          /\ q[i + 1][1] = "STATUS" =>
                ~("STATUS" \in seen \/ \E j \in 1 .. (i + 1) - 1 : q[j][1] = "STATUS")
      BY <2>1 DEF Orderly
    <2>3. ~("CLOSE" \in more \/ \E j \in 1 .. i - 1 : r[j][1] = "CLOSE")
      BY <1>3, <2>2
    <2>4. ASSUME r[i][1] \in {"DATA", "EXT", "EOF"}
          PROVE  ~("EOF" \in more \/ \E j \in 1 .. i - 1 : r[j][1] = "EOF")
      BY <1>3, <2>1, <2>2, <2>4
    <2>5. ASSUME r[i][1] = "STATUS"
          PROVE  ~("STATUS" \in more \/ \E j \in 1 .. i - 1 : r[j][1] = "STATUS")
      BY <1>3, <2>1, <2>2, <2>5
    <2> QED
      BY <2>3, <2>4, <2>5
  <1>5. Orderly(more, r)
    BY <1>4 DEF Orderly
  <1>6. Orderly(seen, r)
    BY <1>4 DEF Orderly
  <1> QED
    BY <1>2, <1>5, <1>6 DEF r, x

(* The end of an orderly queue is orderly; it carries no more than the     *)
(* queue, and after CLOSE there is nothing.                                *)
LEMMA Suffix ==
    ASSUME NEW a \in Seq(Messages), NEW r \in Seq(Messages), NEW seen, Orderly(seen, a \o r)
    PROVE  /\ Orderly(seen, r)
           /\ \A m : Holds(r, m) => Holds(a \o r, m)
           /\ \A m : Bytes(r, m) \in Nat /\ Bytes(a \o r, m) \in Nat
              /\ Bytes(r, m) <= Bytes(a \o r, m)
           /\ a \o r = << >> => r = << >>
           /\ "CLOSE" \in seen => a \o r = << >>
           /\ \A i \in 1 .. Len(r) : \E j \in 1 .. Len(a \o r) : r[i] = (a \o r)[j]
  <1> DEFINE q == a \o r
             k == Len(a)
  <1>1. /\ q \in Seq(Messages) /\ k \in Nat /\ Len(r) \in Nat /\ Len(q) = k + Len(r)
        /\ \A i \in 1 .. Len(r) : q[k + i] = r[i]
    BY ConcatProperties
  <1>2. \A i \in 1 .. Len(r) : k + i \in 1 .. Len(q)
    BY <1>1
  <1>3. \A m : Bytes(q, m) = Bytes(a, m) + Bytes(r, m)
    BY BytesConcat
  <1>4. \A m : Bytes(r, m) \in Nat /\ Bytes(a, m) \in Nat
    BY UnitsFinite
  <1>5. Orderly(seen, q)
    OBVIOUS
  <1> HIDE DEF q, k
  <1>6. \A m : Bytes(r, m) \in Nat /\ Bytes(q, m) \in Nat /\ Bytes(r, m) <= Bytes(q, m)
    <2>1. TAKE m
    <2>2. Bytes(q, m) = Bytes(a, m) + Bytes(r, m) /\ Bytes(r, m) \in Nat
            /\ Bytes(a, m) \in Nat
      BY <1>3, <1>4
    <2> QED
      BY <2>2
  <1>7. \A m : Holds(r, m) => Holds(q, m)
    BY <1>1, <1>2 DEF Holds
  <1>8. \A i \in 1 .. Len(r) : \E j \in 1 .. Len(q) : r[i] = q[j]
    BY <1>1, <1>2
  <1>9. q = << >> => r = << >>
    <2>1. ASSUME q = << >> PROVE Len(r) = 0
      BY <1>1, <2>1
    <2> QED
      BY <2>1, EmptySeq
  <1>10. "CLOSE" \in seen => q = << >>
    <2>1. ASSUME "CLOSE" \in seen PROVE Len(q) = 0
      <3>1. Len(q) \in Nat
        BY <1>1
      <3>2. ~(1 \in 1 .. Len(q))
        BY <1>5, <2>1 DEF Orderly
      <3> QED
        BY <3>1, <3>2
    <2> QED
      BY <1>1, <2>1, EmptySeq
  <1>11. Orderly(seen, r)
    <2>1. ASSUME NEW i \in 1 .. Len(r), NEW m,
                 ~(m \in seen \/ \E j \in 1 .. (k + i) - 1 : q[j][1] = m)
          PROVE  ~(m \in seen \/ \E j \in 1 .. i - 1 : r[j][1] = m)
      <3>1. ASSUME NEW j \in 1 .. i - 1 PROVE r[j][1] # m
        <4>1. q[k + j] = r[j] /\ k + j \in 1 .. (k + i) - 1
          BY <1>1
        <4> QED
          BY <2>1, <4>1
      <3> QED
        BY <2>1, <3>1
    <2>2. ASSUME NEW i \in 1 .. Len(r)
          PROVE  /\ ~("CLOSE" \in seen \/ \E j \in 1 .. i - 1 : r[j][1] = "CLOSE")
                 /\ r[i][1] \in {"DATA", "EXT", "EOF"} =>
                       ~("EOF" \in seen \/ \E j \in 1 .. i - 1 : r[j][1] = "EOF")
                 /\ r[i][1] = "STATUS" =>
                       ~("STATUS" \in seen \/ \E j \in 1 .. i - 1 : r[j][1] = "STATUS")
      <3>1. q[k + i] = r[i] /\ k + i \in 1 .. Len(q)
        BY <1>1, <1>2
      <3>2. /\ ~("CLOSE" \in seen \/ \E j \in 1 .. (k + i) - 1 : q[j][1] = "CLOSE")
            /\ q[k + i][1] \in {"DATA", "EXT", "EOF"} =>
                  ~("EOF" \in seen \/ \E j \in 1 .. (k + i) - 1 : q[j][1] = "EOF")
            /\ q[k + i][1] = "STATUS" =>
                  ~("STATUS" \in seen \/ \E j \in 1 .. (k + i) - 1 : q[j][1] = "STATUS")
        BY <1>5, <3>1 DEF Orderly
      <3>3. ~("CLOSE" \in seen \/ \E j \in 1 .. i - 1 : r[j][1] = "CLOSE")
        BY <2>1, <3>2
      <3>4. ASSUME r[i][1] \in {"DATA", "EXT", "EOF"}
            PROVE  ~("EOF" \in seen \/ \E j \in 1 .. i - 1 : r[j][1] = "EOF")
        BY <2>1, <3>1, <3>2, <3>4
      <3>5. ASSUME r[i][1] = "STATUS"
            PROVE  ~("STATUS" \in seen \/ \E j \in 1 .. i - 1 : r[j][1] = "STATUS")
        BY <2>1, <3>1, <3>2, <3>5
      <3> QED
        BY <3>3, <3>4, <3>5
    <2> QED
      BY <2>2 DEF Orderly
  <1> QED
    BY <1>6, <1>7, <1>8, <1>9, <1>10, <1>11 DEF q

(* chan_is_dead sends CLOSE: everything that comes before it has been sent. *)
LEMMA SendsClose ==
    ASSUME NEW t, NEW in, NEW q, NEW cl, NEW ch, NEW p, K(t, in, q, cl, ch, p),
           t.c.type = "open", BothClosed(t), t.c.detach_close, ~Has(t, "close_sent")
    PROVE  K(chan_send_close2(t), in, Append(q, <<"CLOSE", 0>>), cl, ch, p)
  <1> DEFINE u == chan_send_close2(t)
             r == Append(q, <<"CLOSE", 0>>)
  <1>1. Typed(t, in, q, cl, ch, p)
    BY DEF K
  <1>2. "CLOSE" \in Words /\ 0 \in Nat /\ "close_sent" \in Flags
    BY WordFacts
  <1>3. u \in Sessions /\ u.c = [t.c EXCEPT !.flags = @ \cup {"close_sent"}]
        /\ u.used = t.used /\ u.pid = t.pid /\ u.over = t.over
    BY <1>1, <1>2, SendFields, FlagFields DEF Typed, chan_send_close2
  <1>30. /\ u.c.type = t.c.type /\ u.c.istate = t.c.istate /\ u.c.ostate = t.c.ostate
         /\ u.c.flags = t.c.flags \cup {"close_sent"} /\ u.c.usage = t.c.usage
         /\ u.c.input = t.c.input /\ u.c.output = t.c.output /\ u.c.extended = t.c.extended
         /\ u.c.local_window = t.c.local_window /\ u.c.local_consumed = t.c.local_consumed
         /\ u.c.remote_window = t.c.remote_window
         /\ u.c.rfd = t.c.rfd /\ u.c.wfd = t.c.wfd /\ u.c.efd = t.c.efd
         /\ u.c.detach_user = t.c.detach_user /\ u.c.detach_close = t.c.detach_close
    <2> HIDE DEF u, r
    <2>1. t.c \in Channels
      BY <1>1 DEF Typed, Sessions
    <2>2. u.c = [t.c EXCEPT !.flags = @ \cup {"close_sent"}]
      BY <1>3
    <2> QED
      BY <2>1, <2>2 DEF Channels
  <1>31. u.used = t.used /\ u.pid = t.pid /\ u.over = t.over
    BY <1>3
  <1>4. /\ r \in Seq(Messages) /\ r # << >>
        /\ Len(q) \in Nat /\ Len(r) = Len(q) + 1
        /\ \A i \in 1 .. Len(q) : r[i] = q[i]
        /\ r[Len(q) + 1][1] = "CLOSE" /\ \A m : Holds(r, m) <=> Holds(q, m) \/ "CLOSE" = m
    BY <1>1, <1>2, Said DEF Typed
  <1>5. /\ Bytes(q, "DATA") \in Nat /\ Bytes(r, "DATA") = Bytes(q, "DATA")
        /\ Bytes(q, "EXT") \in Nat /\ Bytes(r, "EXT") = Bytes(q, "EXT")
        /\ Bytes(q, "ADJUST") \in Nat /\ Bytes(r, "ADJUST") = Bytes(q, "ADJUST")
    BY <1>1, <1>2, SaidBytes DEF Typed
  <1>6. ~Told(q, cl, "CLOSE") /\ Orderly(cl.seen, r)
    BY <1>1, <1>2, OrderlySaid DEF Typed, K, Truthful, Told, Has, Tied
  <1> HIDE DEF u, r
  <1>11. Typed(u, in, r, cl, ch, p)
    BY <1>1, <1>3, <1>4 DEF Typed
  <1>12. Spoken(u, in, cl)
    BY <1>30, <1>31 DEF K, Spoken, Has
  <1>13. Staged(u, in, r, cl, ch)
    BY <1>4, <1>30, <1>31 DEF K, Staged
  <1>14. Tied(u, cl, ch, p)
    BY <1>30, <1>31 DEF K, Tied, Has, BothClosed
  <1>15. Windows(u, in, r, cl)
    BY <1>5, <1>30, <1>31 DEF K, Windows
  <1>16. InputKept(u, in, cl, ch, p)
    BY <1>30, <1>31 DEF K, InputKept
  <1>17. OutputKept(u, r, cl, ch, p)
    BY <1>5, <1>30, <1>31 DEF K, OutputKept, Has
  <1>18. Truthful(u, r, cl, ch)
    BY <1>4, <1>6, <1>30, <1>31 DEF K, Truthful, Has, Told
  <1>19. Complete(r, cl, ch)
    <2>1. "CLOSE" \notin cl.seen
      BY <1>1 DEF K, Truthful, Told, Has
    <2>2. SUFFICES ASSUME ~cl.early, cl.stage # "gone"
                   PROVE  /\ ch.state # "running"
                          /\ cl.got + Bytes(r, "DATA") = ch.wrote
                          /\ cl.kind = "exec" => cl.errs + Bytes(r, "EXT") = ch.errs
                          /\ Told(r, cl, "EOF") /\ Told(r, cl, "STATUS")
      BY <2>1 DEF K, Complete
    <2>3. ~cl.close /\ ~Has(t, "close_rcvd")
      BY <2>1, <2>2 DEF K, Complete, Spoken
    <2>4. /\ t.c.input = 0 /\ p.out = 0 /\ Has(t, "eof_sent")
          /\ t.c.usage = "read" => p.err = 0 /\ t.c.extended = 0
          /\ ch.state = "reaped" /\ (t.c.usage = "read" <=> cl.kind = "exec")
      BY <1>1, <2>3 DEF K, OutputKept, Tied, BothClosed
    <2>5. /\ cl.got + Bytes(q, "DATA") = ch.wrote
          /\ cl.kind = "exec" => cl.errs + Bytes(q, "EXT") = ch.errs
      <3>1. /\ cl.got + Bytes(q, "DATA") + t.c.input + p.out = ch.wrote
            /\ cl.kind = "exec" => cl.errs + Bytes(q, "EXT") + t.c.extended + p.err
               = ch.errs
        BY <2>2, <2>3, <2>4 DEF K, OutputKept
      <3>2. cl.got \in Nat /\ cl.errs \in Nat
        BY <1>1 DEF Typed, Clients
      <3> QED
        BY <1>5, <2>4, <3>1, <3>2
    <2>6. Told(q, cl, "EOF") /\ Told(q, cl, "STATUS")
      BY <2>2, <2>4 DEF K, Truthful
    <2> QED
      BY <1>4, <1>5, <2>4, <2>5, <2>6 DEF Told
  <1> QED
    BY <1>11, <1>12, <1>13, <1>14, <1>15, <1>16, <1>17, <1>18, <1>19 DEF K, u, r

(* chan_ibuf_empty: the child has nothing more to say. *)
LEMMA SendsEof ==
    ASSUME NEW t, NEW in, NEW q, NEW cl, NEW ch, NEW p, K(t, in, q, cl, ch, p),
           t.c.type = "open", t.c.istate = "drain", ~Has(t, "close_rcvd"), t.c.input = 0,
           t.c.usage = "read" => ~t.c.efd /\ t.c.extended = 0
    PROVE  K([chan_send_eof2(t) EXCEPT !.c.istate = "closed"], in, Append(q, <<"EOF", 0>>),
             cl, ch, p)
  <1> DEFINE u == [chan_send_eof2(t) EXCEPT !.c.istate = "closed"]
             r == Append(q, <<"EOF", 0>>)
  <1>1. Typed(t, in, q, cl, ch, p)
    BY DEF K
  <1>2. "EOF" \in Words /\ 0 \in Nat /\ "eof_sent" \in Flags
    BY WordFacts
  <1>3. /\ u \in Sessions
        /\ u.c = [t.c EXCEPT !.flags = @ \cup {"eof_sent"}, !.istate = "closed"]
        /\ u.used = t.used /\ u.pid = t.pid /\ u.over = t.over
    <2>1. /\ chan_send_eof2(t) \in Sessions
          /\ chan_send_eof2(t).c = [t.c EXCEPT !.flags = @ \cup {"eof_sent"}]
          /\ chan_send_eof2(t).used = t.used /\ chan_send_eof2(t).pid = t.pid
          /\ chan_send_eof2(t).over = t.over
      BY <1>1, <1>2, SendFields, FlagFields DEF Typed, chan_send_eof2
    <2> QED
      BY <1>1, <2>1 DEF Typed, Sessions, Channels
  <1>30. /\ u.c.type = t.c.type /\ u.c.istate = "closed" /\ u.c.ostate = t.c.ostate
         /\ u.c.flags = t.c.flags \cup {"eof_sent"} /\ u.c.usage = t.c.usage
         /\ u.c.input = t.c.input /\ u.c.output = t.c.output /\ u.c.extended = t.c.extended
         /\ u.c.local_window = t.c.local_window /\ u.c.local_consumed = t.c.local_consumed
         /\ u.c.remote_window = t.c.remote_window
         /\ u.c.rfd = t.c.rfd /\ u.c.wfd = t.c.wfd /\ u.c.efd = t.c.efd
         /\ u.c.detach_user = t.c.detach_user /\ u.c.detach_close = t.c.detach_close
    <2> HIDE DEF u, r
    <2>1. t.c \in Channels
      BY <1>1 DEF Typed, Sessions
    <2>2. u.c = [t.c EXCEPT !.flags = @ \cup {"eof_sent"}, !.istate = "closed"]
      BY <1>3
    <2> QED
      BY <2>1, <2>2 DEF Channels
  <1>31. u.used = t.used /\ u.pid = t.pid /\ u.over = t.over
    BY <1>3
  <1>4. /\ r \in Seq(Messages) /\ r # << >>
        /\ Len(q) \in Nat /\ Len(r) = Len(q) + 1
        /\ \A i \in 1 .. Len(q) : r[i] = q[i]
        /\ r[Len(q) + 1][1] = "EOF" /\ \A m : Holds(r, m) <=> Holds(q, m) \/ "EOF" = m
    BY <1>1, <1>2, Said DEF Typed
  <1>5. /\ Bytes(q, "DATA") \in Nat /\ Bytes(r, "DATA") = Bytes(q, "DATA")
        /\ Bytes(q, "EXT") \in Nat /\ Bytes(r, "EXT") = Bytes(q, "EXT")
        /\ Bytes(q, "ADJUST") \in Nat /\ Bytes(r, "ADJUST") = Bytes(q, "ADJUST")
    BY <1>1, <1>2, SaidBytes DEF Typed
  <1>6. ~Told(q, cl, "CLOSE") /\ Orderly(cl.seen, r)
    <2>1. ~Has(t, "eof_sent") /\ ~Has(t, "close_sent")
      BY DEF K, Tied, BothClosed
    <2> QED
      BY <1>1, <1>2, <2>1, OrderlySaid DEF Typed, K, Truthful, Told
  <1> HIDE DEF u, r
  <1>11. Typed(u, in, r, cl, ch, p)
    BY <1>1, <1>3, <1>4 DEF Typed
  <1>12. Spoken(u, in, cl)
    BY <1>30, <1>31 DEF K, Spoken, Has
  <1>13. Staged(u, in, r, cl, ch)
    BY <1>4, <1>30, <1>31 DEF K, Staged
  <1>14. Tied(u, cl, ch, p)
    BY <1>30, <1>31 DEF K, Tied, Has, BothClosed
  <1>15. Windows(u, in, r, cl)
    BY <1>5, <1>30, <1>31 DEF K, Windows
  <1>16. InputKept(u, in, cl, ch, p)
    BY <1>30, <1>31 DEF K, InputKept
  <1>17. OutputKept(u, r, cl, ch, p)
    BY <1>5, <1>30, <1>31 DEF K, OutputKept, Has
  <1>18. Truthful(u, r, cl, ch)
    BY <1>4, <1>6, <1>30, <1>31 DEF K, Truthful, Has, Told
  <1>19. Complete(r, cl, ch)
    BY <1>1, <1>2, <1>6, CompleteSaid DEF K, Typed, r
  <1> QED
    BY <1>11, <1>12, <1>13, <1>14, <1>15, <1>16, <1>17, <1>18, <1>19 DEF K, u, r

(* chan_obuf_empty: the child has been given all there was. *)
LEMMA OutputDrained ==
    ASSUME NEW t, NEW in, NEW q, NEW cl, NEW ch, NEW p, K(t, in, q, cl, ch, p),
           t.c.type = "open", t.c.ostate = "drain", t.c.output = 0
    PROVE  K(chan_obuf_empty(t), in, q, cl, ch, p)
  <1> DEFINE u == chan_obuf_empty(t)
  <1>1. Typed(t, in, q, cl, ch, p)
    BY DEF K
  <1>3. /\ u \in Sessions
        /\ u.c = [t.c EXCEPT !.output = 0, !.wfd = FALSE, !.ostate = "closed"]
        /\ u.used = t.used /\ u.pid = t.pid /\ u.over = t.over
    BY <1>1 DEF Typed, Sessions, Channels, chan_obuf_empty,
           chan_shutdown_write
  <1>30. /\ u.c.type = t.c.type /\ u.c.istate = t.c.istate /\ u.c.ostate = "closed"
         /\ u.c.flags = t.c.flags /\ u.c.usage = t.c.usage
         /\ u.c.input = t.c.input /\ u.c.output = 0 /\ u.c.extended = t.c.extended
         /\ u.c.local_window = t.c.local_window /\ u.c.local_consumed = t.c.local_consumed
         /\ u.c.remote_window = t.c.remote_window
         /\ u.c.rfd = t.c.rfd /\ u.c.wfd = FALSE /\ u.c.efd = t.c.efd
         /\ u.c.detach_user = t.c.detach_user /\ u.c.detach_close = t.c.detach_close
    <2> HIDE DEF u
    <2>1. t.c \in Channels
      BY <1>1 DEF Typed, Sessions
    <2>2. u.c = [t.c EXCEPT !.output = 0, !.wfd = FALSE, !.ostate = "closed"]
      BY <1>3
    <2> QED
      BY <2>1, <2>2 DEF Channels
  <1>31. u.used = t.used /\ u.pid = t.pid /\ u.over = t.over
    BY <1>3
  <1> HIDE DEF u
  <1>11. Typed(u, in, q, cl, ch, p)
    BY <1>1, <1>3 DEF Typed
  <1>12. Spoken(u, in, cl)
    BY <1>30, <1>31 DEF K, Spoken, Has
  <1>13. Staged(u, in, q, cl, ch)
    BY <1>30, <1>31 DEF K, Staged
  <1>14. Tied(u, cl, ch, p)
    BY <1>30, <1>31 DEF K, Tied, Has, BothClosed
  <1>15. Windows(u, in, q, cl)
    BY <1>30, <1>31 DEF K, Windows
  <1>16. InputKept(u, in, cl, ch, p)
    BY <1>30, <1>31 DEF K, InputKept
  <1>17. OutputKept(u, q, cl, ch, p)
    BY <1>30, <1>31 DEF K, OutputKept, Has
  <1>18. Truthful(u, q, cl, ch)
    BY <1>30, <1>31 DEF K, Truthful, Has, Told
  <1>19. Complete(q, cl, ch)
    BY <1>30, <1>31 DEF K, Complete, Told
  <1> QED
    BY <1>11, <1>12, <1>13, <1>14, <1>15, <1>16, <1>17, <1>18, <1>19 DEF K, u

(* chan_read_failed at end of file: the child has written all it will. *)
LEMMA ReadFailed ==
    ASSUME NEW t, NEW in, NEW q, NEW cl, NEW ch, NEW p, K(t, in, q, cl, ch, p),
           t.c.type = "open", t.c.istate = "open", p.out = 0, ch.state # "running"
    PROVE  K(chan_read_failed(t), in, q, cl, ch, p)
  <1> DEFINE u == chan_read_failed(t)
  <1>1. Typed(t, in, q, cl, ch, p)
    BY DEF K
  <1>3. /\ u \in Sessions
        /\ u.c = [t.c EXCEPT !.rfd = FALSE, !.istate = "drain"]
        /\ u.used = t.used /\ u.pid = t.pid /\ u.over = t.over
    BY <1>1 DEF Typed, Sessions, Channels, chan_read_failed,
           chan_shutdown_read
  <1>30. /\ u.c.type = t.c.type /\ u.c.istate = "drain" /\ u.c.ostate = t.c.ostate
         /\ u.c.flags = t.c.flags /\ u.c.usage = t.c.usage
         /\ u.c.input = t.c.input /\ u.c.output = t.c.output /\ u.c.extended = t.c.extended
         /\ u.c.local_window = t.c.local_window /\ u.c.local_consumed = t.c.local_consumed
         /\ u.c.remote_window = t.c.remote_window
         /\ u.c.rfd = FALSE /\ u.c.wfd = t.c.wfd /\ u.c.efd = t.c.efd
         /\ u.c.detach_user = t.c.detach_user /\ u.c.detach_close = t.c.detach_close
    <2> HIDE DEF u
    <2>1. t.c \in Channels
      BY <1>1 DEF Typed, Sessions
    <2>2. u.c = [t.c EXCEPT !.rfd = FALSE, !.istate = "drain"]
      BY <1>3
    <2> QED
      BY <2>1, <2>2 DEF Channels
  <1>31. u.used = t.used /\ u.pid = t.pid /\ u.over = t.over
    BY <1>3
  <1> HIDE DEF u
  <1>11. Typed(u, in, q, cl, ch, p)
    BY <1>1, <1>3 DEF Typed
  <1>12. Spoken(u, in, cl)
    BY <1>30, <1>31 DEF K, Spoken, Has
  <1>13. Staged(u, in, q, cl, ch)
    BY <1>30, <1>31 DEF K, Staged
  <1>14. Tied(u, cl, ch, p)
    BY <1>30, <1>31 DEF K, Tied, Has, BothClosed
  <1>15. Windows(u, in, q, cl)
    BY <1>30, <1>31 DEF K, Windows
  <1>16. InputKept(u, in, cl, ch, p)
    BY <1>30, <1>31 DEF K, InputKept
  <1>17. OutputKept(u, q, cl, ch, p)
    BY <1>30, <1>31 DEF K, OutputKept, Has
  <1>18. Truthful(u, q, cl, ch)
    BY <1>30, <1>31 DEF K, Truthful, Has, Told
  <1>19. Complete(q, cl, ch)
    BY <1>30, <1>31 DEF K, Complete, Told
  <1> QED
    BY <1>11, <1>12, <1>13, <1>14, <1>15, <1>16, <1>17, <1>18, <1>19 DEF K, u

(* channel_handle_rfd: n bytes of what is in the pipe are buffered. *)
LEMMA ReadsOutput ==
    ASSUME NEW t, NEW in, NEW q, NEW cl, NEW ch, NEW p, K(t, in, q, cl, ch, p),
           NEW n \in Nat, n <= p.out, t.c.type = "open", t.c.istate = "open"
    PROVE  K([t EXCEPT !.c.input = @ + n], in, q, cl, ch, [p EXCEPT !.out = @ - n])
  <1> DEFINE u == [t EXCEPT !.c.input = @ + n]
             w == [p EXCEPT !.out = @ - n]
  <1>1. Typed(t, in, q, cl, ch, p)
    BY DEF K
  <1>2. /\ t.c.input \in Nat /\ t.c.output \in Nat /\ t.c.extended \in Nat
        /\ t.c.local_window \in Int /\ t.c.local_consumed \in Nat
        /\ cl.sent \in Nat /\ cl.got \in Nat /\ cl.errs \in Nat
        /\ ch.got \in Nat /\ ch.wrote \in Nat /\ ch.errs \in Nat
        /\ p.in \in Nat /\ p.in <= InPipe /\ p.out \in Nat /\ p.out <= OutPipe
        /\ p.err \in Nat /\ p.err <= OutPipe /\ InPipe \in Nat /\ OutPipe \in Nat
        /\ Bytes(in, "DATA") \in Nat /\ Bytes(q, "DATA") \in Nat
        /\ Bytes(q, "EXT") \in Nat /\ Bytes(q, "ADJUST") \in Nat
    BY <1>1, Numbers
  <1>3. /\ u \in Sessions
        /\ u.c = [t.c EXCEPT !.input = @ + n]
        /\ u.used = t.used /\ u.pid = t.pid /\ u.over = t.over
    <2>1. t.c.input + n \in Nat
      BY <1>2
    <2> QED
      BY <1>1, <2>1 DEF Typed, Sessions, Channels
  <1>30. /\ u.c.type = t.c.type /\ u.c.istate = t.c.istate /\ u.c.ostate = t.c.ostate
         /\ u.c.flags = t.c.flags /\ u.c.usage = t.c.usage
         /\ u.c.input = t.c.input + n /\ u.c.output = t.c.output
         /\ u.c.extended = t.c.extended
         /\ u.c.local_window = t.c.local_window /\ u.c.local_consumed = t.c.local_consumed
         /\ u.c.remote_window = t.c.remote_window
         /\ u.c.rfd = t.c.rfd /\ u.c.wfd = t.c.wfd /\ u.c.efd = t.c.efd
         /\ u.c.detach_user = t.c.detach_user /\ u.c.detach_close = t.c.detach_close
    <2> HIDE DEF u, w
    <2>1. t.c \in Channels
      BY <1>1 DEF Typed, Sessions
    <2>2. u.c = [t.c EXCEPT !.input = @ + n]
      BY <1>3
    <2> QED
      BY <2>1, <2>2 DEF Channels
  <1>31. u.used = t.used /\ u.pid = t.pid /\ u.over = t.over
    BY <1>3
  <1>10. w \in Pipes /\ w.in = p.in /\ w.out = p.out - n /\ w.err = p.err
    <2>1. p.out - n \in 0 .. OutPipe
      BY <1>2
    <2> QED
      BY <1>1, <2>1 DEF Typed, Pipes
  <1> HIDE DEF u, w
  <1>11. Typed(u, in, q, cl, ch, w)
    BY <1>1, <1>3, <1>10 DEF Typed
  <1>12. Spoken(u, in, cl)
    BY <1>30, <1>31 DEF K, Spoken, Has, Pipes
  <1>13. Staged(u, in, q, cl, ch)
    BY <1>30, <1>31 DEF K, Staged, Pipes
  <1>14. Tied(u, cl, ch, w)
    BY <1>10, <1>30, <1>31 DEF K, Tied, Has, BothClosed, Pipes
  <1>15. Windows(u, in, q, cl)
    BY <1>30, <1>31 DEF K, Windows, Pipes
  <1>16. InputKept(u, in, cl, ch, w)
    BY <1>10, <1>30, <1>31 DEF K, InputKept, Pipes
  <1>17. OutputKept(u, q, cl, ch, w)
    <2>1. /\ u.c.input = t.c.input + n /\ u.c.extended = t.c.extended
          /\ u.c.type = t.c.type /\ u.c.flags = t.c.flags /\ u.c.usage = t.c.usage
          /\ u.c.istate = "open" /\ u.c.efd = t.c.efd
      BY <1>1, <1>3 DEF Typed, Sessions, Channels
    <2>2. \A a, b, i, o \in Nat : a + b + i + o = a + b + (i + n) + (o - n)
      OBVIOUS
    <2> QED
      BY <1>2, <1>10, <2>1, <2>2 DEF K, OutputKept, Has
  <1>18. Truthful(u, q, cl, ch)
    BY <1>30, <1>31 DEF K, Truthful, Has, Told, Pipes
  <1>19. Complete(q, cl, ch)
    BY <1>30, <1>31 DEF K, Complete, Told, Pipes
  <1> QED
    BY <1>11, <1>12, <1>13, <1>14, <1>15, <1>16, <1>17, <1>18, <1>19 DEF K, u, w

(* channel_handle_wfd: the child is given n bytes, and the client may send as many. *)
LEMMA WritesInput ==
    ASSUME NEW t, NEW in, NEW q, NEW cl, NEW ch, NEW p, K(t, in, q, cl, ch, p),
           NEW n \in Nat,
           t.c.type = "open", ch.stdin, n <= t.c.output, n <= InPipe - p.in
    PROVE  K([t EXCEPT !.c.output = @ - n, !.c.local_consumed = @ + n], in, q, cl, ch,
             [p EXCEPT !.in = @ + n])
  <1> DEFINE u == [t EXCEPT !.c.output = @ - n, !.c.local_consumed = @ + n]
             w == [p EXCEPT !.in = @ + n]
  <1>1. Typed(t, in, q, cl, ch, p)
    BY DEF K
  <1>2. /\ t.c.input \in Nat /\ t.c.output \in Nat /\ t.c.extended \in Nat
        /\ t.c.local_window \in Int /\ t.c.local_consumed \in Nat
        /\ cl.sent \in Nat /\ cl.got \in Nat /\ cl.errs \in Nat
        /\ ch.got \in Nat /\ ch.wrote \in Nat /\ ch.errs \in Nat
        /\ p.in \in Nat /\ p.in <= InPipe /\ p.out \in Nat /\ p.out <= OutPipe
        /\ p.err \in Nat /\ p.err <= OutPipe /\ InPipe \in Nat /\ OutPipe \in Nat
        /\ Bytes(in, "DATA") \in Nat /\ Bytes(q, "DATA") \in Nat
        /\ Bytes(q, "EXT") \in Nat /\ Bytes(q, "ADJUST") \in Nat
    BY <1>1, Numbers
  <1>3. /\ u \in Sessions
        /\ u.c = [t.c EXCEPT !.output = @ - n, !.local_consumed = @ + n]
        /\ u.used = t.used /\ u.pid = t.pid /\ u.over = t.over
    <2>1. t.c.output - n \in Nat /\ t.c.local_consumed + n \in Nat
      BY <1>2
    <2> QED
      BY <1>1, <2>1 DEF Typed, Sessions, Channels
  <1>30. /\ u.c.type = t.c.type /\ u.c.istate = t.c.istate /\ u.c.ostate = t.c.ostate
         /\ u.c.flags = t.c.flags /\ u.c.usage = t.c.usage
         /\ u.c.input = t.c.input /\ u.c.output = t.c.output - n
         /\ u.c.extended = t.c.extended
         /\ u.c.local_window = t.c.local_window
         /\ u.c.local_consumed = t.c.local_consumed + n
         /\ u.c.remote_window = t.c.remote_window
         /\ u.c.rfd = t.c.rfd /\ u.c.wfd = t.c.wfd /\ u.c.efd = t.c.efd
         /\ u.c.detach_user = t.c.detach_user /\ u.c.detach_close = t.c.detach_close
    <2> HIDE DEF u, w
    <2>1. t.c \in Channels
      BY <1>1 DEF Typed, Sessions
    <2>2. u.c = [t.c EXCEPT !.output = @ - n, !.local_consumed = @ + n]
      BY <1>3
    <2> QED
      BY <2>1, <2>2 DEF Channels
  <1>31. u.used = t.used /\ u.pid = t.pid /\ u.over = t.over
    BY <1>3
  <1>10. w \in Pipes /\ w.in = p.in + n /\ w.out = p.out /\ w.err = p.err
    <2>1. p.in + n \in 0 .. InPipe
      BY <1>2
    <2> QED
      BY <1>1, <2>1 DEF Typed, Pipes
  <1> HIDE DEF u, w
  <1>11. Typed(u, in, q, cl, ch, w)
    BY <1>1, <1>3, <1>10 DEF Typed
  <1>12. Spoken(u, in, cl)
    BY <1>30, <1>31 DEF K, Spoken, Has, Pipes
  <1>13. Staged(u, in, q, cl, ch)
    BY <1>30, <1>31 DEF K, Staged, Pipes
  <1>14. Tied(u, cl, ch, w)
    <2>1. /\ u.c.output = t.c.output - n /\ u.c.type = "open" /\ u.c.wfd = t.c.wfd
          /\ u.c.ostate = t.c.ostate /\ u.c.rfd = t.c.rfd /\ u.c.istate = t.c.istate
          /\ u.c.flags = t.c.flags /\ u.c.usage = t.c.usage
          /\ u.c.detach_user = t.c.detach_user /\ u.c.detach_close = t.c.detach_close
      BY <1>1, <1>3 DEF Typed, Sessions, Channels
    <2>2. t.c.output = 0 => t.c.output - n = 0
      BY <1>2
    <2> QED
      BY <1>3, <1>10, <2>1, <2>2 DEF K, Tied, Has, BothClosed
  <1>15. Windows(u, in, q, cl)
    <2>1. /\ u.c.output = t.c.output - n /\ u.c.local_consumed = t.c.local_consumed + n
          /\ u.c.type = "open" /\ u.c.local_window = t.c.local_window
          /\ u.c.ostate = t.c.ostate /\ u.c.remote_window = t.c.remote_window
      BY <1>1, <1>3 DEF Typed, Sessions, Channels
    <2>2. u.c.local_window + u.c.local_consumed + u.c.output
              = t.c.local_window + t.c.local_consumed + t.c.output
      BY <1>2, <2>1
    <2> QED
      BY <2>1, <2>2 DEF K, Windows
  <1>16. InputKept(u, in, cl, ch, w)
    <2>1. u.c.output = t.c.output - n
      BY <1>1, <1>3 DEF Typed, Sessions, Channels
    <2>2. ch.got + w.in + u.c.output + Bytes(in, "DATA")
              = ch.got + p.in + t.c.output + Bytes(in, "DATA")
      BY <1>2, <1>10, <2>1
    <2> QED
      BY <2>2 DEF K, InputKept
  <1>17. OutputKept(u, q, cl, ch, w)
    BY <1>10, <1>30, <1>31 DEF K, OutputKept, Has, Pipes
  <1>18. Truthful(u, q, cl, ch)
    BY <1>30, <1>31 DEF K, Truthful, Has, Told, Pipes
  <1>19. Complete(q, cl, ch)
    BY <1>30, <1>31 DEF K, Complete, Told, Pipes
  <1> QED
    BY <1>11, <1>12, <1>13, <1>14, <1>15, <1>16, <1>17, <1>18, <1>19 DEF K, u, w

(* channel_handle_efd_read: n bytes of what is in the pipe are buffered. *)
LEMMA ReadsErrors ==
    ASSUME NEW t, NEW in, NEW q, NEW cl, NEW ch, NEW p, K(t, in, q, cl, ch, p),
           NEW n \in Nat, n <= p.err, t.c.type = "open", t.c.efd, t.c.usage = "read"
    PROVE  K([t EXCEPT !.c.extended = @ + n], in, q, cl, ch, [p EXCEPT !.err = @ - n])
  <1> DEFINE u == [t EXCEPT !.c.extended = @ + n]
             w == [p EXCEPT !.err = @ - n]
  <1>1. Typed(t, in, q, cl, ch, p)
    BY DEF K
  <1>2. /\ t.c.input \in Nat /\ t.c.output \in Nat /\ t.c.extended \in Nat
        /\ t.c.local_window \in Int /\ t.c.local_consumed \in Nat
        /\ cl.sent \in Nat /\ cl.got \in Nat /\ cl.errs \in Nat
        /\ ch.got \in Nat /\ ch.wrote \in Nat /\ ch.errs \in Nat
        /\ p.in \in Nat /\ p.in <= InPipe /\ p.out \in Nat /\ p.out <= OutPipe
        /\ p.err \in Nat /\ p.err <= OutPipe /\ InPipe \in Nat /\ OutPipe \in Nat
        /\ Bytes(in, "DATA") \in Nat /\ Bytes(q, "DATA") \in Nat
        /\ Bytes(q, "EXT") \in Nat /\ Bytes(q, "ADJUST") \in Nat
    BY <1>1, Numbers
  <1>3. /\ u \in Sessions
        /\ u.c = [t.c EXCEPT !.extended = @ + n]
        /\ u.used = t.used /\ u.pid = t.pid /\ u.over = t.over
    <2>1. t.c.extended + n \in Nat
      BY <1>2
    <2> QED
      BY <1>1, <2>1 DEF Typed, Sessions, Channels
  <1>30. /\ u.c.type = t.c.type /\ u.c.istate = t.c.istate /\ u.c.ostate = t.c.ostate
         /\ u.c.flags = t.c.flags /\ u.c.usage = t.c.usage
         /\ u.c.input = t.c.input /\ u.c.output = t.c.output
         /\ u.c.extended = t.c.extended + n
         /\ u.c.local_window = t.c.local_window /\ u.c.local_consumed = t.c.local_consumed
         /\ u.c.remote_window = t.c.remote_window
         /\ u.c.rfd = t.c.rfd /\ u.c.wfd = t.c.wfd /\ u.c.efd = t.c.efd
         /\ u.c.detach_user = t.c.detach_user /\ u.c.detach_close = t.c.detach_close
    <2> HIDE DEF u, w
    <2>1. t.c \in Channels
      BY <1>1 DEF Typed, Sessions
    <2>2. u.c = [t.c EXCEPT !.extended = @ + n]
      BY <1>3
    <2> QED
      BY <2>1, <2>2 DEF Channels
  <1>31. u.used = t.used /\ u.pid = t.pid /\ u.over = t.over
    BY <1>3
  <1>10. w \in Pipes /\ w.in = p.in /\ w.out = p.out /\ w.err = p.err - n
    <2>1. p.err - n \in 0 .. OutPipe
      BY <1>2
    <2> QED
      BY <1>1, <2>1 DEF Typed, Pipes
  <1> HIDE DEF u, w
  <1>11. Typed(u, in, q, cl, ch, w)
    BY <1>1, <1>3, <1>10 DEF Typed
  <1>12. Spoken(u, in, cl)
    BY <1>30, <1>31 DEF K, Spoken, Has, Pipes
  <1>13. Staged(u, in, q, cl, ch)
    BY <1>30, <1>31 DEF K, Staged, Pipes
  <1>14. Tied(u, cl, ch, w)
    BY <1>10, <1>30, <1>31 DEF K, Tied, Has, BothClosed, Pipes
  <1>15. Windows(u, in, q, cl)
    BY <1>30, <1>31 DEF K, Windows, Pipes
  <1>16. InputKept(u, in, cl, ch, w)
    BY <1>10, <1>30, <1>31 DEF K, InputKept, Pipes
  <1>17. OutputKept(u, q, cl, ch, w)
    <2>1. /\ u.c.extended = t.c.extended + n /\ u.c.input = t.c.input
          /\ u.c.type = t.c.type /\ u.c.flags = t.c.flags /\ u.c.usage = t.c.usage
          /\ u.c.istate = t.c.istate /\ u.c.efd
      BY <1>1, <1>3 DEF Typed, Sessions, Channels
    <2>2. \A a, b, i, o \in Nat : a + b + i + o = a + b + (i + n) + (o - n)
      OBVIOUS
    <2> QED
      BY <1>2, <1>10, <2>1, <2>2 DEF K, OutputKept, Has
  <1>18. Truthful(u, q, cl, ch)
    BY <1>30, <1>31 DEF K, Truthful, Has, Told, Pipes
  <1>19. Complete(q, cl, ch)
    BY <1>30, <1>31 DEF K, Complete, Told, Pipes
  <1> QED
    BY <1>11, <1>12, <1>13, <1>14, <1>15, <1>16, <1>17, <1>18, <1>19 DEF K, u, w

(* channel_handle_efd_read: the stderr of a subsystem is read and dropped. *)
LEMMA DropsErrors ==
    ASSUME NEW t, NEW in, NEW q, NEW cl, NEW ch, NEW p, K(t, in, q, cl, ch, p),
           NEW n \in Nat, n <= p.err, t.c.type = "open", t.c.efd, t.c.usage = "ignore"
    PROVE  K(t, in, q, cl, ch, [p EXCEPT !.err = @ - n])
  <1> DEFINE w == [p EXCEPT !.err = @ - n]
  <1>1. Typed(t, in, q, cl, ch, p)
    BY DEF K
  <1>2. /\ t.c.input \in Nat /\ t.c.output \in Nat /\ t.c.extended \in Nat
        /\ t.c.local_window \in Int /\ t.c.local_consumed \in Nat
        /\ cl.sent \in Nat /\ cl.got \in Nat /\ cl.errs \in Nat
        /\ ch.got \in Nat /\ ch.wrote \in Nat /\ ch.errs \in Nat
        /\ p.in \in Nat /\ p.in <= InPipe /\ p.out \in Nat /\ p.out <= OutPipe
        /\ p.err \in Nat /\ p.err <= OutPipe /\ InPipe \in Nat /\ OutPipe \in Nat
        /\ Bytes(in, "DATA") \in Nat /\ Bytes(q, "DATA") \in Nat
        /\ Bytes(q, "EXT") \in Nat /\ Bytes(q, "ADJUST") \in Nat
    BY <1>1, Numbers
  <1>10. w \in Pipes /\ w.in = p.in /\ w.out = p.out /\ w.err = p.err - n
    <2>1. p.err - n \in 0 .. OutPipe
      BY <1>2
    <2> QED
      BY <1>1, <2>1 DEF Typed, Pipes
  <1> HIDE DEF w
  <1>11. Typed(t, in, q, cl, ch, w)
    BY <1>1, <1>10 DEF Typed
  <1>12. Spoken(t, in, cl)
    BY <1>1 DEF K, Spoken, Has, Typed, Sessions, Channels, Pipes
  <1>13. Staged(t, in, q, cl, ch)
    BY <1>1 DEF K, Staged, Typed, Sessions, Channels, Pipes
  <1>14. Tied(t, cl, ch, w)
    BY <1>1, <1>10 DEF K, Tied, Has, BothClosed, Typed, Sessions, Channels, Pipes
  <1>15. Windows(t, in, q, cl)
    BY <1>1 DEF K, Windows, Typed, Sessions, Channels, Pipes
  <1>16. InputKept(t, in, cl, ch, w)
    BY <1>1, <1>10 DEF K, InputKept, Typed, Sessions, Channels, Pipes
  <1>17. OutputKept(t, q, cl, ch, w)
    BY <1>1, <1>2, <1>10 DEF K, OutputKept, Has, Typed, Sessions, Channels, Pipes
  <1>18. Truthful(t, q, cl, ch)
    BY <1>1 DEF K, Truthful, Has, Told, Typed, Sessions, Channels, Pipes
  <1>19. Complete(q, cl, ch)
    BY <1>1 DEF K, Complete, Told, Typed, Sessions, Channels, Pipes
  <1> QED
    BY <1>11, <1>12, <1>13, <1>14, <1>15, <1>16, <1>17, <1>18, <1>19 DEF K, w

(* channel_handle_efd_read at end of file. *)
LEMMA ErrorsEnd ==
    ASSUME NEW t, NEW in, NEW q, NEW cl, NEW ch, NEW p, K(t, in, q, cl, ch, p),
           t.c.type = "open", t.c.efd, p.err = 0, ch.state # "running"
    PROVE  K([t EXCEPT !.c.efd = FALSE], in, q, cl, ch, p)
  <1> DEFINE u == [t EXCEPT !.c.efd = FALSE]
  <1>1. Typed(t, in, q, cl, ch, p)
    BY DEF K
  <1>3. /\ u \in Sessions
        /\ u.c = [t.c EXCEPT !.efd = FALSE]
        /\ u.used = t.used /\ u.pid = t.pid /\ u.over = t.over
    BY <1>1 DEF Typed, Sessions, Channels
  <1>30. /\ u.c.type = t.c.type /\ u.c.istate = t.c.istate /\ u.c.ostate = t.c.ostate
         /\ u.c.flags = t.c.flags /\ u.c.usage = t.c.usage
         /\ u.c.input = t.c.input /\ u.c.output = t.c.output /\ u.c.extended = t.c.extended
         /\ u.c.local_window = t.c.local_window /\ u.c.local_consumed = t.c.local_consumed
         /\ u.c.remote_window = t.c.remote_window
         /\ u.c.rfd = t.c.rfd /\ u.c.wfd = t.c.wfd /\ u.c.efd = FALSE
         /\ u.c.detach_user = t.c.detach_user /\ u.c.detach_close = t.c.detach_close
    <2> HIDE DEF u
    <2>1. t.c \in Channels
      BY <1>1 DEF Typed, Sessions
    <2>2. u.c = [t.c EXCEPT !.efd = FALSE]
      BY <1>3
    <2> QED
      BY <2>1, <2>2 DEF Channels
  <1>31. u.used = t.used /\ u.pid = t.pid /\ u.over = t.over
    BY <1>3
  <1> HIDE DEF u
  <1>11. Typed(u, in, q, cl, ch, p)
    BY <1>1, <1>3 DEF Typed
  <1>12. Spoken(u, in, cl)
    BY <1>30, <1>31 DEF K, Spoken, Has
  <1>13. Staged(u, in, q, cl, ch)
    BY <1>30, <1>31 DEF K, Staged
  <1>14. Tied(u, cl, ch, p)
    BY <1>30, <1>31 DEF K, Tied, Has, BothClosed
  <1>15. Windows(u, in, q, cl)
    BY <1>30, <1>31 DEF K, Windows
  <1>16. InputKept(u, in, cl, ch, p)
    BY <1>30, <1>31 DEF K, InputKept
  <1>17. OutputKept(u, q, cl, ch, p)
    BY <1>30, <1>31 DEF K, OutputKept, Has
  <1>18. Truthful(u, q, cl, ch)
    BY <1>30, <1>31 DEF K, Truthful, Has, Told
  <1>19. Complete(q, cl, ch)
    BY <1>30, <1>31 DEF K, Complete, Told
  <1> QED
    BY <1>11, <1>12, <1>13, <1>14, <1>15, <1>16, <1>17, <1>18, <1>19 DEF K, u

(* channel_free: both sides have closed the channel, and the child is gone. *)
LEMMA Freed ==
    ASSUME NEW t, NEW in, NEW q, NEW cl, NEW ch, NEW p, K(t, in, q, cl, ch, p),
           t.c.type = "open", Has(t, "close_sent"), Has(t, "close_rcvd"), ~t.pid
    PROVE  K([t EXCEPT !.c = NoChannel, !.used = FALSE], in, q, cl, ch, p)
  <1> DEFINE u == [t EXCEPT !.c = NoChannel, !.used = FALSE]
  <1>1. Typed(t, in, q, cl, ch, p)
    BY DEF K
  <1>2. /\ NoChannel.type = "none" /\ NoChannel.flags = {} /\ ~NoChannel.detach_user
        /\ NoChannel.output = 0
    BY NoChannelFacts
  <1>3. /\ u \in Sessions
        /\ u.c = NoChannel /\ u.used = FALSE /\ u.pid = t.pid /\ u.over = t.over
    BY <1>1, NoChannelFacts DEF Typed, Sessions
  <1> HIDE DEF u
  <1>11. Typed(u, in, q, cl, ch, p)
    BY <1>1, <1>3 DEF Typed
  <1>12. Spoken(u, in, cl)
    BY <1>1, <1>3, <1>2 DEF K, Spoken, Has, Typed, Sessions, Channels
  <1>13. Staged(u, in, q, cl, ch)
    <2>1. cl.close /\ cl.stage # "new" /\ in = << >> /\ t.c.type = "open"
            /\ u.c.type = "none"
      BY <1>2, <1>3 DEF K, Spoken, Staged
    <2> QED
      BY <2>1 DEF K, Staged
  <1>14. Tied(u, cl, ch, p)
    BY <1>1, <1>3, <1>2 DEF K, Tied, Has, BothClosed, Typed, Sessions, Channels
  <1>15. Windows(u, in, q, cl)
    BY <1>1, <1>3, <1>2 DEF K, Windows, Typed, Sessions, Channels
  <1>16. InputKept(u, in, cl, ch, p)
    <2>1. ~ch.stdin
      BY DEF K, Tied
    <2> QED
      BY <2>1 DEF InputKept
  <1>17. OutputKept(u, q, cl, ch, p)
    BY <1>1, <1>3, <1>2 DEF K, OutputKept, Has, Typed, Sessions, Channels
  <1>18. Truthful(u, q, cl, ch)
    BY <1>1, <1>3, <1>2 DEF K, Truthful, Has, Told, Typed, Sessions, Channels
  <1>19. Complete(q, cl, ch)
    BY <1>1, <1>3, <1>2 DEF K, Complete, Told, Typed, Sessions, Channels
  <1> QED
    BY <1>11, <1>12, <1>13, <1>14, <1>15, <1>16, <1>17, <1>18, <1>19 DEF K, u

(* chan_write_failed: the child no longer takes input; what is buffered is dropped. *)
LEMMA WriteStopped ==
    ASSUME NEW t, NEW in, NEW q, NEW cl, NEW ch, NEW p, K(t, in, q, cl, ch, p),
           t.c.type = "open", ~ch.stdin
    PROVE  K([chan_shutdown_write(t) EXCEPT !.c.ostate = "closed"], in, q, cl, ch, p)
  <1> DEFINE u == [chan_shutdown_write(t) EXCEPT !.c.ostate = "closed"]
  <1>1. Typed(t, in, q, cl, ch, p)
    BY DEF K
  <1>2. /\ t.c.input \in Nat /\ t.c.output \in Nat /\ t.c.extended \in Nat
        /\ t.c.local_window \in Int /\ t.c.local_consumed \in Nat
        /\ cl.sent \in Nat /\ cl.got \in Nat /\ cl.errs \in Nat
        /\ ch.got \in Nat /\ ch.wrote \in Nat /\ ch.errs \in Nat
        /\ p.in \in Nat /\ p.in <= InPipe /\ p.out \in Nat /\ p.out <= OutPipe
        /\ p.err \in Nat /\ p.err <= OutPipe /\ InPipe \in Nat /\ OutPipe \in Nat
        /\ Bytes(in, "DATA") \in Nat /\ Bytes(q, "DATA") \in Nat
        /\ Bytes(q, "EXT") \in Nat /\ Bytes(q, "ADJUST") \in Nat
    BY <1>1, Numbers
  <1>3. /\ u \in Sessions
        /\ u.c = [t.c EXCEPT !.output = 0, !.wfd = FALSE, !.ostate = "closed"]
        /\ u.used = t.used /\ u.pid = t.pid /\ u.over = t.over
    BY <1>1 DEF Typed, Sessions, Channels,
           chan_shutdown_write
  <1>30. /\ u.c.type = t.c.type /\ u.c.istate = t.c.istate /\ u.c.ostate = "closed"
         /\ u.c.flags = t.c.flags /\ u.c.usage = t.c.usage
         /\ u.c.input = t.c.input /\ u.c.output = 0 /\ u.c.extended = t.c.extended
         /\ u.c.local_window = t.c.local_window /\ u.c.local_consumed = t.c.local_consumed
         /\ u.c.remote_window = t.c.remote_window
         /\ u.c.rfd = t.c.rfd /\ u.c.wfd = FALSE /\ u.c.efd = t.c.efd
         /\ u.c.detach_user = t.c.detach_user /\ u.c.detach_close = t.c.detach_close
    <2> HIDE DEF u
    <2>1. t.c \in Channels
      BY <1>1 DEF Typed, Sessions
    <2>2. u.c = [t.c EXCEPT !.output = 0, !.wfd = FALSE, !.ostate = "closed"]
      BY <1>3
    <2> QED
      BY <2>1, <2>2 DEF Channels
  <1>31. u.used = t.used /\ u.pid = t.pid /\ u.over = t.over
    BY <1>3
  <1> HIDE DEF u
  <1>11. Typed(u, in, q, cl, ch, p)
    BY <1>1, <1>3 DEF Typed
  <1>12. Spoken(u, in, cl)
    BY <1>30, <1>31 DEF K, Spoken, Has
  <1>13. Staged(u, in, q, cl, ch)
    BY <1>30, <1>31 DEF K, Staged
  <1>14. Tied(u, cl, ch, p)
    BY <1>30, <1>31 DEF K, Tied, Has, BothClosed
  <1>15. Windows(u, in, q, cl)
    <2>1. /\ u.c.output = 0 /\ u.c.local_consumed = t.c.local_consumed
          /\ u.c.type = "open" /\ u.c.local_window = t.c.local_window
          /\ u.c.ostate = "closed" /\ u.c.remote_window = t.c.remote_window
      BY <1>1, <1>3 DEF Typed, Sessions, Channels
    <2>2. t.c.local_window + t.c.local_consumed + 0
              <= t.c.local_window + t.c.local_consumed + t.c.output
      BY <1>2
    <2>3. t.c.local_window + t.c.local_consumed + t.c.output <= WindowMax
      BY DEF K, Windows
    <2>4. t.c.local_window + t.c.local_consumed + 0 <= WindowMax
      BY <1>2, <2>2, <2>3, SizeAssumption
    <2> QED
      BY <2>1, <2>4 DEF K, Windows
  <1>16. InputKept(u, in, cl, ch, p)
    BY DEF InputKept
  <1>17. OutputKept(u, q, cl, ch, p)
    BY <1>30, <1>31 DEF K, OutputKept, Has
  <1>18. Truthful(u, q, cl, ch)
    BY <1>30, <1>31 DEF K, Truthful, Has, Told
  <1>19. Complete(q, cl, ch)
    BY <1>30, <1>31 DEF K, Complete, Told
  <1> QED
    BY <1>11, <1>12, <1>13, <1>14, <1>15, <1>16, <1>17, <1>18, <1>19 DEF K, u

(* EOW and SUCCESS may be sent whenever CLOSE has not been. *)
LEMMA Says ==
    ASSUME NEW t, NEW in, NEW q, NEW cl, NEW ch, NEW p, K(t, in, q, cl, ch, p),
           NEW a \in {"EOW", "SUCCESS"},
           t.c.type = "open", ~Has(t, "close_sent")
    PROVE  K(Send(t, a, 0), in, Append(q, <<a, 0>>), cl, ch, p)
  <1> DEFINE u == Send(t, a, 0)
             r == Append(q, <<a, 0>>)
  <1>1. Typed(t, in, q, cl, ch, p)
    BY DEF K
  <1>2. a \in Words /\ 0 \in Nat
    BY DEF Words
  <1>3. /\ u \in Sessions
        /\ u.c = t.c
        /\ u.used = t.used /\ u.pid = t.pid /\ u.over = t.over
    BY <1>1, <1>2, SendFields DEF Typed
  <1>4. /\ r \in Seq(Messages) /\ r # << >>
        /\ Len(q) \in Nat /\ Len(r) = Len(q) + 1
        /\ \A i \in 1 .. Len(q) : r[i] = q[i]
        /\ r[Len(q) + 1][1] = a /\ \A m : Holds(r, m) <=> Holds(q, m) \/ a = m
    BY <1>1, <1>2, Said DEF Typed
  <1>5. /\ Bytes(q, "DATA") \in Nat /\ Bytes(r, "DATA") = Bytes(q, "DATA")
        /\ Bytes(q, "EXT") \in Nat /\ Bytes(r, "EXT") = Bytes(q, "EXT")
        /\ Bytes(q, "ADJUST") \in Nat /\ Bytes(r, "ADJUST") = Bytes(q, "ADJUST")
    BY <1>1, <1>2, SaidBytes DEF Typed
  <1>6. ~Told(q, cl, "CLOSE") /\ Orderly(cl.seen, r)
    <2>1. ~Told(q, cl, "CLOSE")
      BY DEF K, Truthful
    <2> QED
      BY <1>1, <1>2, <2>1, OrderlySaid DEF Typed, K, Truthful, Told
  <1> HIDE DEF u, r
  <1>11. Typed(u, in, r, cl, ch, p)
    BY <1>1, <1>3, <1>4 DEF Typed
  <1>12. Spoken(u, in, cl)
    BY <1>1, <1>3 DEF K, Spoken, Has, Typed, Sessions, Channels
  <1>13. Staged(u, in, r, cl, ch)
    BY <1>1, <1>3, <1>4 DEF K, Staged, Typed, Sessions, Channels
  <1>14. Tied(u, cl, ch, p)
    BY <1>1, <1>3 DEF K, Tied, Has, BothClosed, Typed, Sessions, Channels
  <1>15. Windows(u, in, r, cl)
    BY <1>1, <1>3, <1>5 DEF K, Windows, Typed, Sessions, Channels
  <1>16. InputKept(u, in, cl, ch, p)
    BY <1>1, <1>3 DEF K, InputKept, Typed, Sessions, Channels
  <1>17. OutputKept(u, r, cl, ch, p)
    BY <1>1, <1>3, <1>5 DEF K, OutputKept, Has, Typed, Sessions, Channels
  <1>18. Truthful(u, r, cl, ch)
    BY <1>1, <1>3, <1>4, <1>6 DEF K, Truthful, Has, Told, Typed, Sessions, Channels
  <1>19. Complete(r, cl, ch)
    BY <1>1, <1>2, <1>6, CompleteSaid DEF K, Typed, r
  <1> QED
    BY <1>11, <1>12, <1>13, <1>14, <1>15, <1>16, <1>17, <1>18, <1>19 DEF K, u, r

(* session_exit_message: the exit status is sent, and CLOSE may be from now on. *)
LEMMA Reported ==
    ASSUME NEW t, NEW in, NEW q, NEW cl, NEW ch, NEW p, K(t, in, q, cl, ch, p),
           ch.state = "zombie"
    PROVE  K([Send(t, "STATUS", 0) EXCEPT !.c.detach_user = TRUE, !.c.detach_close = TRUE,
              !.pid = FALSE], in, Append(q, <<"STATUS", 0>>), cl,
                [ch EXCEPT !.state = "reaped"], p)
  <1> DEFINE u == [Send(t, "STATUS", 0) EXCEPT !.c.detach_user = TRUE,
                   !.c.detach_close = TRUE, !.pid = FALSE]
             r == Append(q, <<"STATUS", 0>>)
             d == [ch EXCEPT !.state = "reaped"]
  <1>1. Typed(t, in, q, cl, ch, p)
    BY DEF K
  <1>2. "STATUS" \in Words /\ 0 \in Nat
    BY WordFacts
  <1>0. t.c.type = "open" /\ t.pid
    BY DEF K, Tied
  <1>3. /\ u \in Sessions
        /\ u.c = [t.c EXCEPT !.detach_user = TRUE, !.detach_close = TRUE]
        /\ u.used = t.used /\ u.pid = FALSE /\ u.over = t.over
    <2>1. /\ Send(t, "STATUS", 0) \in Sessions /\ Send(t, "STATUS", 0).c = t.c
          /\ Send(t, "STATUS", 0).used = t.used /\ Send(t, "STATUS", 0).over = t.over
      BY <1>1, <1>2, SendFields DEF Typed
    <2> QED
      BY <1>1, <2>1 DEF Typed, Sessions, Channels
  <1>30. /\ u.c.type = t.c.type /\ u.c.istate = t.c.istate /\ u.c.ostate = t.c.ostate
         /\ u.c.flags = t.c.flags /\ u.c.usage = t.c.usage
         /\ u.c.input = t.c.input /\ u.c.output = t.c.output /\ u.c.extended = t.c.extended
         /\ u.c.local_window = t.c.local_window /\ u.c.local_consumed = t.c.local_consumed
         /\ u.c.remote_window = t.c.remote_window
         /\ u.c.rfd = t.c.rfd /\ u.c.wfd = t.c.wfd /\ u.c.efd = t.c.efd
         /\ u.c.detach_user = TRUE /\ u.c.detach_close = TRUE
    <2> HIDE DEF u, r, d
    <2>1. t.c \in Channels
      BY <1>1 DEF Typed, Sessions
    <2>2. u.c = [t.c EXCEPT !.detach_user = TRUE, !.detach_close = TRUE]
      BY <1>3
    <2> QED
      BY <2>1, <2>2 DEF Channels
  <1>31. u.used = t.used /\ u.pid = FALSE /\ u.over = t.over
    BY <1>3
  <1>4. /\ r \in Seq(Messages) /\ r # << >>
        /\ Len(q) \in Nat /\ Len(r) = Len(q) + 1
        /\ \A i \in 1 .. Len(q) : r[i] = q[i]
        /\ r[Len(q) + 1][1] = "STATUS" /\ \A m : Holds(r, m) <=> Holds(q, m) \/ "STATUS" = m
    BY <1>1, <1>2, Said DEF Typed
  <1>5. /\ Bytes(q, "DATA") \in Nat /\ Bytes(r, "DATA") = Bytes(q, "DATA")
        /\ Bytes(q, "EXT") \in Nat /\ Bytes(r, "EXT") = Bytes(q, "EXT")
        /\ Bytes(q, "ADJUST") \in Nat /\ Bytes(r, "ADJUST") = Bytes(q, "ADJUST")
    BY <1>1, <1>2, SaidBytes DEF Typed
  <1>6. ~Told(q, cl, "CLOSE") /\ Orderly(cl.seen, r)
    <2>1. ~Has(t, "close_sent") /\ ~Told(q, cl, "STATUS")
      BY <1>0 DEF K, Tied, Truthful
    <2>2. ~Told(q, cl, "CLOSE")
      BY <1>0, <2>1 DEF K, Truthful
    <2> QED
      BY <1>1, <1>2, <2>1, <2>2, OrderlySaid DEF Typed, K, Truthful, Told
  <1>9. /\ d \in Children /\ d.state = "reaped" /\ d.stdin = ch.stdin /\ d.got = ch.got
        /\ d.wrote = ch.wrote /\ d.errs = ch.errs
    BY <1>1 DEF Typed, Children
  <1> HIDE DEF u, r, d
  <1>11. Typed(u, in, r, cl, d, p)
    BY <1>1, <1>3, <1>4, <1>9 DEF Typed
  <1>12. Spoken(u, in, cl)
    BY <1>0, <1>30, <1>31 DEF K, Spoken, Has, Children
  <1>13. Staged(u, in, r, cl, d)
    BY <1>0, <1>4, <1>9, <1>30, <1>31 DEF K, Staged, Children
  <1>14. Tied(u, cl, d, p)
    <2>1. t.c.detach_user = TRUE
      BY <1>0, <1>1 DEF K, Tied, Typed, Sessions, Channels
    <2>2. /\ u.c.type = "open" /\ u.c.output = t.c.output /\ u.c.wfd = t.c.wfd
          /\ u.c.ostate = t.c.ostate /\ u.c.rfd = t.c.rfd /\ u.c.istate = t.c.istate
          /\ u.c.flags = t.c.flags /\ u.c.usage = t.c.usage
          /\ u.c.detach_user = TRUE /\ u.c.detach_close = TRUE
      BY <1>0, <1>1, <1>3 DEF Typed, Sessions, Channels
    <2>3. t.over = FALSE /\ t.used = TRUE /\ ~ch.stdin
      BY <1>1, <1>0 DEF K, Tied, Typed, Sessions
    <2> QED
      BY <1>0, <1>3, <1>9, <2>1, <2>2, <2>3 DEF K, Tied, Has, BothClosed
  <1>15. Windows(u, in, r, cl)
    BY <1>0, <1>5, <1>30, <1>31 DEF K, Windows, Children
  <1>16. InputKept(u, in, cl, d, p)
    BY <1>0, <1>9, <1>30, <1>31 DEF K, InputKept, Children
  <1>17. OutputKept(u, r, cl, d, p)
    <2>1. /\ u.c.extended = t.c.extended /\ u.c.input = t.c.input
          /\ u.c.type = t.c.type /\ u.c.flags = t.c.flags /\ u.c.usage = t.c.usage
          /\ u.c.istate = t.c.istate /\ u.c.efd = t.c.efd
      BY <1>1, <1>3 DEF Typed, Sessions, Channels
    <2> QED
      BY <1>5, <1>9, <2>1 DEF K, OutputKept, Has
  <1>18. Truthful(u, r, cl, d)
    BY <1>0, <1>4, <1>6, <1>9, <1>30, <1>31 DEF K, Truthful, Has, Told, Children
  <1>19. Complete(r, cl, d)
    <2>1. Complete(q, cl, d)
      BY <1>9, <1>6 DEF K, Complete, Told
    <2> QED
      BY <1>1, <1>2, <1>6, <2>1, CompleteSaid DEF Typed, r
  <1> QED
    BY <1>11, <1>12, <1>13, <1>14, <1>15, <1>16, <1>17, <1>18, <1>19 DEF K, u, r, d

(* channel_garbage_collect: the client closes a channel on which nothing was started. *)
LEMMA LarvalFreed ==
    ASSUME NEW t, NEW in, NEW q, NEW cl, NEW ch, NEW p, K(t, in, q, cl, ch, p),
           t.c.type = "larval", Has(t, "close_rcvd")
    PROVE  K([Send(t, "CLOSE", 0) EXCEPT !.c = NoChannel, !.used = FALSE], in,
             Append(q, <<"CLOSE", 0>>), cl, ch, p)
  <1> DEFINE u == [Send(t, "CLOSE", 0) EXCEPT !.c = NoChannel, !.used = FALSE]
             r == Append(q, <<"CLOSE", 0>>)
  <1>1. Typed(t, in, q, cl, ch, p)
    BY DEF K
  <1>2. "CLOSE" \in Words /\ 0 \in Nat
    BY WordFacts
  <1>0. /\ NoChannel.type = "none" /\ NoChannel.flags = {} /\ ~NoChannel.detach_user
        /\ NoChannel.output = 0
        /\ in = << >> /\ cl.close /\ cl.seen = {} /\ cl.early /\ ch.state = "none"
        /\ \A i \in 1 .. Len(q) : q[i][1] \in {"CONFIRM", "FAILURE"}
    BY NoChannelFacts DEF K, Spoken, Staged, Idle, Complete
  <1>3. /\ u \in Sessions
        /\ u.c = NoChannel /\ u.used = FALSE /\ u.pid = t.pid /\ u.over = t.over
    <2>1. /\ Send(t, "CLOSE", 0) \in Sessions /\ Send(t, "CLOSE", 0).pid = t.pid
          /\ Send(t, "CLOSE", 0).over = t.over
      BY <1>1, <1>2, SendFields DEF Typed
    <2> QED
      BY <2>1, NoChannelFacts DEF Sessions
  <1>4. /\ r \in Seq(Messages) /\ r # << >>
        /\ Len(q) \in Nat /\ Len(r) = Len(q) + 1
        /\ \A i \in 1 .. Len(q) : r[i] = q[i]
        /\ r[Len(q) + 1][1] = "CLOSE" /\ \A m : Holds(r, m) <=> Holds(q, m) \/ "CLOSE" = m
    BY <1>1, <1>2, Said DEF Typed
  <1>5. /\ Bytes(q, "DATA") \in Nat /\ Bytes(r, "DATA") = Bytes(q, "DATA")
        /\ Bytes(q, "EXT") \in Nat /\ Bytes(r, "EXT") = Bytes(q, "EXT")
        /\ Bytes(q, "ADJUST") \in Nat /\ Bytes(r, "ADJUST") = Bytes(q, "ADJUST")
    BY <1>1, <1>2, SaidBytes DEF Typed
  <1>6. ~Told(q, cl, "CLOSE") /\ Orderly(cl.seen, r)
    <2>1. ~Told(q, cl, "CLOSE")
      BY <1>0 DEF Told, Holds
    <2> QED
      BY <1>1, <1>2, <2>1, OrderlySaid DEF Typed, K, Truthful, Told
  <1> HIDE DEF u, r
  <1>11. Typed(u, in, r, cl, ch, p)
    BY <1>1, <1>3, <1>4 DEF Typed
  <1>12. Spoken(u, in, cl)
    BY <1>1, <1>3, <1>0 DEF K, Spoken, Has, Typed, Sessions, Channels
  <1>13. Staged(u, in, r, cl, ch)
    <2>1. t.c.type = "larval" /\ u.c.type = "none" /\ cl.stage # "new"
            /\ cl.stage # "opening"
      BY <1>0, <1>3 DEF K, Staged
    <2>2. Holds(r, "CONFIRM") => Holds(q, "CONFIRM")
      BY <1>4
    <2> QED
      BY <1>0, <2>1, <2>2 DEF K, Staged
  <1>14. Tied(u, cl, ch, p)
    BY <1>1, <1>3, <1>0 DEF K, Tied, Has, BothClosed, Typed, Sessions, Channels
  <1>15. Windows(u, in, r, cl)
    BY <1>1, <1>3, <1>0, <1>5 DEF K, Windows, Typed, Sessions, Channels
  <1>16. InputKept(u, in, cl, ch, p)
    BY <1>0 DEF K, Tied, InputKept
  <1>17. OutputKept(u, r, cl, ch, p)
    BY <1>1, <1>3, <1>0, <1>5 DEF K, OutputKept, Has, Typed, Sessions, Channels
  <1>18. Truthful(u, r, cl, ch)
    BY <1>1, <1>3, <1>0, <1>4, <1>6
      DEF K, Truthful, Has, Told, Typed, Sessions, Channels
  <1>19. Complete(r, cl, ch)
    BY <1>1, <1>3, <1>0, <1>4, <1>5 DEF K, Complete, Told, Typed, Sessions, Channels
  <1> QED
    BY <1>11, <1>12, <1>13, <1>14, <1>15, <1>16, <1>17, <1>18, <1>19 DEF K, u, r

(* channel_output_poll_input_open: no more than the window of the client. *)
LEMMA SendsData ==
    ASSUME NEW t, NEW in, NEW q, NEW cl, NEW ch, NEW p, K(t, in, q, cl, ch, p),
           NEW n \in Nat,
           t.c.type = "open", ~Has(t, "close_sent"), ~Has(t, "close_rcvd"),
           t.c.istate # "closed", ~Has(t, "eof_sent"),
           n <= t.c.input, n <= t.c.remote_window
    PROVE  K([Send(t, "DATA", n) EXCEPT !.c.input = @ - n, !.c.remote_window = @ - n], in,
             Append(q, <<"DATA", n>>), cl, ch, p)
  <1> DEFINE u == [Send(t, "DATA", n) EXCEPT !.c.input = @ - n, !.c.remote_window = @ - n]
             r == Append(q, <<"DATA", n>>)
  <1>1. Typed(t, in, q, cl, ch, p)
    BY DEF K
  <1>2. "DATA" \in Words /\ n \in Nat
    BY WordFacts, <1>1 DEF Typed, Sessions, Channels
  <1>0. /\ t.c.remote_window \in Nat /\ Bytes(in, "ADJUST") \in Nat
        /\ t.c.input \in Nat /\ t.c.output \in Nat /\ t.c.extended \in Nat
        /\ t.c.local_window \in Int /\ t.c.local_consumed \in Nat
        /\ cl.sent \in Nat /\ cl.got \in Nat /\ cl.errs \in Nat
        /\ ch.got \in Nat /\ ch.wrote \in Nat /\ ch.errs \in Nat
        /\ p.in \in Nat /\ p.in <= InPipe /\ p.out \in Nat /\ p.out <= OutPipe
        /\ p.err \in Nat /\ p.err <= OutPipe /\ InPipe \in Nat /\ OutPipe \in Nat
        /\ Bytes(in, "DATA") \in Nat /\ Bytes(q, "DATA") \in Nat
        /\ Bytes(q, "EXT") \in Nat /\ Bytes(q, "ADJUST") \in Nat
    BY <1>1, Numbers
  <1>3. /\ u \in Sessions
        /\ u.c = [t.c EXCEPT !.input = @ - n, !.remote_window = @ - n]
        /\ u.used = t.used /\ u.pid = t.pid /\ u.over = t.over
    <2>1. /\ Send(t, "DATA", n) \in Sessions /\ Send(t, "DATA", n).c = t.c
          /\ Send(t, "DATA", n).used = t.used /\ Send(t, "DATA", n).over = t.over
          /\ Send(t, "DATA", n).pid = t.pid
      BY <1>1, <1>2, SendFields DEF Typed
    <2>2. t.c.input - n \in Nat /\ t.c.remote_window - n \in Nat
      BY <1>0
    <2> QED
      BY <1>1, <2>1, <2>2 DEF Typed, Sessions, Channels
  <1>30. /\ u.c.type = t.c.type /\ u.c.istate = t.c.istate /\ u.c.ostate = t.c.ostate
         /\ u.c.flags = t.c.flags /\ u.c.usage = t.c.usage
         /\ u.c.input = t.c.input - n /\ u.c.output = t.c.output
         /\ u.c.extended = t.c.extended
         /\ u.c.local_window = t.c.local_window /\ u.c.local_consumed = t.c.local_consumed
         /\ u.c.remote_window = t.c.remote_window - n
         /\ u.c.rfd = t.c.rfd /\ u.c.wfd = t.c.wfd /\ u.c.efd = t.c.efd
         /\ u.c.detach_user = t.c.detach_user /\ u.c.detach_close = t.c.detach_close
    <2> HIDE DEF u, r
    <2>1. t.c \in Channels
      BY <1>1 DEF Typed, Sessions
    <2>2. u.c = [t.c EXCEPT !.input = @ - n, !.remote_window = @ - n]
      BY <1>3
    <2> QED
      BY <2>1, <2>2 DEF Channels
  <1>31. u.used = t.used /\ u.pid = t.pid /\ u.over = t.over
    BY <1>3
  <1>4. /\ r \in Seq(Messages) /\ r # << >>
        /\ Len(q) \in Nat /\ Len(r) = Len(q) + 1
        /\ \A i \in 1 .. Len(q) : r[i] = q[i]
        /\ r[Len(q) + 1][1] = "DATA" /\ \A m : Holds(r, m) <=> Holds(q, m) \/ "DATA" = m
    BY <1>1, <1>2, Said DEF Typed
  <1>5. /\ Bytes(q, "DATA") \in Nat /\ Bytes(r, "DATA") = Bytes(q, "DATA") + n
        /\ Bytes(q, "EXT") \in Nat /\ Bytes(r, "EXT") = Bytes(q, "EXT")
        /\ Bytes(q, "ADJUST") \in Nat /\ Bytes(r, "ADJUST") = Bytes(q, "ADJUST")
    BY <1>1, <1>2, SaidBytes DEF Typed
  <1>6. ~Told(q, cl, "CLOSE") /\ Orderly(cl.seen, r)
    <2>1. ~Told(q, cl, "CLOSE") /\ ~Told(q, cl, "EOF")
      BY DEF K, Truthful, Tied
    <2> QED
      BY <1>1, <1>2, <2>1, OrderlySaid DEF Typed, K, Truthful, Told
  <1> HIDE DEF u, r
  <1>11. Typed(u, in, r, cl, ch, p)
    BY <1>1, <1>3, <1>4 DEF Typed
  <1>12. Spoken(u, in, cl)
    BY <1>30, <1>31 DEF K, Spoken, Has
  <1>13. Staged(u, in, r, cl, ch)
    BY <1>4, <1>30, <1>31 DEF K, Staged
  <1>14. Tied(u, cl, ch, p)
    BY <1>30, <1>31 DEF K, Tied, Has, BothClosed
  <1>15. Windows(u, in, r, cl)
    <2>1. /\ u.c.output = t.c.output /\ u.c.local_consumed = t.c.local_consumed
          /\ u.c.type = t.c.type /\ u.c.local_window = t.c.local_window
          /\ u.c.ostate = t.c.ostate /\ u.c.remote_window = t.c.remote_window - n
      BY <1>1, <1>3 DEF Typed, Sessions, Channels
    <2>2. u.c.remote_window + Bytes(in, "ADJUST") + Bytes(r, "DATA") + Bytes(r, "EXT")
              = t.c.remote_window + Bytes(in, "ADJUST") + Bytes(q, "DATA") + Bytes(q, "EXT")
      BY <1>0, <1>5, <2>1
    <2> QED
      BY <1>5, <2>1, <2>2 DEF K, Windows
  <1>16. InputKept(u, in, cl, ch, p)
    BY <1>30, <1>31 DEF K, InputKept
  <1>17. OutputKept(u, r, cl, ch, p)
    <2>1. /\ u.c.input = t.c.input - n /\ u.c.extended = t.c.extended
          /\ u.c.type = t.c.type /\ u.c.flags = t.c.flags /\ u.c.usage = t.c.usage
          /\ u.c.istate = t.c.istate /\ u.c.efd = t.c.efd
      BY <1>1, <1>3 DEF Typed, Sessions, Channels
    <2>2. /\ Bytes(r, "DATA") + u.c.input = Bytes(q, "DATA") + t.c.input
          /\ Bytes(r, "EXT") + u.c.extended = Bytes(q, "EXT") + t.c.extended
      BY <1>0, <1>5, <2>1
    <2>3. /\ cl.got + Bytes(r, "DATA") + u.c.input + p.out
                = cl.got + Bytes(q, "DATA") + t.c.input + p.out
          /\ cl.errs + Bytes(r, "EXT") + u.c.extended + p.err
                = cl.errs + Bytes(q, "EXT") + t.c.extended + p.err
      BY <1>0, <1>5, <2>1
    <2>4. t.c.istate # "closed"
      BY DEF K, OutputKept
    <2> QED
      BY <2>1, <2>3, <2>4 DEF K, OutputKept, Has
  <1>18. Truthful(u, r, cl, ch)
    BY <1>4, <1>6, <1>30, <1>31 DEF K, Truthful, Has, Told
  <1>19. Complete(r, cl, ch)
    BY <1>1, <1>2, <1>6, CompleteSaid DEF K, Typed, r
  <1> QED
    BY <1>11, <1>12, <1>13, <1>14, <1>15, <1>16, <1>17, <1>18, <1>19 DEF K, u, r

(* channel_output_poll_extended_read: no more than the window of the client. *)
LEMMA SendsErrors ==
    ASSUME NEW t, NEW in, NEW q, NEW cl, NEW ch, NEW p, K(t, in, q, cl, ch, p),
           NEW n \in Nat,
           t.c.type = "open", ~Has(t, "close_sent"), ~Has(t, "close_rcvd"),
           ~Has(t, "eof_sent"),
           n <= t.c.extended, n <= t.c.remote_window
    PROVE  K([Send(t, "EXT", n) EXCEPT !.c.extended = @ - n, !.c.remote_window = @ - n], in,
             Append(q, <<"EXT", n>>), cl, ch, p)
  <1> DEFINE u == [Send(t, "EXT", n) EXCEPT !.c.extended = @ - n, !.c.remote_window = @ - n]
             r == Append(q, <<"EXT", n>>)
  <1>1. Typed(t, in, q, cl, ch, p)
    BY DEF K
  <1>2. "EXT" \in Words /\ n \in Nat
    BY WordFacts, <1>1 DEF Typed, Sessions, Channels
  <1>0. /\ t.c.remote_window \in Nat /\ Bytes(in, "ADJUST") \in Nat
        /\ t.c.input \in Nat /\ t.c.output \in Nat /\ t.c.extended \in Nat
        /\ t.c.local_window \in Int /\ t.c.local_consumed \in Nat
        /\ cl.sent \in Nat /\ cl.got \in Nat /\ cl.errs \in Nat
        /\ ch.got \in Nat /\ ch.wrote \in Nat /\ ch.errs \in Nat
        /\ p.in \in Nat /\ p.in <= InPipe /\ p.out \in Nat /\ p.out <= OutPipe
        /\ p.err \in Nat /\ p.err <= OutPipe /\ InPipe \in Nat /\ OutPipe \in Nat
        /\ Bytes(in, "DATA") \in Nat /\ Bytes(q, "DATA") \in Nat
        /\ Bytes(q, "EXT") \in Nat /\ Bytes(q, "ADJUST") \in Nat
    BY <1>1, Numbers
  <1>3. /\ u \in Sessions
        /\ u.c = [t.c EXCEPT !.extended = @ - n, !.remote_window = @ - n]
        /\ u.used = t.used /\ u.pid = t.pid /\ u.over = t.over
    <2>1. /\ Send(t, "EXT", n) \in Sessions /\ Send(t, "EXT", n).c = t.c
          /\ Send(t, "EXT", n).used = t.used /\ Send(t, "EXT", n).over = t.over
          /\ Send(t, "EXT", n).pid = t.pid
      BY <1>1, <1>2, SendFields DEF Typed
    <2>2. t.c.extended - n \in Nat /\ t.c.remote_window - n \in Nat
      BY <1>0
    <2> QED
      BY <1>1, <2>1, <2>2 DEF Typed, Sessions, Channels
  <1>30. /\ u.c.type = t.c.type /\ u.c.istate = t.c.istate /\ u.c.ostate = t.c.ostate
         /\ u.c.flags = t.c.flags /\ u.c.usage = t.c.usage
         /\ u.c.input = t.c.input /\ u.c.output = t.c.output
         /\ u.c.extended = t.c.extended - n
         /\ u.c.local_window = t.c.local_window /\ u.c.local_consumed = t.c.local_consumed
         /\ u.c.remote_window = t.c.remote_window - n
         /\ u.c.rfd = t.c.rfd /\ u.c.wfd = t.c.wfd /\ u.c.efd = t.c.efd
         /\ u.c.detach_user = t.c.detach_user /\ u.c.detach_close = t.c.detach_close
    <2> HIDE DEF u, r
    <2>1. t.c \in Channels
      BY <1>1 DEF Typed, Sessions
    <2>2. u.c = [t.c EXCEPT !.extended = @ - n, !.remote_window = @ - n]
      BY <1>3
    <2> QED
      BY <2>1, <2>2 DEF Channels
  <1>31. u.used = t.used /\ u.pid = t.pid /\ u.over = t.over
    BY <1>3
  <1>4. /\ r \in Seq(Messages) /\ r # << >>
        /\ Len(q) \in Nat /\ Len(r) = Len(q) + 1
        /\ \A i \in 1 .. Len(q) : r[i] = q[i]
        /\ r[Len(q) + 1][1] = "EXT" /\ \A m : Holds(r, m) <=> Holds(q, m) \/ "EXT" = m
    BY <1>1, <1>2, Said DEF Typed
  <1>5. /\ Bytes(q, "DATA") \in Nat /\ Bytes(r, "DATA") = Bytes(q, "DATA")
        /\ Bytes(q, "EXT") \in Nat /\ Bytes(r, "EXT") = Bytes(q, "EXT") + n
        /\ Bytes(q, "ADJUST") \in Nat /\ Bytes(r, "ADJUST") = Bytes(q, "ADJUST")
    BY <1>1, <1>2, SaidBytes DEF Typed
  <1>6. ~Told(q, cl, "CLOSE") /\ Orderly(cl.seen, r)
    <2>1. ~Told(q, cl, "CLOSE") /\ ~Told(q, cl, "EOF")
      BY DEF K, Truthful, Tied
    <2> QED
      BY <1>1, <1>2, <2>1, OrderlySaid DEF Typed, K, Truthful, Told
  <1> HIDE DEF u, r
  <1>11. Typed(u, in, r, cl, ch, p)
    BY <1>1, <1>3, <1>4 DEF Typed
  <1>12. Spoken(u, in, cl)
    BY <1>30, <1>31 DEF K, Spoken, Has
  <1>13. Staged(u, in, r, cl, ch)
    BY <1>4, <1>30, <1>31 DEF K, Staged
  <1>14. Tied(u, cl, ch, p)
    BY <1>30, <1>31 DEF K, Tied, Has, BothClosed
  <1>15. Windows(u, in, r, cl)
    <2>1. /\ u.c.output = t.c.output /\ u.c.local_consumed = t.c.local_consumed
          /\ u.c.type = t.c.type /\ u.c.local_window = t.c.local_window
          /\ u.c.ostate = t.c.ostate /\ u.c.remote_window = t.c.remote_window - n
      BY <1>1, <1>3 DEF Typed, Sessions, Channels
    <2>2. u.c.remote_window + Bytes(in, "ADJUST") + Bytes(r, "DATA") + Bytes(r, "EXT")
              = t.c.remote_window + Bytes(in, "ADJUST") + Bytes(q, "DATA") + Bytes(q, "EXT")
      BY <1>0, <1>5, <2>1
    <2> QED
      BY <1>5, <2>1, <2>2 DEF K, Windows
  <1>16. InputKept(u, in, cl, ch, p)
    BY <1>30, <1>31 DEF K, InputKept
  <1>17. OutputKept(u, r, cl, ch, p)
    <2>1. /\ u.c.extended = t.c.extended - n /\ u.c.input = t.c.input
          /\ u.c.type = t.c.type /\ u.c.flags = t.c.flags /\ u.c.usage = t.c.usage
          /\ u.c.istate = t.c.istate /\ u.c.efd = t.c.efd
      BY <1>1, <1>3 DEF Typed, Sessions, Channels
    <2>2. /\ Bytes(r, "DATA") + u.c.input = Bytes(q, "DATA") + t.c.input
          /\ Bytes(r, "EXT") + u.c.extended = Bytes(q, "EXT") + t.c.extended
      BY <1>0, <1>5, <2>1
    <2>3. /\ cl.got + Bytes(r, "DATA") + u.c.input + p.out
                = cl.got + Bytes(q, "DATA") + t.c.input + p.out
          /\ cl.errs + Bytes(r, "EXT") + u.c.extended + p.err
                = cl.errs + Bytes(q, "EXT") + t.c.extended + p.err
      BY <1>0, <1>5, <2>1
    <2>4. t.c.istate # "closed"
      BY DEF K, OutputKept
    <2> QED
      BY <2>1, <2>3, <2>4 DEF K, OutputKept, Has
  <1>18. Truthful(u, r, cl, ch)
    BY <1>4, <1>6, <1>30, <1>31 DEF K, Truthful, Has, Told
  <1>19. Complete(r, cl, ch)
    BY <1>1, <1>2, <1>6, CompleteSaid DEF K, Typed, r
  <1> QED
    BY <1>11, <1>12, <1>13, <1>14, <1>15, <1>16, <1>17, <1>18, <1>19 DEF K, u, r

(* channel_check_window: the client may send what the child has taken. *)
LEMMA Adjusts ==
    ASSUME NEW t, NEW in, NEW q, NEW cl, NEW ch, NEW p, K(t, in, q, cl, ch, p),
           t.c.type = "open", ~Has(t, "close_sent")
    PROVE  K([Send(t, "ADJUST", t.c.local_consumed) EXCEPT
              !.c.local_window = @ + t.c.local_consumed, !.c.local_consumed = 0], in,
                Append(q, <<"ADJUST", t.c.local_consumed>>), cl, ch, p)
  <1> DEFINE u == [Send(t, "ADJUST", t.c.local_consumed) EXCEPT
                   !.c.local_window = @ + t.c.local_consumed, !.c.local_consumed = 0]
             r == Append(q, <<"ADJUST", t.c.local_consumed>>)
  <1>1. Typed(t, in, q, cl, ch, p)
    BY DEF K
  <1>2. "ADJUST" \in Words /\ t.c.local_consumed \in Nat
    BY WordFacts, <1>1 DEF Typed, Sessions, Channels
  <1>0. /\ cl.win \in Nat /\ t.c.input \in Nat /\ t.c.output \in Nat /\ t.c.extended \in Nat
        /\ t.c.local_window \in Int /\ t.c.local_consumed \in Nat
        /\ cl.sent \in Nat /\ cl.got \in Nat /\ cl.errs \in Nat
        /\ ch.got \in Nat /\ ch.wrote \in Nat /\ ch.errs \in Nat
        /\ p.in \in Nat /\ p.in <= InPipe /\ p.out \in Nat /\ p.out <= OutPipe
        /\ p.err \in Nat /\ p.err <= OutPipe /\ InPipe \in Nat /\ OutPipe \in Nat
        /\ Bytes(in, "DATA") \in Nat /\ Bytes(q, "DATA") \in Nat
        /\ Bytes(q, "EXT") \in Nat /\ Bytes(q, "ADJUST") \in Nat
    BY <1>1, Numbers
  <1>3. /\ u \in Sessions
        /\ u.c = [t.c EXCEPT !.local_window = @ + t.c.local_consumed, !.local_consumed = 0]
        /\ u.used = t.used /\ u.pid = t.pid /\ u.over = t.over
    <2>1. /\ Send(t, "ADJUST", t.c.local_consumed) \in Sessions
          /\ Send(t, "ADJUST", t.c.local_consumed).c = t.c
          /\ Send(t, "ADJUST", t.c.local_consumed).used = t.used
          /\ Send(t, "ADJUST", t.c.local_consumed).over = t.over
          /\ Send(t, "ADJUST", t.c.local_consumed).pid = t.pid
      BY <1>1, <1>2, SendFields DEF Typed
    <2>2. t.c.local_window + t.c.local_consumed \in Int
      BY <1>0
    <2> QED
      BY <1>1, <2>1, <2>2 DEF Typed, Sessions, Channels
  <1>30. /\ u.c.type = t.c.type /\ u.c.istate = t.c.istate /\ u.c.ostate = t.c.ostate
         /\ u.c.flags = t.c.flags /\ u.c.usage = t.c.usage
         /\ u.c.input = t.c.input /\ u.c.output = t.c.output /\ u.c.extended = t.c.extended
         /\ u.c.local_window = t.c.local_window + t.c.local_consumed
         /\ u.c.local_consumed = 0
         /\ u.c.remote_window = t.c.remote_window
         /\ u.c.rfd = t.c.rfd /\ u.c.wfd = t.c.wfd /\ u.c.efd = t.c.efd
         /\ u.c.detach_user = t.c.detach_user /\ u.c.detach_close = t.c.detach_close
    <2> HIDE DEF u, r
    <2>1. t.c \in Channels
      BY <1>1 DEF Typed, Sessions
    <2>2. u.c = [t.c EXCEPT !.local_window = @ + t.c.local_consumed, !.local_consumed = 0]
      BY <1>3
    <2> QED
      BY <2>1, <2>2 DEF Channels
  <1>31. u.used = t.used /\ u.pid = t.pid /\ u.over = t.over
    BY <1>3
  <1>4. /\ r \in Seq(Messages) /\ r # << >>
        /\ Len(q) \in Nat /\ Len(r) = Len(q) + 1
        /\ \A i \in 1 .. Len(q) : r[i] = q[i]
        /\ r[Len(q) + 1][1] = "ADJUST" /\ \A m : Holds(r, m) <=> Holds(q, m) \/ "ADJUST" = m
    BY <1>1, <1>2, Said DEF Typed
  <1>5. /\ Bytes(q, "DATA") \in Nat /\ Bytes(r, "DATA") = Bytes(q, "DATA")
        /\ Bytes(q, "EXT") \in Nat /\ Bytes(r, "EXT") = Bytes(q, "EXT")
        /\ Bytes(q, "ADJUST") \in Nat /\ Bytes(r, "ADJUST") = Bytes(q, "ADJUST")
           + t.c.local_consumed
    BY <1>1, <1>2, SaidBytes DEF Typed
  <1>6. ~Told(q, cl, "CLOSE") /\ Orderly(cl.seen, r)
    <2>1. ~Told(q, cl, "CLOSE")
      BY DEF K, Truthful
    <2> QED
      BY <1>1, <1>2, <2>1, OrderlySaid DEF Typed, K, Truthful, Told
  <1> HIDE DEF u, r
  <1>11. Typed(u, in, r, cl, ch, p)
    BY <1>1, <1>3, <1>4 DEF Typed
  <1>12. Spoken(u, in, cl)
    BY <1>30, <1>31 DEF K, Spoken, Has
  <1>13. Staged(u, in, r, cl, ch)
    BY <1>4, <1>30, <1>31 DEF K, Staged
  <1>14. Tied(u, cl, ch, p)
    BY <1>30, <1>31 DEF K, Tied, Has, BothClosed
  <1>15. Windows(u, in, r, cl)
    <2>1. /\ u.c.output = t.c.output /\ u.c.local_consumed = 0
          /\ u.c.type = t.c.type /\ u.c.local_window = t.c.local_window + t.c.local_consumed
          /\ u.c.ostate = t.c.ostate /\ u.c.remote_window = t.c.remote_window
      BY <1>1, <1>3 DEF Typed, Sessions, Channels
    <2>2. /\ cl.win + Bytes(in, "DATA") + Bytes(q, "ADJUST") <= t.c.local_window
          /\ cl.stage # "gone" =>
                cl.win + Bytes(in, "DATA") + Bytes(q, "ADJUST") = t.c.local_window
      BY DEF K, Windows
    <2>3. /\ cl.win + Bytes(in, "DATA") + Bytes(r, "ADJUST") <= u.c.local_window
          /\ cl.stage # "gone" =>
                cl.win + Bytes(in, "DATA") + Bytes(r, "ADJUST") = u.c.local_window
      BY <1>0, <1>5, <2>1, <2>2
    <2>4. u.c.local_window + u.c.local_consumed + u.c.output
              = t.c.local_window + t.c.local_consumed + t.c.output
      BY <1>0, <2>1
    <2> QED
      BY <1>5, <2>1, <2>3, <2>4 DEF K, Windows
  <1>16. InputKept(u, in, cl, ch, p)
    BY <1>30, <1>31 DEF K, InputKept
  <1>17. OutputKept(u, r, cl, ch, p)
    BY <1>5, <1>30, <1>31 DEF K, OutputKept, Has
  <1>18. Truthful(u, r, cl, ch)
    BY <1>4, <1>6, <1>30, <1>31 DEF K, Truthful, Has, Told
  <1>19. Complete(r, cl, ch)
    BY <1>1, <1>2, <1>6, CompleteSaid DEF K, Typed, r
  <1> QED
    BY <1>11, <1>12, <1>13, <1>14, <1>15, <1>16, <1>17, <1>18, <1>19 DEF K, u, r

(* channel_input_data: within the window, buffered while the child takes input. *)
LEMMA HearsData ==
    ASSUME NEW t, NEW in, NEW q, NEW cl, NEW ch, NEW p, K(t, in, q, cl, ch, p),
           NEW k \in Nat,
           t.c.type = "open", First(in, "DATA", k)
    PROVE  K(channel_input_data(t, k), Tail(in), q, cl, ch, p)
  <1> DEFINE u == channel_input_data(t, k)
             rest == Tail(in)
  <1>1. Typed(t, in, q, cl, ch, p)
    BY DEF K
  <1>20. /\ cl.win \in Nat /\ t.c.remote_window \in Nat
         /\ t.c.input \in Nat /\ t.c.output \in Nat /\ t.c.extended \in Nat
        /\ t.c.local_window \in Int /\ t.c.local_consumed \in Nat
        /\ cl.sent \in Nat /\ cl.got \in Nat /\ cl.errs \in Nat
        /\ ch.got \in Nat /\ ch.wrote \in Nat /\ ch.errs \in Nat
        /\ p.in \in Nat /\ p.in <= InPipe /\ p.out \in Nat /\ p.out <= OutPipe
        /\ p.err \in Nat /\ p.err <= OutPipe /\ InPipe \in Nat /\ OutPipe \in Nat
        /\ Bytes(in, "DATA") \in Nat /\ Bytes(q, "DATA") \in Nat
        /\ Bytes(q, "EXT") \in Nat /\ Bytes(q, "ADJUST") \in Nat
    BY <1>1, Numbers
  <1>3. /\ u \in Sessions
        /\ u.c = IF t.c.ostate = "open"
                 THEN [t.c EXCEPT !.local_window = @ - k, !.output = @ + k]
                 ELSE [t.c EXCEPT !.local_window = @ - k,
                                  !.local_consumed = @ + k]
        /\ u.used = t.used /\ u.pid = t.pid /\ u.over = t.over
    <2>1. k \in 1 .. MaxPacket /\ MaxPacket \in Nat
      BY <1>1, SpokenRest, SizeAssumption DEF K, Typed, First
    <2>2. /\ Bytes(Tail(in), "DATA") \in Nat
          /\ Bytes(in, "DATA") = Bytes(Tail(in), "DATA") + k
      BY <1>1, HeardBytes DEF Typed, First
    <2>3. cl.win + Bytes(in, "DATA") + Bytes(q, "ADJUST") <= t.c.local_window
      BY DEF K, Windows
    <2>4. ~(k > MaxPacket) /\ ~(k > t.c.local_window)
      BY <1>20, <2>1, <2>2, <2>3
    <2>5. /\ t.c.local_window - k \in Int /\ t.c.output + k \in Nat
          /\ t.c.local_consumed + k \in Nat
      BY <1>20, <2>1
    <2> QED
      BY <1>1, <2>4, <2>5 DEF Typed, Sessions, Channels, channel_input_data
  <1>7. rest \in Seq(Messages) /\ Spoken(t, rest, cl)
    BY <1>1, Heard, SpokenRest DEF Typed, K, First
  <1>21. /\ cl.stage # "new" /\ cl.stage # "opening" /\ (cl.stage = "larval" => cl.close)
         /\ ~Has(t, "close_rcvd") /\ k \in 1 .. MaxPacket /\ ~Has(t, "eof_rcvd")
    BY <1>1, SpokenRest DEF Typed, K, Staged, First
  <1>22. /\ Bytes(rest, "DATA") \in Nat /\ Bytes(in, "DATA") = Bytes(rest, "DATA") + k
         /\ Bytes(rest, "ADJUST") \in Nat /\ Bytes(in, "ADJUST") = Bytes(rest, "ADJUST")
    BY <1>1, HeardBytes DEF Typed, First
  <1>23. /\ u.c.type = t.c.type /\ u.c.istate = t.c.istate /\ u.c.ostate = t.c.ostate
         /\ u.c.flags = t.c.flags /\ u.c.input = t.c.input
         /\ u.c.output = IF t.c.ostate = "open" THEN t.c.output + k ELSE t.c.output
         /\ u.c.extended = t.c.extended /\ u.c.usage = t.c.usage
         /\ u.c.local_window = t.c.local_window - k
         /\ u.c.local_consumed = IF t.c.ostate = "open" THEN t.c.local_consumed
            ELSE t.c.local_consumed + k
         /\ u.c.remote_window = t.c.remote_window /\ u.c.rfd = t.c.rfd
         /\ u.c.wfd = t.c.wfd /\ u.c.efd = t.c.efd
         /\ u.c.detach_user = t.c.detach_user /\ u.c.detach_close = t.c.detach_close
    <2> HIDE DEF u
    <2>1. t.c \in Channels
      BY <1>1 DEF Typed, Sessions
    <2> QED
      BY <1>3, <2>1 DEF Channels
  <1> HIDE DEF u, rest
  <1>11. Typed(u, rest, q, cl, ch, p)
    BY <1>1, <1>3, <1>7 DEF Typed
  <1>12. Spoken(u, rest, cl)
    BY <1>7, <1>21, <1>23 DEF Spoken, Has
  <1>13. Staged(u, rest, q, cl, ch)
    BY <1>21, <1>23 DEF K, Staged
  <1>14. Tied(u, cl, ch, p)
    <2>1. u.c.ostate = "closed" => u.c.output = t.c.output
      BY <1>23
    <2> QED
      BY <1>3, <1>23, <2>1 DEF K, Tied, Has, BothClosed
  <1>15. Windows(u, rest, q, cl)
    <2>1. u.c.local_window + u.c.local_consumed + u.c.output
              = t.c.local_window + t.c.local_consumed + t.c.output
      <3>1. \/ u.c.output = t.c.output + k /\ u.c.local_consumed = t.c.local_consumed
            \/ u.c.output = t.c.output /\ u.c.local_consumed = t.c.local_consumed + k
        BY <1>23
      <3>2. u.c.local_window = t.c.local_window - k
        BY <1>23
      <3> QED
        BY <1>20, <3>1, <3>2
    <2>2. /\ cl.win + Bytes(in, "DATA") + Bytes(q, "ADJUST") <= t.c.local_window
          /\ cl.stage # "gone" =>
                cl.win + Bytes(in, "DATA") + Bytes(q, "ADJUST") = t.c.local_window
      BY DEF K, Windows
    <2>3. u.c.local_window = t.c.local_window - k
      BY <1>23
    <2>4. /\ cl.win + Bytes(rest, "DATA") + Bytes(q, "ADJUST") <= u.c.local_window
          /\ cl.stage # "gone" =>
                cl.win + Bytes(rest, "DATA") + Bytes(q, "ADJUST") = u.c.local_window
      BY <1>20, <1>22, <2>2, <2>3
    <2> QED
      BY <1>22, <1>23, <2>1, <2>4 DEF K, Windows
  <1>16. InputKept(u, rest, cl, ch, p)
    <2>1. SUFFICES ASSUME ch.stdin
                   PROVE  ch.got + p.in + u.c.output + Bytes(rest, "DATA") = cl.sent
      BY DEF InputKept
    <2>2. t.c.ostate = "open"
      BY <1>1, <1>21, <2>1 DEF K, Tied, Typed, Sessions, Channels
    <2>3. ch.got + p.in + t.c.output + Bytes(in, "DATA") = cl.sent
      BY <2>1 DEF K, InputKept
    <2>4. u.c.output = t.c.output + k
      BY <1>23, <2>2
    <2> QED
      BY <1>20, <1>22, <2>3, <2>4
  <1>17. OutputKept(u, q, cl, ch, p)
    BY <1>23 DEF K, OutputKept, Has
  <1>18. Truthful(u, q, cl, ch)
    BY <1>23 DEF K, Truthful, Has
  <1>19. Complete(q, cl, ch)
    BY DEF K
  <1> QED
    BY <1>11, <1>12, <1>13, <1>14, <1>15, <1>16, <1>17, <1>18, <1>19 DEF K, u, rest

(* channel_input_window_adjust: the client has taken what it was sent. *)
LEMMA HearsAdjust ==
    ASSUME NEW t, NEW in, NEW q, NEW cl, NEW ch, NEW p, K(t, in, q, cl, ch, p),
           NEW k \in Nat,
           t.c.type = "open", First(in, "ADJUST", k)
    PROVE  K(channel_input_window_adjust(t, k), Tail(in), q, cl, ch, p)
  <1> DEFINE u == channel_input_window_adjust(t, k)
             rest == Tail(in)
  <1>1. Typed(t, in, q, cl, ch, p)
    BY DEF K
  <1>20. /\ cl.win \in Nat /\ t.c.remote_window \in Nat
         /\ t.c.input \in Nat /\ t.c.output \in Nat /\ t.c.extended \in Nat
        /\ t.c.local_window \in Int /\ t.c.local_consumed \in Nat
        /\ cl.sent \in Nat /\ cl.got \in Nat /\ cl.errs \in Nat
        /\ ch.got \in Nat /\ ch.wrote \in Nat /\ ch.errs \in Nat
        /\ p.in \in Nat /\ p.in <= InPipe /\ p.out \in Nat /\ p.out <= OutPipe
        /\ p.err \in Nat /\ p.err <= OutPipe /\ InPipe \in Nat /\ OutPipe \in Nat
        /\ Bytes(in, "DATA") \in Nat /\ Bytes(q, "DATA") \in Nat
        /\ Bytes(q, "EXT") \in Nat /\ Bytes(q, "ADJUST") \in Nat
    BY <1>1, Numbers
  <1>3. /\ u \in Sessions
        /\ u.c = [t.c EXCEPT !.remote_window = @ + k]
        /\ u.used = t.used /\ u.pid = t.pid /\ u.over = t.over
    <2>1. t.c.remote_window + k \in Nat
      BY <1>20
    <2> QED
      BY <1>1, <2>1 DEF Typed, Sessions, Channels, channel_input_window_adjust
  <1>7. rest \in Seq(Messages) /\ Spoken(t, rest, cl)
    BY <1>1, Heard, SpokenRest DEF Typed, K, First
  <1>21. /\ cl.stage # "new" /\ cl.stage # "opening" /\ (cl.stage = "larval" => cl.close)
         /\ ~Has(t, "close_rcvd")
    BY <1>1, SpokenRest DEF Typed, K, Staged, First
  <1>22. /\ Bytes(rest, "DATA") \in Nat /\ Bytes(in, "DATA") = Bytes(rest, "DATA")
         /\ Bytes(rest, "ADJUST") \in Nat /\ Bytes(in, "ADJUST") = Bytes(rest, "ADJUST") + k
    BY <1>1, HeardBytes DEF Typed, First
  <1>23. /\ u.c.type = t.c.type /\ u.c.istate = t.c.istate /\ u.c.ostate = t.c.ostate
         /\ u.c.flags = t.c.flags /\ u.c.input = t.c.input /\ u.c.output = t.c.output
         /\ u.c.extended = t.c.extended /\ u.c.usage = t.c.usage
         /\ u.c.local_window = t.c.local_window
         /\ u.c.local_consumed = t.c.local_consumed
         /\ u.c.remote_window = t.c.remote_window + k /\ u.c.rfd = t.c.rfd
         /\ u.c.wfd = t.c.wfd /\ u.c.efd = t.c.efd
         /\ u.c.detach_user = t.c.detach_user /\ u.c.detach_close = t.c.detach_close
    <2> HIDE DEF u
    <2>1. t.c \in Channels
      BY <1>1 DEF Typed, Sessions
    <2> QED
      BY <1>3, <2>1 DEF Channels
  <1> HIDE DEF u, rest
  <1>11. Typed(u, rest, q, cl, ch, p)
    BY <1>1, <1>3, <1>7 DEF Typed
  <1>12. Spoken(u, rest, cl)
    BY <1>7, <1>21, <1>23 DEF Spoken, Has
  <1>13. Staged(u, rest, q, cl, ch)
    BY <1>21, <1>23 DEF K, Staged
  <1>14. Tied(u, cl, ch, p)
    BY <1>3, <1>23 DEF K, Tied, Has, BothClosed
  <1>15. Windows(u, rest, q, cl)
    <2>1. u.c.remote_window + Bytes(rest, "ADJUST") + Bytes(q, "DATA") + Bytes(q, "EXT")
              = t.c.remote_window + Bytes(in, "ADJUST") + Bytes(q, "DATA") + Bytes(q, "EXT")
      BY <1>7, <1>20, <1>22, <1>23
    <2> QED
      BY <1>22, <1>23, <2>1 DEF K, Windows
  <1>16. InputKept(u, rest, cl, ch, p)
    BY <1>22, <1>23 DEF K, InputKept
  <1>17. OutputKept(u, q, cl, ch, p)
    BY <1>23 DEF K, OutputKept, Has
  <1>18. Truthful(u, q, cl, ch)
    BY <1>23 DEF K, Truthful, Has
  <1>19. Complete(q, cl, ch)
    BY DEF K
  <1> QED
    BY <1>11, <1>12, <1>13, <1>14, <1>15, <1>16, <1>17, <1>18, <1>19 DEF K, u, rest

(* chan_rcvd_ieof: the client has nothing more to say. *)
LEMMA HearsEof ==
    ASSUME NEW t, NEW in, NEW q, NEW cl, NEW ch, NEW p, K(t, in, q, cl, ch, p),
           NEW k \in Nat,
           t.c.type = "open", First(in, "EOF", k)
    PROVE  K(Drain(Flag(t, "eof_rcvd")), Tail(in), q, cl, ch, p)
  <1> DEFINE u == Drain(Flag(t, "eof_rcvd"))
             rest == Tail(in)
  <1>1. Typed(t, in, q, cl, ch, p)
    BY DEF K
  <1>20. /\ cl.win \in Nat /\ t.c.remote_window \in Nat
         /\ t.c.input \in Nat /\ t.c.output \in Nat /\ t.c.extended \in Nat
        /\ t.c.local_window \in Int /\ t.c.local_consumed \in Nat
        /\ cl.sent \in Nat /\ cl.got \in Nat /\ cl.errs \in Nat
        /\ ch.got \in Nat /\ ch.wrote \in Nat /\ ch.errs \in Nat
        /\ p.in \in Nat /\ p.in <= InPipe /\ p.out \in Nat /\ p.out <= OutPipe
        /\ p.err \in Nat /\ p.err <= OutPipe /\ InPipe \in Nat /\ OutPipe \in Nat
        /\ Bytes(in, "DATA") \in Nat /\ Bytes(q, "DATA") \in Nat
        /\ Bytes(q, "EXT") \in Nat /\ Bytes(q, "ADJUST") \in Nat
    BY <1>1, Numbers
  <1>3. /\ u \in Sessions
        /\ u.c = [t.c EXCEPT !.flags = @ \cup {"eof_rcvd"},
                  !.ostate = IF t.c.ostate = "open" THEN "drain" ELSE t.c.ostate]
        /\ u.used = t.used /\ u.pid = t.pid /\ u.over = t.over
    <2>1. Flag(t, "eof_rcvd") \in Sessions /\ Flag(t, "eof_rcvd").c
            = [t.c EXCEPT !.flags = @ \cup {"eof_rcvd"}]
          /\ Flag(t, "eof_rcvd").used = t.used /\ Flag(t, "eof_rcvd").pid = t.pid
          /\ Flag(t, "eof_rcvd").over = t.over
      BY <1>1, WordFacts, FlagFields DEF Typed
    <2>2. t.c \in Channels /\ t \in Sessions
      BY <1>1 DEF Typed, Sessions
    <2> DEFINE f == Flag(t, "eof_rcvd")
    <2> HIDE DEF f
    <2>3. f \in Sessions /\ f.c = [t.c EXCEPT !.flags = @ \cup {"eof_rcvd"}]
          /\ f.used = t.used /\ f.pid = t.pid /\ f.over = t.over
      BY <2>1 DEF f
    <2>4. f.c.ostate = t.c.ostate
      BY <2>2, <2>3 DEF Channels
    <2> DEFINE D == Drain(f)
    <2>5. /\ D \in Sessions /\ D.c = [f.c EXCEPT !.ostate =
                                      IF @ = "open" THEN "drain" ELSE @]
          /\ D.used = t.used /\ D.pid = t.pid /\ D.over = t.over
      BY <2>3, DrainFields
    <2> HIDE DEF D
    <2>6. D.c = [t.c EXCEPT !.flags = @ \cup {"eof_rcvd"},
                 !.ostate = IF t.c.ostate = "open" THEN "drain" ELSE t.c.ostate]
      BY <2>2, <2>3, <2>4, <2>5 DEF Channels
    <2>7. u = D
      BY DEF D, f
    <2> HIDE DEF u
    <2> QED
      BY <2>2, <2>5, <2>6, <2>7 DEF Sessions, Channels
  <1>7. rest \in Seq(Messages) /\ Spoken(t, rest, cl)
    BY <1>1, Heard, SpokenRest DEF Typed, K, First
  <1>21. /\ cl.stage # "new" /\ cl.stage # "opening" /\ (cl.stage = "larval" => cl.close)
         /\ ~Has(t, "close_rcvd")
         /\ cl.eof /\ ~Holds(rest, "DATA")
    BY <1>1, SpokenRest DEF Typed, K, Staged, First
  <1>22. /\ Bytes(rest, "DATA") \in Nat /\ Bytes(in, "DATA") = Bytes(rest, "DATA")
         /\ Bytes(rest, "ADJUST") \in Nat /\ Bytes(in, "ADJUST") = Bytes(rest, "ADJUST")
    BY <1>1, HeardBytes DEF Typed, First
  <1>23. /\ u.c.type = t.c.type /\ u.c.istate = t.c.istate
         /\ u.c.ostate = IF t.c.ostate = "open" THEN "drain" ELSE t.c.ostate
         /\ u.c.flags = t.c.flags \cup {"eof_rcvd"} /\ u.c.input = t.c.input
         /\ u.c.output = t.c.output /\ u.c.extended = t.c.extended
         /\ u.c.usage = t.c.usage /\ u.c.local_window = t.c.local_window
         /\ u.c.local_consumed = t.c.local_consumed
         /\ u.c.remote_window = t.c.remote_window /\ u.c.rfd = t.c.rfd
         /\ u.c.wfd = t.c.wfd /\ u.c.efd = t.c.efd
         /\ u.c.detach_user = t.c.detach_user /\ u.c.detach_close = t.c.detach_close
    <2> HIDE DEF u
    <2>1. t.c \in Channels
      BY <1>1 DEF Typed, Sessions
    <2> QED
      BY <1>3, <2>1 DEF Channels
  <1> HIDE DEF u, rest
  <1>11. Typed(u, rest, q, cl, ch, p)
    BY <1>1, <1>3, <1>7 DEF Typed
  <1>12. Spoken(u, rest, cl)
    BY <1>7, <1>21, <1>23 DEF Spoken, Has
  <1>13. Staged(u, rest, q, cl, ch)
    BY <1>21, <1>23 DEF K, Staged
  <1>14. Tied(u, cl, ch, p)
    <2>1. t.c.ostate \in {"open", "drain", "closed"} /\ t.c.ostate # "closed"
            <=> u.c.ostate # "closed"
      BY <1>1, <1>23 DEF Typed, Sessions, Channels
    <2> QED
      BY <1>3, <1>23, <2>1 DEF K, Tied, Has, BothClosed
  <1>15. Windows(u, rest, q, cl)
    <2>1. u.c.ostate # "closed" => t.c.ostate # "closed"
      BY <1>23
    <2> QED
      BY <1>22, <1>23, <2>1 DEF K, Windows
  <1>16. InputKept(u, rest, cl, ch, p)
    BY <1>22, <1>23 DEF K, InputKept
  <1>17. OutputKept(u, q, cl, ch, p)
    BY <1>23 DEF K, OutputKept, Has
  <1>18. Truthful(u, q, cl, ch)
    BY <1>23 DEF K, Truthful, Has
  <1>19. Complete(q, cl, ch)
    BY DEF K
  <1> QED
    BY <1>11, <1>12, <1>13, <1>14, <1>15, <1>16, <1>17, <1>18, <1>19 DEF K, u, rest

(* chan_rcvd_oclose: the child is given what is buffered; what it writes is not read. *)
LEMMA HearsClose ==
    ASSUME NEW t, NEW in, NEW q, NEW cl, NEW ch, NEW p, K(t, in, q, cl, ch, p),
           NEW k \in Nat,
           t.c.type = "open", First(in, "CLOSE", k)
    PROVE  K([Drain(Flag(t, "close_rcvd")) EXCEPT !.c.rfd = FALSE, !.c.istate = "closed"],
             Tail(in), q, cl, ch, p)
  <1> DEFINE u == [Drain(Flag(t, "close_rcvd")) EXCEPT !.c.rfd = FALSE,
                   !.c.istate = "closed"]
             rest == Tail(in)
  <1>1. Typed(t, in, q, cl, ch, p)
    BY DEF K
  <1>20. /\ cl.win \in Nat /\ t.c.remote_window \in Nat
         /\ t.c.input \in Nat /\ t.c.output \in Nat /\ t.c.extended \in Nat
        /\ t.c.local_window \in Int /\ t.c.local_consumed \in Nat
        /\ cl.sent \in Nat /\ cl.got \in Nat /\ cl.errs \in Nat
        /\ ch.got \in Nat /\ ch.wrote \in Nat /\ ch.errs \in Nat
        /\ p.in \in Nat /\ p.in <= InPipe /\ p.out \in Nat /\ p.out <= OutPipe
        /\ p.err \in Nat /\ p.err <= OutPipe /\ InPipe \in Nat /\ OutPipe \in Nat
        /\ Bytes(in, "DATA") \in Nat /\ Bytes(q, "DATA") \in Nat
        /\ Bytes(q, "EXT") \in Nat /\ Bytes(q, "ADJUST") \in Nat
    BY <1>1, Numbers
  <1>3. /\ u \in Sessions
        /\ u.c = [t.c EXCEPT !.flags = @ \cup {"close_rcvd"},
                  !.ostate = IF t.c.ostate = "open" THEN "drain" ELSE t.c.ostate,
                            !.rfd = FALSE, !.istate = "closed"]
        /\ u.used = t.used /\ u.pid = t.pid /\ u.over = t.over
    <2>1. Flag(t, "close_rcvd") \in Sessions /\ Flag(t, "close_rcvd").c
            = [t.c EXCEPT !.flags = @ \cup {"close_rcvd"}]
          /\ Flag(t, "close_rcvd").used = t.used /\ Flag(t, "close_rcvd").pid = t.pid
          /\ Flag(t, "close_rcvd").over = t.over
      BY <1>1, WordFacts, FlagFields DEF Typed
    <2>2. t.c \in Channels /\ t \in Sessions
      BY <1>1 DEF Typed, Sessions
    <2> DEFINE f == Flag(t, "close_rcvd")
    <2> HIDE DEF f
    <2>3. f \in Sessions /\ f.c = [t.c EXCEPT !.flags = @ \cup {"close_rcvd"}]
          /\ f.used = t.used /\ f.pid = t.pid /\ f.over = t.over
      BY <2>1 DEF f
    <2>4. f.c.ostate = t.c.ostate
      BY <2>2, <2>3 DEF Channels
    <2> DEFINE D == Drain(f)
    <2>5. /\ D \in Sessions /\ D.c = [f.c EXCEPT !.ostate =
                                      IF @ = "open" THEN "drain" ELSE @]
          /\ D.used = t.used /\ D.pid = t.pid /\ D.over = t.over
      BY <2>3, DrainFields
    <2> HIDE DEF D
    <2>6. D.c = [t.c EXCEPT !.flags = @ \cup {"close_rcvd"},
                 !.ostate = IF t.c.ostate = "open" THEN "drain" ELSE t.c.ostate]
      BY <2>2, <2>3, <2>4, <2>5 DEF Channels
    <2>7. u = [D EXCEPT !.c.rfd = FALSE, !.c.istate = "closed"]
      BY DEF D, f
    <2> HIDE DEF u
    <2>8. D.c \in Channels
      BY <2>5 DEF Sessions
    <2>9. u = [D EXCEPT !.c = [D.c EXCEPT !.rfd = FALSE, !.istate = "closed"]]
      BY <2>5, <2>7 DEF Sessions
    <2>10. [D.c EXCEPT !.rfd = FALSE, !.istate = "closed"] \in Channels
      BY <2>8 DEF Channels
    <2>11. u \in Sessions /\ u.c = [D.c EXCEPT !.rfd = FALSE, !.istate = "closed"]
           /\ u.used = t.used /\ u.pid = t.pid /\ u.over = t.over
      BY <2>5, <2>9, <2>10 DEF Sessions
    <2> QED
      BY <2>2, <2>6, <2>11 DEF Channels
  <1>7. rest \in Seq(Messages) /\ Spoken(t, rest, cl)
    BY <1>1, Heard, SpokenRest DEF Typed, K, First
  <1>21. /\ cl.stage # "new" /\ cl.stage # "opening" /\ (cl.stage = "larval" => cl.close)
         /\ ~Has(t, "close_rcvd") /\ rest = << >> /\ cl.close
    BY <1>1, SpokenRest DEF Typed, K, Staged, First
  <1>22. /\ Bytes(rest, "DATA") \in Nat /\ Bytes(in, "DATA") = Bytes(rest, "DATA")
         /\ Bytes(rest, "ADJUST") \in Nat /\ Bytes(in, "ADJUST") = Bytes(rest, "ADJUST")
    BY <1>1, HeardBytes DEF Typed, First
  <1>23. /\ u.c.type = t.c.type /\ u.c.istate = "closed"
         /\ u.c.ostate = IF t.c.ostate = "open" THEN "drain" ELSE t.c.ostate
         /\ u.c.flags = t.c.flags \cup {"close_rcvd"} /\ u.c.input = t.c.input
         /\ u.c.output = t.c.output /\ u.c.extended = t.c.extended
         /\ u.c.usage = t.c.usage /\ u.c.local_window = t.c.local_window
         /\ u.c.local_consumed = t.c.local_consumed
         /\ u.c.remote_window = t.c.remote_window /\ u.c.rfd = FALSE
         /\ u.c.wfd = t.c.wfd /\ u.c.efd = t.c.efd
         /\ u.c.detach_user = t.c.detach_user /\ u.c.detach_close = t.c.detach_close
    <2> HIDE DEF u
    <2>1. t.c \in Channels
      BY <1>1 DEF Typed, Sessions
    <2> QED
      BY <1>3, <2>1 DEF Channels
  <1> HIDE DEF u, rest
  <1>11. Typed(u, rest, q, cl, ch, p)
    BY <1>1, <1>3, <1>7 DEF Typed
  <1>12. Spoken(u, rest, cl)
    BY <1>7, <1>21, <1>23 DEF Spoken, Has
  <1>13. Staged(u, rest, q, cl, ch)
    BY <1>21, <1>23 DEF K, Staged
  <1>14. Tied(u, cl, ch, p)
    <2>1. t.c.ostate \in {"open", "drain", "closed"} /\ t.c.ostate # "closed"
            <=> u.c.ostate # "closed"
      BY <1>1, <1>23 DEF Typed, Sessions, Channels
    <2> QED
      BY <1>3, <1>23, <2>1 DEF K, Tied, Has, BothClosed
  <1>15. Windows(u, rest, q, cl)
    <2>1. u.c.ostate # "closed" => t.c.ostate # "closed"
      BY <1>23
    <2> QED
      BY <1>22, <1>23, <2>1 DEF K, Windows
  <1>16. InputKept(u, rest, cl, ch, p)
    BY <1>22, <1>23 DEF K, InputKept
  <1>17. OutputKept(u, q, cl, ch, p)
    BY <1>23 DEF K, OutputKept, Has
  <1>18. Truthful(u, q, cl, ch)
    BY <1>23 DEF K, Truthful, Has
  <1>19. Complete(q, cl, ch)
    BY DEF K
  <1> QED
    BY <1>11, <1>12, <1>13, <1>14, <1>15, <1>16, <1>17, <1>18, <1>19 DEF K, u, rest

(* chan_rcvd_oclose on a channel that is still draining. *)
LEMMA OwesEof ==
    ASSUME NEW t, NEW in, NEW q, NEW cl, NEW ch, NEW p, K(t, in, q, cl, ch, p),
           t.c.type = "open", t.c.istate = "closed", ~Has(t, "eof_sent"),
             ~Has(t, "close_sent")
    PROVE  K(chan_send_eof2(t), in, Append(q, <<"EOF", 0>>), cl, ch, p)
  <1> DEFINE u == chan_send_eof2(t)
             r == Append(q, <<"EOF", 0>>)
  <1>1. Typed(t, in, q, cl, ch, p)
    BY DEF K
  <1>2. "EOF" \in Words /\ 0 \in Nat /\ "eof_sent" \in Flags
    BY WordFacts
  <1>3. /\ u \in Sessions
        /\ u.c = [t.c EXCEPT !.flags = @ \cup {"eof_sent"}]
        /\ u.used = t.used /\ u.pid = t.pid /\ u.over = t.over
    BY <1>1, <1>2, SendFields, FlagFields DEF Typed, chan_send_eof2
  <1>30. /\ u.c.type = t.c.type /\ u.c.istate = t.c.istate /\ u.c.ostate = t.c.ostate
         /\ u.c.flags = t.c.flags \cup {"eof_sent"} /\ u.c.usage = t.c.usage
         /\ u.c.input = t.c.input /\ u.c.output = t.c.output /\ u.c.extended = t.c.extended
         /\ u.c.local_window = t.c.local_window /\ u.c.local_consumed = t.c.local_consumed
         /\ u.c.remote_window = t.c.remote_window
         /\ u.c.rfd = t.c.rfd /\ u.c.wfd = t.c.wfd /\ u.c.efd = t.c.efd
         /\ u.c.detach_user = t.c.detach_user /\ u.c.detach_close = t.c.detach_close
    <2> HIDE DEF u, r
    <2>1. t.c \in Channels
      BY <1>1 DEF Typed, Sessions
    <2>2. u.c = [t.c EXCEPT !.flags = @ \cup {"eof_sent"}]
      BY <1>3
    <2> QED
      BY <2>1, <2>2 DEF Channels
  <1>31. u.used = t.used /\ u.pid = t.pid /\ u.over = t.over
    BY <1>3
  <1>4. /\ r \in Seq(Messages) /\ r # << >>
        /\ Len(q) \in Nat /\ Len(r) = Len(q) + 1
        /\ \A i \in 1 .. Len(q) : r[i] = q[i]
        /\ r[Len(q) + 1][1] = "EOF" /\ \A m : Holds(r, m) <=> Holds(q, m) \/ "EOF" = m
    BY <1>1, <1>2, Said DEF Typed
  <1>5. /\ Bytes(q, "DATA") \in Nat /\ Bytes(r, "DATA") = Bytes(q, "DATA")
        /\ Bytes(q, "EXT") \in Nat /\ Bytes(r, "EXT") = Bytes(q, "EXT")
        /\ Bytes(q, "ADJUST") \in Nat /\ Bytes(r, "ADJUST") = Bytes(q, "ADJUST")
    BY <1>1, <1>2, SaidBytes DEF Typed
  <1>6. ~Told(q, cl, "CLOSE") /\ Orderly(cl.seen, r)
    BY <1>1, <1>2, OrderlySaid DEF Typed, K, Truthful, Told
  <1> HIDE DEF u, r
  <1>11. Typed(u, in, r, cl, ch, p)
    BY <1>1, <1>3, <1>4 DEF Typed
  <1>12. Spoken(u, in, cl)
    BY <1>30, <1>31 DEF K, Spoken, Has
  <1>13. Staged(u, in, r, cl, ch)
    BY <1>4, <1>30, <1>31 DEF K, Staged
  <1>14. Tied(u, cl, ch, p)
    BY <1>30, <1>31 DEF K, Tied, Has, BothClosed
  <1>15. Windows(u, in, r, cl)
    BY <1>5, <1>30, <1>31 DEF K, Windows
  <1>16. InputKept(u, in, cl, ch, p)
    BY <1>30, <1>31 DEF K, InputKept
  <1>17. OutputKept(u, r, cl, ch, p)
    BY <1>5, <1>30, <1>31 DEF K, OutputKept, Has
  <1>18. Truthful(u, r, cl, ch)
    BY <1>4, <1>6, <1>30, <1>31 DEF K, Truthful, Has, Told
  <1>19. Complete(r, cl, ch)
    BY <1>1, <1>2, <1>6, CompleteSaid DEF K, Typed, r
  <1> QED
    BY <1>11, <1>12, <1>13, <1>14, <1>15, <1>16, <1>17, <1>18, <1>19 DEF K, u, r

(* chan_rcvd_oclose on a channel on which nothing was started. *)
LEMMA LarvalClosed ==
    ASSUME NEW t, NEW in, NEW q, NEW cl, NEW ch, NEW p, K(t, in, q, cl, ch, p),
           NEW k \in Nat,
           t.c.type = "larval", First(in, "CLOSE", k)
    PROVE  K([Flag(t, "close_rcvd") EXCEPT !.c.ostate = "closed", !.c.istate = "closed"],
             Tail(in), q, cl, ch, p)
  <1> DEFINE u == [Flag(t, "close_rcvd") EXCEPT !.c.ostate = "closed",
                   !.c.istate = "closed"]
             rest == Tail(in)
  <1>1. Typed(t, in, q, cl, ch, p)
    BY DEF K
  <1>20. /\ cl.win \in Nat /\ t.c.remote_window \in Nat
         /\ t.c.input \in Nat /\ t.c.output \in Nat /\ t.c.extended \in Nat
        /\ t.c.local_window \in Int /\ t.c.local_consumed \in Nat
        /\ cl.sent \in Nat /\ cl.got \in Nat /\ cl.errs \in Nat
        /\ ch.got \in Nat /\ ch.wrote \in Nat /\ ch.errs \in Nat
        /\ p.in \in Nat /\ p.in <= InPipe /\ p.out \in Nat /\ p.out <= OutPipe
        /\ p.err \in Nat /\ p.err <= OutPipe /\ InPipe \in Nat /\ OutPipe \in Nat
        /\ Bytes(in, "DATA") \in Nat /\ Bytes(q, "DATA") \in Nat
        /\ Bytes(q, "EXT") \in Nat /\ Bytes(q, "ADJUST") \in Nat
    BY <1>1, Numbers
  <1>3. /\ u \in Sessions
        /\ u.c = [t.c EXCEPT !.flags = @ \cup {"close_rcvd"}, !.ostate = "closed",
                            !.istate = "closed"]
        /\ u.used = t.used /\ u.pid = t.pid /\ u.over = t.over
    <2>1. /\ Flag(t, "close_rcvd") \in Sessions
          /\ Flag(t, "close_rcvd").c = [t.c EXCEPT !.flags = @ \cup {"close_rcvd"}]
          /\ Flag(t, "close_rcvd").used = t.used /\ Flag(t, "close_rcvd").pid = t.pid
          /\ Flag(t, "close_rcvd").over = t.over
      BY <1>1, WordFacts, FlagFields DEF Typed
    <2> QED
      BY <1>1, <2>1 DEF Typed, Sessions, Channels
  <1>7. rest \in Seq(Messages) /\ Spoken(t, rest, cl)
    BY <1>1, Heard, SpokenRest DEF Typed, K, First
  <1>21. /\ cl.stage # "new" /\ cl.stage # "opening" /\ (cl.stage = "larval" => cl.close)
         /\ ~Has(t, "close_rcvd") /\ rest = << >> /\ cl.close
    BY <1>1, SpokenRest DEF Typed, K, Staged, First
  <1>22. /\ Bytes(rest, "DATA") \in Nat /\ Bytes(in, "DATA") = Bytes(rest, "DATA")
         /\ Bytes(rest, "ADJUST") \in Nat /\ Bytes(in, "ADJUST") = Bytes(rest, "ADJUST")
    BY <1>1, HeardBytes DEF Typed, First
  <1>23. /\ u.c.type = t.c.type /\ u.c.istate = "closed" /\ u.c.ostate = "closed"
         /\ u.c.flags = t.c.flags \cup {"close_rcvd"} /\ u.c.input = t.c.input
         /\ u.c.output = t.c.output /\ u.c.extended = t.c.extended
         /\ u.c.usage = t.c.usage /\ u.c.local_window = t.c.local_window
         /\ u.c.local_consumed = t.c.local_consumed
         /\ u.c.remote_window = t.c.remote_window /\ u.c.rfd = t.c.rfd
         /\ u.c.wfd = t.c.wfd /\ u.c.efd = t.c.efd
         /\ u.c.detach_user = t.c.detach_user /\ u.c.detach_close = t.c.detach_close
    <2> HIDE DEF u
    <2>1. t.c \in Channels
      BY <1>1 DEF Typed, Sessions
    <2> QED
      BY <1>3, <2>1 DEF Channels
  <1> HIDE DEF u, rest
  <1>11. Typed(u, rest, q, cl, ch, p)
    BY <1>1, <1>3, <1>7 DEF Typed
  <1>12. Spoken(u, rest, cl)
    BY <1>7, <1>21, <1>23 DEF Spoken, Has
  <1>13. Staged(u, rest, q, cl, ch)
    BY <1>21, <1>23 DEF K, Staged
  <1>14. Tied(u, cl, ch, p)
    BY <1>3, <1>23 DEF K, Tied, Has, BothClosed
  <1>15. Windows(u, rest, q, cl)
    BY <1>22, <1>23 DEF K, Windows
  <1>16. InputKept(u, rest, cl, ch, p)
    BY <1>22, <1>23 DEF K, InputKept
  <1>17. OutputKept(u, q, cl, ch, p)
    BY <1>23 DEF K, OutputKept, Has
  <1>18. Truthful(u, q, cl, ch)
    BY <1>23 DEF K, Truthful, Has
  <1>19. Complete(q, cl, ch)
    BY DEF K
  <1> QED
    BY <1>11, <1>12, <1>13, <1>14, <1>15, <1>16, <1>17, <1>18, <1>19 DEF K, u, rest

(* server_input_channel_req: the child cannot be started. *)
LEMMA Refused ==
    ASSUME NEW t, NEW in, NEW q, NEW cl, NEW ch, NEW p, K(t, in, q, cl, ch, p),
           NEW a \in {"exec", "subsystem"}, NEW k \in Nat,
           t.c.type = "larval", First(in, a, k)
    PROVE  K(Send(t, "FAILURE", 0), Tail(in), Append(q, <<"FAILURE", 0>>), cl, ch, p)
  <1> DEFINE u == Send(t, "FAILURE", 0)
             rest == Tail(in)
             r == Append(q, <<"FAILURE", 0>>)
  <1>1. Typed(t, in, q, cl, ch, p)
    BY DEF K
  <1>2. "FAILURE" \in Words /\ 0 \in Nat
    BY WordFacts
  <1>3. /\ u \in Sessions
        /\ u.c = t.c
        /\ u.used = t.used /\ u.pid = t.pid /\ u.over = t.over
    BY <1>1, <1>2, SendFields DEF Typed
  <1>4. /\ r \in Seq(Messages) /\ r # << >>
        /\ Len(q) \in Nat /\ Len(r) = Len(q) + 1
        /\ \A i \in 1 .. Len(q) : r[i] = q[i]
        /\ r[Len(q) + 1][1] = "FAILURE" /\ \A m : Holds(r, m)
           <=> Holds(q, m) \/ "FAILURE" = m
    BY <1>1, <1>2, Said DEF Typed
  <1>5. /\ Bytes(q, "DATA") \in Nat /\ Bytes(r, "DATA") = Bytes(q, "DATA")
        /\ Bytes(q, "EXT") \in Nat /\ Bytes(r, "EXT") = Bytes(q, "EXT")
        /\ Bytes(q, "ADJUST") \in Nat /\ Bytes(r, "ADJUST") = Bytes(q, "ADJUST")
    BY <1>1, <1>2, SaidBytes DEF Typed
  <1>6. ~Told(q, cl, "CLOSE") /\ Orderly(cl.seen, r)
    <2>1. cl.seen = {} /\ ~Holds(q, "CLOSE") /\ ~Holds(q, "EOF") /\ ~Holds(q, "STATUS")
      <3>1. Idle(cl) /\ \A i \in 1 .. Len(q) : q[i][1] \in {"CONFIRM", "FAILURE"}
        BY DEF K, Staged
      <3> QED
        BY <3>1 DEF Idle, Holds
    <2> QED
      BY <1>1, <1>2, <2>1, OrderlySaid DEF Typed, K, Truthful, Told
  <1>7. rest \in Seq(Messages) /\ Spoken(t, rest, cl) /\ Len(rest) \in Nat
    BY <1>1, Heard, SpokenRest DEF Typed, K, First
  <1>21. /\ cl.stage # "new" /\ cl.stage # "opening" /\ (cl.stage = "larval" => cl.close)
         /\ ~Has(t, "close_rcvd") /\ a = cl.kind /\ Idle(cl) /\ ch.state = "none"
         /\ \A i \in 1 .. Len(rest) : rest[i][1] = "CLOSE"
         /\ \A i \in 1 .. Len(q) : q[i][1] \in {"CONFIRM", "FAILURE"}
    <2>1. /\ ~Has(t, "close_rcvd") /\ in # << >> /\ Head(in)[1] = cl.kind /\ Head(in)[1] = a
          /\ \A i \in 1 .. Len(rest) : rest[i][1] = "CLOSE"
      BY <1>1, SpokenRest DEF Typed, K, First
    <2> QED
      BY <2>1 DEF K, Staged
  <1>22. /\ Bytes(rest, "DATA") = 0 /\ Bytes(rest, "ADJUST") \in Nat
         /\ Bytes(in, "DATA") = Bytes(rest, "DATA")
         /\ Bytes(in, "ADJUST") = Bytes(rest, "ADJUST")
         /\ Bytes(q, "ADJUST") = 0 /\ Bytes(q, "DATA") = 0 /\ Bytes(q, "EXT") = 0
    BY <1>1, <1>7, <1>21, HeardBytes, BytesNone DEF Typed, First
  <1>24. /\ cl.win = 0 /\ cl.sent = 0 /\ cl.got = 0 /\ cl.errs = 0 /\ cl.seen = {}
         /\ ch.got = 0 /\ ch.wrote = 0 /\ ch.errs = 0 /\ p.in = 0 /\ p.out = 0 /\ p.err = 0
    BY <1>21 DEF Idle, K, Tied
  <1>25. ~Holds(q, "CLOSE") /\ ~Holds(q, "EOF") /\ ~Holds(q, "STATUS")
    BY <1>21 DEF Holds
  <1>26. /\ t.c.istate = "open" /\ t.c.ostate = "open" /\ t.c.flags = {}
         /\ t.c.input = 0 /\ t.c.output = 0 /\ t.c.extended = 0
         /\ t.c.local_window = 0 /\ t.c.local_consumed = 0
         /\ ~t.c.rfd /\ ~t.c.wfd /\ ~t.c.efd
         /\ t.c.detach_user = TRUE /\ t.c.detach_close = FALSE
    BY <1>1, <1>21 DEF K, Tied, Has, Typed, Sessions, Channels
  <1> HIDE DEF u, rest, r
  <1>11. Typed(u, rest, r, cl, ch, p)
    BY <1>1, <1>3, <1>4, <1>7 DEF Typed
  <1>12. Spoken(u, rest, cl)
    BY <1>3, <1>7 DEF Spoken, Has
  <1>13. Staged(u, rest, r, cl, ch)
    <2>1. ASSUME NEW i \in 1 .. Len(r) PROVE r[i][1] \in {"CONFIRM", "FAILURE"}
      BY <1>4, <1>21
    <2> QED
      BY <1>3, <1>4, <1>21, <2>1 DEF K, Staged
  <1>14. Tied(u, cl, ch, p)
    BY <1>3 DEF K, Tied, Has
  <1>15. Windows(u, rest, r, cl)
    BY <1>3, <1>5, <1>22 DEF K, Windows
  <1>16. InputKept(u, rest, cl, ch, p)
    BY <1>3, <1>22 DEF K, InputKept
  <1>17. OutputKept(u, r, cl, ch, p)
    BY <1>3 DEF OutputKept
  <1>18. Truthful(u, r, cl, ch)
    BY <1>3, <1>4, <1>6, <1>24, <1>25 DEF K, Truthful, Has, Told
  <1>19. Complete(r, cl, ch)
    BY <1>1, <1>2, <1>6, CompleteSaid DEF K, Typed, r
  <1> QED
    BY <1>11, <1>12, <1>13, <1>14, <1>15, <1>16, <1>17, <1>18, <1>19 DEF K, u, rest, r

(* do_exec_no_pty: the child runs, the channel is open and the window granted. *)
LEMMA Started ==
    ASSUME NEW t, NEW in, NEW q, NEW cl, NEW ch, NEW p, K(t, in, q, cl, ch, p),
           NEW a \in {"exec", "subsystem"}, NEW k \in Nat, NEW usage \in {"read", "ignore"},
           t.c.type = "larval", First(in, a, k), usage = "read" <=> a = "exec"
    PROVE  K(do_exec_no_pty(t, usage), Tail(in), Append(q, <<"ADJUST", WindowMax>>), cl,
             [ch EXCEPT !.state = "running", !.stdin = TRUE], p)
  <1> DEFINE u == do_exec_no_pty(t, usage)
             rest == Tail(in)
             r == Append(q, <<"ADJUST", WindowMax>>)
             d == [ch EXCEPT !.state = "running", !.stdin = TRUE]
  <1>1. Typed(t, in, q, cl, ch, p)
    BY DEF K
  <1>2. "ADJUST" \in Words /\ WindowMax \in Nat
    BY WordFacts, SizeAssumption, <1>1 DEF Typed, Sessions, Channels
  <1>3. /\ u \in Sessions
        /\ u.c = [t.c EXCEPT !.type = "open", !.usage = usage, !.local_window = WindowMax,
                            !.rfd = TRUE, !.wfd = TRUE, !.efd = TRUE]
        /\ u.used = t.used /\ u.pid = TRUE /\ u.over = t.over
    <2> DEFINE oc == [t.c EXCEPT !.type = "open", !.usage = usage,
                      !.local_window = WindowMax,
                               !.rfd = TRUE, !.wfd = TRUE, !.efd = TRUE]
               o == [t EXCEPT !.pid = TRUE, !.c = oc]
    <2>1. oc \in Channels
      <3>1. t.c \in Channels /\ WindowMax \in Int
        BY <1>1, SizeAssumption DEF Typed, Sessions
      <3> QED
        BY <3>1 DEF Channels
    <2>2. o \in Sessions /\ o.c = oc /\ o.used = t.used /\ o.pid = TRUE /\ o.over = t.over
      BY <1>1, <2>1 DEF Typed, Sessions
    <2>3. u = Send(o, "ADJUST", WindowMax)
      BY <1>1 DEF Typed, Sessions, Channels, do_exec_no_pty, channel_set_fds
    <2> HIDE DEF o, u
    <2>4. /\ Send(o, "ADJUST", WindowMax) \in Sessions
          /\ Send(o, "ADJUST", WindowMax).c = o.c
          /\ Send(o, "ADJUST", WindowMax).used = o.used
          /\ Send(o, "ADJUST", WindowMax).pid = o.pid
          /\ Send(o, "ADJUST", WindowMax).over = o.over
      BY <1>2, <2>2, SendFields
    <2> QED
      BY <2>2, <2>3, <2>4
  <1>4. /\ r \in Seq(Messages) /\ r # << >>
        /\ Len(q) \in Nat /\ Len(r) = Len(q) + 1
        /\ \A i \in 1 .. Len(q) : r[i] = q[i]
        /\ r[Len(q) + 1][1] = "ADJUST" /\ \A m : Holds(r, m) <=> Holds(q, m) \/ "ADJUST" = m
    BY <1>1, <1>2, Said DEF Typed
  <1>5. /\ Bytes(q, "DATA") \in Nat /\ Bytes(r, "DATA") = Bytes(q, "DATA")
        /\ Bytes(q, "EXT") \in Nat /\ Bytes(r, "EXT") = Bytes(q, "EXT")
        /\ Bytes(q, "ADJUST") \in Nat /\ Bytes(r, "ADJUST") = Bytes(q, "ADJUST") + WindowMax
    BY <1>1, <1>2, SaidBytes DEF Typed
  <1>6. ~Told(q, cl, "CLOSE") /\ Orderly(cl.seen, r)
    <2>1. cl.seen = {} /\ ~Holds(q, "CLOSE") /\ ~Holds(q, "EOF") /\ ~Holds(q, "STATUS")
      <3>1. Idle(cl) /\ \A i \in 1 .. Len(q) : q[i][1] \in {"CONFIRM", "FAILURE"}
        BY DEF K, Staged
      <3> QED
        BY <3>1 DEF Idle, Holds
    <2> QED
      BY <1>1, <1>2, <2>1, OrderlySaid DEF Typed, K, Truthful, Told
  <1>7. rest \in Seq(Messages) /\ Spoken(t, rest, cl) /\ Len(rest) \in Nat
    BY <1>1, Heard, SpokenRest DEF Typed, K, First
  <1>21. /\ cl.stage # "new" /\ cl.stage # "opening" /\ (cl.stage = "larval" => cl.close)
         /\ ~Has(t, "close_rcvd") /\ a = cl.kind /\ Idle(cl) /\ ch.state = "none"
         /\ \A i \in 1 .. Len(rest) : rest[i][1] = "CLOSE"
         /\ \A i \in 1 .. Len(q) : q[i][1] \in {"CONFIRM", "FAILURE"}
    <2>1. /\ ~Has(t, "close_rcvd") /\ in # << >> /\ Head(in)[1] = cl.kind /\ Head(in)[1] = a
          /\ \A i \in 1 .. Len(rest) : rest[i][1] = "CLOSE"
      BY <1>1, SpokenRest DEF Typed, K, First
    <2> QED
      BY <2>1 DEF K, Staged
  <1>22. /\ Bytes(rest, "DATA") = 0 /\ Bytes(rest, "ADJUST") \in Nat
         /\ Bytes(in, "DATA") = Bytes(rest, "DATA")
         /\ Bytes(in, "ADJUST") = Bytes(rest, "ADJUST")
         /\ Bytes(q, "ADJUST") = 0 /\ Bytes(q, "DATA") = 0 /\ Bytes(q, "EXT") = 0
    BY <1>1, <1>7, <1>21, HeardBytes, BytesNone DEF Typed, First
  <1>24. /\ cl.win = 0 /\ cl.sent = 0 /\ cl.got = 0 /\ cl.errs = 0 /\ cl.seen = {}
         /\ ch.got = 0 /\ ch.wrote = 0 /\ ch.errs = 0 /\ p.in = 0 /\ p.out = 0 /\ p.err = 0
    BY <1>21 DEF Idle, K, Tied
  <1>25. ~Holds(q, "CLOSE") /\ ~Holds(q, "EOF") /\ ~Holds(q, "STATUS")
    BY <1>21 DEF Holds
  <1>26. /\ t.c.istate = "open" /\ t.c.ostate = "open" /\ t.c.flags = {}
         /\ t.c.input = 0 /\ t.c.output = 0 /\ t.c.extended = 0
         /\ t.c.local_window = 0 /\ t.c.local_consumed = 0
         /\ ~t.c.rfd /\ ~t.c.wfd /\ ~t.c.efd
         /\ t.c.detach_user = TRUE /\ t.c.detach_close = FALSE
    BY <1>1, <1>21 DEF K, Tied, Has, Typed, Sessions, Channels
  <1>23. /\ u.c.type = "open" /\ u.c.istate = t.c.istate /\ u.c.ostate = t.c.ostate
         /\ u.c.flags = t.c.flags /\ u.c.input = t.c.input /\ u.c.output = t.c.output
         /\ u.c.extended = t.c.extended /\ u.c.usage = usage
         /\ u.c.local_window = WindowMax /\ u.c.local_consumed = t.c.local_consumed
         /\ u.c.remote_window = t.c.remote_window /\ u.c.rfd = TRUE /\ u.c.wfd = TRUE
         /\ u.c.efd = TRUE /\ u.c.detach_user = t.c.detach_user
         /\ u.c.detach_close = t.c.detach_close
    <2> HIDE DEF u
    <2>1. t.c \in Channels
      BY <1>1 DEF Typed, Sessions
    <2> QED
      BY <1>3, <2>1 DEF Channels
  <1>9. /\ d \in Children /\ d.state = "running" /\ d.stdin = TRUE /\ d.got = ch.got
        /\ d.wrote = ch.wrote /\ d.errs = ch.errs
    BY <1>1 DEF Typed, Children
  <1> HIDE DEF u, rest, r, d
  <1>11. Typed(u, rest, r, cl, d, p)
    BY <1>1, <1>3, <1>4, <1>7, <1>9 DEF Typed
  <1>12. Spoken(u, rest, cl)
    <2>1. u.c.flags = {} /\ u.c.type = "open"
      BY <1>23, <1>26
    <2> QED
      BY <1>7, <1>21, <2>1 DEF Spoken, Has
  <1>13. Staged(u, rest, r, cl, d)
    <2>1. u.c.type = "open"
      BY <1>23
    <2> QED
      BY <1>4, <1>21, <2>1 DEF K, Staged
  <1>14. Tied(u, cl, d, p)
    <2>1. /\ t.over = FALSE /\ t.used = TRUE
      BY <1>1 DEF K, Tied, Typed, Sessions
    <2> QED
      BY <1>3, <1>9, <1>21, <1>23, <1>26, <2>1 DEF Tied, Has, BothClosed
  <1>15. Windows(u, rest, r, cl)
    <2>1. /\ cl.win = 0 /\ Bytes(rest, "DATA") = 0 /\ Bytes(r, "ADJUST") = WindowMax
          /\ u.c.local_window = WindowMax /\ u.c.local_consumed = 0 /\ u.c.output = 0
          /\ u.c.remote_window = t.c.remote_window /\ u.c.type = "open" /\ WindowMax \in Nat
      BY <1>2, <1>5, <1>22, <1>23, <1>24, <1>26
    <2>2. /\ cl.win + Bytes(rest, "DATA") + Bytes(r, "ADJUST") = u.c.local_window
          /\ cl.win + Bytes(rest, "DATA") + Bytes(r, "ADJUST") <= u.c.local_window
          /\ u.c.local_window + u.c.local_consumed + u.c.output = WindowMax
          /\ u.c.local_window + u.c.local_consumed + u.c.output <= WindowMax
      BY <2>1
    <2> QED
      BY <1>5, <1>22, <2>1, <2>2 DEF K, Windows
  <1>16. InputKept(u, rest, cl, d, p)
    <2>1. ch.got = 0 /\ p.in = 0 /\ u.c.output = 0 /\ Bytes(rest, "DATA") = 0 /\ cl.sent = 0
      BY <1>22, <1>23, <1>24, <1>26
    <2>2. d.got = 0
      BY <1>9, <2>1
    <2> QED
      BY <2>1, <2>2 DEF InputKept
  <1>17. OutputKept(u, r, cl, d, p)
    <2>1. /\ cl.got = 0 /\ cl.errs = 0 /\ p.out = 0 /\ p.err = 0 /\ d.wrote = 0
          /\ d.errs = 0
          /\ u.c.input = 0 /\ u.c.extended = 0 /\ u.c.efd = TRUE /\ u.c.istate = "open"
          /\ Bytes(r, "DATA") = 0 /\ Bytes(r, "EXT") = 0
      BY <1>5, <1>9, <1>22, <1>23, <1>24, <1>26
    <2> QED
      BY <2>1 DEF OutputKept
  <1>18. Truthful(u, r, cl, d)
    <2>1. u.c.flags = {} /\ cl.seen = {} /\ ~Holds(r, "CLOSE") /\ ~Holds(r, "EOF")
            /\ ~Holds(r, "STATUS")
      BY <1>4, <1>23, <1>24, <1>25, <1>26
    <2> QED
      BY <1>6, <1>9, <2>1 DEF Truthful, Has, Told
  <1>19. Complete(r, cl, d)
    <2>1. cl.seen = {} /\ ~Holds(r, "CLOSE")
      BY <1>4, <1>24, <1>25
    <2> QED
      BY <2>1 DEF K, Complete
  <1> QED
    BY <1>11, <1>12, <1>13, <1>14, <1>15, <1>16, <1>17, <1>18, <1>19
      DEF K, u, rest, r, d

(* server_input_channel_open. *)
LEMMA Opened ==
    ASSUME NEW t, NEW in, NEW q, NEW cl, NEW ch, NEW p, K(t, in, q, cl, ch, p),
           NEW k \in Nat,
           First(in, "OPEN", k)
    PROVE  K(server_input_channel_open(t, k), Tail(in), Append(q, <<"CONFIRM", 0>>), cl, ch,
             p)
  <1> DEFINE u == server_input_channel_open(t, k)
             rest == Tail(in)
             r == Append(q, <<"CONFIRM", 0>>)
  <1>1. Typed(t, in, q, cl, ch, p)
    BY DEF K
  <1>2. "CONFIRM" \in Words /\ 0 \in Nat
    BY WordFacts
  <1>0. /\ t.c.type = "none" /\ Tail(in) = << >> /\ k = ClientWindow /\ q = << >>
        /\ Idle(cl) /\ ~cl.close /\ ~cl.early /\ ch.state = "none"
        /\ cl.stage \in {"opening", "gone"}
        /\ t.pid = FALSE /\ t.used = FALSE /\ t.over = FALSE
    <2>1. t.c.type \in {"none", "larval", "open"}
      BY <1>1 DEF Typed, Sessions, Channels
    <2>2. t.c.type = "none"
      BY <1>1, <2>1, SpokenRest DEF Typed, K, First
    <2>3. Tail(in) = << >> /\ Head(in) = <<"OPEN", ClientWindow>> /\ in # << >>
      BY <1>1, <2>2, SpokenRest DEF Typed, K, First
    <2>4. k = ClientWindow
      BY <2>3 DEF First
    <2>5. q = << >> /\ Idle(cl) /\ ~cl.close /\ ~cl.early /\ ch.state = "none"
      BY <2>2, <2>3 DEF K, Staged
    <2>6. cl.stage \in {"opening", "gone"}
      BY <2>2, <2>3 DEF K, Staged
    <2> QED
      BY <1>1, <2>2, <2>3, <2>4, <2>5, <2>6 DEF Typed, Sessions, K, Tied
  <1>3. /\ u \in Sessions /\ u.c = channel_new(k)
        /\ u.used = TRUE /\ u.pid = t.pid /\ u.over = t.over
    <2>1. channel_new(k) \in Channels
      BY NoChannelFacts DEF channel_new, Channels
    <2> DEFINE o == [t EXCEPT !.c = channel_new(k), !.used = TRUE]
    <2>2. o \in Sessions /\ o.c = channel_new(k) /\ o.used = TRUE /\ o.pid = t.pid
            /\ o.over = t.over
      BY <1>1, <2>1 DEF Typed, Sessions
    <2>3. u = Send(o, "CONFIRM", 0)
      BY DEF server_input_channel_open
    <2> HIDE DEF o, u
    <2> QED
      BY <1>2, <2>2, <2>3, SendFields
  <1>4. /\ r \in Seq(Messages) /\ r # << >>
        /\ Len(q) \in Nat /\ Len(r) = Len(q) + 1
        /\ \A i \in 1 .. Len(q) : r[i] = q[i]
        /\ r[Len(q) + 1][1] = "CONFIRM" /\ \A m : Holds(r, m)
           <=> Holds(q, m) \/ "CONFIRM" = m
    BY <1>1, <1>2, Said DEF Typed
  <1>5. /\ Bytes(q, "DATA") \in Nat /\ Bytes(r, "DATA") = Bytes(q, "DATA")
        /\ Bytes(q, "EXT") \in Nat /\ Bytes(r, "EXT") = Bytes(q, "EXT")
        /\ Bytes(q, "ADJUST") \in Nat /\ Bytes(r, "ADJUST") = Bytes(q, "ADJUST")
    BY <1>1, <1>2, SaidBytes DEF Typed
  <1>6. ~Told(q, cl, "CLOSE") /\ Orderly(cl.seen, r)
    <2>1. q = << >> /\ cl.seen = {} /\ Len(q) = 0
      BY <1>0 DEF Idle
    <2>2. \A m : ~Holds(q, m)
      BY <2>1 DEF Holds
    <2> QED
      BY <1>1, <1>2, <2>1, <2>2, OrderlySaid DEF Typed, K, Truthful, Told
  <1>7. rest \in Seq(Messages) /\ rest = << >> /\ r = <<<<"CONFIRM", 0>>>>
    <2>1. r = Append(<< >>, <<"CONFIRM", 0>>)
      BY <1>0
    <2>2. Append(<< >>, <<"CONFIRM", 0>>) = <<<<"CONFIRM", 0>>>>
      OBVIOUS
    <2>3. r = <<<<"CONFIRM", 0>>>>
      <3> HIDE DEF r
      <3> QED
        BY <2>1, <2>2
    <2>4. rest = << >> /\ << >> \in Seq(Messages)
      BY <1>0
    <2> HIDE DEF r, rest
    <2> QED
      BY <2>3, <2>4
  <1>21. /\ cl.win = 0 /\ cl.sent = 0 /\ cl.got = 0 /\ cl.errs = 0 /\ cl.seen = {}
         /\ ~Holds(q, "CLOSE") /\ ~Holds(q, "EOF") /\ ~Holds(q, "STATUS")
         /\ \A m : Bytes(q, m) = 0 /\ Bytes(rest, m) = 0
    <2> HIDE DEF rest, r
    <2>1. q = << >> /\ Len(q) = 0
      BY <1>0
    <2>2. \A m : Bytes(q, m) = 0 /\ Bytes(rest, m) = 0
      BY <1>7, <2>1, BytesEmpty
    <2>3. \A m : ~Holds(q, m)
      BY <2>1 DEF Holds
    <2> QED
      BY <1>0, <2>2, <2>3 DEF Idle
  <1>23. /\ u.c.type = "larval" /\ u.c.istate = "open" /\ u.c.ostate = "open"
         /\ u.c.flags = {}
         /\ u.c.input = 0 /\ u.c.output = 0 /\ u.c.extended = 0 /\ u.c.local_window = 0
         /\ u.c.local_consumed = 0 /\ u.c.remote_window = k /\ u.c.detach_user = TRUE
         /\ u.c.detach_close = FALSE /\ u.c.rfd = FALSE /\ u.c.wfd = FALSE
         /\ u.c.efd = FALSE
    <2> HIDE DEF u
    <2> QED
      BY <1>3 DEF channel_new, NoChannel
  <1> HIDE DEF u, rest, r
  <1>11. Typed(u, rest, r, cl, ch, p)
    BY <1>1, <1>3, <1>4, <1>7 DEF Typed
  <1>12. Spoken(u, rest, cl)
    BY <1>7, <1>23 DEF Spoken, Has
  <1>13. Staged(u, rest, r, cl, ch)
    <2>1. \A i \in 1 .. Len(r) : r[i][1] = "CONFIRM"
      BY <1>7
    <2> QED
      BY <1>0, <1>7, <1>23, <2>1 DEF Staged
  <1>14. Tied(u, cl, ch, p)
    BY <1>0, <1>3, <1>23 DEF K, Tied, Has
  <1>15. Windows(u, rest, r, cl)
    <2>1. Bytes(rest, "ADJUST") = 0 /\ Bytes(r, "DATA") = 0 /\ Bytes(r, "EXT") = 0
      BY <1>5, <1>21
    <2>2. ClientWindow \in Nat
      BY SizeAssumption
    <2>3. u.c.remote_window + Bytes(rest, "ADJUST") + Bytes(r, "DATA") + Bytes(r, "EXT")
            = ClientWindow
      BY <1>0, <1>23, <2>1, <2>2
    <2> QED
      BY <1>23, <2>2, <2>3 DEF Windows
  <1>16. InputKept(u, rest, cl, ch, p)
    BY <1>0 DEF K, Tied, InputKept
  <1>17. OutputKept(u, r, cl, ch, p)
    BY <1>23 DEF OutputKept
  <1>18. Truthful(u, r, cl, ch)
    <2>1. u.c.flags = {} /\ cl.seen = {} /\ ~Holds(r, "CLOSE") /\ ~Holds(r, "EOF")
            /\ ~Holds(r, "STATUS")
      BY <1>4, <1>21, <1>23
    <2> QED
      BY <1>6, <1>23, <2>1 DEF Truthful, Has, Told
  <1>19. Complete(r, cl, ch)
    <2>1. cl.seen = {} /\ ~Holds(r, "CLOSE")
      BY <1>4, <1>21
    <2> QED
      BY <1>0, <2>1 DEF Complete
  <1> QED
    BY <1>11, <1>12, <1>13, <1>14, <1>15, <1>16, <1>17, <1>18, <1>19 DEF K, u, rest, r

(* The child takes a byte from its input. *)
LEMMA ChildReads ==
    ASSUME NEW t, NEW in, NEW q, NEW cl, NEW ch, NEW p, K(t, in, q, cl, ch, p),
           ch.state = "running", p.in > 0
    PROVE  K(t, in, q, cl, [ch EXCEPT !.got = @ + 1], [p EXCEPT !.in = @ - 1])
  <1> DEFINE d == [ch EXCEPT !.got = @ + 1]
             w == [p EXCEPT !.in = @ - 1]
  <1>1. Typed(t, in, q, cl, ch, p)
    BY DEF K
  <1>2. /\ t.c.input \in Nat /\ t.c.output \in Nat /\ t.c.extended \in Nat
        /\ t.c.local_window \in Int /\ t.c.local_consumed \in Nat
        /\ cl.sent \in Nat /\ cl.got \in Nat /\ cl.errs \in Nat
        /\ ch.got \in Nat /\ ch.wrote \in Nat /\ ch.errs \in Nat
        /\ p.in \in Nat /\ p.in <= InPipe /\ p.out \in Nat /\ p.out <= OutPipe
        /\ p.err \in Nat /\ p.err <= OutPipe /\ InPipe \in Nat /\ OutPipe \in Nat
        /\ Bytes(in, "DATA") \in Nat /\ Bytes(q, "DATA") \in Nat
        /\ Bytes(q, "EXT") \in Nat /\ Bytes(q, "ADJUST") \in Nat
    BY <1>1, Numbers
  <1>3. t.c.type = "open" /\ t.pid /\ ch.state = "running"
    BY DEF K, Tied
  <1>9. /\ d \in Children /\ d.state = ch.state /\ d.stdin = ch.stdin /\ d.got = ch.got + 1
        /\ d.wrote = ch.wrote /\ d.errs = ch.errs
    <2>1. ch.got + 1 \in Nat
      BY <1>2
    <2> QED
      BY <1>1, <2>1 DEF Typed, Children
  <1>10. w \in Pipes /\ w.in = p.in - 1 /\ w.out = p.out /\ w.err = p.err
    <2>1. p.in - 1 \in 0 .. InPipe
      BY <1>2
    <2> QED
      BY <1>1, <2>1 DEF Typed, Pipes
  <1> HIDE DEF d, w
  <1>11. Typed(t, in, q, cl, d, w)
    BY <1>1, <1>9, <1>10 DEF Typed
  <1>12. Spoken(t, in, cl)
    BY DEF K
  <1>13. Staged(t, in, q, cl, d)
    BY <1>3, <1>9 DEF K, Staged
  <1>14. Tied(t, cl, d, w)
    BY <1>3, <1>9, <1>10 DEF K, Tied
  <1>15. Windows(t, in, q, cl)
    BY DEF K
  <1>16. InputKept(t, in, cl, d, w)
    <2>1. d.got + w.in + t.c.output + Bytes(in, "DATA")
              = ch.got + p.in + t.c.output + Bytes(in, "DATA")
      BY <1>2, <1>9, <1>10
    <2> QED
      BY <1>9, <2>1 DEF K, InputKept
  <1>17. OutputKept(t, q, cl, d, w)
    BY <1>9, <1>10 DEF K, OutputKept
  <1>18. Truthful(t, q, cl, d)
    BY <1>3, <1>9 DEF K, Truthful
  <1>19. Complete(q, cl, d)
    BY <1>3, <1>9 DEF K, Complete
  <1> QED
    BY <1>11, <1>12, <1>13, <1>14, <1>15, <1>16, <1>17, <1>18, <1>19 DEF K, d, w

(* The child writes a byte, which sshd still reads. *)
LEMMA ChildWrites ==
    ASSUME NEW t, NEW in, NEW q, NEW cl, NEW ch, NEW p, K(t, in, q, cl, ch, p),
           ch.state = "running", p.out < OutPipe, t.c.rfd
    PROVE  K(t, in, q, cl, [ch EXCEPT !.wrote = @ + 1], [p EXCEPT !.out = @ + 1])
  <1> DEFINE d == [ch EXCEPT !.wrote = @ + 1]
             w == [p EXCEPT !.out = @ + 1]
  <1>1. Typed(t, in, q, cl, ch, p)
    BY DEF K
  <1>2. /\ t.c.input \in Nat /\ t.c.output \in Nat /\ t.c.extended \in Nat
        /\ t.c.local_window \in Int /\ t.c.local_consumed \in Nat
        /\ cl.sent \in Nat /\ cl.got \in Nat /\ cl.errs \in Nat
        /\ ch.got \in Nat /\ ch.wrote \in Nat /\ ch.errs \in Nat
        /\ p.in \in Nat /\ p.in <= InPipe /\ p.out \in Nat /\ p.out <= OutPipe
        /\ p.err \in Nat /\ p.err <= OutPipe /\ InPipe \in Nat /\ OutPipe \in Nat
        /\ Bytes(in, "DATA") \in Nat /\ Bytes(q, "DATA") \in Nat
        /\ Bytes(q, "EXT") \in Nat /\ Bytes(q, "ADJUST") \in Nat
    BY <1>1, Numbers
  <1>3. t.c.type = "open" /\ t.pid /\ ch.state = "running"
    BY DEF K, Tied
  <1>9. /\ d \in Children /\ d.state = ch.state /\ d.stdin = ch.stdin /\ d.got = ch.got
        /\ d.wrote = ch.wrote + 1 /\ d.errs = ch.errs
    <2>1. ch.wrote + 1 \in Nat
      BY <1>2
    <2> QED
      BY <1>1, <2>1 DEF Typed, Children
  <1>10. w \in Pipes /\ w.in = p.in /\ w.out = p.out + 1 /\ w.err = p.err
    <2>1. p.out + 1 \in 0 .. OutPipe
      BY <1>2
    <2> QED
      BY <1>1, <2>1 DEF Typed, Pipes
  <1> HIDE DEF d, w
  <1>11. Typed(t, in, q, cl, d, w)
    BY <1>1, <1>9, <1>10 DEF Typed
  <1>12. Spoken(t, in, cl)
    BY DEF K
  <1>13. Staged(t, in, q, cl, d)
    BY <1>3, <1>9 DEF K, Staged
  <1>14. Tied(t, cl, d, w)
    BY <1>3, <1>9, <1>10 DEF K, Tied
  <1>15. Windows(t, in, q, cl)
    BY DEF K
  <1>16. InputKept(t, in, cl, d, w)
    BY <1>9, <1>10 DEF K, InputKept
  <1>17. OutputKept(t, q, cl, d, w)
    <2>1. t.c.istate = "open"
      BY <1>3 DEF K, Tied
    <2>2. cl.got + Bytes(q, "DATA") + t.c.input + p.out = ch.wrote
              => cl.got + Bytes(q, "DATA") + t.c.input + w.out = d.wrote
      BY <1>2, <1>9, <1>10
    <2> QED
      BY <1>9, <1>10, <2>1, <2>2 DEF K, OutputKept
  <1>18. Truthful(t, q, cl, d)
    BY <1>3, <1>9 DEF K, Truthful
  <1>19. Complete(q, cl, d)
    BY <1>3, <1>9 DEF K, Complete
  <1> QED
    BY <1>11, <1>12, <1>13, <1>14, <1>15, <1>16, <1>17, <1>18, <1>19 DEF K, d, w

(* The child writes a byte to stderr, which sshd still reads. *)
LEMMA ChildErrs ==
    ASSUME NEW t, NEW in, NEW q, NEW cl, NEW ch, NEW p, K(t, in, q, cl, ch, p),
           ch.state = "running", p.err < OutPipe, t.c.efd
    PROVE  K(t, in, q, cl, [ch EXCEPT !.errs = @ + 1], [p EXCEPT !.err = @ + 1])
  <1> DEFINE d == [ch EXCEPT !.errs = @ + 1]
             w == [p EXCEPT !.err = @ + 1]
  <1>1. Typed(t, in, q, cl, ch, p)
    BY DEF K
  <1>2. /\ t.c.input \in Nat /\ t.c.output \in Nat /\ t.c.extended \in Nat
        /\ t.c.local_window \in Int /\ t.c.local_consumed \in Nat
        /\ cl.sent \in Nat /\ cl.got \in Nat /\ cl.errs \in Nat
        /\ ch.got \in Nat /\ ch.wrote \in Nat /\ ch.errs \in Nat
        /\ p.in \in Nat /\ p.in <= InPipe /\ p.out \in Nat /\ p.out <= OutPipe
        /\ p.err \in Nat /\ p.err <= OutPipe /\ InPipe \in Nat /\ OutPipe \in Nat
        /\ Bytes(in, "DATA") \in Nat /\ Bytes(q, "DATA") \in Nat
        /\ Bytes(q, "EXT") \in Nat /\ Bytes(q, "ADJUST") \in Nat
    BY <1>1, Numbers
  <1>3. t.c.type = "open" /\ t.pid /\ ch.state = "running"
    BY DEF K, Tied
  <1>9. /\ d \in Children /\ d.state = ch.state /\ d.stdin = ch.stdin /\ d.got = ch.got
        /\ d.wrote = ch.wrote /\ d.errs = ch.errs + 1
    <2>1. ch.errs + 1 \in Nat
      BY <1>2
    <2> QED
      BY <1>1, <2>1 DEF Typed, Children
  <1>10. w \in Pipes /\ w.in = p.in /\ w.out = p.out /\ w.err = p.err + 1
    <2>1. p.err + 1 \in 0 .. OutPipe
      BY <1>2
    <2> QED
      BY <1>1, <2>1 DEF Typed, Pipes
  <1> HIDE DEF d, w
  <1>11. Typed(t, in, q, cl, d, w)
    BY <1>1, <1>9, <1>10 DEF Typed
  <1>12. Spoken(t, in, cl)
    BY DEF K
  <1>13. Staged(t, in, q, cl, d)
    BY <1>3, <1>9 DEF K, Staged
  <1>14. Tied(t, cl, d, w)
    BY <1>3, <1>9, <1>10 DEF K, Tied
  <1>15. Windows(t, in, q, cl)
    BY DEF K
  <1>16. InputKept(t, in, cl, d, w)
    BY <1>9, <1>10 DEF K, InputKept
  <1>17. OutputKept(t, q, cl, d, w)
    <2>1. cl.errs + Bytes(q, "EXT") + t.c.extended + p.err = ch.errs
              => cl.errs + Bytes(q, "EXT") + t.c.extended + w.err = d.errs
      BY <1>2, <1>9, <1>10
    <2> QED
      BY <1>9, <1>10, <2>1 DEF K, OutputKept
  <1>18. Truthful(t, q, cl, d)
    BY <1>3, <1>9 DEF K, Truthful
  <1>19. Complete(q, cl, d)
    BY <1>3, <1>9 DEF K, Complete
  <1> QED
    BY <1>11, <1>12, <1>13, <1>14, <1>15, <1>16, <1>17, <1>18, <1>19 DEF K, d, w

(* The child closes its input. *)
LEMMA ChildStopsReading ==
    ASSUME NEW t, NEW in, NEW q, NEW cl, NEW ch, NEW p, K(t, in, q, cl, ch, p),
           ch.state = "running"
    PROVE  K(t, in, q, cl, [ch EXCEPT !.stdin = FALSE], [p EXCEPT !.in = 0])
  <1> DEFINE d == [ch EXCEPT !.stdin = FALSE]
             w == [p EXCEPT !.in = 0]
  <1>1. Typed(t, in, q, cl, ch, p)
    BY DEF K
  <1>2. /\ t.c.input \in Nat /\ t.c.output \in Nat /\ t.c.extended \in Nat
        /\ t.c.local_window \in Int /\ t.c.local_consumed \in Nat
        /\ cl.sent \in Nat /\ cl.got \in Nat /\ cl.errs \in Nat
        /\ ch.got \in Nat /\ ch.wrote \in Nat /\ ch.errs \in Nat
        /\ p.in \in Nat /\ p.in <= InPipe /\ p.out \in Nat /\ p.out <= OutPipe
        /\ p.err \in Nat /\ p.err <= OutPipe /\ InPipe \in Nat /\ OutPipe \in Nat
        /\ Bytes(in, "DATA") \in Nat /\ Bytes(q, "DATA") \in Nat
        /\ Bytes(q, "EXT") \in Nat /\ Bytes(q, "ADJUST") \in Nat
    BY <1>1, Numbers
  <1>3. t.c.type = "open" /\ t.pid /\ ch.state = "running"
    BY DEF K, Tied
  <1>9. /\ d \in Children /\ d.state = ch.state /\ d.stdin = FALSE /\ d.got = ch.got
        /\ d.wrote = ch.wrote /\ d.errs = ch.errs
    BY <1>1 DEF Typed, Children
  <1>10. w \in Pipes /\ w.in = 0 /\ w.out = p.out /\ w.err = p.err
    <2>1. 0 \in 0 .. InPipe
      BY <1>2
    <2> QED
      BY <1>1, <2>1 DEF Typed, Pipes
  <1> HIDE DEF d, w
  <1>11. Typed(t, in, q, cl, d, w)
    BY <1>1, <1>9, <1>10 DEF Typed
  <1>12. Spoken(t, in, cl)
    BY DEF K
  <1>13. Staged(t, in, q, cl, d)
    BY <1>3, <1>9 DEF K, Staged
  <1>14. Tied(t, cl, d, w)
    BY <1>3, <1>9, <1>10 DEF K, Tied
  <1>15. Windows(t, in, q, cl)
    BY DEF K
  <1>16. InputKept(t, in, cl, d, w)
    BY <1>9, <1>10 DEF K, InputKept
  <1>17. OutputKept(t, q, cl, d, w)
    BY <1>9, <1>10 DEF K, OutputKept
  <1>18. Truthful(t, q, cl, d)
    BY <1>3, <1>9 DEF K, Truthful
  <1>19. Complete(q, cl, d)
    BY <1>3, <1>9 DEF K, Complete
  <1> QED
    BY <1>11, <1>12, <1>13, <1>14, <1>15, <1>16, <1>17, <1>18, <1>19 DEF K, d, w

(* The child ends; what it wrote stays in the pipes. *)
LEMMA ChildDies ==
    ASSUME NEW t, NEW in, NEW q, NEW cl, NEW ch, NEW p, K(t, in, q, cl, ch, p),
           ch.state = "running"
    PROVE  K(t, in, q, cl, [ch EXCEPT !.state = "zombie", !.stdin = FALSE],
             [p EXCEPT !.in = 0])
  <1> DEFINE d == [ch EXCEPT !.state = "zombie", !.stdin = FALSE]
             w == [p EXCEPT !.in = 0]
  <1>1. Typed(t, in, q, cl, ch, p)
    BY DEF K
  <1>2. /\ t.c.input \in Nat /\ t.c.output \in Nat /\ t.c.extended \in Nat
        /\ t.c.local_window \in Int /\ t.c.local_consumed \in Nat
        /\ cl.sent \in Nat /\ cl.got \in Nat /\ cl.errs \in Nat
        /\ ch.got \in Nat /\ ch.wrote \in Nat /\ ch.errs \in Nat
        /\ p.in \in Nat /\ p.in <= InPipe /\ p.out \in Nat /\ p.out <= OutPipe
        /\ p.err \in Nat /\ p.err <= OutPipe /\ InPipe \in Nat /\ OutPipe \in Nat
        /\ Bytes(in, "DATA") \in Nat /\ Bytes(q, "DATA") \in Nat
        /\ Bytes(q, "EXT") \in Nat /\ Bytes(q, "ADJUST") \in Nat
    BY <1>1, Numbers
  <1>3. t.c.type = "open" /\ t.pid /\ ch.state = "running"
    BY DEF K, Tied
  <1>9. /\ d \in Children /\ d.state = "zombie" /\ d.stdin = FALSE /\ d.got = ch.got
        /\ d.wrote = ch.wrote /\ d.errs = ch.errs
    BY <1>1 DEF Typed, Children
  <1>10. w \in Pipes /\ w.in = 0 /\ w.out = p.out /\ w.err = p.err
    <2>1. 0 \in 0 .. InPipe
      BY <1>2
    <2> QED
      BY <1>1, <2>1 DEF Typed, Pipes
  <1> HIDE DEF d, w
  <1>11. Typed(t, in, q, cl, d, w)
    BY <1>1, <1>9, <1>10 DEF Typed
  <1>12. Spoken(t, in, cl)
    BY DEF K
  <1>13. Staged(t, in, q, cl, d)
    BY <1>3, <1>9 DEF K, Staged
  <1>14. Tied(t, cl, d, w)
    BY <1>3, <1>9, <1>10 DEF K, Tied
  <1>15. Windows(t, in, q, cl)
    BY DEF K
  <1>16. InputKept(t, in, cl, d, w)
    BY <1>9, <1>10 DEF K, InputKept
  <1>17. OutputKept(t, q, cl, d, w)
    BY <1>9, <1>10 DEF K, OutputKept
  <1>18. Truthful(t, q, cl, d)
    BY <1>3, <1>9 DEF K, Truthful
  <1>19. Complete(q, cl, d)
    BY <1>3, <1>9 DEF K, Complete
  <1> QED
    BY <1>11, <1>12, <1>13, <1>14, <1>15, <1>16, <1>17, <1>18, <1>19 DEF K, d, w

(* The client opens the channel. *)
LEMMA ClientOpensChannel ==
    ASSUME NEW t, NEW in, NEW q, NEW cl, NEW ch, NEW p, K(t, in, q, cl, ch, p),
           cl.stage = "new"
    PROVE  K(t, Append(in, <<"OPEN", ClientWindow>>), q, [cl EXCEPT !.stage = "opening"],
             ch, p)
  <1> DEFINE rest == Append(in, <<"OPEN", ClientWindow>>)
             v == [cl EXCEPT !.stage = "opening"]
  <1>1. Typed(t, in, q, cl, ch, p)
    BY DEF K
  <1>0. "OPEN" \in Words /\ ClientWindow \in Nat
    BY SizeAssumption DEF Words
  <1>2. /\ cl.win \in Nat /\ t.c.remote_window \in Nat /\ Bytes(in, "ADJUST") \in Nat
        /\ t.c.input \in Nat /\ t.c.output \in Nat /\ t.c.extended \in Nat
        /\ t.c.local_window \in Int /\ t.c.local_consumed \in Nat
        /\ cl.sent \in Nat /\ cl.got \in Nat /\ cl.errs \in Nat
        /\ ch.got \in Nat /\ ch.wrote \in Nat /\ ch.errs \in Nat
        /\ p.in \in Nat /\ p.in <= InPipe /\ p.out \in Nat /\ p.out <= OutPipe
        /\ p.err \in Nat /\ p.err <= OutPipe /\ InPipe \in Nat /\ OutPipe \in Nat
        /\ Bytes(in, "DATA") \in Nat /\ Bytes(q, "DATA") \in Nat
        /\ Bytes(q, "EXT") \in Nat /\ Bytes(q, "ADJUST") \in Nat
    BY <1>1, Numbers
  <1>21. /\ t.c.type = "none" /\ in = << >> /\ q = << >> /\ Idle(cl) /\ ~cl.close
         /\ ~cl.early
         /\ ch.state = "none" /\ t.c.flags = {}
    BY NoChannelFacts DEF K, Staged, Tied
  <1>7. /\ rest \in Seq(Messages) /\ rest # << >>
        /\ Len(in) \in Nat /\ Len(rest) = Len(in) + 1
        /\ \A i \in 1 .. Len(in) : rest[i] = in[i]
        /\ rest[Len(in) + 1][1] = "OPEN" /\ rest[Len(in) + 1][2] = ClientWindow
        /\ \A m : Holds(rest, m) <=> Holds(in, m) \/ "OPEN" = m
    BY <1>1, <1>0, Said DEF Typed
  <1>22. /\ Bytes(rest, "DATA") = Bytes(in, "DATA")
         /\ Bytes(rest, "ADJUST") = Bytes(in, "ADJUST")
    BY <1>1, <1>0, SaidBytes DEF Typed
  <1>8. /\ v \in Clients /\ v.stage = "opening" /\ v.kind = cl.kind /\ v.win = cl.win
        /\ v.sent = cl.sent /\ v.eof = cl.eof /\ v.close = cl.close /\ v.got = cl.got
        /\ v.errs = cl.errs /\ v.seen = cl.seen /\ v.early = cl.early
    BY <1>1 DEF Typed, Clients
  <1> HIDE DEF rest, v
  <1>11. Typed(t, rest, q, v, ch, p)
    BY <1>1, <1>7, <1>8 DEF Typed
  <1>12. Spoken(t, rest, v)
    <2>1. rest = <<<<"OPEN", ClientWindow>>>>
      <3>1. Append(<< >>, <<"OPEN", ClientWindow>>) = <<<<"OPEN", ClientWindow>>>>
        OBVIOUS
      <3> QED
        BY <1>21, <3>1 DEF rest
    <2>2. Len(in) = 0 /\ \A i \in 1 .. Len(rest) : rest[i][1] = "OPEN"
      BY <1>7, <1>21
    <2> QED
      BY <1>21, <2>1, <2>2 DEF Spoken, Has
  <1>13. Staged(t, rest, q, v, ch)
    <2>1. Len(q) = 0
      BY <1>21
    <2> QED
      BY <1>7, <1>8, <1>21, <2>1 DEF Staged, Idle, Holds
  <1>14. Tied(t, v, ch, p)
    BY <1>21, <1>8 DEF K, Tied
  <1>15. Windows(t, rest, q, v)
    BY <1>21 DEF Windows
  <1>16. InputKept(t, rest, v, ch, p)
    BY <1>22, <1>8 DEF K, InputKept
  <1>17. OutputKept(t, q, v, ch, p)
    BY <1>8 DEF K, OutputKept
  <1>18. Truthful(t, q, v, ch)
    BY <1>8 DEF K, Truthful, Told
  <1>19. Complete(q, v, ch)
    BY <1>8, <1>21 DEF K, Complete, Told
  <1> QED
    BY <1>11, <1>12, <1>13, <1>14, <1>15, <1>16, <1>17, <1>18, <1>19 DEF K, rest, v

(* The client asks for a command or a subsystem. *)
LEMMA ClientRequestsChild ==
    ASSUME NEW t, NEW in, NEW q, NEW cl, NEW ch, NEW p, K(t, in, q, cl, ch, p),
           NEW kind \in {"exec", "subsystem"},
           cl.stage = "larval", ~cl.close
    PROVE  K(t, Append(in, <<kind, 0>>), q, [cl EXCEPT !.stage = "waiting", !.kind = kind],
             ch, p)
  <1> DEFINE rest == Append(in, <<kind, 0>>)
             v == [cl EXCEPT !.stage = "waiting", !.kind = kind]
  <1>1. Typed(t, in, q, cl, ch, p)
    BY DEF K
  <1>0. kind \in Words /\ 0 \in Nat
    BY SizeAssumption DEF Words
  <1>2. /\ cl.win \in Nat /\ t.c.remote_window \in Nat /\ Bytes(in, "ADJUST") \in Nat
        /\ t.c.input \in Nat /\ t.c.output \in Nat /\ t.c.extended \in Nat
        /\ t.c.local_window \in Int /\ t.c.local_consumed \in Nat
        /\ cl.sent \in Nat /\ cl.got \in Nat /\ cl.errs \in Nat
        /\ ch.got \in Nat /\ ch.wrote \in Nat /\ ch.errs \in Nat
        /\ p.in \in Nat /\ p.in <= InPipe /\ p.out \in Nat /\ p.out <= OutPipe
        /\ p.err \in Nat /\ p.err <= OutPipe /\ InPipe \in Nat /\ OutPipe \in Nat
        /\ Bytes(in, "DATA") \in Nat /\ Bytes(q, "DATA") \in Nat
        /\ Bytes(q, "EXT") \in Nat /\ Bytes(q, "ADJUST") \in Nat
    BY <1>1, Numbers
  <1>21. /\ t.c.type = "larval" /\ in = << >> /\ Idle(cl) /\ ~cl.close
         /\ cl.stage = "larval"
         /\ ch.state = "none" /\ ~Has(t, "close_rcvd") /\ ~Has(t, "eof_rcvd")
         /\ \A i \in 1 .. Len(q) : q[i][1] \in {"CONFIRM", "FAILURE"}
         /\ ~Holds(q, "CONFIRM")
    BY DEF K, Staged, Spoken, Tied, Has
  <1>7. /\ rest \in Seq(Messages) /\ rest # << >>
        /\ Len(in) \in Nat /\ Len(rest) = Len(in) + 1
        /\ \A i \in 1 .. Len(in) : rest[i] = in[i]
        /\ rest[Len(in) + 1][1] = kind /\ rest[Len(in) + 1][2] = 0
        /\ \A m : Holds(rest, m) <=> Holds(in, m) \/ kind = m
    BY <1>1, <1>0, Said DEF Typed
  <1>22. /\ Bytes(rest, "DATA") = Bytes(in, "DATA")
         /\ Bytes(rest, "ADJUST") = Bytes(in, "ADJUST")
    BY <1>1, <1>0, SaidBytes DEF Typed
  <1>8. /\ v \in Clients /\ v.stage = "waiting" /\ v.kind = kind /\ v.win = cl.win
        /\ v.sent = cl.sent /\ v.eof = cl.eof /\ v.close = cl.close /\ v.got = cl.got
        /\ v.errs = cl.errs /\ v.seen = cl.seen /\ v.early = cl.early
    BY <1>1 DEF Typed, Clients
  <1> HIDE DEF rest, v
  <1>11. Typed(t, rest, q, v, ch, p)
    BY <1>1, <1>7, <1>8 DEF Typed
  <1>12. Spoken(t, rest, v)
    <2>1. Len(in) = 0
      BY <1>21
    <2>2. \A i \in 1 .. Len(rest) : i = 1 /\ rest[i][1] = kind
      BY <1>7, <2>1
    <2> QED
      BY <1>8, <1>21, <2>2 DEF Spoken, Holds
  <1>13. Staged(t, rest, q, v, ch)
    BY <1>21, <1>7, <1>8 DEF K, Staged, Idle
  <1>14. Tied(t, v, ch, p)
    BY <1>21, <1>8 DEF K, Tied
  <1>15. Windows(t, rest, q, v)
    BY <1>8, <1>21, <1>22 DEF K, Windows
  <1>16. InputKept(t, rest, v, ch, p)
    BY <1>21 DEF K, Tied, InputKept
  <1>17. OutputKept(t, q, v, ch, p)
    BY <1>21 DEF OutputKept
  <1>18. Truthful(t, q, v, ch)
    BY <1>8 DEF K, Truthful, Told
  <1>19. Complete(q, v, ch)
    <2>1. ~Holds(q, "CLOSE") /\ cl.seen = {}
      BY <1>21 DEF Holds, Idle
    <2> QED
      BY <1>8, <2>1 DEF K, Complete
  <1> QED
    BY <1>11, <1>12, <1>13, <1>14, <1>15, <1>16, <1>17, <1>18, <1>19 DEF K, rest, v

(* The client sends data within its window. *)
LEMMA ClientSendsData ==
    ASSUME NEW t, NEW in, NEW q, NEW cl, NEW ch, NEW p, K(t, in, q, cl, ch, p),
           NEW n \in 1 .. MaxPacket,
           cl.stage = "running", ~cl.eof, ~cl.close, n <= cl.win
    PROVE  K(t, Append(in, <<"DATA", n>>), q, [cl EXCEPT !.win = @ - n, !.sent = @ + n], ch,
             p)
  <1> DEFINE rest == Append(in, <<"DATA", n>>)
             v == [cl EXCEPT !.win = @ - n, !.sent = @ + n]
  <1>1. Typed(t, in, q, cl, ch, p)
    BY DEF K
  <1>0. "DATA" \in Words /\ n \in Nat
    BY SizeAssumption DEF Words
  <1>2. /\ cl.win \in Nat /\ t.c.remote_window \in Nat /\ Bytes(in, "ADJUST") \in Nat
        /\ t.c.input \in Nat /\ t.c.output \in Nat /\ t.c.extended \in Nat
        /\ t.c.local_window \in Int /\ t.c.local_consumed \in Nat
        /\ cl.sent \in Nat /\ cl.got \in Nat /\ cl.errs \in Nat
        /\ ch.got \in Nat /\ ch.wrote \in Nat /\ ch.errs \in Nat
        /\ p.in \in Nat /\ p.in <= InPipe /\ p.out \in Nat /\ p.out <= OutPipe
        /\ p.err \in Nat /\ p.err <= OutPipe /\ InPipe \in Nat /\ OutPipe \in Nat
        /\ Bytes(in, "DATA") \in Nat /\ Bytes(q, "DATA") \in Nat
        /\ Bytes(q, "EXT") \in Nat /\ Bytes(q, "ADJUST") \in Nat
    BY <1>1, Numbers
  <1>21. /\ t.c.type = "open" /\ cl.stage = "running" /\ ~cl.close /\ ~cl.eof
         /\ ~Has(t, "close_rcvd") /\ ~Has(t, "eof_rcvd")
    BY DEF K, Staged, Spoken
  <1>7. /\ rest \in Seq(Messages) /\ rest # << >>
        /\ Len(in) \in Nat /\ Len(rest) = Len(in) + 1
        /\ \A i \in 1 .. Len(in) : rest[i] = in[i]
        /\ rest[Len(in) + 1][1] = "DATA" /\ rest[Len(in) + 1][2] = n
        /\ \A m : Holds(rest, m) <=> Holds(in, m) \/ "DATA" = m
    BY <1>1, <1>0, Said DEF Typed
  <1>22. /\ Bytes(rest, "DATA") = Bytes(in, "DATA") + n
         /\ Bytes(rest, "ADJUST") = Bytes(in, "ADJUST")
    BY <1>1, <1>0, SaidBytes DEF Typed
  <1>8. /\ v \in Clients /\ v.stage = cl.stage /\ v.kind = cl.kind
        /\ v.win = cl.win - n /\ v.sent = cl.sent + n /\ v.eof = cl.eof
        /\ v.close = cl.close /\ v.got = cl.got /\ v.errs = cl.errs
        /\ v.seen = cl.seen /\ v.early = cl.early
    <2>1. cl.win - n \in Nat /\ cl.sent + n \in Nat
      BY <1>2, <1>0
    <2> QED
      BY <1>1, <2>1 DEF Typed, Clients
  <1> HIDE DEF rest, v
  <1>11. Typed(t, rest, q, v, ch, p)
    BY <1>1, <1>7, <1>8 DEF Typed
  <1>12. Spoken(t, rest, v)
    <2>1. \A i \in 1 .. Len(in) : in[i][1] \in {"DATA", "ADJUST"}
      BY <1>21 DEF K, Spoken
    <2>2. \A i \in 1 .. Len(rest) : i \in 1 .. Len(in) \/ i = Len(in) + 1
      BY <1>7
    <2>3. \A i \in 1 .. Len(rest) : rest[i][1] \in {"DATA", "ADJUST"}
      BY <1>7, <2>1, <2>2
    <2>4. \A i \in 1 .. Len(rest) : rest[i][1] = "DATA" => rest[i][2] \in 1 .. MaxPacket
      BY <1>7, <2>2 DEF K, Spoken
    <2> QED
      BY <1>8, <1>21, <2>3, <2>4 DEF Spoken
  <1>13. Staged(t, rest, q, v, ch)
    BY <1>21, <1>7, <1>8 DEF K, Staged, Idle
  <1>14. Tied(t, v, ch, p)
    BY <1>21, <1>8 DEF K, Tied
  <1>15. Windows(t, rest, q, v)
    <2>1. /\ cl.win + Bytes(in, "DATA") + Bytes(q, "ADJUST")
                = v.win + Bytes(rest, "DATA") + Bytes(q, "ADJUST")
      BY <1>0, <1>2, <1>8, <1>22
    <2> QED
      BY <1>8, <1>22, <2>1 DEF K, Windows
  <1>16. InputKept(t, rest, v, ch, p)
    <2>1. ch.got + p.in + t.c.output + Bytes(in, "DATA") = cl.sent
              => ch.got + p.in + t.c.output + Bytes(rest, "DATA") = v.sent
      BY <1>0, <1>2, <1>8, <1>22
    <2> QED
      BY <2>1 DEF K, InputKept
  <1>17. OutputKept(t, q, v, ch, p)
    BY <1>8 DEF K, OutputKept
  <1>18. Truthful(t, q, v, ch)
    BY <1>8 DEF K, Truthful, Told
  <1>19. Complete(q, v, ch)
    BY <1>8, <1>21 DEF K, Complete, Told
  <1> QED
    BY <1>11, <1>12, <1>13, <1>14, <1>15, <1>16, <1>17, <1>18, <1>19 DEF K, rest, v

(* The client sends EOF. *)
LEMMA ClientEndsInput ==
    ASSUME NEW t, NEW in, NEW q, NEW cl, NEW ch, NEW p, K(t, in, q, cl, ch, p),
           cl.stage = "running", ~cl.eof, ~cl.close
    PROVE  K(t, Append(in, <<"EOF", 0>>), q, [cl EXCEPT !.eof = TRUE], ch, p)
  <1> DEFINE rest == Append(in, <<"EOF", 0>>)
             v == [cl EXCEPT !.eof = TRUE]
  <1>1. Typed(t, in, q, cl, ch, p)
    BY DEF K
  <1>0. "EOF" \in Words /\ 0 \in Nat
    BY SizeAssumption DEF Words
  <1>2. /\ cl.win \in Nat /\ t.c.remote_window \in Nat /\ Bytes(in, "ADJUST") \in Nat
        /\ t.c.input \in Nat /\ t.c.output \in Nat /\ t.c.extended \in Nat
        /\ t.c.local_window \in Int /\ t.c.local_consumed \in Nat
        /\ cl.sent \in Nat /\ cl.got \in Nat /\ cl.errs \in Nat
        /\ ch.got \in Nat /\ ch.wrote \in Nat /\ ch.errs \in Nat
        /\ p.in \in Nat /\ p.in <= InPipe /\ p.out \in Nat /\ p.out <= OutPipe
        /\ p.err \in Nat /\ p.err <= OutPipe /\ InPipe \in Nat /\ OutPipe \in Nat
        /\ Bytes(in, "DATA") \in Nat /\ Bytes(q, "DATA") \in Nat
        /\ Bytes(q, "EXT") \in Nat /\ Bytes(q, "ADJUST") \in Nat
    BY <1>1, Numbers
  <1>21. /\ t.c.type = "open" /\ cl.stage = "running" /\ ~cl.close /\ ~cl.eof
         /\ ~Has(t, "close_rcvd") /\ ~Has(t, "eof_rcvd")
    BY DEF K, Staged, Spoken
  <1>7. /\ rest \in Seq(Messages) /\ rest # << >>
        /\ Len(in) \in Nat /\ Len(rest) = Len(in) + 1
        /\ \A i \in 1 .. Len(in) : rest[i] = in[i]
        /\ rest[Len(in) + 1][1] = "EOF" /\ rest[Len(in) + 1][2] = 0
        /\ \A m : Holds(rest, m) <=> Holds(in, m) \/ "EOF" = m
    BY <1>1, <1>0, Said DEF Typed
  <1>22. /\ Bytes(rest, "DATA") = Bytes(in, "DATA")
         /\ Bytes(rest, "ADJUST") = Bytes(in, "ADJUST")
    BY <1>1, <1>0, SaidBytes DEF Typed
  <1>8. /\ v \in Clients /\ v.stage = cl.stage /\ v.kind = cl.kind /\ v.win = cl.win
        /\ v.sent = cl.sent /\ v.eof = TRUE /\ v.close = cl.close /\ v.got = cl.got
        /\ v.errs = cl.errs /\ v.seen = cl.seen /\ v.early = cl.early
    BY <1>1 DEF Typed, Clients
  <1> HIDE DEF rest, v
  <1>11. Typed(t, rest, q, v, ch, p)
    BY <1>1, <1>7, <1>8 DEF Typed
  <1>12. Spoken(t, rest, v)
    <2>1. \A i \in 1 .. Len(in) : in[i][1] \in {"DATA", "ADJUST"}
      BY <1>21 DEF K, Spoken
    <2>2. \A i \in 1 .. Len(rest) : i \in 1 .. Len(in) \/ i = Len(in) + 1
      BY <1>7
    <2>3. \A i \in 1 .. Len(rest) : rest[i][1] \in {"DATA", "ADJUST", "EOF"}
      BY <1>7, <2>1, <2>2
    <2>4. \A i \in 1 .. Len(rest) : rest[i][1] = "DATA" => rest[i][2] \in 1 .. MaxPacket
      BY <1>7, <2>2 DEF K, Spoken
    <2>5. \A i \in 1 .. Len(rest) : rest[i][1] = "EOF" => \A j \in 1 .. Len(rest) : ~(i < j)
      <3>1. \A i \in 1 .. Len(in) : rest[i][1] # "EOF"
        BY <1>7, <2>1
      <3>2. \A i \in 1 .. Len(rest) : rest[i][1] = "EOF" => i = Len(in) + 1
        BY <2>2, <3>1
      <3> QED
        BY <1>7, <3>2
    <2> QED
      BY <1>8, <1>21, <2>3, <2>4, <2>5 DEF Spoken
  <1>13. Staged(t, rest, q, v, ch)
    BY <1>21, <1>7, <1>8 DEF K, Staged
  <1>14. Tied(t, v, ch, p)
    BY <1>21, <1>8 DEF K, Tied
  <1>15. Windows(t, rest, q, v)
    BY <1>21, <1>22, <1>8 DEF K, Windows
  <1>16. InputKept(t, rest, v, ch, p)
    BY <1>22, <1>8 DEF K, InputKept
  <1>17. OutputKept(t, q, v, ch, p)
    BY <1>8 DEF K, OutputKept
  <1>18. Truthful(t, q, v, ch)
    BY <1>8 DEF K, Truthful, Told
  <1>19. Complete(q, v, ch)
    BY <1>8, <1>21 DEF K, Complete, Told
  <1> QED
    BY <1>11, <1>12, <1>13, <1>14, <1>15, <1>16, <1>17, <1>18, <1>19 DEF K, rest, v

(* The client sends CLOSE. *)
LEMMA ClientCloses ==
    ASSUME NEW t, NEW in, NEW q, NEW cl, NEW ch, NEW p, K(t, in, q, cl, ch, p),
           cl.stage \in {"larval", "waiting", "running", "refused"}, ~cl.close
    PROVE  K(t, Append(in, <<"CLOSE", 0>>), q,
             [cl EXCEPT !.close = TRUE, !.early = "CLOSE" \notin cl.seen], ch, p)
  <1> DEFINE rest == Append(in, <<"CLOSE", 0>>)
             v == [cl EXCEPT !.close = TRUE, !.early = "CLOSE" \notin cl.seen]
  <1>1. Typed(t, in, q, cl, ch, p)
    BY DEF K
  <1>0. "CLOSE" \in Words /\ 0 \in Nat
    BY SizeAssumption DEF Words
  <1>2. /\ cl.win \in Nat /\ t.c.remote_window \in Nat /\ Bytes(in, "ADJUST") \in Nat
        /\ t.c.input \in Nat /\ t.c.output \in Nat /\ t.c.extended \in Nat
        /\ t.c.local_window \in Int /\ t.c.local_consumed \in Nat
        /\ cl.sent \in Nat /\ cl.got \in Nat /\ cl.errs \in Nat
        /\ ch.got \in Nat /\ ch.wrote \in Nat /\ ch.errs \in Nat
        /\ p.in \in Nat /\ p.in <= InPipe /\ p.out \in Nat /\ p.out <= OutPipe
        /\ p.err \in Nat /\ p.err <= OutPipe /\ InPipe \in Nat /\ OutPipe \in Nat
        /\ Bytes(in, "DATA") \in Nat /\ Bytes(q, "DATA") \in Nat
        /\ Bytes(q, "EXT") \in Nat /\ Bytes(q, "ADJUST") \in Nat
    BY <1>1, Numbers
  <1>21. /\ t.c.type # "none" /\ ~cl.close /\ ~cl.early /\ ~Has(t, "close_rcvd")
         /\ cl.stage \notin {"new", "opening", "gone"}
    BY DEF K, Staged, Spoken, Complete
  <1>7. /\ rest \in Seq(Messages) /\ rest # << >>
        /\ Len(in) \in Nat /\ Len(rest) = Len(in) + 1
        /\ \A i \in 1 .. Len(in) : rest[i] = in[i]
        /\ rest[Len(in) + 1][1] = "CLOSE" /\ rest[Len(in) + 1][2] = 0
        /\ \A m : Holds(rest, m) <=> Holds(in, m) \/ "CLOSE" = m
    BY <1>1, <1>0, Said DEF Typed
  <1>22. /\ Bytes(rest, "DATA") = Bytes(in, "DATA")
         /\ Bytes(rest, "ADJUST") = Bytes(in, "ADJUST")
    BY <1>1, <1>0, SaidBytes DEF Typed
  <1>8. /\ v \in Clients /\ v.stage = cl.stage /\ v.kind = cl.kind /\ v.win = cl.win
        /\ v.sent = cl.sent /\ v.eof = cl.eof /\ v.close = TRUE /\ v.got = cl.got
        /\ v.errs = cl.errs /\ v.seen = cl.seen /\ v.early = ("CLOSE" \notin cl.seen)
    BY <1>1 DEF Typed, Clients
  <1> HIDE DEF rest, v
  <1>11. Typed(t, rest, q, v, ch, p)
    BY <1>1, <1>7, <1>8 DEF Typed
  <1>12. Spoken(t, rest, v)
    <2>1. \A i \in 1 .. Len(in) : in[i][1] # "CLOSE"
      BY <1>21 DEF K, Spoken
    <2>2. \A i \in 1 .. Len(rest) : i \in 1 .. Len(in) \/ i = Len(in) + 1
      BY <1>7
    <2>3. \A i \in 1 .. Len(rest) : rest[i][1] = "CLOSE" => i = Len(rest)
      BY <1>7, <2>1, <2>2
    <2>4. \A i \in 1 .. Len(rest) : rest[i][1] # "CLOSE"
            => i \in 1 .. Len(in) /\ rest[i] = in[i]
      BY <1>7, <2>2
    <2>5. t.c.type = "larval" =>
            \A i \in 1 .. Len(rest) :
              \/ rest[i][1] = "CLOSE"
              \/ i = 1 /\ rest[i][1] \in {"exec", "subsystem"} /\ rest[i][1] = cl.kind
      BY <2>1, <2>4 DEF K, Spoken
    <2>6. t.c.type = "open" =>
            \A i \in 1 .. Len(rest) : rest[i][1] \in {"DATA", "EOF", "ADJUST", "CLOSE"}
      BY <2>4 DEF K, Spoken
    <2>7. ASSUME NEW i \in 1 .. Len(rest), rest[i][1] = "EOF"
          PROVE  cl.eof /\ \A j \in 1 .. Len(rest) : i < j => rest[j][1] # "DATA"
      <3>1. i \in 1 .. Len(in) /\ in[i][1] = "EOF"
        BY <2>4, <2>7
      <3>2. cl.eof /\ \A j \in 1 .. Len(in) : i < j => in[j][1] # "DATA"
        BY <3>1 DEF K, Spoken
      <3> QED
        BY <2>4, <3>2
    <2>8. \A i \in 1 .. Len(rest) : rest[i][1] = "DATA" => rest[i][2] \in 1 .. MaxPacket
      BY <2>4 DEF K, Spoken
    <2>9. Has(t, "eof_rcvd") => cl.eof /\ ~Holds(rest, "DATA")
      BY <1>7 DEF K, Spoken
    <2> QED
      BY <1>8, <1>21, <2>3, <2>5, <2>6, <2>7, <2>8, <2>9 DEF Spoken
  <1>13. Staged(t, rest, q, v, ch)
    BY <1>21, <1>7, <1>8 DEF K, Staged, Idle
  <1>14. Tied(t, v, ch, p)
    BY <1>21, <1>8 DEF K, Tied
  <1>15. Windows(t, rest, q, v)
    BY <1>21, <1>22, <1>8 DEF K, Windows
  <1>16. InputKept(t, rest, v, ch, p)
    BY <1>22, <1>8 DEF K, InputKept
  <1>17. OutputKept(t, q, v, ch, p)
    BY <1>8 DEF K, OutputKept
  <1>18. Truthful(t, q, v, ch)
    BY <1>8 DEF K, Truthful, Told
  <1>19. Complete(q, v, ch)
    <2>1. v.early \/ "CLOSE" \in v.seen
      BY <1>8
    <2> QED
      BY <1>8, <1>21, <2>1 DEF K, Complete, Told
  <1> QED
    BY <1>11, <1>12, <1>13, <1>14, <1>15, <1>16, <1>17, <1>18, <1>19 DEF K, rest, v

(* The channel is open to the client. *)
LEMMA HearsConfirm ==
    ASSUME NEW t, NEW in, NEW q, NEW cl, NEW ch, NEW p, K(t, in, q, cl, ch, p),
           NEW k \in Nat,
           First(q, "CONFIRM", k), cl.stage # "gone"
    PROVE  K(t, in, Tail(q), [cl EXCEPT !.stage = "larval"], ch, p)
  <1> DEFINE r == Tail(q)
             v == [cl EXCEPT !.stage = "larval"]
  <1>1. Typed(t, in, q, cl, ch, p)
    BY DEF K
  <1>0. "ADJUST" \in Words /\ k \in Nat
    BY DEF Words
  <1>2. /\ cl.win \in Nat /\ t.c.remote_window \in Nat /\ Bytes(in, "ADJUST") \in Nat
        /\ t.c.input \in Nat /\ t.c.output \in Nat /\ t.c.extended \in Nat
        /\ t.c.local_window \in Int /\ t.c.local_consumed \in Nat
        /\ cl.sent \in Nat /\ cl.got \in Nat /\ cl.errs \in Nat
        /\ ch.got \in Nat /\ ch.wrote \in Nat /\ ch.errs \in Nat
        /\ p.in \in Nat /\ p.in <= InPipe /\ p.out \in Nat /\ p.out <= OutPipe
        /\ p.err \in Nat /\ p.err <= OutPipe /\ InPipe \in Nat /\ OutPipe \in Nat
        /\ Bytes(in, "DATA") \in Nat /\ Bytes(q, "DATA") \in Nat
        /\ Bytes(q, "EXT") \in Nat /\ Bytes(q, "ADJUST") \in Nat
    BY <1>1, Numbers
  <1>4. /\ r \in Seq(Messages) /\ q # << >> /\ 1 \in 1 .. Len(q) /\ q[1][1] = "CONFIRM"
        /\ \A i \in 1 .. Len(r) : \E j \in 1 .. Len(q) : r[i] = q[j]
        /\ \A x : Holds(q, x) <=> "CONFIRM" = x \/ Holds(r, x)
    <2>1. q \in Seq(Messages) /\ q # << >> /\ Head(q)[1] = "CONFIRM"
      BY <1>1 DEF Typed, First
    <2> QED
      BY <2>1, Heard
  <1>5. /\ Bytes(r, "DATA") \in Nat /\ Bytes(q, "DATA") = Bytes(r, "DATA")
        /\ Bytes(r, "EXT") \in Nat /\ Bytes(q, "EXT") = Bytes(r, "EXT")
        /\ Bytes(r, "ADJUST") \in Nat /\ Bytes(q, "ADJUST") = Bytes(r, "ADJUST")
    BY <1>1, HeardBytes DEF Typed, First
  <1>6. Orderly(cl.seen, r) /\ Orderly(cl.seen \cup {"CONFIRM"}, r)
          /\ "CLOSE" \notin cl.seen
    <2>1. q \in Seq(Messages) /\ q # << >> /\ Head(q)[1] = "CONFIRM" /\ Orderly(cl.seen, q)
      BY <1>1 DEF Typed, First, K, Truthful
    <2>2. Orderly(cl.seen, Tail(q)) /\ Orderly(cl.seen \cup {Head(q)[1]}, Tail(q))
            /\ "CLOSE" \notin cl.seen
      BY <2>1, OrderlyHeard
    <2> QED
      BY <2>1, <2>2
  <1>21. /\ cl.stage = "opening" /\ t.c.type = "larval" /\ in = << >>
         /\ q = <<<<"CONFIRM", 0>>>>
         /\ ~cl.close /\ r = << >>
    <2>1. cl.stage = "opening"
      BY <1>4 DEF K, Staged
    <2>2. t.c.type = "larval" /\ in = << >> /\ q = <<<<"CONFIRM", 0>>>> /\ ~cl.close
      BY <1>4, <2>1 DEF K, Staged
    <2> QED
      BY <2>1, <2>2
  <1>8. /\ v \in Clients /\ v.stage = "larval" /\ v.kind = cl.kind /\ v.win = cl.win
        /\ v.sent = cl.sent /\ v.eof = cl.eof /\ v.close = cl.close /\ v.got = cl.got
        /\ v.errs = cl.errs /\ v.seen = cl.seen /\ v.early = cl.early
    BY <1>1 DEF Typed, Clients
  <1> HIDE DEF r, v
  <1>11. Typed(t, in, r, v, ch, p)
    BY <1>1, <1>4, <1>8 DEF Typed
  <1>12. Spoken(t, in, v)
    BY <1>8 DEF K, Spoken
  <1>13. Staged(t, in, r, v, ch)
    <2>1. Len(r) = 0
      BY <1>21
    <2> QED
      BY <1>8, <1>21, <2>1 DEF K, Staged, Idle, Holds
  <1>14. Tied(t, v, ch, p)
    BY <1>8 DEF K, Tied
  <1>15. Windows(t, in, r, v)
    BY <1>5, <1>8, <1>21 DEF K, Windows
  <1>16. InputKept(t, in, v, ch, p)
    BY <1>8 DEF K, InputKept
  <1>17. OutputKept(t, r, v, ch, p)
    BY <1>5, <1>8, <1>21 DEF K, OutputKept
  <1>18. Truthful(t, r, v, ch)
    BY <1>4, <1>6, <1>8, <1>21 DEF K, Truthful, Told
  <1>19. Complete(r, v, ch)
    BY <1>4, <1>5, <1>6, <1>8, <1>21 DEF K, Complete, Told
  <1> QED
    BY <1>11, <1>12, <1>13, <1>14, <1>15, <1>16, <1>17, <1>18, <1>19 DEF K, r, v

(* The child runs. *)
LEMMA HearsSuccess ==
    ASSUME NEW t, NEW in, NEW q, NEW cl, NEW ch, NEW p, K(t, in, q, cl, ch, p),
           NEW k \in Nat,
           First(q, "SUCCESS", k), cl.stage # "gone"
    PROVE  K(t, in, Tail(q), [cl EXCEPT !.stage = "running"], ch, p)
  <1> DEFINE r == Tail(q)
             v == [cl EXCEPT !.stage = "running"]
  <1>1. Typed(t, in, q, cl, ch, p)
    BY DEF K
  <1>0. "ADJUST" \in Words /\ k \in Nat
    BY DEF Words
  <1>2. /\ cl.win \in Nat /\ t.c.remote_window \in Nat /\ Bytes(in, "ADJUST") \in Nat
        /\ t.c.input \in Nat /\ t.c.output \in Nat /\ t.c.extended \in Nat
        /\ t.c.local_window \in Int /\ t.c.local_consumed \in Nat
        /\ cl.sent \in Nat /\ cl.got \in Nat /\ cl.errs \in Nat
        /\ ch.got \in Nat /\ ch.wrote \in Nat /\ ch.errs \in Nat
        /\ p.in \in Nat /\ p.in <= InPipe /\ p.out \in Nat /\ p.out <= OutPipe
        /\ p.err \in Nat /\ p.err <= OutPipe /\ InPipe \in Nat /\ OutPipe \in Nat
        /\ Bytes(in, "DATA") \in Nat /\ Bytes(q, "DATA") \in Nat
        /\ Bytes(q, "EXT") \in Nat /\ Bytes(q, "ADJUST") \in Nat
    BY <1>1, Numbers
  <1>4. /\ r \in Seq(Messages) /\ q # << >> /\ 1 \in 1 .. Len(q) /\ q[1][1] = "SUCCESS"
        /\ \A i \in 1 .. Len(r) : \E j \in 1 .. Len(q) : r[i] = q[j]
        /\ \A x : Holds(q, x) <=> "SUCCESS" = x \/ Holds(r, x)
    <2>1. q \in Seq(Messages) /\ q # << >> /\ Head(q)[1] = "SUCCESS"
      BY <1>1 DEF Typed, First
    <2> QED
      BY <2>1, Heard
  <1>5. /\ Bytes(r, "DATA") \in Nat /\ Bytes(q, "DATA") = Bytes(r, "DATA")
        /\ Bytes(r, "EXT") \in Nat /\ Bytes(q, "EXT") = Bytes(r, "EXT")
        /\ Bytes(r, "ADJUST") \in Nat /\ Bytes(q, "ADJUST") = Bytes(r, "ADJUST")
    BY <1>1, HeardBytes DEF Typed, First
  <1>6. Orderly(cl.seen, r) /\ Orderly(cl.seen \cup {"SUCCESS"}, r)
          /\ "CLOSE" \notin cl.seen
    <2>1. q \in Seq(Messages) /\ q # << >> /\ Head(q)[1] = "SUCCESS" /\ Orderly(cl.seen, q)
      BY <1>1 DEF Typed, First, K, Truthful
    <2>2. Orderly(cl.seen, Tail(q)) /\ Orderly(cl.seen \cup {Head(q)[1]}, Tail(q))
            /\ "CLOSE" \notin cl.seen
      BY <2>1, OrderlyHeard
    <2> QED
      BY <2>1, <2>2
  <1>21. /\ cl.stage \notin {"new", "opening", "gone"} /\ ~Holds(q, "CONFIRM")
         /\ t.c.type = "none" => in = << >> /\ cl.close
         /\ cl.close \/ t.c.type = "open"
    <2>1. cl.stage # "new" /\ (t.c.type = "none" => in = << >>)
      BY <1>4 DEF K, Staged
    <2>2. cl.stage # "opening"
      <3>1. ASSUME cl.stage = "opening" PROVE q[1][1] = "CONFIRM"
        <4>1. q = <<<<"CONFIRM", 0>>>>
          BY <1>4, <2>1, <3>1 DEF K, Staged
        <4> QED
          BY <4>1
      <3> QED
        BY <1>4, <3>1
    <2>3. ~Holds(q, "CONFIRM")
      BY <2>2 DEF K, Staged
    <2> QED
      BY <1>4, <2>1, <2>2, <2>3 DEF K, Staged
  <1>8. /\ v \in Clients /\ v.stage = "running" /\ v.kind = cl.kind /\ v.win = cl.win
        /\ v.sent = cl.sent /\ v.eof = cl.eof /\ v.close = cl.close /\ v.got = cl.got
        /\ v.errs = cl.errs /\ v.seen = cl.seen /\ v.early = cl.early
    BY <1>1 DEF Typed, Clients
  <1> HIDE DEF r, v
  <1>11. Typed(t, in, r, v, ch, p)
    BY <1>1, <1>4, <1>8 DEF Typed
  <1>12. Spoken(t, in, v)
    BY <1>8 DEF K, Spoken
  <1>13. Staged(t, in, r, v, ch)
    BY <1>4, <1>8, <1>21 DEF K, Staged, Idle
  <1>14. Tied(t, v, ch, p)
    BY <1>8 DEF K, Tied
  <1>15. Windows(t, in, r, v)
    BY <1>5, <1>8, <1>21 DEF K, Windows
  <1>16. InputKept(t, in, v, ch, p)
    BY <1>8 DEF K, InputKept
  <1>17. OutputKept(t, r, v, ch, p)
    BY <1>5, <1>8, <1>21 DEF K, OutputKept
  <1>18. Truthful(t, r, v, ch)
    BY <1>4, <1>6, <1>8, <1>21 DEF K, Truthful, Told
  <1>19. Complete(r, v, ch)
    BY <1>4, <1>5, <1>6, <1>8, <1>21 DEF K, Complete, Told
  <1> QED
    BY <1>11, <1>12, <1>13, <1>14, <1>15, <1>16, <1>17, <1>18, <1>19 DEF K, r, v

(* The child does not run. *)
LEMMA HearsFailure ==
    ASSUME NEW t, NEW in, NEW q, NEW cl, NEW ch, NEW p, K(t, in, q, cl, ch, p),
           NEW k \in Nat,
           First(q, "FAILURE", k), cl.stage # "gone"
    PROVE  K(t, in, Tail(q), [cl EXCEPT !.stage = "refused"], ch, p)
  <1> DEFINE r == Tail(q)
             v == [cl EXCEPT !.stage = "refused"]
  <1>1. Typed(t, in, q, cl, ch, p)
    BY DEF K
  <1>0. "ADJUST" \in Words /\ k \in Nat
    BY DEF Words
  <1>2. /\ cl.win \in Nat /\ t.c.remote_window \in Nat /\ Bytes(in, "ADJUST") \in Nat
        /\ t.c.input \in Nat /\ t.c.output \in Nat /\ t.c.extended \in Nat
        /\ t.c.local_window \in Int /\ t.c.local_consumed \in Nat
        /\ cl.sent \in Nat /\ cl.got \in Nat /\ cl.errs \in Nat
        /\ ch.got \in Nat /\ ch.wrote \in Nat /\ ch.errs \in Nat
        /\ p.in \in Nat /\ p.in <= InPipe /\ p.out \in Nat /\ p.out <= OutPipe
        /\ p.err \in Nat /\ p.err <= OutPipe /\ InPipe \in Nat /\ OutPipe \in Nat
        /\ Bytes(in, "DATA") \in Nat /\ Bytes(q, "DATA") \in Nat
        /\ Bytes(q, "EXT") \in Nat /\ Bytes(q, "ADJUST") \in Nat
    BY <1>1, Numbers
  <1>4. /\ r \in Seq(Messages) /\ q # << >> /\ 1 \in 1 .. Len(q) /\ q[1][1] = "FAILURE"
        /\ \A i \in 1 .. Len(r) : \E j \in 1 .. Len(q) : r[i] = q[j]
        /\ \A x : Holds(q, x) <=> "FAILURE" = x \/ Holds(r, x)
    <2>1. q \in Seq(Messages) /\ q # << >> /\ Head(q)[1] = "FAILURE"
      BY <1>1 DEF Typed, First
    <2> QED
      BY <2>1, Heard
  <1>5. /\ Bytes(r, "DATA") \in Nat /\ Bytes(q, "DATA") = Bytes(r, "DATA")
        /\ Bytes(r, "EXT") \in Nat /\ Bytes(q, "EXT") = Bytes(r, "EXT")
        /\ Bytes(r, "ADJUST") \in Nat /\ Bytes(q, "ADJUST") = Bytes(r, "ADJUST")
    BY <1>1, HeardBytes DEF Typed, First
  <1>6. Orderly(cl.seen, r) /\ Orderly(cl.seen \cup {"FAILURE"}, r)
          /\ "CLOSE" \notin cl.seen
    <2>1. q \in Seq(Messages) /\ q # << >> /\ Head(q)[1] = "FAILURE" /\ Orderly(cl.seen, q)
      BY <1>1 DEF Typed, First, K, Truthful
    <2>2. Orderly(cl.seen, Tail(q)) /\ Orderly(cl.seen \cup {Head(q)[1]}, Tail(q))
            /\ "CLOSE" \notin cl.seen
      BY <2>1, OrderlyHeard
    <2> QED
      BY <2>1, <2>2
  <1>21. /\ cl.stage \notin {"new", "opening", "gone"} /\ ~Holds(q, "CONFIRM")
         /\ t.c.type = "none" => in = << >> /\ cl.close
    <2>1. cl.stage # "new" /\ (t.c.type = "none" => in = << >>)
      BY <1>4 DEF K, Staged
    <2>2. cl.stage # "opening"
      <3>1. ASSUME cl.stage = "opening" PROVE q[1][1] = "CONFIRM"
        <4>1. q = <<<<"CONFIRM", 0>>>>
          BY <1>4, <2>1, <3>1 DEF K, Staged
        <4> QED
          BY <4>1
      <3> QED
        BY <1>4, <3>1
    <2>3. ~Holds(q, "CONFIRM")
      BY <2>2 DEF K, Staged
    <2> QED
      BY <1>4, <2>1, <2>2, <2>3 DEF K, Staged
  <1>8. /\ v \in Clients /\ v.stage = "refused" /\ v.kind = cl.kind /\ v.win = cl.win
        /\ v.sent = cl.sent /\ v.eof = cl.eof /\ v.close = cl.close /\ v.got = cl.got
        /\ v.errs = cl.errs /\ v.seen = cl.seen /\ v.early = cl.early
    BY <1>1 DEF Typed, Clients
  <1> HIDE DEF r, v
  <1>11. Typed(t, in, r, v, ch, p)
    BY <1>1, <1>4, <1>8 DEF Typed
  <1>12. Spoken(t, in, v)
    BY <1>8 DEF K, Spoken
  <1>13. Staged(t, in, r, v, ch)
    BY <1>4, <1>8, <1>21 DEF K, Staged, Idle
  <1>14. Tied(t, v, ch, p)
    BY <1>8 DEF K, Tied
  <1>15. Windows(t, in, r, v)
    BY <1>5, <1>8, <1>21 DEF K, Windows
  <1>16. InputKept(t, in, v, ch, p)
    BY <1>8 DEF K, InputKept
  <1>17. OutputKept(t, r, v, ch, p)
    BY <1>5, <1>8, <1>21 DEF K, OutputKept
  <1>18. Truthful(t, r, v, ch)
    BY <1>4, <1>6, <1>8, <1>21 DEF K, Truthful, Told
  <1>19. Complete(r, v, ch)
    BY <1>4, <1>5, <1>6, <1>8, <1>21 DEF K, Complete, Told
  <1> QED
    BY <1>11, <1>12, <1>13, <1>14, <1>15, <1>16, <1>17, <1>18, <1>19 DEF K, r, v

(* The client may send more. *)
LEMMA HearsGrant ==
    ASSUME NEW t, NEW in, NEW q, NEW cl, NEW ch, NEW p, K(t, in, q, cl, ch, p),
           NEW k \in Nat,
           First(q, "ADJUST", k), cl.stage # "gone"
    PROVE  K(t, in, Tail(q), [cl EXCEPT !.win = @ + k], ch, p)
  <1> DEFINE r == Tail(q)
             v == [cl EXCEPT !.win = @ + k]
  <1>1. Typed(t, in, q, cl, ch, p)
    BY DEF K
  <1>0. "ADJUST" \in Words /\ k \in Nat
    BY DEF Words
  <1>2. /\ cl.win \in Nat /\ t.c.remote_window \in Nat /\ Bytes(in, "ADJUST") \in Nat
        /\ t.c.input \in Nat /\ t.c.output \in Nat /\ t.c.extended \in Nat
        /\ t.c.local_window \in Int /\ t.c.local_consumed \in Nat
        /\ cl.sent \in Nat /\ cl.got \in Nat /\ cl.errs \in Nat
        /\ ch.got \in Nat /\ ch.wrote \in Nat /\ ch.errs \in Nat
        /\ p.in \in Nat /\ p.in <= InPipe /\ p.out \in Nat /\ p.out <= OutPipe
        /\ p.err \in Nat /\ p.err <= OutPipe /\ InPipe \in Nat /\ OutPipe \in Nat
        /\ Bytes(in, "DATA") \in Nat /\ Bytes(q, "DATA") \in Nat
        /\ Bytes(q, "EXT") \in Nat /\ Bytes(q, "ADJUST") \in Nat
    BY <1>1, Numbers
  <1>4. /\ r \in Seq(Messages) /\ q # << >> /\ 1 \in 1 .. Len(q) /\ q[1][1] = "ADJUST"
        /\ \A i \in 1 .. Len(r) : \E j \in 1 .. Len(q) : r[i] = q[j]
        /\ \A x : Holds(q, x) <=> "ADJUST" = x \/ Holds(r, x)
    <2>1. q \in Seq(Messages) /\ q # << >> /\ Head(q)[1] = "ADJUST"
      BY <1>1 DEF Typed, First
    <2> QED
      BY <2>1, Heard
  <1>5. /\ Bytes(r, "DATA") \in Nat /\ Bytes(q, "DATA") = Bytes(r, "DATA")
        /\ Bytes(r, "EXT") \in Nat /\ Bytes(q, "EXT") = Bytes(r, "EXT")
        /\ Bytes(r, "ADJUST") \in Nat /\ Bytes(q, "ADJUST") = Bytes(r, "ADJUST") + k
    BY <1>1, HeardBytes DEF Typed, First
  <1>6. Orderly(cl.seen, r) /\ Orderly(cl.seen \cup {"ADJUST"}, r) /\ "CLOSE" \notin cl.seen
    <2>1. q \in Seq(Messages) /\ q # << >> /\ Head(q)[1] = "ADJUST" /\ Orderly(cl.seen, q)
      BY <1>1 DEF Typed, First, K, Truthful
    <2>2. Orderly(cl.seen, Tail(q)) /\ Orderly(cl.seen \cup {Head(q)[1]}, Tail(q))
            /\ "CLOSE" \notin cl.seen
      BY <2>1, OrderlyHeard
    <2> QED
      BY <2>1, <2>2
  <1>21. /\ cl.stage \notin {"new", "opening", "gone"} /\ ~Holds(q, "CONFIRM")
         /\ t.c.type = "none" => in = << >> /\ cl.close
         /\ t.c.type # "larval"
    <2>1. cl.stage # "new" /\ (t.c.type = "none" => in = << >>)
      BY <1>4 DEF K, Staged
    <2>2. cl.stage # "opening"
      <3>1. ASSUME cl.stage = "opening" PROVE q[1][1] = "CONFIRM"
        <4>1. q = <<<<"CONFIRM", 0>>>>
          BY <1>4, <2>1, <3>1 DEF K, Staged
        <4> QED
          BY <4>1
      <3> QED
        BY <1>4, <3>1
    <2>3. ~Holds(q, "CONFIRM")
      BY <2>2 DEF K, Staged
    <2> QED
      BY <1>4, <2>1, <2>2, <2>3 DEF K, Staged
  <1>8. /\ v \in Clients /\ v.stage = cl.stage /\ v.kind = cl.kind
        /\ v.win = cl.win + k /\ v.sent = cl.sent /\ v.eof = cl.eof
        /\ v.close = cl.close /\ v.got = cl.got /\ v.errs = cl.errs
        /\ v.seen = cl.seen /\ v.early = cl.early
    <2>1. cl.win + k \in Nat
      BY <1>2, <1>0
    <2> QED
      BY <1>1, <2>1 DEF Typed, Clients
  <1> HIDE DEF r, v
  <1>11. Typed(t, in, r, v, ch, p)
    BY <1>1, <1>4, <1>8 DEF Typed
  <1>12. Spoken(t, in, v)
    BY <1>8 DEF K, Spoken
  <1>13. Staged(t, in, r, v, ch)
    BY <1>4, <1>8, <1>21 DEF K, Staged, Idle
  <1>14. Tied(t, v, ch, p)
    BY <1>8 DEF K, Tied
  <1>15. Windows(t, in, r, v)
    <2>1. cl.win + Bytes(in, "DATA") + Bytes(q, "ADJUST") = v.win + Bytes(in, "DATA")
            + Bytes(r, "ADJUST")
      BY <1>2, <1>5, <1>8
    <2> QED
      BY <1>5, <1>8, <2>1 DEF K, Windows
  <1>16. InputKept(t, in, v, ch, p)
    BY <1>8 DEF K, InputKept
  <1>17. OutputKept(t, r, v, ch, p)
    BY <1>5, <1>8, <1>21 DEF K, OutputKept
  <1>18. Truthful(t, r, v, ch)
    BY <1>4, <1>6, <1>8, <1>21 DEF K, Truthful, Told
  <1>19. Complete(r, v, ch)
    BY <1>4, <1>5, <1>6, <1>8, <1>21 DEF K, Complete, Told
  <1> QED
    BY <1>11, <1>12, <1>13, <1>14, <1>15, <1>16, <1>17, <1>18, <1>19 DEF K, r, v

(* The client takes what the child wrote, and grants as much again. *)
LEMMA TakesAndGrants ==
    ASSUME NEW t, NEW in, NEW q, NEW cl, NEW ch, NEW p, K(t, in, q, cl, ch, p),
           NEW k \in Nat,
           First(q, "DATA", k), cl.stage # "gone",
           ~cl.close
    PROVE  K(t, Append(in, <<"ADJUST", k>>), Tail(q), [cl EXCEPT !.got = @ + k], ch, p)
  <1> DEFINE rest == Append(in, <<"ADJUST", k>>)
             r == Tail(q)
             v == [cl EXCEPT !.got = @ + k]
  <1>1. Typed(t, in, q, cl, ch, p)
    BY DEF K
  <1>0. "ADJUST" \in Words /\ k \in Nat
    BY DEF Words
  <1>2. /\ cl.win \in Nat /\ t.c.remote_window \in Nat /\ Bytes(in, "ADJUST") \in Nat
        /\ t.c.input \in Nat /\ t.c.output \in Nat /\ t.c.extended \in Nat
        /\ t.c.local_window \in Int /\ t.c.local_consumed \in Nat
        /\ cl.sent \in Nat /\ cl.got \in Nat /\ cl.errs \in Nat
        /\ ch.got \in Nat /\ ch.wrote \in Nat /\ ch.errs \in Nat
        /\ p.in \in Nat /\ p.in <= InPipe /\ p.out \in Nat /\ p.out <= OutPipe
        /\ p.err \in Nat /\ p.err <= OutPipe /\ InPipe \in Nat /\ OutPipe \in Nat
        /\ Bytes(in, "DATA") \in Nat /\ Bytes(q, "DATA") \in Nat
        /\ Bytes(q, "EXT") \in Nat /\ Bytes(q, "ADJUST") \in Nat
    BY <1>1, Numbers
  <1>4. /\ r \in Seq(Messages) /\ q # << >> /\ 1 \in 1 .. Len(q) /\ q[1][1] = "DATA"
        /\ \A i \in 1 .. Len(r) : \E j \in 1 .. Len(q) : r[i] = q[j]
        /\ \A x : Holds(q, x) <=> "DATA" = x \/ Holds(r, x)
    <2>1. q \in Seq(Messages) /\ q # << >> /\ Head(q)[1] = "DATA"
      BY <1>1 DEF Typed, First
    <2> QED
      BY <2>1, Heard
  <1>5. /\ Bytes(r, "DATA") \in Nat /\ Bytes(q, "DATA") = Bytes(r, "DATA") + k
        /\ Bytes(r, "EXT") \in Nat /\ Bytes(q, "EXT") = Bytes(r, "EXT")
        /\ Bytes(r, "ADJUST") \in Nat /\ Bytes(q, "ADJUST") = Bytes(r, "ADJUST")
    BY <1>1, HeardBytes DEF Typed, First
  <1>6. Orderly(cl.seen, r) /\ Orderly(cl.seen \cup {"DATA"}, r) /\ "CLOSE" \notin cl.seen
    <2>1. q \in Seq(Messages) /\ q # << >> /\ Head(q)[1] = "DATA" /\ Orderly(cl.seen, q)
      BY <1>1 DEF Typed, First, K, Truthful
    <2>2. Orderly(cl.seen, Tail(q)) /\ Orderly(cl.seen \cup {Head(q)[1]}, Tail(q))
            /\ "CLOSE" \notin cl.seen
      BY <2>1, OrderlyHeard
    <2> QED
      BY <2>1, <2>2
  <1>21. /\ cl.stage \notin {"new", "opening", "gone"} /\ ~Holds(q, "CONFIRM")
         /\ t.c.type = "none" => in = << >> /\ cl.close
         /\ t.c.type # "larval" /\ t.c.type = "open" /\ ~cl.close
    <2>1. cl.stage # "new" /\ (t.c.type = "none" => in = << >>)
      BY <1>4 DEF K, Staged
    <2>2. cl.stage # "opening"
      <3>1. ASSUME cl.stage = "opening" PROVE q[1][1] = "CONFIRM"
        <4>1. q = <<<<"CONFIRM", 0>>>>
          BY <1>4, <2>1, <3>1 DEF K, Staged
        <4> QED
          BY <4>1
      <3> QED
        BY <1>4, <3>1
    <2>3. ~Holds(q, "CONFIRM")
      BY <2>2 DEF K, Staged
    <2> QED
      BY <1>4, <2>1, <2>2, <2>3 DEF K, Staged
  <1>7. /\ rest \in Seq(Messages) /\ rest # << >>
        /\ Len(in) \in Nat /\ Len(rest) = Len(in) + 1
        /\ \A i \in 1 .. Len(in) : rest[i] = in[i]
        /\ rest[Len(in) + 1][1] = "ADJUST" /\ rest[Len(in) + 1][2] = k
        /\ \A m : Holds(rest, m) <=> Holds(in, m) \/ "ADJUST" = m
    BY <1>1, <1>0, Said DEF Typed
  <1>22. /\ Bytes(rest, "DATA") = Bytes(in, "DATA")
         /\ Bytes(rest, "ADJUST") = Bytes(in, "ADJUST") + k
    BY <1>1, <1>0, SaidBytes DEF Typed
  <1>8. /\ v \in Clients /\ v.stage = cl.stage /\ v.kind = cl.kind /\ v.win = cl.win
        /\ v.sent = cl.sent /\ v.eof = cl.eof /\ v.close = cl.close
        /\ v.got = cl.got + k /\ v.errs = cl.errs /\ v.seen = cl.seen
        /\ v.early = cl.early
    <2>1. cl.got + k \in Nat
      BY <1>2, <1>0
    <2> QED
      BY <1>1, <2>1 DEF Typed, Clients
  <1> HIDE DEF rest, r, v
  <1>11. Typed(t, rest, r, v, ch, p)
    BY <1>1, <1>4, <1>7, <1>8 DEF Typed
  <1>12. Spoken(t, rest, v)
    <2>1. \A i \in 1 .. Len(in) : in[i][1] \in {"DATA", "EOF", "ADJUST"}
      BY <1>21 DEF K, Spoken
    <2>2. \A i \in 1 .. Len(rest) : i \in 1 .. Len(in) \/ i = Len(in) + 1
      BY <1>7
    <2>3. \A i \in 1 .. Len(rest) : rest[i][1] \in {"DATA", "EOF", "ADJUST"}
      BY <1>7, <2>1, <2>2
    <2>4. \A i \in 1 .. Len(rest) : rest[i][1] # "ADJUST"
            => i \in 1 .. Len(in) /\ rest[i] = in[i]
      BY <1>7, <2>2
    <2>5. ASSUME NEW i \in 1 .. Len(rest), rest[i][1] = "EOF"
          PROVE  cl.eof /\ \A j \in 1 .. Len(rest) : i < j => rest[j][1] # "DATA"
      <3>1. i \in 1 .. Len(in) /\ in[i][1] = "EOF"
        BY <2>4, <2>5
      <3>2. cl.eof /\ \A j \in 1 .. Len(in) : i < j => in[j][1] # "DATA"
        BY <3>1 DEF K, Spoken
      <3> QED
        BY <2>4, <3>2
    <2>6. \A i \in 1 .. Len(rest) : rest[i][1] = "DATA" => rest[i][2] \in 1 .. MaxPacket
      BY <2>4 DEF K, Spoken
    <2>7. Has(t, "eof_rcvd") => cl.eof /\ ~Holds(rest, "DATA")
      BY <1>7 DEF K, Spoken
    <2>8. ~Has(t, "close_rcvd")
      BY <1>21 DEF K, Spoken
    <2> QED
      BY <1>8, <1>21, <2>3, <2>5, <2>6, <2>7, <2>8 DEF Spoken
  <1>13. Staged(t, rest, r, v, ch)
    BY <1>4, <1>7, <1>8, <1>21 DEF K, Staged
  <1>14. Tied(t, v, ch, p)
    BY <1>8 DEF K, Tied
  <1>15. Windows(t, rest, r, v)
    <2>1. t.c.remote_window + Bytes(rest, "ADJUST") + Bytes(r, "DATA") + Bytes(r, "EXT")
              = t.c.remote_window + Bytes(in, "ADJUST") + Bytes(q, "DATA") + Bytes(q, "EXT")
      BY <1>2, <1>5, <1>22
    <2> QED
      BY <1>5, <1>8, <1>22, <2>1 DEF K, Windows
  <1>16. InputKept(t, rest, v, ch, p)
    BY <1>8, <1>22 DEF K, InputKept
  <1>17. OutputKept(t, r, v, ch, p)
    <2>1. cl.got + Bytes(q, "DATA") + t.c.input + p.out = v.got + Bytes(r, "DATA")
            + t.c.input + p.out
      BY <1>2, <1>5, <1>8
    <2> QED
      BY <1>5, <1>8, <2>1 DEF K, OutputKept
  <1>18. Truthful(t, r, v, ch)
    BY <1>4, <1>6, <1>8, <1>21 DEF K, Truthful, Told
  <1>19. Complete(r, v, ch)
    <2>1. cl.got + Bytes(q, "DATA") = v.got + Bytes(r, "DATA")
      BY <1>2, <1>5, <1>8
    <2> QED
      BY <1>4, <1>5, <1>6, <1>8, <1>21, <2>1 DEF K, Complete, Told
  <1> QED
    BY <1>11, <1>12, <1>13, <1>14, <1>15, <1>16, <1>17, <1>18, <1>19 DEF K, rest, r, v

(* The client takes what the child wrote after it has sent CLOSE. *)
LEMMA Takes ==
    ASSUME NEW t, NEW in, NEW q, NEW cl, NEW ch, NEW p, K(t, in, q, cl, ch, p),
           NEW k \in Nat,
           First(q, "DATA", k), cl.stage # "gone",
           cl.close
    PROVE  K(t, in, Tail(q), [cl EXCEPT !.got = @ + k], ch, p)
  <1> DEFINE r == Tail(q)
             v == [cl EXCEPT !.got = @ + k]
  <1>1. Typed(t, in, q, cl, ch, p)
    BY DEF K
  <1>0. "ADJUST" \in Words /\ k \in Nat
    BY DEF Words
  <1>2. /\ cl.win \in Nat /\ t.c.remote_window \in Nat /\ Bytes(in, "ADJUST") \in Nat
        /\ t.c.input \in Nat /\ t.c.output \in Nat /\ t.c.extended \in Nat
        /\ t.c.local_window \in Int /\ t.c.local_consumed \in Nat
        /\ cl.sent \in Nat /\ cl.got \in Nat /\ cl.errs \in Nat
        /\ ch.got \in Nat /\ ch.wrote \in Nat /\ ch.errs \in Nat
        /\ p.in \in Nat /\ p.in <= InPipe /\ p.out \in Nat /\ p.out <= OutPipe
        /\ p.err \in Nat /\ p.err <= OutPipe /\ InPipe \in Nat /\ OutPipe \in Nat
        /\ Bytes(in, "DATA") \in Nat /\ Bytes(q, "DATA") \in Nat
        /\ Bytes(q, "EXT") \in Nat /\ Bytes(q, "ADJUST") \in Nat
    BY <1>1, Numbers
  <1>4. /\ r \in Seq(Messages) /\ q # << >> /\ 1 \in 1 .. Len(q) /\ q[1][1] = "DATA"
        /\ \A i \in 1 .. Len(r) : \E j \in 1 .. Len(q) : r[i] = q[j]
        /\ \A x : Holds(q, x) <=> "DATA" = x \/ Holds(r, x)
    <2>1. q \in Seq(Messages) /\ q # << >> /\ Head(q)[1] = "DATA"
      BY <1>1 DEF Typed, First
    <2> QED
      BY <2>1, Heard
  <1>5. /\ Bytes(r, "DATA") \in Nat /\ Bytes(q, "DATA") = Bytes(r, "DATA") + k
        /\ Bytes(r, "EXT") \in Nat /\ Bytes(q, "EXT") = Bytes(r, "EXT")
        /\ Bytes(r, "ADJUST") \in Nat /\ Bytes(q, "ADJUST") = Bytes(r, "ADJUST")
    BY <1>1, HeardBytes DEF Typed, First
  <1>6. Orderly(cl.seen, r) /\ Orderly(cl.seen \cup {"DATA"}, r) /\ "CLOSE" \notin cl.seen
    <2>1. q \in Seq(Messages) /\ q # << >> /\ Head(q)[1] = "DATA" /\ Orderly(cl.seen, q)
      BY <1>1 DEF Typed, First, K, Truthful
    <2>2. Orderly(cl.seen, Tail(q)) /\ Orderly(cl.seen \cup {Head(q)[1]}, Tail(q))
            /\ "CLOSE" \notin cl.seen
      BY <2>1, OrderlyHeard
    <2> QED
      BY <2>1, <2>2
  <1>21. /\ cl.stage \notin {"new", "opening", "gone"} /\ ~Holds(q, "CONFIRM")
         /\ t.c.type = "none" => in = << >> /\ cl.close
         /\ t.c.type # "larval"
    <2>1. cl.stage # "new" /\ (t.c.type = "none" => in = << >>)
      BY <1>4 DEF K, Staged
    <2>2. cl.stage # "opening"
      <3>1. ASSUME cl.stage = "opening" PROVE q[1][1] = "CONFIRM"
        <4>1. q = <<<<"CONFIRM", 0>>>>
          BY <1>4, <2>1, <3>1 DEF K, Staged
        <4> QED
          BY <4>1
      <3> QED
        BY <1>4, <3>1
    <2>3. ~Holds(q, "CONFIRM")
      BY <2>2 DEF K, Staged
    <2> QED
      BY <1>4, <2>1, <2>2, <2>3 DEF K, Staged
  <1>8. /\ v \in Clients /\ v.stage = cl.stage /\ v.kind = cl.kind /\ v.win = cl.win
        /\ v.sent = cl.sent /\ v.eof = cl.eof /\ v.close = cl.close
        /\ v.got = cl.got + k /\ v.errs = cl.errs /\ v.seen = cl.seen
        /\ v.early = cl.early
    <2>1. cl.got + k \in Nat
      BY <1>2, <1>0
    <2> QED
      BY <1>1, <2>1 DEF Typed, Clients
  <1> HIDE DEF r, v
  <1>11. Typed(t, in, r, v, ch, p)
    BY <1>1, <1>4, <1>8 DEF Typed
  <1>12. Spoken(t, in, v)
    BY <1>8 DEF K, Spoken
  <1>13. Staged(t, in, r, v, ch)
    BY <1>4, <1>8, <1>21 DEF K, Staged, Idle
  <1>14. Tied(t, v, ch, p)
    BY <1>8 DEF K, Tied
  <1>15. Windows(t, in, r, v)
    <2>1. t.c.remote_window + Bytes(in, "ADJUST") + Bytes(r, "DATA") + Bytes(r, "EXT")
              <= t.c.remote_window + Bytes(in, "ADJUST") + Bytes(q, "DATA")
                + Bytes(q, "EXT")
      BY <1>2, <1>5
    <2>2. t.c.type # "none" =>
            t.c.remote_window + Bytes(in, "ADJUST") + Bytes(q, "DATA") + Bytes(q, "EXT")
              <= ClientWindow
      BY DEF K, Windows
    <2>3. t.c.type # "none" =>
            t.c.remote_window + Bytes(in, "ADJUST") + Bytes(r, "DATA") + Bytes(r, "EXT")
              <= ClientWindow
      BY <1>2, <1>5, <2>1, <2>2, SizeAssumption
    <2> QED
      BY <1>5, <1>8, <2>3 DEF K, Windows
  <1>16. InputKept(t, in, v, ch, p)
    BY <1>8 DEF K, InputKept
  <1>17. OutputKept(t, r, v, ch, p)
    <2>1. cl.got + Bytes(q, "DATA") + t.c.input + p.out = v.got + Bytes(r, "DATA")
            + t.c.input + p.out
      BY <1>2, <1>5, <1>8
    <2> QED
      BY <1>5, <1>8, <2>1 DEF K, OutputKept
  <1>18. Truthful(t, r, v, ch)
    BY <1>4, <1>6, <1>8, <1>21 DEF K, Truthful, Told
  <1>19. Complete(r, v, ch)
    <2>1. cl.got + Bytes(q, "DATA") = v.got + Bytes(r, "DATA")
      BY <1>2, <1>5, <1>8
    <2> QED
      BY <1>4, <1>5, <1>6, <1>8, <1>21, <2>1 DEF K, Complete, Told
  <1> QED
    BY <1>11, <1>12, <1>13, <1>14, <1>15, <1>16, <1>17, <1>18, <1>19 DEF K, r, v

(* The client takes what the child wrote, and grants as much again. *)
LEMMA TakesErrorsAndGrants ==
    ASSUME NEW t, NEW in, NEW q, NEW cl, NEW ch, NEW p, K(t, in, q, cl, ch, p),
           NEW k \in Nat,
           First(q, "EXT", k), cl.stage # "gone",
           ~cl.close
    PROVE  K(t, Append(in, <<"ADJUST", k>>), Tail(q), [cl EXCEPT !.errs = @ + k], ch, p)
  <1> DEFINE rest == Append(in, <<"ADJUST", k>>)
             r == Tail(q)
             v == [cl EXCEPT !.errs = @ + k]
  <1>1. Typed(t, in, q, cl, ch, p)
    BY DEF K
  <1>0. "ADJUST" \in Words /\ k \in Nat
    BY DEF Words
  <1>2. /\ cl.win \in Nat /\ t.c.remote_window \in Nat /\ Bytes(in, "ADJUST") \in Nat
        /\ t.c.input \in Nat /\ t.c.output \in Nat /\ t.c.extended \in Nat
        /\ t.c.local_window \in Int /\ t.c.local_consumed \in Nat
        /\ cl.sent \in Nat /\ cl.got \in Nat /\ cl.errs \in Nat
        /\ ch.got \in Nat /\ ch.wrote \in Nat /\ ch.errs \in Nat
        /\ p.in \in Nat /\ p.in <= InPipe /\ p.out \in Nat /\ p.out <= OutPipe
        /\ p.err \in Nat /\ p.err <= OutPipe /\ InPipe \in Nat /\ OutPipe \in Nat
        /\ Bytes(in, "DATA") \in Nat /\ Bytes(q, "DATA") \in Nat
        /\ Bytes(q, "EXT") \in Nat /\ Bytes(q, "ADJUST") \in Nat
    BY <1>1, Numbers
  <1>4. /\ r \in Seq(Messages) /\ q # << >> /\ 1 \in 1 .. Len(q) /\ q[1][1] = "EXT"
        /\ \A i \in 1 .. Len(r) : \E j \in 1 .. Len(q) : r[i] = q[j]
        /\ \A x : Holds(q, x) <=> "EXT" = x \/ Holds(r, x)
    <2>1. q \in Seq(Messages) /\ q # << >> /\ Head(q)[1] = "EXT"
      BY <1>1 DEF Typed, First
    <2> QED
      BY <2>1, Heard
  <1>5. /\ Bytes(r, "DATA") \in Nat /\ Bytes(q, "DATA") = Bytes(r, "DATA")
        /\ Bytes(r, "EXT") \in Nat /\ Bytes(q, "EXT") = Bytes(r, "EXT") + k
        /\ Bytes(r, "ADJUST") \in Nat /\ Bytes(q, "ADJUST") = Bytes(r, "ADJUST")
    BY <1>1, HeardBytes DEF Typed, First
  <1>6. Orderly(cl.seen, r) /\ Orderly(cl.seen \cup {"EXT"}, r) /\ "CLOSE" \notin cl.seen
    <2>1. q \in Seq(Messages) /\ q # << >> /\ Head(q)[1] = "EXT" /\ Orderly(cl.seen, q)
      BY <1>1 DEF Typed, First, K, Truthful
    <2>2. Orderly(cl.seen, Tail(q)) /\ Orderly(cl.seen \cup {Head(q)[1]}, Tail(q))
            /\ "CLOSE" \notin cl.seen
      BY <2>1, OrderlyHeard
    <2> QED
      BY <2>1, <2>2
  <1>21. /\ cl.stage \notin {"new", "opening", "gone"} /\ ~Holds(q, "CONFIRM")
         /\ t.c.type = "none" => in = << >> /\ cl.close
         /\ t.c.type # "larval" /\ t.c.type = "open" /\ ~cl.close
    <2>1. cl.stage # "new" /\ (t.c.type = "none" => in = << >>)
      BY <1>4 DEF K, Staged
    <2>2. cl.stage # "opening"
      <3>1. ASSUME cl.stage = "opening" PROVE q[1][1] = "CONFIRM"
        <4>1. q = <<<<"CONFIRM", 0>>>>
          BY <1>4, <2>1, <3>1 DEF K, Staged
        <4> QED
          BY <4>1
      <3> QED
        BY <1>4, <3>1
    <2>3. ~Holds(q, "CONFIRM")
      BY <2>2 DEF K, Staged
    <2> QED
      BY <1>4, <2>1, <2>2, <2>3 DEF K, Staged
  <1>7. /\ rest \in Seq(Messages) /\ rest # << >>
        /\ Len(in) \in Nat /\ Len(rest) = Len(in) + 1
        /\ \A i \in 1 .. Len(in) : rest[i] = in[i]
        /\ rest[Len(in) + 1][1] = "ADJUST" /\ rest[Len(in) + 1][2] = k
        /\ \A m : Holds(rest, m) <=> Holds(in, m) \/ "ADJUST" = m
    BY <1>1, <1>0, Said DEF Typed
  <1>22. /\ Bytes(rest, "DATA") = Bytes(in, "DATA")
         /\ Bytes(rest, "ADJUST") = Bytes(in, "ADJUST") + k
    BY <1>1, <1>0, SaidBytes DEF Typed
  <1>8. /\ v \in Clients /\ v.stage = cl.stage /\ v.kind = cl.kind /\ v.win = cl.win
        /\ v.sent = cl.sent /\ v.eof = cl.eof /\ v.close = cl.close /\ v.got = cl.got
        /\ v.errs = cl.errs + k /\ v.seen = cl.seen /\ v.early = cl.early
    <2>1. cl.errs + k \in Nat
      BY <1>2, <1>0
    <2> QED
      BY <1>1, <2>1 DEF Typed, Clients
  <1> HIDE DEF rest, r, v
  <1>11. Typed(t, rest, r, v, ch, p)
    BY <1>1, <1>4, <1>7, <1>8 DEF Typed
  <1>12. Spoken(t, rest, v)
    <2>1. \A i \in 1 .. Len(in) : in[i][1] \in {"DATA", "EOF", "ADJUST"}
      BY <1>21 DEF K, Spoken
    <2>2. \A i \in 1 .. Len(rest) : i \in 1 .. Len(in) \/ i = Len(in) + 1
      BY <1>7
    <2>3. \A i \in 1 .. Len(rest) : rest[i][1] \in {"DATA", "EOF", "ADJUST"}
      BY <1>7, <2>1, <2>2
    <2>4. \A i \in 1 .. Len(rest) : rest[i][1] # "ADJUST"
            => i \in 1 .. Len(in) /\ rest[i] = in[i]
      BY <1>7, <2>2
    <2>5. ASSUME NEW i \in 1 .. Len(rest), rest[i][1] = "EOF"
          PROVE  cl.eof /\ \A j \in 1 .. Len(rest) : i < j => rest[j][1] # "DATA"
      <3>1. i \in 1 .. Len(in) /\ in[i][1] = "EOF"
        BY <2>4, <2>5
      <3>2. cl.eof /\ \A j \in 1 .. Len(in) : i < j => in[j][1] # "DATA"
        BY <3>1 DEF K, Spoken
      <3> QED
        BY <2>4, <3>2
    <2>6. \A i \in 1 .. Len(rest) : rest[i][1] = "DATA" => rest[i][2] \in 1 .. MaxPacket
      BY <2>4 DEF K, Spoken
    <2>7. Has(t, "eof_rcvd") => cl.eof /\ ~Holds(rest, "DATA")
      BY <1>7 DEF K, Spoken
    <2>8. ~Has(t, "close_rcvd")
      BY <1>21 DEF K, Spoken
    <2> QED
      BY <1>8, <1>21, <2>3, <2>5, <2>6, <2>7, <2>8 DEF Spoken
  <1>13. Staged(t, rest, r, v, ch)
    BY <1>4, <1>7, <1>8, <1>21 DEF K, Staged
  <1>14. Tied(t, v, ch, p)
    BY <1>8 DEF K, Tied
  <1>15. Windows(t, rest, r, v)
    <2>1. t.c.remote_window + Bytes(rest, "ADJUST") + Bytes(r, "DATA") + Bytes(r, "EXT")
              = t.c.remote_window + Bytes(in, "ADJUST") + Bytes(q, "DATA") + Bytes(q, "EXT")
      BY <1>2, <1>5, <1>22
    <2> QED
      BY <1>5, <1>8, <1>22, <2>1 DEF K, Windows
  <1>16. InputKept(t, rest, v, ch, p)
    BY <1>8, <1>22 DEF K, InputKept
  <1>17. OutputKept(t, r, v, ch, p)
    <2>1. cl.errs + Bytes(q, "EXT") + t.c.extended + p.err = v.errs + Bytes(r, "EXT")
            + t.c.extended + p.err
      BY <1>2, <1>5, <1>8
    <2> QED
      BY <1>5, <1>8, <2>1 DEF K, OutputKept
  <1>18. Truthful(t, r, v, ch)
    BY <1>4, <1>6, <1>8, <1>21 DEF K, Truthful, Told
  <1>19. Complete(r, v, ch)
    <2>1. cl.errs + Bytes(q, "EXT") = v.errs + Bytes(r, "EXT")
      BY <1>2, <1>5, <1>8
    <2> QED
      BY <1>4, <1>5, <1>6, <1>8, <1>21, <2>1 DEF K, Complete, Told
  <1> QED
    BY <1>11, <1>12, <1>13, <1>14, <1>15, <1>16, <1>17, <1>18, <1>19 DEF K, rest, r, v

(* The client takes what the child wrote after it has sent CLOSE. *)
LEMMA TakesErrors ==
    ASSUME NEW t, NEW in, NEW q, NEW cl, NEW ch, NEW p, K(t, in, q, cl, ch, p),
           NEW k \in Nat,
           First(q, "EXT", k), cl.stage # "gone",
           cl.close
    PROVE  K(t, in, Tail(q), [cl EXCEPT !.errs = @ + k], ch, p)
  <1> DEFINE r == Tail(q)
             v == [cl EXCEPT !.errs = @ + k]
  <1>1. Typed(t, in, q, cl, ch, p)
    BY DEF K
  <1>0. "ADJUST" \in Words /\ k \in Nat
    BY DEF Words
  <1>2. /\ cl.win \in Nat /\ t.c.remote_window \in Nat /\ Bytes(in, "ADJUST") \in Nat
        /\ t.c.input \in Nat /\ t.c.output \in Nat /\ t.c.extended \in Nat
        /\ t.c.local_window \in Int /\ t.c.local_consumed \in Nat
        /\ cl.sent \in Nat /\ cl.got \in Nat /\ cl.errs \in Nat
        /\ ch.got \in Nat /\ ch.wrote \in Nat /\ ch.errs \in Nat
        /\ p.in \in Nat /\ p.in <= InPipe /\ p.out \in Nat /\ p.out <= OutPipe
        /\ p.err \in Nat /\ p.err <= OutPipe /\ InPipe \in Nat /\ OutPipe \in Nat
        /\ Bytes(in, "DATA") \in Nat /\ Bytes(q, "DATA") \in Nat
        /\ Bytes(q, "EXT") \in Nat /\ Bytes(q, "ADJUST") \in Nat
    BY <1>1, Numbers
  <1>4. /\ r \in Seq(Messages) /\ q # << >> /\ 1 \in 1 .. Len(q) /\ q[1][1] = "EXT"
        /\ \A i \in 1 .. Len(r) : \E j \in 1 .. Len(q) : r[i] = q[j]
        /\ \A x : Holds(q, x) <=> "EXT" = x \/ Holds(r, x)
    <2>1. q \in Seq(Messages) /\ q # << >> /\ Head(q)[1] = "EXT"
      BY <1>1 DEF Typed, First
    <2> QED
      BY <2>1, Heard
  <1>5. /\ Bytes(r, "DATA") \in Nat /\ Bytes(q, "DATA") = Bytes(r, "DATA")
        /\ Bytes(r, "EXT") \in Nat /\ Bytes(q, "EXT") = Bytes(r, "EXT") + k
        /\ Bytes(r, "ADJUST") \in Nat /\ Bytes(q, "ADJUST") = Bytes(r, "ADJUST")
    BY <1>1, HeardBytes DEF Typed, First
  <1>6. Orderly(cl.seen, r) /\ Orderly(cl.seen \cup {"EXT"}, r) /\ "CLOSE" \notin cl.seen
    <2>1. q \in Seq(Messages) /\ q # << >> /\ Head(q)[1] = "EXT" /\ Orderly(cl.seen, q)
      BY <1>1 DEF Typed, First, K, Truthful
    <2>2. Orderly(cl.seen, Tail(q)) /\ Orderly(cl.seen \cup {Head(q)[1]}, Tail(q))
            /\ "CLOSE" \notin cl.seen
      BY <2>1, OrderlyHeard
    <2> QED
      BY <2>1, <2>2
  <1>21. /\ cl.stage \notin {"new", "opening", "gone"} /\ ~Holds(q, "CONFIRM")
         /\ t.c.type = "none" => in = << >> /\ cl.close
         /\ t.c.type # "larval"
    <2>1. cl.stage # "new" /\ (t.c.type = "none" => in = << >>)
      BY <1>4 DEF K, Staged
    <2>2. cl.stage # "opening"
      <3>1. ASSUME cl.stage = "opening" PROVE q[1][1] = "CONFIRM"
        <4>1. q = <<<<"CONFIRM", 0>>>>
          BY <1>4, <2>1, <3>1 DEF K, Staged
        <4> QED
          BY <4>1
      <3> QED
        BY <1>4, <3>1
    <2>3. ~Holds(q, "CONFIRM")
      BY <2>2 DEF K, Staged
    <2> QED
      BY <1>4, <2>1, <2>2, <2>3 DEF K, Staged
  <1>8. /\ v \in Clients /\ v.stage = cl.stage /\ v.kind = cl.kind /\ v.win = cl.win
        /\ v.sent = cl.sent /\ v.eof = cl.eof /\ v.close = cl.close /\ v.got = cl.got
        /\ v.errs = cl.errs + k /\ v.seen = cl.seen /\ v.early = cl.early
    <2>1. cl.errs + k \in Nat
      BY <1>2, <1>0
    <2> QED
      BY <1>1, <2>1 DEF Typed, Clients
  <1> HIDE DEF r, v
  <1>11. Typed(t, in, r, v, ch, p)
    BY <1>1, <1>4, <1>8 DEF Typed
  <1>12. Spoken(t, in, v)
    BY <1>8 DEF K, Spoken
  <1>13. Staged(t, in, r, v, ch)
    BY <1>4, <1>8, <1>21 DEF K, Staged, Idle
  <1>14. Tied(t, v, ch, p)
    BY <1>8 DEF K, Tied
  <1>15. Windows(t, in, r, v)
    <2>1. t.c.remote_window + Bytes(in, "ADJUST") + Bytes(r, "DATA") + Bytes(r, "EXT")
              <= t.c.remote_window + Bytes(in, "ADJUST") + Bytes(q, "DATA")
                + Bytes(q, "EXT")
      BY <1>2, <1>5
    <2>2. t.c.type # "none" =>
            t.c.remote_window + Bytes(in, "ADJUST") + Bytes(q, "DATA") + Bytes(q, "EXT")
              <= ClientWindow
      BY DEF K, Windows
    <2>3. t.c.type # "none" =>
            t.c.remote_window + Bytes(in, "ADJUST") + Bytes(r, "DATA") + Bytes(r, "EXT")
              <= ClientWindow
      BY <1>2, <1>5, <2>1, <2>2, SizeAssumption
    <2> QED
      BY <1>5, <1>8, <2>3 DEF K, Windows
  <1>16. InputKept(t, in, v, ch, p)
    BY <1>8 DEF K, InputKept
  <1>17. OutputKept(t, r, v, ch, p)
    <2>1. cl.errs + Bytes(q, "EXT") + t.c.extended + p.err = v.errs + Bytes(r, "EXT")
            + t.c.extended + p.err
      BY <1>2, <1>5, <1>8
    <2> QED
      BY <1>5, <1>8, <2>1 DEF K, OutputKept
  <1>18. Truthful(t, r, v, ch)
    BY <1>4, <1>6, <1>8, <1>21 DEF K, Truthful, Told
  <1>19. Complete(r, v, ch)
    <2>1. cl.errs + Bytes(q, "EXT") = v.errs + Bytes(r, "EXT")
      BY <1>2, <1>5, <1>8
    <2> QED
      BY <1>4, <1>5, <1>6, <1>8, <1>21, <2>1 DEF K, Complete, Told
  <1> QED
    BY <1>11, <1>12, <1>13, <1>14, <1>15, <1>16, <1>17, <1>18, <1>19 DEF K, r, v

(* EOF, the end of input, the exit status or CLOSE. *)
LEMMA HearsEnd ==
    ASSUME NEW t, NEW in, NEW q, NEW cl, NEW ch, NEW p, K(t, in, q, cl, ch, p),
           NEW a \in {"EOF", "EOW", "STATUS", "CLOSE", "OPEN", "exec", "subsystem"},
             NEW k \in Nat,
           First(q, a, k), cl.stage # "gone"
    PROVE  K(t, in, Tail(q), [cl EXCEPT !.seen = @ \cup {a}], ch, p)
  <1> DEFINE r == Tail(q)
             v == [cl EXCEPT !.seen = @ \cup {a}]
  <1>1. Typed(t, in, q, cl, ch, p)
    BY DEF K
  <1>0. "ADJUST" \in Words /\ k \in Nat
    BY DEF Words
  <1>2. /\ cl.win \in Nat /\ t.c.remote_window \in Nat /\ Bytes(in, "ADJUST") \in Nat
        /\ t.c.input \in Nat /\ t.c.output \in Nat /\ t.c.extended \in Nat
        /\ t.c.local_window \in Int /\ t.c.local_consumed \in Nat
        /\ cl.sent \in Nat /\ cl.got \in Nat /\ cl.errs \in Nat
        /\ ch.got \in Nat /\ ch.wrote \in Nat /\ ch.errs \in Nat
        /\ p.in \in Nat /\ p.in <= InPipe /\ p.out \in Nat /\ p.out <= OutPipe
        /\ p.err \in Nat /\ p.err <= OutPipe /\ InPipe \in Nat /\ OutPipe \in Nat
        /\ Bytes(in, "DATA") \in Nat /\ Bytes(q, "DATA") \in Nat
        /\ Bytes(q, "EXT") \in Nat /\ Bytes(q, "ADJUST") \in Nat
    BY <1>1, Numbers
  <1>4. /\ r \in Seq(Messages) /\ q # << >> /\ 1 \in 1 .. Len(q) /\ q[1][1] = a
        /\ \A i \in 1 .. Len(r) : \E j \in 1 .. Len(q) : r[i] = q[j]
        /\ \A x : Holds(q, x) <=> a = x \/ Holds(r, x)
    <2>1. q \in Seq(Messages) /\ q # << >> /\ Head(q)[1] = a
      BY <1>1 DEF Typed, First
    <2> QED
      BY <2>1, Heard
  <1>5. /\ Bytes(r, "DATA") \in Nat /\ Bytes(q, "DATA") = Bytes(r, "DATA")
        /\ Bytes(r, "EXT") \in Nat /\ Bytes(q, "EXT") = Bytes(r, "EXT")
        /\ Bytes(r, "ADJUST") \in Nat /\ Bytes(q, "ADJUST") = Bytes(r, "ADJUST")
    BY <1>1, HeardBytes DEF Typed, First
  <1>6. Orderly(cl.seen, r) /\ Orderly(cl.seen \cup {a}, r) /\ "CLOSE" \notin cl.seen
    <2>1. q \in Seq(Messages) /\ q # << >> /\ Head(q)[1] = a /\ Orderly(cl.seen, q)
      BY <1>1 DEF Typed, First, K, Truthful
    <2>2. Orderly(cl.seen, Tail(q)) /\ Orderly(cl.seen \cup {Head(q)[1]}, Tail(q))
            /\ "CLOSE" \notin cl.seen
      BY <2>1, OrderlyHeard
    <2> QED
      BY <2>1, <2>2
  <1>21. /\ cl.stage \notin {"new", "opening", "gone"} /\ ~Holds(q, "CONFIRM")
         /\ t.c.type = "none" => in = << >> /\ cl.close
         /\ t.c.type # "larval"
    <2>1. cl.stage # "new" /\ (t.c.type = "none" => in = << >>)
      BY <1>4 DEF K, Staged
    <2>2. cl.stage # "opening"
      <3>1. ASSUME cl.stage = "opening" PROVE q[1][1] = "CONFIRM"
        <4>1. q = <<<<"CONFIRM", 0>>>>
          BY <1>4, <2>1, <3>1 DEF K, Staged
        <4> QED
          BY <4>1
      <3> QED
        BY <1>4, <3>1
    <2>3. ~Holds(q, "CONFIRM")
      BY <2>2 DEF K, Staged
    <2> QED
      BY <1>4, <2>1, <2>2, <2>3 DEF K, Staged
  <1>8. /\ v \in Clients /\ v.stage = cl.stage /\ v.kind = cl.kind /\ v.win = cl.win
        /\ v.sent = cl.sent /\ v.eof = cl.eof /\ v.close = cl.close /\ v.got = cl.got
        /\ v.errs = cl.errs /\ v.seen = cl.seen \cup {a} /\ v.early = cl.early
    <2>1. a \in Words
      BY DEF Words
    <2> QED
      BY <1>1, <2>1 DEF Typed, Clients
  <1> HIDE DEF r, v
  <1>11. Typed(t, in, r, v, ch, p)
    BY <1>1, <1>4, <1>8 DEF Typed
  <1>12. Spoken(t, in, v)
    BY <1>8 DEF K, Spoken
  <1>13. Staged(t, in, r, v, ch)
    BY <1>4, <1>8, <1>21 DEF K, Staged, Idle
  <1>14. Tied(t, v, ch, p)
    BY <1>8 DEF K, Tied
  <1>15. Windows(t, in, r, v)
    BY <1>5, <1>8, <1>21 DEF K, Windows
  <1>16. InputKept(t, in, v, ch, p)
    BY <1>8 DEF K, InputKept
  <1>17. OutputKept(t, r, v, ch, p)
    BY <1>5, <1>8, <1>21 DEF K, OutputKept
  <1>18. Truthful(t, r, v, ch)
    BY <1>4, <1>6, <1>8, <1>21 DEF K, Truthful, Told
  <1>19. Complete(r, v, ch)
    BY <1>4, <1>5, <1>6, <1>8, <1>21 DEF K, Complete, Told
  <1> QED
    BY <1>11, <1>12, <1>13, <1>14, <1>15, <1>16, <1>17, <1>18, <1>19 DEF K, r, v

(* The connection is lost, with all that was on its way to the client. *)
LEMMA Lost ==
    ASSUME NEW t, NEW in, NEW q, NEW cl, NEW ch, NEW p, K(t, in, q, cl, ch, p),
           NEW r,
           EndsIn(q, r)
    PROVE  K(t, in, r, [cl EXCEPT !.stage = "gone"], ch, p)
  <1> DEFINE v == [cl EXCEPT !.stage = "gone"]
  <1>1. Typed(t, in, q, cl, ch, p)
    BY DEF K
  <1>2. /\ cl.win \in Nat /\ t.c.remote_window \in Nat /\ Bytes(in, "ADJUST") \in Nat
        /\ t.c.input \in Nat /\ t.c.output \in Nat /\ t.c.extended \in Nat
        /\ t.c.local_window \in Int /\ t.c.local_consumed \in Nat
        /\ cl.sent \in Nat /\ cl.got \in Nat /\ cl.errs \in Nat
        /\ ch.got \in Nat /\ ch.wrote \in Nat /\ ch.errs \in Nat
        /\ p.in \in Nat /\ p.in <= InPipe /\ p.out \in Nat /\ p.out <= OutPipe
        /\ p.err \in Nat /\ p.err <= OutPipe /\ InPipe \in Nat /\ OutPipe \in Nat
        /\ Bytes(in, "DATA") \in Nat /\ Bytes(q, "DATA") \in Nat
        /\ Bytes(q, "EXT") \in Nat /\ Bytes(q, "ADJUST") \in Nat
    BY <1>1, Numbers
  <1>4. /\ r \in Seq(Messages) /\ Orderly(cl.seen, r) /\ (q = << >> => r = << >>)
        /\ ("CLOSE" \in cl.seen => q = << >>)
        /\ \A m : Holds(r, m) => Holds(q, m)
        /\ \A i \in 1 .. Len(r) : \E j \in 1 .. Len(q) : r[i] = q[j]
    <2>1. r \in Seq(Messages) /\ \E a \in Seq(Messages) : q = a \o r
      BY DEF EndsIn
    <2> QED
      BY <2>1, Suffix DEF K, Truthful
  <1>5. /\ Bytes(r, "DATA") \in Nat /\ Bytes(r, "DATA") <= Bytes(q, "DATA")
        /\ Bytes(r, "EXT") \in Nat /\ Bytes(r, "EXT") <= Bytes(q, "EXT")
        /\ Bytes(r, "ADJUST") \in Nat /\ Bytes(r, "ADJUST") <= Bytes(q, "ADJUST")
    <2>1. r \in Seq(Messages) /\ \E a \in Seq(Messages) : q = a \o r
      BY DEF EndsIn
    <2> QED
      BY <2>1, Suffix DEF K, Truthful
  <1>8. /\ v \in Clients /\ v.stage = "gone" /\ v.kind = cl.kind /\ v.win = cl.win
        /\ v.sent = cl.sent /\ v.eof = cl.eof /\ v.close = cl.close /\ v.got = cl.got
        /\ v.errs = cl.errs /\ v.seen = cl.seen /\ v.early = cl.early
    BY <1>1 DEF Typed, Clients
  <1> HIDE DEF v
  <1>11. Typed(t, in, r, v, ch, p)
    BY <1>1, <1>4, <1>8 DEF Typed
  <1>12. Spoken(t, in, v)
    BY <1>8 DEF K, Spoken
  <1>13. Staged(t, in, r, v, ch)
    BY <1>4, <1>8 DEF K, Staged, Idle
  <1>14. Tied(t, v, ch, p)
    BY <1>8 DEF K, Tied
  <1>15. Windows(t, in, r, v)
    <2>1. /\ cl.win + Bytes(in, "DATA") + Bytes(r, "ADJUST")
                <= cl.win + Bytes(in, "DATA") + Bytes(q, "ADJUST")
          /\ t.c.remote_window + Bytes(in, "ADJUST") + Bytes(r, "DATA") + Bytes(r, "EXT")
                <= t.c.remote_window + Bytes(in, "ADJUST") + Bytes(q, "DATA")
                  + Bytes(q, "EXT")
      BY <1>2, <1>5
    <2>2. t.c.type = "open" =>
            cl.win + Bytes(in, "DATA") + Bytes(r, "ADJUST") <= t.c.local_window
      <3>1. t.c.type = "open" =>
              cl.win + Bytes(in, "DATA") + Bytes(q, "ADJUST") <= t.c.local_window
        BY DEF K, Windows
      <3> QED
        BY <1>2, <1>5, <2>1, <3>1
    <2>3. t.c.type # "none" =>
            t.c.remote_window + Bytes(in, "ADJUST") + Bytes(r, "DATA") + Bytes(r, "EXT")
              <= ClientWindow
      <3>1. t.c.type # "none" =>
              t.c.remote_window + Bytes(in, "ADJUST") + Bytes(q, "DATA") + Bytes(q, "EXT")
                <= ClientWindow
        BY DEF K, Windows
      <3> QED
        BY <1>2, <1>5, <2>1, <3>1, SizeAssumption
    <2> QED
      BY <1>8, <2>2, <2>3 DEF K, Windows
  <1>16. InputKept(t, in, v, ch, p)
    BY <1>8 DEF K, InputKept
  <1>17. OutputKept(t, r, v, ch, p)
    BY <1>8 DEF K, OutputKept
  <1>18. Truthful(t, r, v, ch)
    BY <1>4, <1>8 DEF K, Truthful, Told
  <1>19. Complete(r, v, ch)
    <2>1. "CLOSE" \in cl.seen => r = q
      BY <1>4
    <2> QED
      BY <1>8, <2>1 DEF K, Complete, Told
  <1> QED
    BY <1>11, <1>12, <1>13, <1>14, <1>15, <1>16, <1>17, <1>18, <1>19 DEF K, v

-----------------------------------------------------------------------------
(* The functions of the code, made of the steps above.  The messages on    *)
(* their way to the client are those in the socket and those not written.  *)

(* K for an sshd that has written tc to the socket and still holds t.out. *)
J(t, in, tc, cl, ch, p) ==
    tc \in Seq(Messages) /\ K(t, in, tc \o t.out, cl, ch, p)

(* A message put behind the second of two queues is behind both. *)
LEMMA Behind ==
    ASSUME NEW a \in Seq(Messages), NEW b \in Seq(Messages), NEW m \in Words, NEW n \in Nat
    PROVE  a \o Append(b, <<m, n>>) = Append(a \o b, <<m, n>>)
  <1> DEFINE x == <<m, n>>
             y == Append(b, x)
             z == a \o b
             l == a \o y
             r == Append(z, x)
  <1>1. x \in Messages
    BY DEF Messages
  <1> HIDE DEF x
  <1>2. /\ y \in Seq(Messages) /\ Len(b) \in Nat /\ Len(a) \in Nat
        /\ Len(y) = Len(b) + 1
        /\ \A i \in 1 .. Len(b) : y[i] = b[i]
        /\ y[Len(b) + 1] = x
    BY <1>1, AppendProperties
  <1>3. /\ z \in Seq(Messages) /\ Len(z) = Len(a) + Len(b)
        /\ \A i \in 1 .. Len(a) : z[i] = a[i]
        /\ \A i \in 1 .. Len(b) : z[Len(a) + i] = b[i]
    BY ConcatProperties
  <1> HIDE DEF y, z
  <1>4. /\ l \in Seq(Messages) /\ Len(l) = Len(a) + Len(y)
        /\ \A i \in 1 .. Len(a) : l[i] = a[i]
        /\ \A i \in 1 .. Len(y) : l[Len(a) + i] = y[i]
    <2>1. y \in Seq(Messages)
      BY <1>2
    <2> QED
      BY <2>1, ConcatProperties
  <1>5. /\ r \in Seq(Messages) /\ Len(r) = Len(z) + 1
        /\ \A i \in 1 .. Len(z) : r[i] = z[i]
        /\ r[Len(z) + 1] = x
    BY <1>1, <1>3, AppendProperties
  <1> HIDE DEF l, r
  <1>6. ASSUME NEW i \in 1 .. Len(l) PROVE l[i] = r[i]
    <2>1. CASE i <= Len(a)
      <3>1. i \in 1 .. Len(a) /\ i \in 1 .. Len(z)
        BY <1>2, <1>3, <2>1
      <3> QED
        BY <1>3, <1>4, <1>5, <3>1
    <2>2. CASE i > Len(a) /\ i <= Len(a) + Len(b)
      <3>1. PICK j \in 1 .. Len(b) : i = Len(a) + j
        <4>1. i - Len(a) \in 1 .. Len(b) /\ i = Len(a) + (i - Len(a))
          BY <1>2, <2>2
        <4> QED
          BY <4>1
      <3>2. i \in 1 .. Len(z) /\ j \in 1 .. Len(y)
        BY <1>2, <1>3, <2>2
      <3> QED
        BY <1>2, <1>3, <1>4, <1>5, <3>1, <3>2
    <2>3. CASE i = Len(a) + Len(b) + 1
      <3>1. i = Len(a) + (Len(b) + 1) /\ Len(b) + 1 \in 1 .. Len(y) /\ i = Len(z) + 1
        BY <1>2, <1>3, <2>3
      <3> QED
        BY <1>2, <1>4, <1>5, <3>1
    <2> QED
      BY <1>2, <1>4, <2>1, <2>2, <2>3
  <1>7. l = r
    <2>1. Len(l) = Len(r)
      BY <1>2, <1>3, <1>4, <1>5
    <2> QED
      BY <1>4, <1>5, <1>6, <2>1, SeqEqual
  <1> QED
    BY <1>7 DEF l, r, x, y, z

(* Any of the steps above that sends a message m. *)
LEMMA Sends ==
    ASSUME NEW t, NEW u, NEW in, NEW tc, NEW cl, NEW ch, NEW d, NEW p, NEW m \in Words,
           NEW n \in Nat,
           tc \in Seq(Messages), t.out \in Seq(Messages),
           u.out = Append(t.out, <<m, n>>),
           K(u, in, Append(tc \o t.out, <<m, n>>), cl, d, p)
    PROVE  J(u, in, tc, cl, d, p)
  <1>1. tc \o Append(t.out, <<m, n>>) = Append(tc \o t.out, <<m, n>>)
    BY Behind
  <1>2. tc \o u.out = Append(tc \o t.out, <<m, n>>)
    BY <1>1
  <1> QED
    BY <1>2 DEF J

(* What J says of the types. *)
LEMMA JTypes ==
    ASSUME NEW t, NEW in, NEW tc, NEW cl, NEW ch, NEW p, J(t, in, tc, cl, ch, p)
    PROVE  /\ t \in Sessions /\ t.c \in Channels /\ t.out \in Seq(Messages)
           /\ tc \in Seq(Messages) /\ tc \o t.out \in Seq(Messages)
           /\ Typed(t, in, tc \o t.out, cl, ch, p) /\ Tied(t, cl, ch, p)
           /\ K(t, in, tc \o t.out, cl, ch, p)
  BY DEF J, K, Typed, Sessions

(* chan_write_failed, for whichever reason. *)
LEMMA ChanWriteFailed ==
    ASSUME NEW t, NEW in, NEW tc, NEW cl, NEW ch, NEW p, J(t, in, tc, cl, ch, p),
           t.c.type = "open", ~ch.stdin
    PROVE  J(chan_write_failed(t), in, tc, cl, ch, p)
  <1>1. /\ t \in Sessions /\ t.c \in Channels /\ t.out \in Seq(Messages)
        /\ tc \in Seq(Messages)
        /\ K(t, in, tc \o t.out, cl, ch, p) /\ Tied(t, cl, ch, p)
    BY JTypes
  <1>2. CASE t.c.ostate \notin {"open", "drain"}
    BY <1>2 DEF chan_write_failed
  <1>3. CASE t.c.ostate \in {"open", "drain"} /\ ~SSH_NEW_OPENSSH
    <2> DEFINE u == [chan_shutdown_write(t) EXCEPT !.c.ostate = "closed"]
    <2>1. chan_write_failed(t) = u
      BY <1>3 DEF chan_write_failed, chan_send_eow2
    <2>2. u.out = t.out
      BY <1>1 DEF Sessions, chan_shutdown_write
    <2>3. K(u, in, tc \o t.out, cl, ch, p)
      BY <1>1, WriteStopped
    <2> HIDE DEF u
    <2> QED
      BY <1>1, <2>1, <2>2, <2>3 DEF J
  <1>4. CASE t.c.ostate \in {"open", "drain"} /\ SSH_NEW_OPENSSH
    <2> DEFINE e == Send(t, "EOW", 0)
               u == [chan_shutdown_write(e) EXCEPT !.c.ostate = "closed"]
    <2>1. "EOW" \in Words
      BY WordFacts
    <2>2. e \in Sessions /\ e.c = t.c /\ e.out = Append(t.out, <<"EOW", 0>>)
      BY <1>1, <2>1, SendFields
    <2>3. ~Has(t, "close_sent")
      BY <1>1, <1>4 DEF Tied, BothClosed
    <2>4. K(e, in, Append(tc \o t.out, <<"EOW", 0>>), cl, ch, p)
      BY <1>1, <2>3, Says
    <2>5. chan_write_failed(t) = u
      BY <1>1, <1>4 DEF chan_write_failed, chan_send_eow2, chan_shutdown_write, Send,
         Sessions, Channels
    <2> HIDE DEF e
    <2>6. J(e, in, tc, cl, ch, p)
      BY <1>1, <2>1, <2>2, <2>4, Sends
    <2>7. K(u, in, tc \o e.out, cl, ch, p)
      BY <2>2, <2>6, JTypes, WriteStopped
    <2>8. u.out = e.out
      BY <2>2 DEF Sessions, chan_shutdown_write
    <2> HIDE DEF u
    <2> QED
      BY <1>1, <2>5, <2>7, <2>8 DEF J
  <1> QED
    BY <1>2, <1>3, <1>4

(* collect_children for a child that has died. *)
LEMMA SessionCloseByPid ==
    ASSUME NEW t, NEW in, NEW tc, NEW cl, NEW ch, NEW p, J(t, in, tc, cl, ch, p),
           ch.state = "zombie"
    PROVE  J(session_close_by_pid(t), in, tc, cl, [ch EXCEPT !.state = "reaped"], p)
  <1> DEFINE m == [Send(t, "STATUS", 0) EXCEPT !.c.detach_user = TRUE,
                   !.c.detach_close = TRUE]
             u == [Send(t, "STATUS", 0) EXCEPT !.c.detach_user = TRUE,
                   !.c.detach_close = TRUE,
                                               !.pid = FALSE]
             d == [ch EXCEPT !.state = "reaped"]
  <1>1. /\ t \in Sessions /\ t.c \in Channels /\ t.out \in Seq(Messages)
        /\ tc \in Seq(Messages)
        /\ K(t, in, tc \o t.out, cl, ch, p) /\ Tied(t, cl, ch, p) /\ ch \in Children
    BY JTypes DEF Typed
  <1>2. "STATUS" \in Words
    BY WordFacts
  <1>3. t.pid /\ t.c.type = "open" /\ t.used /\ ~ch.stdin
    BY <1>1 DEF Tied
  <1>4. K(u, in, Append(tc \o t.out, <<"STATUS", 0>>), cl, d, p)
    BY <1>1, Reported
  <1>5. u \in Sessions /\ u.out = Append(t.out, <<"STATUS", 0>>) /\ u.c.type = "open"
    <2>1. /\ Send(t, "STATUS", 0) \in Sessions /\ Send(t, "STATUS", 0).c = t.c
          /\ Send(t, "STATUS", 0).out = Append(t.out, <<"STATUS", 0>>)
      BY <1>1, <1>2, SendFields
    <2> QED
      BY <1>1, <1>3, <2>1 DEF Sessions, Channels
  <1>6. session_close_by_pid(t) = [chan_write_failed(m) EXCEPT !.pid = FALSE]
    BY <1>3 DEF session_close_by_pid, session_exit_message
  <1>7. [chan_write_failed(m) EXCEPT !.pid = FALSE] = chan_write_failed(u)
    <2>1. m \in Sessions
      <3>1. Send(t, "STATUS", 0) \in Sessions
        BY <1>1, <1>2, SendFields
      <3> QED
        BY <3>1 DEF Sessions, Channels
    <2>2. u = [m EXCEPT !.pid = FALSE]
      BY <1>1 DEF Sessions, Send
    <2> HIDE DEF m, u
    <2>3. m.c \in Channels /\ u.c = m.c
      BY <2>1, <2>2 DEF Sessions
    <2>4. CASE m.c.ostate \notin {"open", "drain"}
      BY <2>2, <2>3, <2>4 DEF chan_write_failed
    <2>5. CASE m.c.ostate \in {"open", "drain"}
      <3>1. chan_shutdown_write(u) = [chan_shutdown_write(m) EXCEPT !.pid = FALSE]
        BY <2>1, <2>2, <2>3 DEF Sessions, chan_shutdown_write
      <3>2. chan_shutdown_write(m) \in Sessions
        BY <2>1, <2>3 DEF Sessions, Channels, chan_shutdown_write
      <3>3. chan_send_eow2(chan_shutdown_write(u))
              = [chan_send_eow2(chan_shutdown_write(m)) EXCEPT !.pid = FALSE]
        BY <3>1, <3>2 DEF Sessions, chan_send_eow2, Send
      <3>4. chan_send_eow2(chan_shutdown_write(m)) \in Sessions
        BY <3>2, WordFacts, SendFields DEF chan_send_eow2
      <3> QED
        BY <2>3, <2>5, <3>3, <3>4 DEF chan_write_failed, Sessions
    <2> QED
      BY <2>4, <2>5
  <1>8. d.stdin = ch.stdin
    BY <1>1 DEF Children
  <1> HIDE DEF u, d
  <1>9. J(u, in, tc, cl, d, p)
    BY <1>1, <1>2, <1>4, <1>5, Sends
  <1>10. J(chan_write_failed(u), in, tc, cl, d, p)
    BY <1>3, <1>5, <1>8, <1>9, ChanWriteFailed
  <1> QED
    BY <1>6, <1>7, <1>10 DEF d

(* Reap and session_close_by_channel, for each kind of channel. *)
LEMMA GarbageCollect ==
    ASSUME NEW t, NEW in, NEW tc, NEW cl, NEW ch, NEW p, J(t, in, tc, cl, ch, p)
    PROVE  J(channel_garbage_collect(t), in, tc, cl, ch, p)
  <1> DEFINE g == channel_garbage_collect(t)
  <1>1. /\ t \in Sessions /\ t.c \in Channels /\ t.out \in Seq(Messages)
        /\ tc \in Seq(Messages)
        /\ K(t, in, tc \o t.out, cl, ch, p) /\ Tied(t, cl, ch, p)
    BY JTypes
  <1>2. "CLOSE" \in Words /\ "close_sent" \in Flags /\ 0 \in Nat
    BY WordFacts
  <1>3. CASE t.c.type = "none"
    BY <1>3 DEF channel_garbage_collect
  <1>4. CASE t.c.type = "larval"
    <2>1. t.c.detach_user /\ ~t.c.detach_close /\ ~t.pid /\ ~Has(t, "close_sent")
      BY <1>1, <1>4 DEF Tied, Has
    <2>2. chan_is_dead_sends(t, t.c.detach_close) = t
      BY <2>1 DEF chan_is_dead_sends
    <2>3. chan_is_dead(t, t.c.detach_close) <=> BothClosed(t) /\ Has(t, "close_rcvd")
      BY <2>1 DEF chan_is_dead
    <2>4. CASE ~(BothClosed(t) /\ Has(t, "close_rcvd"))
      <3>1. g = t
        BY <1>4, <2>1, <2>2, <2>3, <2>4 DEF channel_garbage_collect
      <3> QED
        BY <3>1
    <2>5. CASE BothClosed(t) /\ Has(t, "close_rcvd")
      <3> DEFINE told == [t EXCEPT !.c.detach_user = FALSE, !.c.detach_close = FALSE,
                          !.used = FALSE]
                 u == [Send(t, "CLOSE", 0) EXCEPT !.c = NoChannel, !.used = FALSE]
      <3>1. session_close_by_channel(t) = told
        BY <2>1 DEF session_close_by_channel
      <3>2. told \in Sessions /\ told.c = [t.c EXCEPT !.detach_user = FALSE,
                                           !.detach_close = FALSE]
        BY <1>1 DEF Sessions, Channels
      <3>3. ~told.c.detach_user /\ BothClosed(told) /\ Has(told, "close_rcvd")
              /\ ~Has(told, "close_sent")
        <4> HIDE DEF told
        <4>1. /\ told.c.detach_user = FALSE /\ told.c.istate = t.c.istate
              /\ told.c.ostate = t.c.ostate /\ told.c.flags = t.c.flags
          BY <1>1, <3>2 DEF Channels
        <4> QED
          BY <2>1, <2>5, <4>1 DEF BothClosed, Has
      <3>4. g = Reap(told)
        BY <1>4, <2>1, <2>2, <2>3, <2>5, <3>1, <3>3 DEF channel_garbage_collect
      <3> HIDE DEF told
      <3>5. chan_is_dead_sends(told, TRUE) = chan_send_close2(told)
        BY <3>3 DEF chan_is_dead_sends
      <3>6. Has(chan_send_close2(told), "close_sent")
        <4>1. Send(told, "CLOSE", 0) \in Sessions
          BY <1>2, <3>2, SendFields
        <4>2. Flag(Send(told, "CLOSE", 0), "close_sent").c
                = [Send(told, "CLOSE", 0).c EXCEPT !.flags = @ \cup {"close_sent"}]
          BY <1>2, <4>1, FlagFields
        <4>3. Send(told, "CLOSE", 0).c \in Channels
          BY <4>1 DEF Sessions
        <4> QED
          BY <4>2, <4>3 DEF chan_send_close2, Has, Channels
      <3>7. chan_is_dead(told, TRUE)
        BY <3>3, <3>5, <3>6 DEF chan_is_dead
      <3>8. g = [chan_send_close2(told) EXCEPT !.c = NoChannel]
        BY <3>4, <3>5, <3>7 DEF Reap, channel_free
      <3>9. [chan_send_close2(told) EXCEPT !.c = NoChannel] = u
        BY <1>1 DEF told, Sessions, chan_send_close2, Send, Flag
      <3>10. u.out = Append(t.out, <<"CLOSE", 0>>)
        BY <1>1 DEF Sessions, Send
      <3>11. K(u, in, Append(tc \o t.out, <<"CLOSE", 0>>), cl, ch, p)
        BY <1>1, <1>4, <2>5, LarvalFreed
      <3> HIDE DEF u
      <3>12. J(u, in, tc, cl, ch, p)
        BY <1>1, <1>2, <3>10, <3>11, Sends
      <3> QED
        BY <3>8, <3>9, <3>12
    <2> QED
      BY <2>4, <2>5
  <1>5. CASE t.c.type = "open"
    <2> DEFINE c == chan_is_dead_sends(t, t.c.detach_close)
    <2>1. t.c.detach_user = TRUE /\ (t.c.detach_close => ~t.pid)
            /\ (~t.c.detach_close => t.pid)
      <3>1. ch.state \in {"none", "running", "zombie", "reaped"}
              /\ t.c.detach_user \in BOOLEAN
        BY <1>1 DEF K, Typed, Children, Channels
      <3> QED
        BY <1>1, <1>5, <3>1 DEF Tied
    <2>2. /\ J(c, in, tc, cl, ch, p) /\ c.c.type = "open" /\ c.pid = t.pid
          /\ c.c.detach_close = t.c.detach_close
          /\ (BothClosed(t) => BothClosed(c))
          /\ (Has(t, "close_rcvd") => Has(c, "close_rcvd"))
          /\ (BothClosed(t) /\ t.c.detach_close => Has(c, "close_sent"))
      <3>1. CASE ~(BothClosed(t) /\ t.c.detach_close /\ ~Has(t, "close_sent"))
        <4>1. c = t
          BY <3>1 DEF chan_is_dead_sends
        <4> QED
          BY <1>5, <3>1, <4>1
      <3>2. CASE BothClosed(t) /\ t.c.detach_close /\ ~Has(t, "close_sent")
        <4>1. c = chan_send_close2(t)
          BY <3>2 DEF chan_is_dead_sends
        <4>2. /\ Send(t, "CLOSE", 0) \in Sessions /\ Send(t, "CLOSE", 0).c = t.c
              /\ Send(t, "CLOSE", 0).pid = t.pid
              /\ Send(t, "CLOSE", 0).out = Append(t.out, <<"CLOSE", 0>>)
          BY <1>1, <1>2, SendFields
        <4>3. /\ c.c = [t.c EXCEPT !.flags = @ \cup {"close_sent"}] /\ c.pid = t.pid
              /\ c.out = Append(t.out, <<"CLOSE", 0>>)
          BY <1>2, <4>1, <4>2, FlagFields DEF chan_send_close2
        <4>4. K(c, in, Append(tc \o t.out, <<"CLOSE", 0>>), cl, ch, p)
          BY <1>1, <1>5, <3>2, <4>1, SendsClose
        <4> HIDE DEF c
        <4>5. J(c, in, tc, cl, ch, p)
          BY <1>1, <1>2, <4>3, <4>4, Sends
        <4>6. /\ c.c.type = "open" /\ c.c.istate = t.c.istate /\ c.c.ostate = t.c.ostate
              /\ c.c.flags = t.c.flags \cup {"close_sent"}
              /\ c.c.detach_close = t.c.detach_close
          BY <1>1, <1>5, <4>3 DEF Channels
        <4> QED
          BY <4>3, <4>5, <4>6 DEF BothClosed, Has
      <3> QED
        BY <3>1, <3>2
    <2>3. c.c.detach_user = TRUE
      BY <2>2, JTypes DEF Tied, Channels
    <2>4. CASE ~chan_is_dead(t, t.c.detach_close)
      <3>1. g = c
        BY <1>5, <2>1, <2>4 DEF channel_garbage_collect
      <3> QED
        BY <2>2, <3>1
    <2>5. CASE chan_is_dead(t, t.c.detach_close) /\ ~t.c.detach_close
      <3>1. session_close_by_channel(c) = c
        BY <2>1, <2>2, <2>5 DEF session_close_by_channel
      <3>2. g = c
        BY <1>5, <2>1, <2>3, <2>5, <3>1 DEF channel_garbage_collect
      <3> QED
        BY <2>2, <3>2
    <2>6. CASE chan_is_dead(t, t.c.detach_close) /\ t.c.detach_close
      <3> DEFINE told == [c EXCEPT !.c.detach_user = FALSE, !.c.detach_close = FALSE,
                          !.used = FALSE]
                 u == [c EXCEPT !.c = NoChannel, !.used = FALSE]
      <3>1. BothClosed(c) /\ Has(c, "close_rcvd") /\ Has(c, "close_sent") /\ ~c.pid
        BY <2>1, <2>2, <2>6 DEF chan_is_dead
      <3>2. session_close_by_channel(c) = told
        BY <3>1 DEF session_close_by_channel
      <3>3. g = IF told.c.detach_user THEN told ELSE Reap(told)
        BY <1>5, <2>1, <2>6, <3>2 DEF channel_garbage_collect
      <3> HIDE DEF c, g
      <3>4. c \in Sessions /\ c.c \in Channels /\ c.out \in Seq(Messages)
        BY <2>2, JTypes
      <3>5. told \in Sessions /\ told.c = [c.c EXCEPT !.detach_user = FALSE,
                                           !.detach_close = FALSE]
        BY <3>4 DEF Sessions, Channels
      <3>6. told.c.detach_user = FALSE /\ BothClosed(told) /\ Has(told, "close_rcvd")
              /\ Has(told, "close_sent")
        <4> HIDE DEF told
        <4>1. /\ told.c.detach_user = FALSE /\ told.c.istate = c.c.istate
              /\ told.c.ostate = c.c.ostate /\ told.c.flags = c.c.flags
          BY <3>4, <3>5 DEF Channels
        <4> QED
          BY <3>1, <4>1 DEF BothClosed, Has
      <3> HIDE DEF told
      <3>7. chan_is_dead_sends(told, TRUE) = told
        BY <3>6 DEF chan_is_dead_sends
      <3>8. chan_is_dead(told, TRUE)
        BY <3>6, <3>7 DEF chan_is_dead
      <3>9. g = channel_free(told)
        BY <3>3, <3>6, <3>7, <3>8 DEF Reap
      <3>10. channel_free(told) = u
        BY <3>4 DEF told, channel_free, Sessions
      <3>11. K(u, in, tc \o c.out, cl, ch, p)
        BY <2>2, <3>1, JTypes, Freed
      <3>12. u.out = c.out
        BY <3>4 DEF Sessions
      <3> HIDE DEF u
      <3> QED
        BY <1>1, <3>9, <3>10, <3>11, <3>12 DEF J, g
    <2> QED
      BY <2>4, <2>5, <2>6
  <1> QED
    BY <1>1, <1>3, <1>4, <1>5 DEF Channels

(* The lesser of two numbers. *)
LEMMA LesserFacts ==
    ASSUME NEW a \in Nat, NEW b \in Nat
    PROVE  Lesser(a, b) \in Nat /\ Lesser(a, b) <= a /\ Lesser(a, b) <= b
  BY DEF Lesser

(* channel_output_poll_input_open: data within the window of the client,   *)
(* or EOF when the input drains and is empty.                              *)
LEMMA OutputPollInput ==
    ASSUME NEW t, NEW in, NEW tc, NEW cl, NEW ch, NEW p, J(t, in, tc, cl, ch, p),
           t.c.type = "open", t.c.istate \in {"open", "drain"},
           ~Has(t, "close_sent"), ~Has(t, "close_rcvd")
    PROVE  LET a == channel_output_poll_input_open(t)
           IN  /\ J(a, in, tc, cl, ch, p) /\ a.c.type = "open" /\ a.c.usage = t.c.usage
               /\ ~Has(a, "close_sent") /\ ~Has(a, "close_rcvd")
  <1> DEFINE a == channel_output_poll_input_open(t)
             n == Lesser(t.c.input, Lesser(t.c.remote_window, MaxPacket))
  <1>1. /\ t \in Sessions /\ t.c \in Channels /\ t.out \in Seq(Messages)
        /\ tc \in Seq(Messages)
        /\ K(t, in, tc \o t.out, cl, ch, p) /\ Tied(t, cl, ch, p)
    BY JTypes
  <1>2. n \in Nat /\ n <= t.c.input /\ n <= t.c.remote_window
    <2>1. t.c.input \in Nat /\ t.c.remote_window \in Nat /\ MaxPacket \in Nat
      BY <1>1, SizeAssumption DEF Channels
    <2>2. /\ Lesser(t.c.remote_window, MaxPacket) \in Nat
          /\ Lesser(t.c.remote_window, MaxPacket) <= t.c.remote_window
      BY <2>1, LesserFacts
    <2>3. n \in Nat /\ n <= t.c.input /\ n <= Lesser(t.c.remote_window, MaxPacket)
      BY <2>1, <2>2, LesserFacts
    <2> HIDE DEF n
    <2> QED
      BY <2>1, <2>2, <2>3
  <1>3. CASE t.c.input = 0 /\ t.c.istate = "drain" /\ ~CHANNEL_EFD_INPUT_ACTIVE(t)
    <2> DEFINE u == [chan_send_eof2(t) EXCEPT !.c.istate = "closed"]
    <2>1. a = u
      BY <1>3 DEF channel_output_poll_input_open, chan_ibuf_empty
    <2>2. t.c.usage = "read" => ~t.c.efd /\ t.c.extended = 0
      <3>1. t.c.extended \in Nat
        BY <1>1 DEF Channels
      <3> QED
        BY <1>3, <3>1 DEF CHANNEL_EFD_INPUT_ACTIVE
    <2>3. K(u, in, Append(tc \o t.out, <<"EOF", 0>>), cl, ch, p)
      BY <1>1, <1>3, <2>2, SendsEof
    <2>4. "EOF" \in Words /\ "eof_sent" \in Flags /\ 0 \in Nat
      BY WordFacts
    <2>5. u.out = Append(t.out, <<"EOF", 0>>)
            /\ u.c = [t.c EXCEPT !.flags = @ \cup {"eof_sent"}, !.istate = "closed"]
      <3>1. /\ Send(t, "EOF", 0) \in Sessions /\ Send(t, "EOF", 0).c = t.c
            /\ Send(t, "EOF", 0).out = Append(t.out, <<"EOF", 0>>)
        BY <1>1, <2>4, SendFields
      <3>2. /\ chan_send_eof2(t) \in Sessions
            /\ chan_send_eof2(t).c = [t.c EXCEPT !.flags = @ \cup {"eof_sent"}]
            /\ chan_send_eof2(t).out = Append(t.out, <<"EOF", 0>>)
        BY <2>4, <3>1, FlagFields DEF chan_send_eof2
      <3> QED
        BY <1>1, <3>2 DEF Sessions
    <2> HIDE DEF u, a
    <2>6. J(u, in, tc, cl, ch, p)
      <3>1. u.out = Append(t.out, <<"EOF", 0>>)
        BY <2>5
      <3> QED
        BY <1>1, <2>3, <2>4, <3>1, Sends
    <2>7. u.c.type = "open" /\ u.c.usage = t.c.usage
            /\ u.c.flags = t.c.flags \cup {"eof_sent"}
      BY <1>1, <2>5 DEF Channels
    <2> QED
      BY <2>1, <2>6, <2>7 DEF Has, a
  <1>4. CASE t.c.input # 0 /\ n # 0
    <2> DEFINE u == [Send(t, "DATA", n) EXCEPT !.c.input = @ - n, !.c.remote_window = @ - n]
    <2>1. a = u
      BY <1>4 DEF channel_output_poll_input_open
    <2> HIDE DEF n
    <2>2. ~Has(t, "eof_sent") /\ t.c.istate # "closed"
      BY <1>1 DEF Tied
    <2>3. K(u, in, Append(tc \o t.out, <<"DATA", n>>), cl, ch, p)
      BY <1>1, <1>2, <2>2, SendsData
    <2>4. "DATA" \in Words
      BY WordFacts
    <2>5. u.out = Append(t.out, <<"DATA", n>>)
            /\ u.c = [t.c EXCEPT !.input = @ - n, !.remote_window = @ - n]
      <3>1. /\ Send(t, "DATA", n) \in Sessions /\ Send(t, "DATA", n).c = t.c
            /\ Send(t, "DATA", n).out = Append(t.out, <<"DATA", n>>)
        BY <1>1, <1>2, <2>4, SendFields
      <3> QED
        BY <1>1, <3>1 DEF Sessions
    <2> HIDE DEF u, a
    <2>6. J(u, in, tc, cl, ch, p)
      <3>1. u.out = Append(t.out, <<"DATA", n>>) /\ n \in Nat
        BY <1>2, <2>5
      <3> QED
        BY <1>1, <2>3, <2>4, <3>1, Sends
    <2>7. u.c.type = "open" /\ u.c.usage = t.c.usage /\ u.c.flags = t.c.flags
      BY <1>1, <2>5 DEF Channels
    <2> QED
      BY <2>1, <2>6, <2>7 DEF Has, a
  <1>5. CASE \/ t.c.input = 0 /\ ~(t.c.istate = "drain" /\ ~CHANNEL_EFD_INPUT_ACTIVE(t))
             \/ t.c.input # 0 /\ n = 0
    <2>1. a = t
      BY <1>5 DEF channel_output_poll_input_open
    <2> QED
      BY <2>1
  <1> QED
    BY <1>3, <1>4, <1>5

(* channel_output_poll_extended_read: what the child wrote to stderr,      *)
(* within the window of the client.                                        *)
LEMMA OutputPollErrors ==
    ASSUME NEW t, NEW in, NEW tc, NEW cl, NEW ch, NEW p, J(t, in, tc, cl, ch, p),
           t.c.type = "open", ~Has(t, "close_sent"), ~Has(t, "close_rcvd"),
             ~Has(t, "eof_sent")
    PROVE  J(channel_output_poll_extended_read(t), in, tc, cl, ch, p)
  <1> DEFINE n == Lesser(t.c.extended, Lesser(t.c.remote_window, MaxPacket))
             u == [Send(t, "EXT", n) EXCEPT !.c.extended = @ - n, !.c.remote_window = @ - n]
  <1>1. /\ t \in Sessions /\ t.c \in Channels /\ t.out \in Seq(Messages)
        /\ tc \in Seq(Messages)
        /\ K(t, in, tc \o t.out, cl, ch, p)
    BY JTypes
  <1>2. n \in Nat /\ n <= t.c.extended /\ n <= t.c.remote_window
    <2>1. t.c.extended \in Nat /\ t.c.remote_window \in Nat /\ MaxPacket \in Nat
      BY <1>1, SizeAssumption DEF Channels
    <2>2. /\ Lesser(t.c.remote_window, MaxPacket) \in Nat
          /\ Lesser(t.c.remote_window, MaxPacket) <= t.c.remote_window
      BY <2>1, LesserFacts
    <2>3. n \in Nat /\ n <= t.c.extended /\ n <= Lesser(t.c.remote_window, MaxPacket)
      BY <2>1, <2>2, LesserFacts
    <2> HIDE DEF n
    <2> QED
      BY <2>1, <2>2, <2>3
  <1>3. channel_output_poll_extended_read(t) = IF n = 0 THEN t ELSE u
    BY DEF channel_output_poll_extended_read
  <1> HIDE DEF n
  <1>4. K(u, in, Append(tc \o t.out, <<"EXT", n>>), cl, ch, p)
    BY <1>1, <1>2, SendsErrors
  <1>5. "EXT" \in Words
    BY WordFacts
  <1>6. u.out = Append(t.out, <<"EXT", n>>)
    <2>1. Send(t, "EXT", n) \in Sessions /\ Send(t, "EXT", n).out
            = Append(t.out, <<"EXT", n>>)
      BY <1>1, <1>2, <1>5, SendFields
    <2> QED
      BY <2>1 DEF Sessions
  <1> HIDE DEF u
  <1>7. J(u, in, tc, cl, ch, p)
    BY <1>1, <1>2, <1>4, <1>5, <1>6, Sends
  <1> QED
    BY <1>3, <1>7

(* channel_output_poll: the two of them, for a channel that neither side   *)
(* has closed.                                                             *)
LEMMA OutputPoll ==
    ASSUME NEW t, NEW in, NEW tc, NEW cl, NEW ch, NEW p, J(t, in, tc, cl, ch, p)
    PROVE  J(channel_output_poll(t), in, tc, cl, ch, p)
  <1> DEFINE a == IF t.c.istate \in {"open", "drain"} THEN channel_output_poll_input_open(t)
                  ELSE t
             o == channel_output_poll(t)
  <1>1. CASE t.c.type # "open" \/ Has(t, "close_sent") \/ Has(t, "close_rcvd")
    BY <1>1 DEF channel_output_poll
  <1>2. CASE ~(t.c.type # "open" \/ Has(t, "close_sent") \/ Has(t, "close_rcvd"))
    <2>1. /\ J(a, in, tc, cl, ch, p) /\ a.c.type = "open"
          /\ ~Has(a, "close_sent") /\ ~Has(a, "close_rcvd")
      <3>1. CASE t.c.istate \in {"open", "drain"}
        BY <1>2, <3>1, OutputPollInput
      <3>2. CASE t.c.istate \notin {"open", "drain"}
        BY <1>2, <3>2
      <3> QED
        BY <3>1, <3>2
    <2>2. o = IF ~Has(a, "eof_sent") /\ t.c.usage = "read"
            THEN channel_output_poll_extended_read(a) ELSE a
      BY <1>2 DEF channel_output_poll
    <2> HIDE DEF a, o
    <2>3. ~Has(a, "eof_sent") => J(channel_output_poll_extended_read(a), in, tc, cl, ch, p)
      BY <2>1, OutputPollErrors
    <2>4. J(o, in, tc, cl, ch, p)
      BY <2>1, <2>2, <2>3
    <2> QED
      BY <2>4 DEF o
  <1> QED
    BY <1>1, <1>2

(* chan_obuf_empty, when there is nothing left for the child. *)
LEMMA ObufEmpty ==
    ASSUME NEW t, NEW in, NEW tc, NEW cl, NEW ch, NEW p, J(t, in, tc, cl, ch, p),
           t.c.type = "open", t.c.output = 0
    PROVE  J(chan_obuf_empty(t), in, tc, cl, ch, p)
  <1>1. /\ t \in Sessions /\ K(t, in, tc \o t.out, cl, ch, p) /\ tc \in Seq(Messages)
    BY JTypes
  <1>2. CASE t.c.ostate = "drain"
    <2>1. K(chan_obuf_empty(t), in, tc \o t.out, cl, ch, p)
      BY <1>1, <1>2, OutputDrained
    <2>2. chan_obuf_empty(t).out = t.out
      BY <1>1 DEF Sessions, chan_obuf_empty, chan_shutdown_write
    <2> QED
      BY <1>1, <2>1, <2>2 DEF J
  <1>3. CASE t.c.ostate # "drain"
    BY <1>3 DEF chan_obuf_empty
  <1> QED
    BY <1>2, <1>3

(* channel_check_window. *)
LEMMA CheckWindow ==
    ASSUME NEW t, NEW in, NEW tc, NEW cl, NEW ch, NEW p, J(t, in, tc, cl, ch, p),
           t.c.type = "open"
    PROVE  J(channel_check_window(t), in, tc, cl, ch, p)
  <1> DEFINE n == t.c.local_consumed
             u == [Send(t, "ADJUST", n) EXCEPT !.c.local_window = @ + n,
                   !.c.local_consumed = 0]
  <1>1. /\ t \in Sessions /\ t.c \in Channels /\ t.out \in Seq(Messages)
        /\ tc \in Seq(Messages)
        /\ K(t, in, tc \o t.out, cl, ch, p)
    BY JTypes
  <1>2. "ADJUST" \in Words /\ n \in Nat
    BY <1>1, WordFacts DEF Channels
  <1>3. \/ channel_check_window(t) = u /\ ~Has(t, "close_sent")
        \/ channel_check_window(t) = t
    BY DEF channel_check_window
  <1>4. ASSUME ~Has(t, "close_sent") PROVE J(u, in, tc, cl, ch, p)
    <2>1. K(u, in, Append(tc \o t.out, <<"ADJUST", n>>), cl, ch, p)
      BY <1>1, <1>4, Adjusts
    <2>2. u.out = Append(t.out, <<"ADJUST", n>>)
      <3>1. Send(t, "ADJUST", n) \in Sessions
              /\ Send(t, "ADJUST", n).out = Append(t.out, <<"ADJUST", n>>)
        BY <1>1, <1>2, SendFields
      <3> QED
        BY <3>1 DEF Sessions
    <2> HIDE DEF u, n
    <2> QED
      BY <1>1, <1>2, <2>1, <2>2, Sends
  <1> QED
    BY <1>3, <1>4

(* channel_handle_rfd, channel_handle_wfd and channel_handle_efd_read, and *)
(* what they leave in the pipes.                                           *)
LEMMA HandleRfd ==
    ASSUME NEW t, NEW in, NEW tc, NEW cl, J(t, in, tc, cl, child, pipe), t.c.type = "open"
    PROVE  LET r == channel_handle_rfd(t)
           IN  /\ J(r, in, tc, cl, child,
                    [pipe EXCEPT !.out = pipe.out + t.c.input - r.c.input])
               /\ r.c.type = "open" /\ r.c.output = t.c.output /\ r.c.efd = t.c.efd
               /\ r.c.detach_close = t.c.detach_close
  <1> DEFINE r == channel_handle_rfd(t)
             P(u) == [pipe EXCEPT !.out = pipe.out + t.c.input - u.c.input]
             n == Lesser(pipe.out, CHAN_RBUF)
  <1>1. /\ t \in Sessions /\ t.c \in Channels /\ tc \in Seq(Messages) /\ pipe \in Pipes
        /\ K(t, in, tc \o t.out, cl, child, pipe) /\ Tied(t, cl, child, pipe)
    BY JTypes DEF Typed
  <1>2. /\ t.c.input \in Nat /\ pipe.out \in Nat /\ pipe = [pipe EXCEPT !.out = pipe.out]
    BY <1>1 DEF Channels, Pipes
  <1>7. n \in Nat /\ n <= pipe.out
    BY <1>2, LesserFacts, SizeAssumption
  <1>3. CASE t.c.rfd /\ "rfd" \in rset /\ pipe.out > 0
    <2> DEFINE u == [t EXCEPT !.c.input = @ + n]
    <2>1. r = u
      BY <1>3 DEF channel_handle_rfd
    <2> HIDE DEF n
    <2>2. t.c.istate = "open"
      BY <1>1, <1>3 DEF Tied
    <2>3. K(u, in, tc \o t.out, cl, child, [pipe EXCEPT !.out = @ - n])
      BY <1>1, <1>7, <2>2, ReadsOutput
    <2>4. u.out = t.out /\ u.c = [t.c EXCEPT !.input = @ + n]
      BY <1>1 DEF Sessions
    <2> HIDE DEF u, r
    <2>5. /\ u.c.input = t.c.input + n /\ u.c.type = t.c.type
          /\ u.c.output = t.c.output
          /\ u.c.efd = t.c.efd /\ u.c.detach_close = t.c.detach_close
      BY <1>1, <2>4 DEF Channels
    <2>6. pipe.out + t.c.input - u.c.input = pipe.out - n
      BY <1>2, <1>7, <2>5
    <2>7. P(u) = [pipe EXCEPT !.out = @ - n]
      BY <2>6
    <2>8. J(u, in, tc, cl, child, P(u))
      <3> HIDE DEF P
      <3> QED
        BY <1>1, <2>3, <2>4, <2>7 DEF J
    <2> QED
      BY <2>1, <2>5, <2>8 DEF r
  <1>4. ASSUME NEW u, u.c.input = t.c.input PROVE P(u) = pipe
    <2>1. pipe.out + t.c.input - u.c.input = pipe.out
      BY <1>2, <1>4
    <2> QED
      BY <1>2, <2>1
  <1>5. CASE t.c.rfd /\ "rfd" \in rset /\ ~(pipe.out > 0) /\ child.state # "running"
    <2> DEFINE u == chan_read_failed(t)
    <2>1. r = u
      BY <1>5 DEF channel_handle_rfd
    <2>2. t.c.istate = "open" /\ pipe.out = 0
      BY <1>1, <1>2, <1>5 DEF Tied
    <2>3. K(u, in, tc \o t.out, cl, child, pipe)
      BY <1>1, <1>5, <2>2, ReadFailed
    <2>4. u.out = t.out /\ u.c = [t.c EXCEPT !.rfd = FALSE, !.istate = "drain"]
      BY <1>1, <2>2 DEF Sessions, Channels, chan_read_failed, chan_shutdown_read
    <2> HIDE DEF u, r
    <2>5. /\ u.c.input = t.c.input /\ u.c.type = t.c.type /\ u.c.output = t.c.output
          /\ u.c.efd = t.c.efd /\ u.c.detach_close = t.c.detach_close
      BY <1>1, <2>4 DEF Channels
    <2>6. J(u, in, tc, cl, child, P(u))
      <3>1. P(u) = pipe
        BY <1>4, <2>5
      <3> HIDE DEF P
      <3> QED
        BY <1>1, <2>3, <2>4, <3>1 DEF J
    <2> QED
      BY <2>1, <2>5, <2>6 DEF r
  <1>6. CASE ~(t.c.rfd /\ "rfd" \in rset /\ (pipe.out > 0 \/ child.state # "running"))
    <2>1. r = t
      BY <1>6 DEF channel_handle_rfd
    <2>2. P(r) = pipe
      BY <1>4, <2>1
    <2> QED
      BY <2>1, <2>2
  <1> QED
    BY <1>3, <1>5, <1>6

(* channel_handle_wfd: as much as the pipe takes, or the end of a child    *)
(* that does not read any more.                                            *)
LEMMA HandleWfd ==
    ASSUME NEW t, NEW in, NEW tc, NEW cl, NEW p, J(t, in, tc, cl, child, p),
           t.c.type = "open",
           p.in = pipe.in
    PROVE  LET w == channel_handle_wfd(t)
           IN  /\ J(w, in, tc, cl, child,
                    [p EXCEPT !.in = IF w.c.wfd THEN p.in + t.c.output - w.c.output
                     ELSE p.in])
               /\ w.c.type = "open" /\ w.c.efd = t.c.efd
               /\ w.c.detach_close = t.c.detach_close
  <1> DEFINE w == channel_handle_wfd(t)
             n == Lesser(t.c.output, InPipe - p.in)
             P(u) == [p EXCEPT !.in = IF u.c.wfd THEN p.in + t.c.output - u.c.output
                      ELSE p.in]
  <1>1. /\ t \in Sessions /\ t.c \in Channels /\ tc \in Seq(Messages) /\ p \in Pipes
        /\ K(t, in, tc \o t.out, cl, child, p) /\ Tied(t, cl, child, p)
    BY JTypes DEF Typed
  <1>2. /\ t.c.output \in Nat /\ p.in \in Nat /\ p.in <= InPipe /\ InPipe \in Nat
        /\ p = [p EXCEPT !.in = p.in]
    <2>1. t.c.output \in Nat
      BY <1>1 DEF Channels
    <2>2. p.in \in Nat /\ p.in <= InPipe /\ InPipe \in Nat
      BY <1>1, SizeAssumption DEF Pipes
    <2>3. p = [p EXCEPT !.in = p.in]
      BY <1>1 DEF Pipes
    <2> QED
      BY <2>1, <2>2, <2>3
  <1>3. CASE t.c.wfd /\ "wfd" \in wset /\ t.c.output # 0 /\ child.stdin
    <2> DEFINE u == [t EXCEPT !.c.output = @ - n, !.c.local_consumed = @ + n]
    <2>1. w = u
      BY <1>3 DEF channel_handle_wfd
    <2>2. n \in Nat /\ n <= t.c.output /\ n <= InPipe - p.in
      BY <1>2, LesserFacts
    <2> HIDE DEF n
    <2>3. K(u, in, tc \o t.out, cl, child, [p EXCEPT !.in = @ + n])
      BY <1>1, <1>3, <2>2, WritesInput
    <2>4. u.out = t.out /\ u.c = [t.c EXCEPT !.output = @ - n, !.local_consumed = @ + n]
      BY <1>1 DEF Sessions
    <2> HIDE DEF u, w
    <2>5. /\ u.c.output = t.c.output - n /\ u.c.type = t.c.type /\ u.c.wfd = t.c.wfd
          /\ u.c.efd = t.c.efd /\ u.c.detach_close = t.c.detach_close
      BY <1>1, <2>4 DEF Channels
    <2>6. p.in + t.c.output - u.c.output = p.in + n
      BY <1>2, <2>2, <2>5
    <2>7. P(u) = [p EXCEPT !.in = @ + n]
      BY <1>3, <2>5, <2>6
    <2>8. J(u, in, tc, cl, child, P(u))
      <3> HIDE DEF P
      <3> QED
        BY <1>1, <2>3, <2>4, <2>7 DEF J
    <2> QED
      BY <2>1, <2>5, <2>8 DEF w
  <1>4. CASE t.c.wfd /\ "wfd" \in wset /\ t.c.output # 0 /\ ~child.stdin
    <2> DEFINE u == chan_write_failed(t)
    <2>1. w = u
      BY <1>4 DEF channel_handle_wfd
    <2>2. J(u, in, tc, cl, child, p)
      BY <1>4, ChanWriteFailed
    <2>3. t.c.ostate \in {"open", "drain"}
      BY <1>1, <1>4 DEF Tied, Channels
    <2>4. u.c = [t.c EXCEPT !.output = 0, !.wfd = FALSE, !.ostate = "closed"]
      BY <1>1, <2>3 DEF Sessions, Channels, chan_write_failed, chan_send_eow2, Send,
         chan_shutdown_write
    <2> HIDE DEF u, w
    <2>5. /\ u.c.type = t.c.type /\ u.c.wfd = FALSE
          /\ u.c.efd = t.c.efd /\ u.c.detach_close = t.c.detach_close
      BY <1>1, <2>4 DEF Channels
    <2>6. P(u) = p
      BY <1>2, <2>5
    <2>7. J(u, in, tc, cl, child, P(u))
      <3> HIDE DEF P
      <3> QED
        BY <2>2, <2>6
    <2> QED
      BY <2>1, <2>5, <2>7 DEF w
  <1>5. CASE ~(t.c.wfd /\ "wfd" \in wset /\ t.c.output # 0)
    <2>1. w = t
      BY <1>5 DEF channel_handle_wfd
    <2>2. p.in + t.c.output - t.c.output = p.in
      BY <1>2
    <2>3. P(t) = p
      BY <1>2, <2>2
    <2> QED
      BY <2>1, <2>3
  <1> QED
    BY <1>3, <1>4, <1>5

(* channel_handle_efd_read: a buffer of what is in the pipe, up to its end. *)
LEMMA HandleEfd ==
    ASSUME NEW t, NEW in, NEW tc, NEW cl, NEW p, J(t, in, tc, cl, child, p),
           t.c.type = "open",
           p.err = pipe.err
    PROVE  LET e == channel_handle_efd_read(t)
           IN  /\ J(e, in, tc, cl, child,
                    [p EXCEPT !.err = IF t.c.efd /\ ("efd" \in rset \/ t.c.detach_close)
                                      THEN p.err - Lesser(p.err, CHAN_RBUF) ELSE p.err])
               /\ e.c.type = "open"
  <1> DEFINE e == channel_handle_efd_read(t)
             now == t.c.efd /\ ("efd" \in rset \/ t.c.detach_close)
             n == Lesser(p.err, CHAN_RBUF)
             P == [p EXCEPT !.err = IF now THEN p.err - n ELSE p.err]
  <1>1. /\ t \in Sessions /\ t.c \in Channels /\ tc \in Seq(Messages) /\ p \in Pipes
        /\ K(t, in, tc \o t.out, cl, child, p) /\ Tied(t, cl, child, p)
    BY JTypes DEF Typed
  <1>2. /\ p.err \in Nat /\ p = [p EXCEPT !.err = p.err]
    BY <1>1, SizeAssumption DEF Pipes
  <1>8. n \in Nat /\ n <= p.err
    BY <1>2, LesserFacts, SizeAssumption
  <1>9. p.err = 0 => p.err - n = p.err
    BY <1>2, <1>8
  <1>3. CASE now /\ p.err > 0 /\ t.c.usage = "read"
    <2> DEFINE u == [t EXCEPT !.c.extended = @ + n]
    <2>1. e = u
      BY <1>1, <1>3 DEF channel_handle_efd_read, Sessions
    <2> HIDE DEF n
    <2>2. K(u, in, tc \o t.out, cl, child, [p EXCEPT !.err = @ - n])
      BY <1>1, <1>3, <1>8, ReadsErrors
    <2>3. u.out = t.out /\ u.c.type = t.c.type
      BY <1>1 DEF Sessions, Channels
    <2>4. P = [p EXCEPT !.err = @ - n]
      BY <1>3
    <2>5. J(u, in, tc, cl, child, P)
      <3> HIDE DEF u, P
      <3> QED
        BY <1>1, <2>2, <2>3, <2>4 DEF J
    <2> HIDE DEF u, P
    <2> QED
      BY <2>1, <2>3, <2>5 DEF P, n
  <1>4. CASE now /\ p.err > 0 /\ t.c.usage = "ignore"
    <2>1. e = t
      BY <1>1, <1>4 DEF channel_handle_efd_read, Sessions, Channels
    <2> HIDE DEF n
    <2>2. K(t, in, tc \o t.out, cl, child, [p EXCEPT !.err = @ - n])
      BY <1>1, <1>4, <1>8, DropsErrors
    <2>3. P = [p EXCEPT !.err = @ - n]
      BY <1>4
    <2> HIDE DEF P
    <2>4. J(t, in, tc, cl, child, P)
      BY <1>1, <2>2, <2>3 DEF J
    <2> QED
      BY <2>1, <2>4 DEF P, n
  <1>5. CASE now /\ ~(p.err > 0) /\ (child.state # "running" \/ t.c.detach_close)
    <2> DEFINE u == [t EXCEPT !.c.efd = FALSE]
    <2>1. e = u
      BY <1>5 DEF channel_handle_efd_read
    <2>2. child.state # "running" /\ p.err = 0
      BY <1>1, <1>2, <1>5 DEF Tied
    <2>3. K(u, in, tc \o t.out, cl, child, p)
      BY <1>1, <1>5, <2>2, ErrorsEnd
    <2>4. u.out = t.out /\ u.c.type = t.c.type
      BY <1>1 DEF Sessions, Channels
    <2>5. P = p
      BY <1>2, <1>9, <2>2
    <2>6. J(u, in, tc, cl, child, P)
      <3> HIDE DEF u, P
      <3> QED
        BY <1>1, <2>3, <2>4, <2>5 DEF J
    <2> QED
      BY <2>1, <2>4, <2>6
  <1>6. CASE \/ ~now
             \/ now /\ ~(p.err > 0) /\ ~(child.state # "running" \/ t.c.detach_close)
    <2>1. e = t
      BY <1>6 DEF channel_handle_efd_read
    <2>2. ~now \/ p.err = 0
      BY <1>2, <1>6
    <2>3. P = p
      BY <1>2, <1>9, <2>2
    <2> HIDE DEF P
    <2>4. J(t, in, tc, cl, child, P)
      BY <2>3
    <2> QED
      BY <2>1, <2>4 DEF P
  <1>7. t.c.usage \in {"ignore", "read"}
    BY <1>1 DEF Channels
  <1> QED
    BY <1>3, <1>4, <1>5, <1>6, <1>7

(* channel_post_open: the three of them, and the window. *)
LEMMA HandleAll ==
    ASSUME NEW in, NEW tc, NEW cl, J(s, in, tc, cl, child, pipe), s.c.type = "open"
    PROVE  LET r == channel_handle_rfd(s)
               w == channel_handle_wfd(r)
               e == channel_handle_efd_read(w)
           IN  J(channel_check_window(e), in, tc, cl, child,
                 [in |-> IF w.c.wfd THEN pipe.in + r.c.output - w.c.output ELSE pipe.in,
                  out |-> pipe.out + s.c.input - r.c.input,
                  err |-> IF s.c.efd /\ ("efd" \in rset \/ s.c.detach_close)
                          THEN pipe.err - Lesser(pipe.err, CHAN_RBUF) ELSE pipe.err])
  <1> DEFINE r == channel_handle_rfd(s)
             w == channel_handle_wfd(r)
             e == channel_handle_efd_read(w)
             p1 == [pipe EXCEPT !.out = pipe.out + s.c.input - r.c.input]
             p2 == [p1 EXCEPT !.in = IF w.c.wfd THEN p1.in + r.c.output - w.c.output
                    ELSE p1.in]
             p3 == [p2 EXCEPT !.err = IF w.c.efd /\ ("efd" \in rset \/ w.c.detach_close)
                                      THEN p2.err - Lesser(p2.err, CHAN_RBUF) ELSE p2.err]
             P == [in |-> IF w.c.wfd THEN pipe.in + r.c.output - w.c.output ELSE pipe.in,
                   out |-> pipe.out + s.c.input - r.c.input,
                   err |-> IF s.c.efd /\ ("efd" \in rset \/ s.c.detach_close)
                           THEN pipe.err - Lesser(pipe.err, CHAN_RBUF) ELSE pipe.err]
  <1>1. pipe \in Pipes
    BY JTypes DEF Typed
  <1>2. /\ J(r, in, tc, cl, child, p1) /\ r.c.type = "open" /\ r.c.efd = s.c.efd
        /\ r.c.detach_close = s.c.detach_close
    BY HandleRfd
  <1> HIDE DEF r
  <1>3. p1.in = pipe.in /\ p1.err = pipe.err /\ p1.out =
          pipe.out + s.c.input - r.c.input
    BY <1>1 DEF Pipes
  <1> HIDE DEF p1
  <1>4. /\ J(w, in, tc, cl, child, p2) /\ w.c.type = "open" /\ w.c.efd = s.c.efd
        /\ w.c.detach_close = s.c.detach_close
    BY <1>2, <1>3, HandleWfd
  <1> HIDE DEF w
  <1>5. p1 \in Pipes /\ p2 \in Pipes
    BY <1>2, <1>4, JTypes DEF Typed
  <1>6. /\ p2.err = pipe.err /\ p2.out = p1.out
        /\ p2.in = IF w.c.wfd THEN pipe.in + r.c.output - w.c.output ELSE pipe.in
    BY <1>3, <1>5 DEF Pipes
  <1> HIDE DEF p2
  <1>7. J(e, in, tc, cl, child, p3) /\ e.c.type = "open"
    BY <1>4, <1>6, HandleEfd
  <1>8. p3 = P
    BY <1>3, <1>4, <1>5, <1>6 DEF Pipes
  <1> HIDE DEF e, p3, P
  <1>9. J(channel_check_window(e), in, tc, cl, child, p3)
    BY <1>7, CheckWindow
  <1> QED
    BY <1>8, <1>9 DEF P, e, w, r

-----------------------------------------------------------------------------
(* One packet of the client. *)

(* chan_rcvd_ieof. *)
LEMMA RcvdIeof ==
    ASSUME NEW t, NEW in, NEW tc, NEW cl, NEW ch, NEW p, J(t, in, tc, cl, ch, p),
           NEW k \in Nat, t.c.type = "open", First(in, "EOF", k)
    PROVE  J(chan_rcvd_ieof(t), Tail(in), tc, cl, ch, p) /\ chan_rcvd_ieof(t).pid = t.pid
  <1> DEFINE f == Flag(t, "eof_rcvd")
             d == Drain(f)
  <1>1. /\ t \in Sessions /\ t.c \in Channels /\ tc \in Seq(Messages)
        /\ "eof_rcvd" \in Flags
        /\ K(t, in, tc \o t.out, cl, ch, p)
    BY JTypes, WordFacts
  <1>2. K(d, Tail(in), tc \o t.out, cl, ch, p)
    BY <1>1, HearsEof
  <1>3. /\ f \in Sessions /\ f.c = [t.c EXCEPT !.flags = @ \cup {"eof_rcvd"}]
        /\ f.out = t.out
        /\ f.pid = t.pid
    BY <1>1, FlagFields
  <1>4. chan_rcvd_ieof(t) = IF d.c.output = 0 THEN chan_obuf_empty(d) ELSE d
    BY DEF chan_rcvd_ieof
  <1> HIDE DEF f
  <1>5. f.c.type = "open"
    BY <1>1, <1>3 DEF Channels
  <1>6. /\ d \in Sessions /\ d.out = t.out /\ d.pid = t.pid
        /\ d.c = [f.c EXCEPT !.ostate = IF @ = "open" THEN "drain" ELSE @]
    BY <1>3, DrainFields
  <1> HIDE DEF d
  <1>7. d.c.type = "open"
    <2>1. f.c \in Channels
      BY <1>3 DEF Sessions
    <2> QED
      BY <1>5, <1>6, <2>1 DEF Channels
  <1>8. J(d, Tail(in), tc, cl, ch, p)
    BY <1>1, <1>2, <1>6 DEF J
  <1>9. d.c.output = 0 => J(chan_obuf_empty(d), Tail(in), tc, cl, ch, p)
    BY <1>7, <1>8, ObufEmpty
  <1>10. chan_obuf_empty(d).pid = d.pid
    BY <1>6 DEF chan_obuf_empty, chan_shutdown_write, Sessions
  <1> QED
    BY <1>4, <1>6, <1>8, <1>9, <1>10

(* chan_rcvd_oclose. *)
LEMMA RcvdOclose ==
    ASSUME NEW t, NEW in, NEW tc, NEW cl, NEW ch, NEW p, J(t, in, tc, cl, ch, p),
           NEW k \in Nat, t.c.type # "none", First(in, "CLOSE", k)
    PROVE  J(chan_rcvd_oclose(t), Tail(in), tc, cl, ch, p)
           /\ chan_rcvd_oclose(t).pid = t.pid
  <1> DEFINE f == Flag(t, "close_rcvd")
             d == Drain(f)
             u == [d EXCEPT !.c.rfd = FALSE, !.c.istate = "closed"]
             o == chan_rcvd_oclose(t)
  <1>1. /\ t \in Sessions /\ t.c \in Channels /\ tc \in Seq(Messages)
        /\ t.out \in Seq(Messages)
        /\ K(t, in, tc \o t.out, cl, ch, p) /\ Tied(t, cl, ch, p) /\ "close_rcvd" \in Flags
    BY JTypes, WordFacts
  <1>2. /\ f \in Sessions /\ f.c = [t.c EXCEPT !.flags = @ \cup {"close_rcvd"}]
        /\ f.out = t.out
        /\ f.pid = t.pid
    BY <1>1, FlagFields
  <1>3. CASE t.c.type = "larval"
    <2> DEFINE v == [f EXCEPT !.c.ostate = "closed", !.c.istate = "closed"]
    <2>1. o = v
      BY <1>3 DEF chan_rcvd_oclose
    <2>2. K(v, Tail(in), tc \o t.out, cl, ch, p)
      BY <1>1, <1>3, LarvalClosed
    <2> HIDE DEF f
    <2>3. v.out = t.out /\ v.pid = t.pid
      BY <1>2 DEF Sessions
    <2> HIDE DEF v
    <2> QED
      BY <1>1, <2>1, <2>2, <2>3 DEF J
  <1>4. CASE t.c.type # "larval"
    <2>1. t.c.type = "open"
      BY <1>1, <1>4 DEF Channels
    <2>2. K(u, Tail(in), tc \o t.out, cl, ch, p)
      BY <1>1, <2>1, HearsClose
    <2>3. o = CASE d.c.istate = "open" -> [chan_shutdown_read(d) EXCEPT
                                           !.c.istate = "closed"]
                [] d.c.istate = "drain" -> [chan_send_eof2(d) EXCEPT !.c.istate = "closed"]
                [] OTHER -> d
      BY <1>4 DEF chan_rcvd_oclose
    <2> HIDE DEF f
    <2>4. f.c \in Channels /\ f.c.type = "open" /\ f.c.rfd = t.c.rfd
            /\ f.c.istate = t.c.istate
          /\ f.c.flags = t.c.flags \cup {"close_rcvd"} /\ f.c.ostate = t.c.ostate
      <3>1. f.c \in Channels
        BY <1>2 DEF Sessions
      <3> QED
        BY <1>1, <1>2, <2>1, <3>1 DEF Channels
    <2>5. /\ d \in Sessions /\ d.out = t.out /\ d.pid = t.pid
          /\ d.c = [f.c EXCEPT !.ostate = IF @ = "open" THEN "drain" ELSE @]
      BY <1>2, DrainFields
    <2> HIDE DEF d
    <2>6. /\ d.c \in Channels /\ d.c.type = "open" /\ d.c.rfd = t.c.rfd
          /\ d.c.istate = t.c.istate
          /\ d.c.flags = t.c.flags \cup {"close_rcvd"}
      <3>1. d.c \in Channels
        BY <2>5 DEF Sessions
      <3> QED
        BY <2>4, <2>5, <3>1 DEF Channels
    <2>7. u.out = t.out /\ u.pid = t.pid /\ u \in Sessions
          /\ u.c = [d.c EXCEPT !.rfd = FALSE, !.istate = "closed"]
      BY <2>5, <2>6 DEF Sessions, Channels
    <2>8. J(u, Tail(in), tc, cl, ch, p)
      <3> HIDE DEF u
      <3> QED
        BY <1>1, <2>2, <2>7 DEF J
    <2>9. CASE t.c.istate = "open"
      <3>1. [chan_shutdown_read(d) EXCEPT !.c.istate = "closed"] = u
        BY <2>5, <2>6 DEF chan_shutdown_read, Sessions
      <3>2. o = u
        BY <2>3, <2>6, <2>9, <3>1
      <3> HIDE DEF u, o
      <3> QED
        BY <2>7, <2>8, <3>2 DEF o
    <2>10. CASE t.c.istate = "drain"
      <3>1. d.c.rfd = FALSE
        BY <1>1, <2>1, <2>6, <2>10 DEF Tied, Channels
      <3>2. [chan_send_eof2(d) EXCEPT !.c.istate = "closed"] = chan_send_eof2(u)
        <4>1. [d.c EXCEPT !.rfd = FALSE, !.istate = "closed"]
                = [d.c EXCEPT !.istate = "closed"]
          BY <2>6, <3>1 DEF Channels
        <4>2. u = [d EXCEPT !.c = [d.c EXCEPT !.rfd = FALSE, !.istate = "closed"]]
          BY <2>5 DEF Sessions
        <4>3. u = [d EXCEPT !.c = [d.c EXCEPT !.istate = "closed"]]
          BY <4>1, <4>2
        <4> HIDE DEF u
        <4>4. chan_send_eof2(u) = [d EXCEPT !.out = Append(d.out, <<"EOF", 0>>),
                                            !.c = [u.c EXCEPT
                                                   !.flags = @ \cup {"eof_sent"}]]
          <5>1. chan_send_eof2(u) = [u EXCEPT !.out = Append(u.out, <<"EOF", 0>>),
                                              !.c = [u.c EXCEPT
                                                     !.flags = @ \cup {"eof_sent"}]]
            BY <2>7 DEF chan_send_eof2, Send, Flag, Sessions
          <5>2. u.out = d.out /\ u.used = d.used /\ u.pid = d.pid /\ u.over = d.over
            BY <2>5, <4>3 DEF Sessions
          <5>3. \A y, z, c : [[d EXCEPT !.c = y] EXCEPT !.out = z, !.c = c]
                  = [d EXCEPT !.out = z, !.c = c]
            BY <2>5 DEF Sessions
          <5> QED
            BY <4>3, <5>1, <5>2, <5>3
        <4>5. [chan_send_eof2(d) EXCEPT !.c.istate = "closed"]
                = [d EXCEPT !.out = Append(d.out, <<"EOF", 0>>),
                            !.c = [[d.c EXCEPT !.flags = @ \cup {"eof_sent"}] EXCEPT
                                   !.istate = "closed"]]
          BY <2>5 DEF chan_send_eof2, Send, Flag, Sessions
        <4>6. u.c = [d.c EXCEPT !.istate = "closed"]
          BY <2>5, <4>3 DEF Sessions
        <4>7. [[d.c EXCEPT !.flags = @ \cup {"eof_sent"}] EXCEPT !.istate = "closed"]
                = [u.c EXCEPT !.flags = @ \cup {"eof_sent"}]
          BY <2>6, <4>6 DEF Channels
        <4> QED
          BY <4>4, <4>5, <4>7
      <3>3. o = chan_send_eof2(u)
        BY <2>3, <2>6, <2>10, <3>2
      <3>4. ~Has(t, "eof_sent") /\ ~Has(t, "close_sent")
        BY <1>1, <2>1, <2>10 DEF Tied, BothClosed
      <3> HIDE DEF u, o
      <3>5. u.c.type = "open" /\ u.c.istate = "closed" /\ u.c.flags = d.c.flags
        BY <2>6, <2>7 DEF Channels
      <3>6. ~Has(u, "eof_sent") /\ ~Has(u, "close_sent")
        BY <2>6, <3>4, <3>5 DEF Has
      <3>7. K(chan_send_eof2(u), Tail(in), Append(tc \o u.out, <<"EOF", 0>>), cl, ch, p)
        BY <2>8, <3>5, <3>6, JTypes, OwesEof
      <3>8. "EOF" \in Words /\ "eof_sent" \in Flags /\ 0 \in Nat /\ u.out \in Seq(Messages)
        BY <1>1, <2>7, WordFacts
      <3>9. chan_send_eof2(u).out = Append(u.out, <<"EOF", 0>>)
              /\ chan_send_eof2(u).pid = t.pid
        <4>1. /\ Send(u, "EOF", 0) \in Sessions /\ Send(u, "EOF", 0).pid = u.pid
              /\ Send(u, "EOF", 0).out = Append(u.out, <<"EOF", 0>>)
          <5>1. u \in Sessions
            BY <2>7
          <5> QED
            BY <3>8, <5>1, SendFields
        <4> QED
          BY <2>7, <3>8, <4>1, FlagFields DEF chan_send_eof2
      <3>10. J(chan_send_eof2(u), Tail(in), tc, cl, ch, p)
        BY <1>1, <3>7, <3>8, <3>9, Sends
      <3> QED
        BY <3>3, <3>9, <3>10 DEF o
    <2>11. CASE t.c.istate = "closed"
      <3>1. d.c.rfd = FALSE
        BY <1>1, <2>1, <2>6, <2>11 DEF Tied, Channels
      <3>2. u = d
        <4>1. [d.c EXCEPT !.rfd = FALSE, !.istate = "closed"] = d.c
          BY <2>6, <2>11, <3>1 DEF Channels
        <4>2. u = [d EXCEPT !.c = [d.c EXCEPT !.rfd = FALSE, !.istate = "closed"]]
          BY <2>5 DEF Sessions
        <4> QED
          BY <2>5, <4>1, <4>2 DEF Sessions
      <3>3. o = d
        BY <2>3, <2>6, <2>11
      <3> HIDE DEF u, o
      <3> QED
        BY <2>7, <2>8, <3>2, <3>3 DEF o
    <2> QED
      BY <1>1, <2>9, <2>10, <2>11 DEF Channels
  <1> QED
    BY <1>3, <1>4

(* server_input_channel_req, when the child can be started and when it     *)
(* cannot.                                                                 *)
LEMMA Requested ==
    ASSUME NEW t, NEW in, NEW tc, NEW cl, NEW ch, NEW p, J(t, in, tc, cl, ch, p),
           NEW k \in Nat, NEW a \in {"exec", "subsystem"}, NEW usage \in {"read", "ignore"},
           t.c.type = "larval", First(in, a, k), usage = "read" <=> a = "exec"
    PROVE  /\ J(server_input_channel_req(t, usage, TRUE), Tail(in), tc, cl,
                [ch EXCEPT !.state = "running", !.stdin = TRUE], p)
           /\ J(server_input_channel_req(t, usage, FALSE), Tail(in), tc, cl, ch, p)
  <1> DEFINE x == do_exec_no_pty(t, usage)
             d == [ch EXCEPT !.state = "running", !.stdin = TRUE]
  <1>1. /\ t \in Sessions /\ t.c \in Channels /\ tc \in Seq(Messages)
        /\ t.out \in Seq(Messages)
        /\ K(t, in, tc \o t.out, cl, ch, p) /\ Tied(t, cl, ch, p)
    BY JTypes
  <1>2. /\ "FAILURE" \in Words /\ "ADJUST" \in Words /\ "SUCCESS" \in Words
        /\ 0 \in Nat /\ WindowMax \in Nat
    BY WordFacts, SizeAssumption
  <1>3. server_input_channel_req(t, usage, FALSE) = Send(t, "FAILURE", 0)
    BY DEF server_input_channel_req
  <1>4. K(Send(t, "FAILURE", 0), Tail(in), Append(tc \o t.out, <<"FAILURE", 0>>), cl, ch, p)
    BY <1>1, Refused
  <1>5. Send(t, "FAILURE", 0).out = Append(t.out, <<"FAILURE", 0>>)
    BY <1>1, <1>2, SendFields
  <1>6. J(Send(t, "FAILURE", 0), Tail(in), tc, cl, ch, p)
    BY <1>1, <1>2, <1>4, <1>5, Sends
  <1>7. server_input_channel_req(t, usage, TRUE) = Send(x, "SUCCESS", 0)
    BY DEF server_input_channel_req
  <1>8. K(x, Tail(in), Append(tc \o t.out, <<"ADJUST", WindowMax>>), cl, d, p)
    BY <1>1, Started
  <1>9. x.out = Append(t.out, <<"ADJUST", WindowMax>>) /\ x.c.type = "open"
          /\ x.c.flags = t.c.flags
    <2> DEFINE y == [t.c EXCEPT !.type = "open", !.usage = usage,
                     !.local_window = WindowMax,
                                !.rfd = TRUE, !.wfd = TRUE, !.efd = TRUE]
    <2> DEFINE w == [t EXCEPT !.pid = TRUE]
               z == [w EXCEPT !.c.type = "open", !.c.usage = usage,
                     !.c.local_window = WindowMax,
                              !.c.rfd = TRUE, !.c.wfd = TRUE, !.c.efd = TRUE]
    <2>0. w \in Sessions /\ w.c = t.c /\ w.out = t.out
      BY <1>1 DEF Sessions
    <2>1. x = Send(z, "ADJUST", WindowMax)
      BY DEF do_exec_no_pty, channel_set_fds
    <2>2. y.type = "open" /\ y.flags = t.c.flags
      BY <1>1 DEF Channels
    <2> HIDE DEF x, w
    <2>3. z \in Sessions /\ z.c = y /\ z.out = t.out
      <3>1. z.c = y /\ z.out = t.out /\ z.used = w.used /\ z.pid = w.pid /\ z.over = w.over
        BY <2>0 DEF Sessions
      <3>2. y \in Channels
        <4>1. t.c \in Channels /\ WindowMax \in Int
          BY <1>1, SizeAssumption
        <4> QED
          BY <4>1 DEF Channels
      <3>3. z = [w EXCEPT !.c = y]
        BY <2>0 DEF Sessions
      <3> HIDE DEF z, y
      <3> QED
        BY <2>0, <3>1, <3>2, <3>3 DEF Sessions
    <2> HIDE DEF y, z
    <2>4. x.c = z.c /\ x.out = Append(z.out, <<"ADJUST", WindowMax>>)
      BY <1>2, <2>1, <2>3, SendFields
    <2> QED
      BY <2>2, <2>3, <2>4
  <1> HIDE DEF x, d
  <1>10. J(x, Tail(in), tc, cl, d, p)
    BY <1>1, <1>2, <1>8, <1>9, Sends
  <1>11. ~Has(x, "close_sent")
    BY <1>1, <1>9 DEF Tied, Has
  <1>12. K(Send(x, "SUCCESS", 0), Tail(in), Append(tc \o x.out, <<"SUCCESS", 0>>), cl, d, p)
    BY <1>9, <1>10, <1>11, JTypes, Says
  <1>13. x \in Sessions /\ x.out \in Seq(Messages)
    BY <1>10, JTypes
  <1>14. Send(x, "SUCCESS", 0).out = Append(x.out, <<"SUCCESS", 0>>)
    BY <1>2, <1>9, <1>13, SendFields
  <1>15. J(Send(x, "SUCCESS", 0), Tail(in), tc, cl, d, p)
    BY <1>1, <1>2, <1>12, <1>13, <1>14, Sends
  <1> QED
    BY <1>3, <1>5, <1>6, <1>7, <1>14, <1>15 DEF d

(* dispatch: whatever packet comes next, the channel can take it.  A child *)
(* is started by a request and by nothing else.                            *)
LEMMA Dispatched ==
    ASSUME NEW t, NEW in, NEW tc, NEW cl, NEW ch, NEW p, J(t, in, tc, cl, ch, p),
           in # << >>, NEW ok \in BOOLEAN
    PROVE  LET u == dispatch(t, Head(in), ok)
           IN  J(u, Tail(in), tc, cl,
                 IF u.pid /\ ~t.pid THEN [ch EXCEPT !.state = "running", !.stdin = TRUE]
                   ELSE ch, p)
  <1> DEFINE u == dispatch(t, Head(in), ok)
             d == [ch EXCEPT !.state = "running", !.stdin = TRUE]
             a == Head(in)[1]
             k == Head(in)[2]
  <1>1. /\ t \in Sessions /\ t.c \in Channels /\ tc \in Seq(Messages)
        /\ t.out \in Seq(Messages)
        /\ K(t, in, tc \o t.out, cl, ch, p) /\ Tied(t, cl, ch, p)
        /\ in \in Seq(Messages) /\ Spoken(t, in, cl) /\ ch \in Children
    BY JTypes DEF K, Typed
  <1>2. First(in, a, k) /\ k \in Nat
    BY <1>1, Heard DEF First
  <1>3. /\ t.c.type = "none" => a = "OPEN"
        /\ t.c.type = "larval" => a \in {"exec", "subsystem", "CLOSE"}
        /\ t.c.type = "open" => a \in {"DATA", "EOF", "ADJUST", "CLOSE"}
    <2>1. /\ t.c.type = "none" => Head(in) = <<"OPEN", ClientWindow>>
          /\ t.c.type = "larval" => Head(in)[1] \in {"exec", "subsystem", "CLOSE"}
          /\ t.c.type = "open" => Head(in)[1] \in {"DATA", "EOF", "ADJUST", "CLOSE"}
      BY <1>1, SpokenRest
    <2> QED
      BY <2>1
  <1>4. u = CASE a = "OPEN" -> server_input_channel_open(t, k)
              [] a = "ADJUST" -> channel_input_window_adjust(t, k)
              [] t.c.type = "none" /\ a \notin {"OPEN", "ADJUST"} -> Disconnect(t)
              [] t.c.type # "none" /\ a = "exec" -> server_input_channel_req(t, "read", ok)
              [] t.c.type # "none" /\ a = "subsystem" ->
                    server_input_channel_req(t, "ignore", ok)
              [] t.c.type # "none" /\ a = "DATA" -> channel_input_data(t, k)
              [] t.c.type # "none" /\ a = "EOF" -> chan_rcvd_ieof(t)
              [] t.c.type # "none" /\ a = "CLOSE" -> chan_rcvd_oclose(t)
    BY DEF dispatch
  <1>5. t.c.type \in {"none", "larval", "open"} /\ t.pid \in BOOLEAN
    BY <1>1 DEF Channels, Sessions
  <1>6. t.pid => t.c.type = "open"
    BY <1>1 DEF Tied
  <1> HIDE DEF u, a, k, d
  <1>7. CASE a = "OPEN"
    <2> DEFINE v == server_input_channel_open(t, k)
    <2>1. u = v
      BY <1>4, <1>7
    <2>2. K(v, Tail(in), Append(tc \o t.out, <<"CONFIRM", 0>>), cl, ch, p)
      BY <1>1, <1>2, <1>7, Opened
    <2>3. v.out = Append(t.out, <<"CONFIRM", 0>>) /\ v.pid = t.pid
      BY <1>1 DEF server_input_channel_open, Send, Sessions
    <2> HIDE DEF v
    <2>4. "CONFIRM" \in Words /\ 0 \in Nat
      BY WordFacts
    <2>5. J(v, Tail(in), tc, cl, ch, p)
      BY <1>1, <2>2, <2>3, <2>4, Sends
    <2> QED
      BY <1>5, <2>1, <2>3, <2>5 DEF u
  <1>8. CASE a \in {"exec", "subsystem"}
    <2>1. t.c.type = "larval" /\ ~t.pid
      BY <1>3, <1>5, <1>6, <1>8
    <2> DEFINE usage == IF a = "exec" THEN "read" ELSE "ignore"
    <2>2. usage \in {"read", "ignore"} /\ (usage = "read" <=> a = "exec")
      OBVIOUS
    <2>3. u = server_input_channel_req(t, usage, ok)
      BY <1>4, <1>8, <2>1
    <2> HIDE DEF usage
    <2>4. /\ J(server_input_channel_req(t, usage, TRUE), Tail(in), tc, cl, d, p)
          /\ J(server_input_channel_req(t, usage, FALSE), Tail(in), tc, cl, ch, p)
      <3>1. k \in Nat /\ a \in {"exec", "subsystem"} /\ usage \in {"read", "ignore"}
            /\ t.c.type = "larval" /\ First(in, a, k) /\ (usage = "read" <=> a = "exec")
        BY <1>2, <1>8, <2>1, <2>2
      <3>2. J(server_input_channel_req(t, usage, FALSE), Tail(in), tc, cl, ch, p)
        BY <3>1, Requested
      <3>3. J(server_input_channel_req(t, usage, TRUE), Tail(in), tc, cl, d, p)
        BY <3>1, Requested DEF d
      <3> QED
        BY <3>2, <3>3
    <2>5. CASE ok
      <3>1. u = server_input_channel_req(t, usage, TRUE)
        BY <2>3, <2>5
      <3>2. J(u, Tail(in), tc, cl, d, p)
        BY <2>4, <3>1
      <3>3. d.state = "running"
        BY <1>1 DEF d, Children
      <3>4. u.pid
        BY <3>2, <3>3, JTypes DEF Tied
      <3> QED
        BY <2>1, <3>2, <3>4 DEF u, d
    <2>6. CASE ~ok
      <3>1. u = server_input_channel_req(t, usage, FALSE)
        BY <2>3, <2>6
      <3>2. J(u, Tail(in), tc, cl, ch, p)
        BY <2>4, <3>1
      <3>3. ~u.pid
        BY <1>1, <2>1, <3>2, JTypes DEF Tied
      <3> QED
        BY <3>2, <3>3 DEF u
    <2> QED
      BY <2>5, <2>6
  <1>9. CASE a = "CLOSE"
    <2>1. t.c.type # "none"
      BY <1>3, <1>9
    <2>2. J(chan_rcvd_oclose(t), Tail(in), tc, cl, ch, p) /\ chan_rcvd_oclose(t).pid = t.pid
      BY <1>2, <1>9, <2>1, RcvdOclose
    <2>3. u = chan_rcvd_oclose(t)
      BY <1>4, <1>9, <2>1
    <2> QED
      BY <1>5, <2>2, <2>3 DEF u
  <1>10. CASE a = "EOF"
    <2>1. t.c.type = "open"
      BY <1>3, <1>5, <1>10
    <2>2. J(chan_rcvd_ieof(t), Tail(in), tc, cl, ch, p) /\ chan_rcvd_ieof(t).pid = t.pid
      BY <1>2, <1>10, <2>1, RcvdIeof
    <2>3. u = chan_rcvd_ieof(t)
      BY <1>4, <1>10, <2>1
    <2> QED
      BY <1>5, <2>2, <2>3 DEF u
  <1>11. CASE a = "DATA"
    <2>1. t.c.type = "open"
      BY <1>3, <1>5, <1>11
    <2>2. K(channel_input_data(t, k), Tail(in), tc \o t.out, cl, ch, p)
      BY <1>1, <1>2, <1>11, <2>1, HearsData
    <2>3. u = channel_input_data(t, k)
      BY <1>4, <1>11, <2>1
    <2>4. u.out = t.out /\ u.pid = t.pid
      BY <1>1, <2>3 DEF channel_input_data, Sessions
    <2>5. J(u, Tail(in), tc, cl, ch, p)
      BY <1>1, <2>2, <2>3, <2>4 DEF J
    <2> QED
      BY <1>5, <2>4, <2>5 DEF u
  <1>12. CASE a = "ADJUST"
    <2>1. t.c.type = "open"
      BY <1>3, <1>5, <1>12
    <2>2. K(channel_input_window_adjust(t, k), Tail(in), tc \o t.out, cl, ch, p)
      BY <1>1, <1>2, <1>12, <2>1, HearsAdjust
    <2>3. u = channel_input_window_adjust(t, k)
      BY <1>4, <1>12, <2>1
    <2>4. u.out = t.out /\ u.pid = t.pid
      BY <1>1, <2>3 DEF channel_input_window_adjust, Sessions
    <2>5. J(u, Tail(in), tc, cl, ch, p)
      BY <1>1, <2>2, <2>3, <2>4 DEF J
    <2> QED
      BY <1>5, <2>4, <2>5 DEF u
  <1> QED
    BY <1>3, <1>5, <1>7, <1>8, <1>9, <1>10, <1>11, <1>12

-----------------------------------------------------------------------------
(* The queues between the two ends: what is read off the front of one, and *)
(* what moves from sshd to the socket, changes nothing else.               *)

(* The first message of two queues is the first of the first. *)
LEMMA FrontTaken ==
    ASSUME NEW a \in Seq(Messages), NEW b \in Seq(Messages), a # << >>
    PROVE  /\ a \o b \in Seq(Messages) /\ a \o b # << >>
           /\ Head(a \o b) = Head(a) /\ Tail(a \o b) = Tail(a) \o b
  <1> DEFINE z == a \o b
             f == Tail(a)
             l == Tail(z)
             r == f \o b
  <1>1. /\ z \in Seq(Messages) /\ Len(z) = Len(a) + Len(b)
        /\ Len(a) \in Nat /\ Len(b) \in Nat
        /\ \A i \in 1 .. Len(a) : z[i] = a[i]
        /\ \A i \in 1 .. Len(b) : z[Len(a) + i] = b[i]
    BY ConcatProperties
  <1>2. /\ f \in Seq(Messages) /\ Len(a) >= 1 /\ Len(f) \in Nat /\ Len(f) = Len(a) - 1
        /\ \A i \in 1 .. Len(f) : f[i] = a[i + 1]
        /\ a[1] = Head(a)
    BY Heard
  <1> HIDE DEF z, f
  <1>3. z # << >>
    <2>1. Len(z) # 0
      BY <1>1, <1>2
    <2> QED
      BY <2>1
  <1>4. /\ l \in Seq(Messages) /\ Len(l) = Len(z) - 1
        /\ \A i \in 1 .. Len(l) : l[i] = z[i + 1]
        /\ z[1] = Head(z)
    BY <1>1, <1>3, Heard
  <1>5. /\ r \in Seq(Messages) /\ Len(r) = Len(f) + Len(b)
        /\ \A i \in 1 .. Len(f) : r[i] = f[i]
        /\ \A i \in 1 .. Len(b) : r[Len(f) + i] = b[i]
    <2>1. f \in Seq(Messages)
      BY <1>2
    <2> QED
      BY <2>1, ConcatProperties
  <1> HIDE DEF l, r
  <1>6. Head(z) = Head(a)
    <2>1. 1 \in 1 .. Len(a)
      BY <1>1, <1>2
    <2> QED
      BY <1>1, <1>2, <1>4, <2>1
  <1>7. ASSUME NEW i \in 1 .. Len(l) PROVE l[i] = r[i]
    <2>1. CASE i <= Len(f)
      <3>1. i \in 1 .. Len(f) /\ i + 1 \in 1 .. Len(a)
        BY <1>1, <1>2, <2>1
      <3> QED
        BY <1>1, <1>2, <1>4, <1>5, <3>1
    <2>2. CASE i > Len(f)
      <3>1. PICK j \in 1 .. Len(b) : i = Len(f) + j
        <4>1. i - Len(f) \in 1 .. Len(b) /\ i = Len(f) + (i - Len(f))
          BY <1>1, <1>2, <1>4, <2>2
        <4> QED
          BY <4>1
      <3>2. i + 1 = Len(a) + j
        BY <1>1, <1>2, <3>1
      <3> QED
        BY <1>1, <1>4, <1>5, <3>1, <3>2
    <2> QED
      BY <1>2, <2>1, <2>2
  <1>8. l = r
    <2>1. Len(l) = Len(r)
      BY <1>1, <1>2, <1>4, <1>5
    <2> QED
      BY <1>4, <1>5, <1>7, <2>1, SeqEqual
  <1> QED
    BY <1>1, <1>3, <1>6, <1>8 DEF z, f, l, r

(* An empty queue adds nothing. *)
LEMMA NothingBefore ==
    ASSUME NEW a \in Seq(Messages)
    PROVE  << >> \o a = a /\ a \o << >> = a /\ << >> \in Seq(Messages)
  BY ConcatEmptySeq, EmptySeq

(* Three queues behind one another. *)
LEMMA Together ==
    ASSUME NEW a \in Seq(Messages), NEW b \in Seq(Messages), NEW d \in Seq(Messages)
    PROVE  (a \o b) \o d = a \o (b \o d)
  BY ConcatAssociative

(* process_output writes the first n packets. *)
LEMMA Written ==
    ASSUME NEW a \in Seq(Messages), NEW b \in Seq(Messages), NEW n \in Nat, n <= Len(b)
    PROVE  LET done == a \o SubSeq(b, 1, n)
               rest == SubSeq(b, n + 1, Len(b))
           IN  /\ done \in Seq(Messages) /\ rest \in Seq(Messages)
               /\ Len(done) = Len(a) + n
               /\ done \o rest = a \o b
               /\ EndsIn(a \o b, rest)
  <1> DEFINE x == SubSeq(b, 1, n)
             rest == SubSeq(b, n + 1, Len(b))
             done == a \o x
  <1>1. Len(b) \in Nat /\ Len(a) \in Nat /\ \A i \in 1 .. Len(b) : b[i] \in Messages
    BY ElementOfSeq, LenProperties
  <1>2. x \in Seq(Messages) /\ Len(x) = n /\ \A i \in 1 .. n : x[i] = b[i]
    <2>1. \A i \in 1 .. n : b[i] \in Messages
      BY <1>1
    <2>2. /\ x \in Seq(Messages) /\ Len(x) = IF 1 <= n THEN n - 1 + 1 ELSE 0
          /\ \A i \in 1 .. n - 1 + 1 : x[i] = b[1 + i - 1]
      BY <2>1, SubSeqProperties
    <2> HIDE DEF x
    <2>3. ASSUME NEW i \in 1 .. n PROVE x[i] = b[i]
      <3>1. i \in 1 .. n - 1 + 1 /\ 1 + i - 1 = i
        OBVIOUS
      <3> QED
        BY <2>2, <3>1
    <2> QED
      BY <2>2, <2>3
  <1>3. /\ rest \in Seq(Messages) /\ Len(rest) = Len(b) - n
        /\ \A i \in 1 .. Len(b) - n : rest[i] = b[n + i]
    <2>1. \A i \in n + 1 .. Len(b) : b[i] \in Messages
      BY <1>1
    <2>2. /\ rest \in Seq(Messages)
          /\ Len(rest) = IF n + 1 <= Len(b) THEN Len(b) - (n + 1) + 1 ELSE 0
          /\ \A i \in 1 .. Len(b) - (n + 1) + 1 : rest[i] = b[n + 1 + i - 1]
      BY <1>1, <2>1, SubSeqProperties
    <2> HIDE DEF rest
    <2>3. ASSUME NEW i \in 1 .. Len(b) - n PROVE rest[i] = b[n + i]
      <3>1. i \in 1 .. Len(b) - (n + 1) + 1 /\ n + 1 + i - 1 = n + i
        BY <1>1
      <3> QED
        BY <2>2, <3>1
    <2>4. Len(rest) = Len(b) - n
      BY <1>1, <2>2
    <2> QED
      BY <2>2, <2>3, <2>4
  <1> HIDE DEF x, rest
  <1>4. x \o rest = b
    <2> DEFINE y == x \o rest
    <2>0. x \in Seq(Messages) /\ rest \in Seq(Messages)
      BY <1>2, <1>3
    <2>1. /\ y \in Seq(Messages) /\ Len(y) = Len(x) + Len(rest)
          /\ \A i \in 1 .. Len(x) : y[i] = x[i]
          /\ \A i \in 1 .. Len(rest) : y[Len(x) + i] = rest[i]
      BY <2>0, ConcatProperties
    <2> HIDE DEF y
    <2>2. Len(y) = Len(b)
      BY <1>1, <1>2, <1>3, <2>1
    <2>3. ASSUME NEW i \in 1 .. Len(y) PROVE y[i] = b[i]
      <3>1. CASE i <= n
        <4>1. i \in 1 .. n
          BY <3>1, <2>2, <1>1
        <4> QED
          BY <1>2, <2>1, <4>1
      <3>2. CASE i > n
        <4>1. PICK j \in 1 .. Len(b) - n : i = n + j
          <5>1. i - n \in 1 .. Len(b) - n /\ i = n + (i - n)
            BY <1>1, <2>2, <3>2
          <5> QED
            BY <5>1
        <4> QED
          BY <1>2, <1>3, <2>1, <4>1
      <3> QED
        BY <1>1, <2>2, <3>1, <3>2
    <2>4. y = b
      BY <2>1, <2>2, <2>3, SeqEqual
    <2> QED
      BY <2>4 DEF y
  <1>5. x \in Seq(Messages) /\ rest \in Seq(Messages)
    BY <1>2, <1>3
  <1>6. done \in Seq(Messages) /\ Len(done) = Len(a) + n
    BY <1>2, <1>5, ConcatProperties
  <1>7. done \o rest = a \o b
    <2> HIDE DEF done
    <2>1. a \in Seq(Messages)
      OBVIOUS
    <2>2. (a \o x) \o rest = a \o (x \o rest)
      BY <1>5, <2>1, Together
    <2> QED
      BY <1>4, <2>2 DEF done
  <1>8. EndsIn(a \o b, rest)
    BY <1>5, <1>6, <1>7 DEF EndsIn
  <1> QED
    BY <1>5, <1>6, <1>7, <1>8 DEF x, rest

(* Where a packet waits does not matter, only that it is on its way. *)
LEMMA OutIrrelevant ==
    ASSUME NEW t, NEW in, NEW q, NEW cl, NEW ch, NEW p, K(t, in, q, cl, ch, p),
           NEW out \in Seq(Messages)
    PROVE  K([t EXCEPT !.out = out], in, q, cl, ch, p) /\ [t EXCEPT !.out = out].out = out
  <1> DEFINE u == [t EXCEPT !.out = out]
  <1>1. Typed(t, in, q, cl, ch, p)
    BY DEF K
  <1>2. /\ u \in Sessions /\ u.c = t.c /\ u.used = t.used /\ u.pid = t.pid
        /\ u.over = t.over /\ u.out = out
    BY <1>1 DEF Typed, Sessions
  <1> HIDE DEF u
  <1>3. Typed(u, in, q, cl, ch, p)
    BY <1>1, <1>2 DEF Typed
  <1>4. Spoken(u, in, cl)
    BY <1>2 DEF K, Spoken, Has
  <1>5. Staged(u, in, q, cl, ch)
    BY <1>2 DEF K, Staged
  <1>6. Tied(u, cl, ch, p)
    BY <1>2 DEF K, Tied, Has, BothClosed
  <1>7. Windows(u, in, q, cl)
    BY <1>2 DEF K, Windows
  <1>8. InputKept(u, in, cl, ch, p)
    BY <1>2 DEF K, InputKept
  <1>9. OutputKept(u, q, cl, ch, p)
    BY <1>2 DEF K, OutputKept, Has
  <1>10. Truthful(u, q, cl, ch)
    BY <1>2 DEF K, Truthful, Has
  <1>11. Complete(q, cl, ch)
    BY DEF K
  <1> QED
    BY <1>2, <1>3, <1>4, <1>5, <1>6, <1>7, <1>8, <1>9, <1>10, <1>11 DEF K, u

(* A client that has seen our CLOSE first has seen everything. *)
LEMMA AllTold ==
    ASSUME NEW t, NEW in, NEW q, NEW cl, NEW ch, NEW p, K(t, in, q, cl, ch, p),
           "CLOSE" \in cl.seen, ~cl.early
    PROVE  /\ ch.state # "running" /\ cl.got = ch.wrote
           /\ cl.kind = "exec" => cl.errs = ch.errs
           /\ {"EOF", "STATUS"} \subseteq cl.seen
  <1>1. Typed(t, in, q, cl, ch, p) /\ Orderly(cl.seen, q) /\ q \in Seq(Messages)
    BY DEF K, Truthful, Typed
  <1>2. Len(q) = 0
    <2>1. Len(q) \in Nat
      BY <1>1
    <2>2. ~(1 \in 1 .. Len(q))
      BY <1>1 DEF Orderly
    <2> QED
      BY <2>1, <2>2
  <1>3. q = << >>
    BY <1>1, <1>2, EmptySeq
  <1>4. Bytes(q, "DATA") = 0 /\ Bytes(q, "EXT") = 0
    BY <1>3, BytesEmpty
  <1>5. ~Holds(q, "EOF") /\ ~Holds(q, "STATUS")
    BY <1>2 DEF Holds
  <1>6. cl.got \in Nat /\ cl.errs \in Nat
    BY <1>1, Numbers
  <1> QED
    BY <1>4, <1>5, <1>6 DEF K, Complete, Told

-----------------------------------------------------------------------------
(* The invariant of the specification, and its steps. *)

(* The loop takes what it has read before it reads more, and it finds the  *)
(* connection readable and empty only when the client is gone.             *)
Loop ==
    /\ pc \in {"dispatch", "select", "post", "exit"}
    /\ rset \subseteq {"conn", "rfd", "efd"} /\ wset \subseteq {"conn", "wfd"}
    /\ incoming \in Seq(Messages) /\ toServer \in Seq(Messages)
    /\ toClient \in Seq(Messages)
    /\ Len(toClient) <= SockSize
    /\ pc \in {"select", "post"} => incoming = << >>
    /\ pc = "post" /\ "conn" \in rset /\ toServer = << >> => client.stage = "gone"

(* While the loop runs, the invariant holds of what is read, not           *)
(* dispatched, and of what is still in the connection.                     *)
Served == J(s, incoming \o toServer, toClient, client, child, pipe)

(* After the loop there is no channel, and the child is on its own. *)
Ended ==
    /\ client.stage = "gone" /\ s.c = NoChannel /\ ~s.over
    /\ client \in Clients /\ child \in Children /\ pipe \in Pipes
    /\ OutputComplete
    /\ "CLOSE" \in client.seen /\ ~client.early => child.state # "running"

(* The invariant of the specification. *)
Inv == /\ Loop
       /\ pc # "exit" => Served
       /\ pc = "exit" => Ended

(* It holds before the client has said anything. *)
LEMMA InitInv == Init => Inv
  <1>1. SUFFICES ASSUME Init PROVE Inv
    OBVIOUS
  <1>2. << >> \in Seq(Messages) /\ Len(<< >>) = 0 /\ << >> \o << >> = << >>
    BY NothingBefore
  <1>3. Loop
    BY <1>1, <1>2, SizeAssumption DEF Init, Loop
  <1>4. /\ s.c = NoChannel /\ s.used = FALSE /\ s.pid = FALSE /\ s.over = FALSE
        /\ s.out = << >>
        /\ s \in Sessions
    BY <1>1, <1>2, NoChannelFacts DEF Init, Sessions
  <1>5. /\ client.stage = "new" /\ client.win = 0 /\ client.sent = 0 /\ ~client.eof
        /\ ~client.close /\ client.got = 0 /\ client.errs = 0 /\ client.seen = {}
        /\ ~client.early /\ client \in Clients
    BY <1>1 DEF Init, Clients
  <1>6. /\ child.state = "none" /\ ~child.stdin /\ child.got = 0 /\ child.wrote = 0
        /\ child.errs = 0 /\ child \in Children
    BY <1>1 DEF Init, Children
  <1>7. pipe.in = 0 /\ pipe.out = 0 /\ pipe.err = 0 /\ pipe \in Pipes
    BY <1>1, SizeAssumption DEF Init, Pipes
  <1>8. \A m : ~Holds(<< >>, m) /\ Bytes(<< >>, m) = 0
    BY BytesEmpty DEF Holds
  <1>9. K(s, << >>, << >>, client, child, pipe)
    <2>1. Typed(s, << >>, << >>, client, child, pipe)
      BY <1>2, <1>4, <1>5, <1>6, <1>7 DEF Typed
    <2>2. Spoken(s, << >>, client)
      BY <1>4, <1>8, NoChannelFacts DEF Spoken, Has
    <2>3. Staged(s, << >>, << >>, client, child)
      BY <1>4, <1>5, <1>6, <1>8, NoChannelFacts DEF Staged, Idle
    <2>4. Tied(s, client, child, pipe)
      BY <1>4, <1>6, <1>7, NoChannelFacts DEF Tied
    <2>5. Windows(s, << >>, << >>, client)
      BY <1>4, NoChannelFacts DEF Windows
    <2>6. InputKept(s, << >>, client, child, pipe)
      BY <1>6 DEF InputKept
    <2>7. OutputKept(s, << >>, client, child, pipe)
      BY <1>4, NoChannelFacts DEF OutputKept
    <2>8. Truthful(s, << >>, client, child)
      BY <1>4, <1>5, <1>8, NoChannelFacts DEF Truthful, Told, Orderly
    <2>9. Complete(<< >>, client, child)
      BY <1>5, <1>8 DEF Complete
    <2> QED
      BY <2>1, <2>2, <2>3, <2>4, <2>5, <2>6, <2>7, <2>8, <2>9 DEF K
  <1>10. Served
    BY <1>1, <1>2, <1>4, <1>9 DEF Served, J, Init
  <1>11. pc # "exit"
    BY <1>1 DEF Init
  <1> QED
    BY <1>3, <1>10, <1>11 DEF Inv

(* Each packet that is dispatched. *)
LEMMA DispatchInv ==
    ASSUME Inv, NEW ok \in BOOLEAN, Dispatch(ok)
    PROVE  Inv'
  <1> DEFINE in == incoming \o toServer
             u == dispatch(s, Head(incoming), ok)
  <1>1. /\ pc = "dispatch" /\ incoming # << >> /\ s' = u /\ incoming' = Tail(incoming)
        /\ child' = IF s'.pid /\ ~s.pid
                    THEN [child EXCEPT !.state = "running", !.stdin = TRUE] ELSE child
        /\ pc' = pc /\ rset' = rset /\ wset' = wset /\ pipe' = pipe
        /\ toServer' = toServer /\ toClient' = toClient /\ client' = client
    BY DEF Dispatch
  <1>2. /\ incoming \in Seq(Messages) /\ toServer \in Seq(Messages) /\ Loop
        /\ J(s, in, toClient, client, child, pipe)
    BY <1>1 DEF Inv, Loop, Served
  <1>3. /\ in # << >> /\ Head(in) = Head(incoming) /\ Tail(in) = Tail(incoming) \o toServer
        /\ Tail(incoming) \in Seq(Messages)
    BY <1>1, <1>2, FrontTaken, Heard
  <1> HIDE DEF in
  <1>4. J(s', incoming' \o toServer', toClient', client', child', pipe')
    <2> DEFINE v == dispatch(s, Head(in), ok)
    <2>1. J(v, Tail(in), toClient, client,
            IF v.pid /\ ~s.pid THEN [child EXCEPT !.state = "running", !.stdin = TRUE]
              ELSE child,
            pipe)
      BY <1>2, <1>3, Dispatched
    <2>2. s' = v
      BY <1>1, <1>3
    <2> HIDE DEF v
    <2> QED
      BY <1>1, <1>3, <2>1, <2>2
  <1>5. Loop'
    BY <1>1, <1>2, <1>3 DEF Loop
  <1> QED
    BY <1>1, <1>4, <1>5 DEF Inv, Served

(* wait_until_can_do_something, up to select: the buffers are polled and   *)
(* dead channels are freed.                                                *)
LEMMA PrepareInv ==
    ASSUME Inv, Prepare
    PROVE  Inv'
  <1> DEFINE a == IF Len(s.out) < MuchData THEN channel_output_poll(s) ELSE s
             b == IF a.c.type = "open" THEN channel_pre_open(a) ELSE a
             in == incoming \o toServer
  <1>1. /\ pc = "dispatch" /\ incoming = << >> /\ s' = channel_garbage_collect(b)
        /\ rset' = {"conn"} \cup IF a.c.type = "open" THEN PreRead(a) ELSE {}
        /\ wset' = {fd \in {"conn"} : s'.out # << >>}
                       \cup IF a.c.type = "open" THEN PreWrite(a) ELSE {}
        /\ pc' = "select" /\ incoming' = incoming /\ pipe' = pipe /\ child' = child
        /\ toServer' = toServer /\ toClient' = toClient /\ client' = client
    BY DEF Prepare
  <1>2. Loop /\ J(s, in, toClient, client, child, pipe)
    BY <1>1 DEF Inv, Served
  <1> HIDE DEF in
  <1>3. J(a, in, toClient, client, child, pipe)
    BY <1>2, OutputPoll
  <1> HIDE DEF a
  <1>4. J(b, in, toClient, client, child, pipe)
    <2>1. CASE a.c.type = "open" /\ a.c.ostate = "drain" /\ a.c.output = 0
      <3>1. b = chan_obuf_empty(a)
        BY <2>1 DEF channel_pre_open
      <3> QED
        BY <1>3, <2>1, <3>1, ObufEmpty
    <2>2. CASE ~(a.c.type = "open" /\ a.c.ostate = "drain" /\ a.c.output = 0)
      <3>1. b = a
        BY <2>2 DEF channel_pre_open
      <3> QED
        BY <1>3, <3>1
    <2> QED
      BY <2>1, <2>2
  <1> HIDE DEF b
  <1>5. J(s', incoming' \o toServer', toClient', client', child', pipe')
    BY <1>1, <1>4, GarbageCollect DEF in
  <1>6. rset' \subseteq {"conn", "rfd", "efd"} /\ wset' \subseteq {"conn", "wfd"}
    BY <1>1 DEF PreRead, PreWrite
  <1>7. Loop'
    BY <1>1, <1>2, <1>6 DEF Loop
  <1> QED
    BY <1>1, <1>5, <1>7 DEF Inv, Served

(* collect_children, in whichever state the loop calls it. *)
LEMMA CollectChildren ==
    ASSUME NEW t, NEW in, NEW tc, NEW cl, NEW p, J(t, in, tc, cl, child, p)
    PROVE  J(collect_children(t), in, tc, cl,
             IF Dead THEN [child EXCEPT !.state = "reaped"] ELSE child, p)
  <1>1. CASE Dead
    <2>1. child.state = "zombie"
      BY <1>1 DEF Dead
    <2> QED
      BY <1>1, <2>1, SessionCloseByPid DEF collect_children
  <1>2. CASE ~Dead
    BY <1>2 DEF collect_children
  <1> QED
    BY <1>1, <1>2

(* select returns; a child whose death came in time is collected. *)
LEMMA SelectInv ==
    ASSUME Inv, Select
    PROVE  Inv'
  <1>1. /\ pc = "select" /\ rset' = ReadReady /\ wset' = WriteReady
        /\ s' = collect_children(s)
        /\ child' = IF Dead THEN [child EXCEPT !.state = "reaped"] ELSE child
        /\ pc' = "post" /\ incoming' = incoming /\ pipe' = pipe
        /\ toServer' = toServer /\ toClient' = toClient /\ client' = client
    BY DEF Select, Collected
  <1>2. Loop /\ J(s, incoming \o toServer, toClient, client, child, pipe)
    BY <1>1 DEF Inv, Served
  <1>3. J(s', incoming' \o toServer', toClient', client', child', pipe')
    BY <1>1, <1>2, CollectChildren
  <1>4. ReadReady \subseteq rset /\ WriteReady \subseteq wset
        /\ ("conn" \in ReadReady => toServer # << >> \/ client.stage = "gone")
    BY DEF ReadReady, WriteReady
  <1>5. Loop'
    BY <1>1, <1>2, <1>4 DEF Loop
  <1> QED
    BY <1>1, <1>3, <1>5 DEF Inv, Served

(* After select: channels, packets read, packets written, and the end of   *)
(* the loop when the client is gone.                                       *)
LEMMA AfterSelectInv ==
    ASSUME Inv, AfterSelect
    PROVE  Inv'
  <1> DEFINE in == incoming \o toServer
             r == channel_handle_rfd(s)
             w == channel_handle_wfd(r)
             e == channel_handle_efd_read(w)
             b == IF s.c.type = "open" THEN channel_check_window(e) ELSE s
             after == channel_garbage_collect(b)
             p == IF s.c.type # "open" THEN pipe
                  ELSE [in |-> IF w.c.wfd THEN pipe.in + r.c.output - w.c.output
                        ELSE pipe.in,
                        out |-> pipe.out + s.c.input - r.c.input,
                        err |-> IF s.c.efd /\ ("efd" \in rset \/ s.c.detach_close)
                                THEN pipe.err - Lesser(pipe.err, CHAN_RBUF) ELSE pipe.err]
             gone == client.stage = "gone"
             n == IF "conn" \notin wset THEN 0
                  ELSE IF gone THEN Len(after.out)
                  ELSE Lesser(Len(after.out), SockSize - Len(toClient))
  <1>1. pc = "post" /\ pipe' = p /\ client' = client
    BY DEF AfterSelect
  <1>2. CASE "conn" \in rset /\ toServer = << >>
    <2>1. Exit(after) /\ toServer' = toServer /\ toClient' = toClient
      BY <1>2 DEF AfterSelect
    <2>2. Loop /\ J(s, in, toClient, client, child, pipe)
      BY <1>1 DEF Inv, Served
    <2>3. J(b, in, toClient, client, child, p)
      BY <2>2, HandleAll
    <2> HIDE DEF b, p
    <2>4. J(after, in, toClient, client, child, p)
      BY <2>3, GarbageCollect
    <2> HIDE DEF after, in
    <2> DEFINE t == collect_children(after)
               d == IF Dead THEN [child EXCEPT !.state = "reaped"] ELSE child
    <2>5. J(t, in, toClient, client, d, p)
      BY <2>4, CollectChildren
    <2>6. /\ pc' = "exit" /\ rset' = {} /\ wset' = {} /\ incoming' = << >> /\ child' = d
          /\ s' = [t EXCEPT !.c = NoChannel, !.used = FALSE, !.pid = FALSE, !.out = << >>]
      BY <2>1 DEF Exit, Collected
    <2> HIDE DEF t, d
    <2>7. /\ t \in Sessions /\ ~t.over /\ client \in Clients /\ d \in Children
          /\ p \in Pipes
          /\ K(t, in, toClient \o t.out, client, d, p)
      BY <2>5, JTypes DEF Tied, Typed
    <2>8. s'.c = NoChannel /\ ~s'.over
      BY <2>6, <2>7 DEF Sessions
    <2>9. "CLOSE" \in client.seen /\ ~client.early =>
              /\ d.state # "running" /\ client.got = d.wrote
              /\ client.kind = "exec" => client.errs = d.errs
              /\ {"EOF", "STATUS"} \subseteq client.seen
      BY <2>7, AllTold
    <2>10. client.stage = "gone"
      BY <1>1, <1>2, <2>2 DEF Loop
    <2>11. Ended'
      BY <1>1, <2>6, <2>7, <2>8, <2>9, <2>10 DEF Ended, OutputComplete
    <2>12. Loop'
      BY <1>1, <2>1, <2>2, <2>6, EmptySeq DEF Loop
    <2> QED
      BY <2>6, <2>11, <2>12 DEF Inv
  <1>3. CASE ~("conn" \in rset /\ toServer = << >>)
    <2> DEFINE rest == SubSeq(after.out, n + 1, Len(after.out))
               done == toClient \o SubSeq(after.out, 1, n)
    <2>1. /\ pc' = "dispatch" /\ rset' = {} /\ wset' = {}
          /\ incoming' = IF "conn" \in rset THEN toServer ELSE << >>
          /\ toServer' = IF "conn" \in rset THEN << >> ELSE toServer
          /\ toClient' = IF gone THEN << >> ELSE done
          /\ s' = [after EXCEPT !.out = SubSeq(@, n + 1, Len(@))]
          /\ child' = child
      BY <1>3 DEF AfterSelect
    <2>2. /\ Loop /\ J(s, in, toClient, client, child, pipe) /\ incoming = << >>
          /\ toServer \in Seq(Messages) /\ toClient \in Seq(Messages)
          /\ Len(toClient) <= SockSize
      BY <1>1 DEF Inv, Served, Loop
    <2>3. J(b, in, toClient, client, child, p)
      BY <2>2, HandleAll
    <2> HIDE DEF b, p
    <2>4. J(after, in, toClient, client, child, p)
      BY <2>3, GarbageCollect
    <2> HIDE DEF after
    <2>5. /\ after \in Sessions /\ after.out \in Seq(Messages)
          /\ K(after, in, toClient \o after.out, client, child, p) /\ client \in Clients
      BY <2>4, JTypes DEF Typed
    <2>6. /\ Len(after.out) \in Nat /\ Len(toClient) \in Nat /\ SockSize \in Nat
          /\ n \in Nat /\ n <= Len(after.out)
          /\ ~gone => Len(toClient) + n <= SockSize
      <3>1. Len(after.out) \in Nat /\ Len(toClient) \in Nat /\ SockSize \in Nat
        BY <2>2, <2>5, SizeAssumption
      <3> QED
        BY <2>2, <3>1 DEF Lesser
    <2>7. s' = [after EXCEPT !.out = rest]
      BY <2>1, <2>5 DEF Sessions
    <2> HIDE DEF n
    <2>8. /\ done \in Seq(Messages) /\ rest \in Seq(Messages)
          /\ Len(done) = Len(toClient) + n
          /\ done \o rest = toClient \o after.out
          /\ EndsIn(toClient \o after.out, rest)
      BY <2>2, <2>5, <2>6, Written
    <2> HIDE DEF rest, done
    <2>9. s'.out = rest /\ \A q, cl : K(after, in, q, cl, child, p)
            => K(s', in, q, cl, child, p)
      BY <2>5, <2>7, <2>8, OutIrrelevant
    <2>10. << >> \in Seq(Messages) /\ Len(<< >>) = 0 /\ << >> \o rest = rest
           /\ << >> \o toServer = toServer /\ toServer \o << >> = toServer
      BY <2>2, <2>8, NothingBefore
    <2>11. toClient' \in Seq(Messages) /\ Len(toClient') <= SockSize
      BY <2>1, <2>6, <2>8, <2>10
    <2>12. incoming' \o toServer' = in /\ incoming' \in Seq(Messages)
             /\ toServer' \in Seq(Messages)
      BY <2>1, <2>2, <2>10
    <2>13. K(s', in, toClient' \o s'.out, client, child, p)
      <3>1. CASE gone
        <4>1. K(after, in, rest, [client EXCEPT !.stage = "gone"], child, p)
          BY <2>5, <2>8, Lost
        <4>2. [client EXCEPT !.stage = "gone"] = client
          BY <2>5, <3>1 DEF Clients
        <4>3. toClient' \o s'.out = rest
          BY <2>1, <2>9, <2>10, <3>1
        <4> QED
          BY <2>9, <4>1, <4>2, <4>3
      <3>2. CASE ~gone
        <4>1. toClient' \o s'.out = toClient \o after.out
          BY <2>1, <2>8, <2>9, <3>2
        <4> QED
          BY <2>5, <2>9, <4>1
      <3> QED
        BY <3>1, <3>2
    <2>14. Served'
      BY <1>1, <2>1, <2>11, <2>12, <2>13 DEF Served, J
    <2>15. Loop'
      BY <2>1, <2>11, <2>12 DEF Loop
    <2> QED
      BY <2>1, <2>14, <2>15 DEF Inv
  <1> QED
    BY <1>2, <1>3

(* The steps of the child, which sshd does not see until it selects. *)
LEMMA ChildReadInv ==
    ASSUME Inv, ChildRead
    PROVE  Inv'
  <1> DEFINE d == [child EXCEPT !.got = @ + 1]
             w == [pipe EXCEPT !.in = @ - 1]
  <1>1. /\ child.state = "running" /\ child' = d /\ pipe' = w /\ s' = s /\ client' = client
        /\ pc' = pc /\ rset' = rset /\ wset' = wset /\ incoming' = incoming
        /\ toServer' = toServer /\ toClient' = toClient
    BY DEF ChildRead, loop
  <1>2. Loop'
    BY <1>1 DEF Inv, Loop
  <1>3. CASE pc # "exit"
    <2>1. /\ toClient \in Seq(Messages)
          /\ K(s, incoming \o toServer, toClient \o s.out, client, child, pipe)
      BY <1>3 DEF Inv, Served, J
    <2>2. K(s, incoming \o toServer, toClient \o s.out, client, d, w)
      BY <1>1, <2>1, ChildReads DEF ChildRead
    <2> HIDE DEF d, w
    <2>3. Served'
      BY <1>1, <2>1, <2>2 DEF Served, J
    <2> QED
      BY <1>1, <1>2, <1>3, <2>3 DEF Inv
  <1>4. CASE pc = "exit"
    <2>1. Ended
      BY <1>4 DEF Inv
    <2>2. w \in Pipes
      <3>1. pipe.in \in 0 .. InPipe /\ pipe.in > 0
        BY <2>1 DEF ChildRead, Ended, Pipes
      <3>2. pipe.in - 1 \in 0 .. InPipe
        BY <3>1, SizeAssumption
      <3> QED
        BY <2>1, <3>2 DEF Ended, Pipes
    <2>3. d \in Children
      BY <2>1 DEF Ended, Children
    <2> HIDE DEF d, w
    <2>4. Ended'
      BY <1>1, <2>1, <2>2, <2>3 DEF Ended, OutputComplete
    <2> QED
      BY <1>1, <1>2, <1>4, <2>4 DEF Inv
  <1> QED
    BY <1>3, <1>4

LEMMA ChildWriteInv ==
    ASSUME Inv, ChildWrite
    PROVE  Inv'
  <1> DEFINE d == [child EXCEPT !.wrote = @ + 1]
             w == [pipe EXCEPT !.out = @ + 1]
  <1>1. /\ child.state = "running" /\ child' = d /\ pipe' = w /\ s' = s /\ client' = client
        /\ pc' = pc /\ rset' = rset /\ wset' = wset /\ incoming' = incoming
        /\ toServer' = toServer /\ toClient' = toClient
    BY DEF ChildWrite, loop
  <1>2. Loop'
    BY <1>1 DEF Inv, Loop
  <1>3. CASE pc # "exit"
    <2>1. /\ toClient \in Seq(Messages)
          /\ K(s, incoming \o toServer, toClient \o s.out, client, child, pipe)
      BY <1>3 DEF Inv, Served, J
    <2>2. K(s, incoming \o toServer, toClient \o s.out, client, d, w)
      BY <1>1, <2>1, ChildWrites DEF ChildWrite
    <2> HIDE DEF d, w
    <2>3. Served'
      BY <1>1, <2>1, <2>2 DEF Served, J
    <2> QED
      BY <1>1, <1>2, <1>3, <2>3 DEF Inv
  <1>4. CASE pc = "exit"
    <2>1. Ended
      BY <1>4 DEF Inv
    <2> QED
      BY <2>1, NoChannelFacts DEF Ended, ChildWrite
  <1> QED
    BY <1>3, <1>4

LEMMA ChildErrorInv ==
    ASSUME Inv, ChildError
    PROVE  Inv'
  <1> DEFINE d == [child EXCEPT !.errs = @ + 1]
             w == [pipe EXCEPT !.err = @ + 1]
  <1>1. /\ child.state = "running" /\ child' = d /\ pipe' = w /\ s' = s /\ client' = client
        /\ pc' = pc /\ rset' = rset /\ wset' = wset /\ incoming' = incoming
        /\ toServer' = toServer /\ toClient' = toClient
    BY DEF ChildError, loop
  <1>2. Loop'
    BY <1>1 DEF Inv, Loop
  <1>3. CASE pc # "exit"
    <2>1. /\ toClient \in Seq(Messages)
          /\ K(s, incoming \o toServer, toClient \o s.out, client, child, pipe)
      BY <1>3 DEF Inv, Served, J
    <2>2. K(s, incoming \o toServer, toClient \o s.out, client, d, w)
      BY <1>1, <2>1, ChildErrs DEF ChildError
    <2> HIDE DEF d, w
    <2>3. Served'
      BY <1>1, <2>1, <2>2 DEF Served, J
    <2> QED
      BY <1>1, <1>2, <1>3, <2>3 DEF Inv
  <1>4. CASE pc = "exit"
    <2>1. Ended
      BY <1>4 DEF Inv
    <2> QED
      BY <2>1, NoChannelFacts DEF Ended, ChildError
  <1> QED
    BY <1>3, <1>4

LEMMA ChildClosesStdinInv ==
    ASSUME Inv, ChildClosesStdin
    PROVE  Inv'
  <1> DEFINE d == [child EXCEPT !.stdin = FALSE]
             w == [pipe EXCEPT !.in = 0]
  <1>1. /\ child.state = "running" /\ child' = d /\ pipe' = w /\ s' = s /\ client' = client
        /\ pc' = pc /\ rset' = rset /\ wset' = wset /\ incoming' = incoming
        /\ toServer' = toServer /\ toClient' = toClient
    BY DEF ChildClosesStdin, loop
  <1>2. Loop'
    BY <1>1 DEF Inv, Loop
  <1>3. CASE pc # "exit"
    <2>1. /\ toClient \in Seq(Messages)
          /\ K(s, incoming \o toServer, toClient \o s.out, client, child, pipe)
      BY <1>3 DEF Inv, Served, J
    <2>2. K(s, incoming \o toServer, toClient \o s.out, client, d, w)
      BY <1>1, <2>1, ChildStopsReading DEF ChildClosesStdin
    <2> HIDE DEF d, w
    <2>3. Served'
      BY <1>1, <2>1, <2>2 DEF Served, J
    <2> QED
      BY <1>1, <1>2, <1>3, <2>3 DEF Inv
  <1>4. CASE pc = "exit"
    <2>1. Ended
      BY <1>4 DEF Inv
    <2>2. w \in Pipes
      <3>1. 0 \in 0 .. InPipe
        BY SizeAssumption
      <3> QED
        BY <2>1, <3>1 DEF Ended, Pipes
    <2>3. d \in Children
      BY <2>1 DEF Ended, Children
    <2> HIDE DEF d, w
    <2>4. Ended'
      BY <1>1, <2>1, <2>2, <2>3 DEF Ended, OutputComplete
    <2> QED
      BY <1>1, <1>2, <1>4, <2>4 DEF Inv
  <1> QED
    BY <1>3, <1>4

LEMMA ChildExitInv ==
    ASSUME Inv, ChildExit
    PROVE  Inv'
  <1> DEFINE d == [child EXCEPT !.state = "zombie", !.stdin = FALSE]
             w == [pipe EXCEPT !.in = 0]
  <1>1. /\ child.state = "running" /\ child' = d /\ pipe' = w /\ s' = s /\ client' = client
        /\ pc' = pc /\ rset' = rset /\ wset' = wset /\ incoming' = incoming
        /\ toServer' = toServer /\ toClient' = toClient
    BY DEF ChildExit, loop
  <1>2. Loop'
    BY <1>1 DEF Inv, Loop
  <1>3. CASE pc # "exit"
    <2>1. /\ toClient \in Seq(Messages)
          /\ K(s, incoming \o toServer, toClient \o s.out, client, child, pipe)
      BY <1>3 DEF Inv, Served, J
    <2>2. K(s, incoming \o toServer, toClient \o s.out, client, d, w)
      BY <1>1, <2>1, ChildDies DEF ChildExit
    <2> HIDE DEF d, w
    <2>3. Served'
      BY <1>1, <2>1, <2>2 DEF Served, J
    <2> QED
      BY <1>1, <1>2, <1>3, <2>3 DEF Inv
  <1>4. CASE pc = "exit"
    <2>1. Ended
      BY <1>4 DEF Inv
    <2>2. w \in Pipes
      <3>1. 0 \in 0 .. InPipe
        BY SizeAssumption
      <3> QED
        BY <2>1, <3>1 DEF Ended, Pipes
    <2>3. d \in Children
      BY <2>1 DEF Ended, Children
    <2> HIDE DEF d, w
    <2>4. Ended'
      BY <1>1, <2>1, <2>2, <2>3 DEF Ended, OutputComplete
    <2> QED
      BY <1>1, <1>2, <1>4, <2>4 DEF Inv
  <1> QED
    BY <1>3, <1>4

(* The steps of the client, which sshd does not see until it reads. *)
LEMMA ClientOpensInv ==
    ASSUME Inv, ClientOpens
    PROVE  Inv'
  <1> DEFINE in == incoming \o toServer
             v == [client EXCEPT !.stage = "opening"]
  <1>1. /\ client.stage # "gone" /\ client' = v
        /\ toServer' = Append(toServer, <<"OPEN", ClientWindow>>)
    BY DEF ClientOpens, ClientSends
  <1>2. /\ s' = s /\ pc' = pc /\ rset' = rset /\ wset' = wset /\ incoming' = incoming
        /\ toClient' = toClient /\ child' = child /\ pipe' = pipe
    BY DEF ClientOpens, ClientOnly, loop
  <1>3. /\ Loop /\ pc # "exit" /\ incoming \in Seq(Messages) /\ toServer \in Seq(Messages)
        /\ toClient \in Seq(Messages) /\ K(s, in, toClient \o s.out, client, child, pipe)
    BY <1>1 DEF Inv, Ended, Loop, Served, J
  <1>4. "OPEN" \in Words /\ ClientWindow \in Nat
    BY WordFacts, SizeAssumption
  <1>5. K(s, Append(in, <<"OPEN", ClientWindow>>), toClient \o s.out, v, child, pipe)
    BY <1>3, ClientOpensChannel DEF ClientOpens
  <1>6. incoming \o Append(toServer, <<"OPEN", ClientWindow>>)
          = Append(in, <<"OPEN", ClientWindow>>)
    BY <1>3, <1>4, Behind
  <1>7. toServer' \in Seq(Messages) /\ toServer' # << >>
    <2>1. Append(toServer, <<"OPEN", ClientWindow>>) \in Seq(Messages)
            /\ Append(toServer, <<"OPEN", ClientWindow>>) # << >>
      BY <1>3, <1>4, Said
    <2> QED
      BY <1>1, <2>1
  <1> HIDE DEF v
  <1>8. Served'
    BY <1>1, <1>2, <1>3, <1>5, <1>6 DEF Served, J
  <1>9. Loop'
    BY <1>2, <1>3, <1>7 DEF Loop
  <1> QED
    BY <1>2, <1>3, <1>8, <1>9 DEF Inv

LEMMA ClientRequestsInv ==
    ASSUME Inv, NEW kind \in {"exec", "subsystem"}, ClientRequests(kind)
    PROVE  Inv'
  <1> DEFINE in == incoming \o toServer
             v == [client EXCEPT !.stage = "waiting", !.kind = kind]
  <1>1. /\ client.stage # "gone" /\ client' = v /\ toServer' = Append(toServer, <<kind, 0>>)
    BY DEF ClientRequests, ClientSends
  <1>2. /\ s' = s /\ pc' = pc /\ rset' = rset /\ wset' = wset /\ incoming' = incoming
        /\ toClient' = toClient /\ child' = child /\ pipe' = pipe
    BY DEF ClientRequests, ClientOnly, loop
  <1>3. /\ Loop /\ pc # "exit" /\ incoming \in Seq(Messages) /\ toServer \in Seq(Messages)
        /\ toClient \in Seq(Messages) /\ K(s, in, toClient \o s.out, client, child, pipe)
    BY <1>1 DEF Inv, Ended, Loop, Served, J
  <1>4. kind \in Words /\ 0 \in Nat
    BY WordFacts
  <1>5. K(s, Append(in, <<kind, 0>>), toClient \o s.out, v, child, pipe)
    BY <1>3, ClientRequestsChild DEF ClientRequests
  <1>6. incoming \o Append(toServer, <<kind, 0>>) = Append(in, <<kind, 0>>)
    BY <1>3, <1>4, Behind
  <1>7. toServer' \in Seq(Messages) /\ toServer' # << >>
    <2>1. Append(toServer, <<kind, 0>>) \in Seq(Messages)
            /\ Append(toServer, <<kind, 0>>) # << >>
      BY <1>3, <1>4, Said
    <2> QED
      BY <1>1, <2>1
  <1> HIDE DEF v
  <1>8. Served'
    BY <1>1, <1>2, <1>3, <1>5, <1>6 DEF Served, J
  <1>9. Loop'
    BY <1>2, <1>3, <1>7 DEF Loop
  <1> QED
    BY <1>2, <1>3, <1>8, <1>9 DEF Inv

LEMMA ClientDataInv ==
    ASSUME Inv, NEW n \in 1 .. MaxPacket, ClientData(n)
    PROVE  Inv'
  <1> DEFINE in == incoming \o toServer
             v == [client EXCEPT !.win = @ - n, !.sent = @ + n]
  <1>1. /\ client.stage # "gone" /\ client' = v
        /\ toServer' = Append(toServer, <<"DATA", n>>)
    BY DEF ClientData, ClientSends
  <1>2. /\ s' = s /\ pc' = pc /\ rset' = rset /\ wset' = wset /\ incoming' = incoming
        /\ toClient' = toClient /\ child' = child /\ pipe' = pipe
    BY DEF ClientData, ClientOnly, loop
  <1>3. /\ Loop /\ pc # "exit" /\ incoming \in Seq(Messages) /\ toServer \in Seq(Messages)
        /\ toClient \in Seq(Messages) /\ K(s, in, toClient \o s.out, client, child, pipe)
    BY <1>1 DEF Inv, Ended, Loop, Served, J
  <1>4. "DATA" \in Words /\ n \in Nat
    BY WordFacts, SizeAssumption
  <1>10. n <= client.win
    <2>1. client.win \in Nat /\ Budget \in Int
      <3>1. client \in Clients /\ child \in Children
        BY <1>3 DEF K, Typed
      <3>2. client.win \in Nat /\ client.sent \in Nat /\ child.wrote \in Nat
              /\ child.errs \in Nat
        BY <3>1 DEF Clients, Children
      <3> QED
        BY <3>2, SizeAssumption DEF Budget
    <2>2. n \in 1 .. Lesser(MaxPacket, Lesser(client.win, Budget))
      BY DEF ClientData
    <2> HIDE DEF Budget
    <2> QED
      BY <2>1, <2>2, SizeAssumption DEF Lesser
  <1>5. K(s, Append(in, <<"DATA", n>>), toClient \o s.out, v, child, pipe)
    BY <1>3, <1>10, ClientSendsData DEF ClientData
  <1>6. incoming \o Append(toServer, <<"DATA", n>>) = Append(in, <<"DATA", n>>)
    BY <1>3, <1>4, Behind
  <1>7. toServer' \in Seq(Messages) /\ toServer' # << >>
    <2>1. Append(toServer, <<"DATA", n>>) \in Seq(Messages)
            /\ Append(toServer, <<"DATA", n>>) # << >>
      BY <1>3, <1>4, Said
    <2> QED
      BY <1>1, <2>1
  <1> HIDE DEF v
  <1>8. Served'
    BY <1>1, <1>2, <1>3, <1>5, <1>6 DEF Served, J
  <1>9. Loop'
    BY <1>2, <1>3, <1>7 DEF Loop
  <1> QED
    BY <1>2, <1>3, <1>8, <1>9 DEF Inv

LEMMA ClientEofInv ==
    ASSUME Inv, ClientEof
    PROVE  Inv'
  <1> DEFINE in == incoming \o toServer
             v == [client EXCEPT !.eof = TRUE]
  <1>1. /\ client.stage # "gone" /\ client' = v
        /\ toServer' = Append(toServer, <<"EOF", 0>>)
    BY DEF ClientEof, ClientSends
  <1>2. /\ s' = s /\ pc' = pc /\ rset' = rset /\ wset' = wset /\ incoming' = incoming
        /\ toClient' = toClient /\ child' = child /\ pipe' = pipe
    BY DEF ClientEof, ClientOnly, loop
  <1>3. /\ Loop /\ pc # "exit" /\ incoming \in Seq(Messages) /\ toServer \in Seq(Messages)
        /\ toClient \in Seq(Messages) /\ K(s, in, toClient \o s.out, client, child, pipe)
    BY <1>1 DEF Inv, Ended, Loop, Served, J
  <1>4. "EOF" \in Words /\ 0 \in Nat
    BY WordFacts
  <1>5. K(s, Append(in, <<"EOF", 0>>), toClient \o s.out, v, child, pipe)
    BY <1>3, ClientEndsInput DEF ClientEof
  <1>6. incoming \o Append(toServer, <<"EOF", 0>>) = Append(in, <<"EOF", 0>>)
    BY <1>3, <1>4, Behind
  <1>7. toServer' \in Seq(Messages) /\ toServer' # << >>
    <2>1. Append(toServer, <<"EOF", 0>>) \in Seq(Messages)
            /\ Append(toServer, <<"EOF", 0>>) # << >>
      BY <1>3, <1>4, Said
    <2> QED
      BY <1>1, <2>1
  <1> HIDE DEF v
  <1>8. Served'
    BY <1>1, <1>2, <1>3, <1>5, <1>6 DEF Served, J
  <1>9. Loop'
    BY <1>2, <1>3, <1>7 DEF Loop
  <1> QED
    BY <1>2, <1>3, <1>8, <1>9 DEF Inv

LEMMA ClientCloseInv ==
    ASSUME Inv, ClientClose
    PROVE  Inv'
  <1> DEFINE in == incoming \o toServer
             v == [client EXCEPT !.close = TRUE, !.early = "CLOSE" \notin client.seen]
  <1>1. /\ client.stage # "gone" /\ client' = v
        /\ toServer' = Append(toServer, <<"CLOSE", 0>>)
    BY DEF ClientClose, ClientSends
  <1>2. /\ s' = s /\ pc' = pc /\ rset' = rset /\ wset' = wset /\ incoming' = incoming
        /\ toClient' = toClient /\ child' = child /\ pipe' = pipe
    BY DEF ClientClose, ClientOnly, loop
  <1>3. /\ Loop /\ pc # "exit" /\ incoming \in Seq(Messages) /\ toServer \in Seq(Messages)
        /\ toClient \in Seq(Messages) /\ K(s, in, toClient \o s.out, client, child, pipe)
    BY <1>1 DEF Inv, Ended, Loop, Served, J
  <1>4. "CLOSE" \in Words /\ 0 \in Nat
    BY WordFacts
  <1>5. K(s, Append(in, <<"CLOSE", 0>>), toClient \o s.out, v, child, pipe)
    BY <1>3, ClientCloses DEF ClientClose
  <1>6. incoming \o Append(toServer, <<"CLOSE", 0>>) = Append(in, <<"CLOSE", 0>>)
    BY <1>3, <1>4, Behind
  <1>7. toServer' \in Seq(Messages) /\ toServer' # << >>
    <2>1. Append(toServer, <<"CLOSE", 0>>) \in Seq(Messages)
            /\ Append(toServer, <<"CLOSE", 0>>) # << >>
      BY <1>3, <1>4, Said
    <2> QED
      BY <1>1, <2>1
  <1> HIDE DEF v
  <1>8. Served'
    BY <1>1, <1>2, <1>3, <1>5, <1>6 DEF Served, J
  <1>9. Loop'
    BY <1>2, <1>3, <1>7 DEF Loop
  <1> QED
    BY <1>2, <1>3, <1>8, <1>9 DEF Inv

LEMMA ClientLeavesInv ==
    ASSUME Inv, ClientLeaves
    PROVE  Inv'
  <1> DEFINE in == incoming \o toServer
             v == [client EXCEPT !.stage = "gone"]
  <1>1. /\ pc = "select" /\ client' = v /\ toClient' = << >> /\ s' = s /\ pc' = pc
        /\ rset' = rset /\ wset' = wset /\ incoming' = incoming /\ toServer' = toServer
        /\ child' = child /\ pipe' = pipe
    BY DEF ClientLeaves, loop
  <1>2. /\ Loop /\ toClient \in Seq(Messages) /\ s.out \in Seq(Messages)
        /\ K(s, in, toClient \o s.out, client, child, pipe)
    BY <1>1, JTypes DEF Inv, Served
  <1>3. EndsIn(toClient \o s.out, s.out)
    BY <1>2 DEF EndsIn
  <1>4. K(s, in, s.out, v, child, pipe)
    BY <1>2, <1>3, Lost
  <1>5. << >> \o s.out = s.out /\ << >> \in Seq(Messages) /\ Len(<< >>) = 0
    BY <1>2, NothingBefore
  <1> HIDE DEF v
  <1>6. Served'
    BY <1>1, <1>4, <1>5 DEF Served, J
  <1>7. Loop'
    BY <1>1, <1>2, <1>5, SizeAssumption DEF Loop
  <1> QED
    BY <1>1, <1>6, <1>7 DEF Inv

(* The client reads the first message there is for it. *)
LEMMA ClientReceivesInv ==
    ASSUME Inv, ClientReceives
    PROVE  Inv'
  <1> DEFINE in == incoming \o toServer
             q == toClient \o s.out
             m == Head(toClient)[1]
             n == Head(toClient)[2]
             rest == Tail(toClient)
  <1>1. /\ toClient # << >> /\ client.stage # "gone" /\ toClient' = rest
        /\ client' = CASE m = "CONFIRM" -> [client EXCEPT !.stage = "larval"]
                       [] m = "SUCCESS" -> [client EXCEPT !.stage = "running"]
                       [] m = "FAILURE" -> [client EXCEPT !.stage = "refused"]
                       [] m = "ADJUST" -> [client EXCEPT !.win = @ + n]
                       [] m = "DATA" -> [client EXCEPT !.got = @ + n]
                       [] m = "EXT" -> [client EXCEPT !.errs = @ + n]
                       [] OTHER -> [client EXCEPT !.seen = @ \cup {m}]
        /\ toServer' = IF m \in {"DATA", "EXT"} /\ ~client.close
                       THEN Append(toServer, <<"ADJUST", n>>) ELSE toServer
    BY DEF ClientReceives, ClientSends
  <1>2. /\ s' = s /\ pc' = pc /\ rset' = rset /\ wset' = wset /\ incoming' = incoming
        /\ child' = child /\ pipe' = pipe
    BY DEF ClientReceives, loop
  <1>3. /\ Loop /\ pc # "exit" /\ incoming \in Seq(Messages) /\ toServer \in Seq(Messages)
        /\ toClient \in Seq(Messages) /\ s.out \in Seq(Messages)
        /\ K(s, in, q, client, child, pipe)
    BY <1>1, JTypes DEF Inv, Ended, Loop, Served
  <1>4. /\ q \in Seq(Messages) /\ q # << >> /\ Head(q) = Head(toClient)
        /\ Tail(q) = rest \o s.out
    BY <1>1, <1>3, FrontTaken
  <1>5. /\ rest \in Seq(Messages) /\ Len(rest) <= SockSize /\ m \in Words /\ n \in Nat
    <2>1. /\ rest \in Seq(Messages) /\ Len(toClient) \in Nat
          /\ Len(rest) = Len(toClient) - 1
          /\ m \in Words /\ n \in Nat /\ Len(toClient) <= SockSize
      BY <1>1, <1>3, Heard DEF Loop
    <2> HIDE DEF rest, m, n
    <2> QED
      BY <2>1, SizeAssumption
  <1>6. First(q, m, n)
    BY <1>4 DEF First
  <1>7. /\ "ADJUST" \in Words
        /\ incoming \o Append(toServer, <<"ADJUST", n>>) = Append(in, <<"ADJUST", n>>)
        /\ Append(toServer, <<"ADJUST", n>>) \in Seq(Messages)
        /\ Append(toServer, <<"ADJUST", n>>) # << >>
    <2>1. "ADJUST" \in Words
      BY WordFacts
    <2>2. n \in Nat
      BY <1>5
    <2> HIDE DEF n
    <2>3. incoming \o Append(toServer, <<"ADJUST", n>>) = Append(in, <<"ADJUST", n>>)
      BY <1>3, <2>1, <2>2, Behind
    <2>4. /\ Append(toServer, <<"ADJUST", n>>) \in Seq(Messages)
          /\ Append(toServer, <<"ADJUST", n>>) # << >>
      BY <1>3, <2>1, <2>2, Said
    <2> QED
      BY <2>1, <2>3, <2>4
  <1>8. toServer' \in Seq(Messages) /\ (toServer' = << >> => toServer = << >>)
    BY <1>1, <1>3, <1>7
  <1> HIDE DEF in, q, m, n, rest
  <1>9. K(s, incoming' \o toServer', Tail(q), client', child, pipe)
    <2>1. CASE m \notin {"DATA", "EXT"}
      <3>1. incoming' \o toServer' = in
        BY <1>1, <1>2, <2>1 DEF in
      <3>2. CASE m = "CONFIRM"
        BY <1>1, <1>3, <1>5, <1>6, <3>1, <3>2, HearsConfirm
      <3>3. CASE m = "SUCCESS"
        BY <1>1, <1>3, <1>5, <1>6, <3>1, <3>3, HearsSuccess
      <3>4. CASE m = "FAILURE"
        BY <1>1, <1>3, <1>5, <1>6, <3>1, <3>4, HearsFailure
      <3>5. CASE m = "ADJUST"
        BY <1>1, <1>3, <1>5, <1>6, <3>1, <3>5, HearsGrant
      <3>6. CASE m \in {"EOF", "EOW", "STATUS", "CLOSE", "OPEN", "exec", "subsystem"}
        <4>1. client' = [client EXCEPT !.seen = @ \cup {m}]
          BY <1>1, <3>6
        <4>2. K(s, in, Tail(q), [client EXCEPT !.seen = @ \cup {m}], child, pipe)
          BY <1>1, <1>3, <1>5, <1>6, <3>6, HearsEnd
        <4> QED
          BY <3>1, <4>1, <4>2
      <3> QED
        BY <1>5, <2>1, <3>2, <3>3, <3>4, <3>5, <3>6 DEF Words
    <2>2. CASE m = "DATA" /\ client.close
      <3>1. incoming' \o toServer' = in /\ client' = [client EXCEPT !.got = @ + n]
        BY <1>1, <1>2, <2>2 DEF in
      <3>2. First(q, "DATA", n) /\ client.stage # "gone" /\ n \in Nat
        BY <1>1, <1>5, <1>6, <2>2
      <3>3. K(s, in, Tail(q), [client EXCEPT !.got = @ + n], child, pipe)
        BY <1>3, <2>2, <3>2, Takes
      <3> QED
        BY <3>1, <3>3
    <2>3. CASE m = "DATA" /\ ~client.close
      <3>1. incoming' \o toServer' = Append(in, <<"ADJUST", n>>)
            /\ client' = [client EXCEPT !.got = @ + n]
        BY <1>1, <1>2, <1>7, <2>3
      <3>2. First(q, "DATA", n) /\ client.stage # "gone" /\ n \in Nat
        BY <1>1, <1>5, <1>6, <2>3
      <3>3. K(s, Append(in, <<"ADJUST", n>>), Tail(q), [client EXCEPT !.got = @ + n], child,
              pipe)
        BY <1>3, <2>3, <3>2, TakesAndGrants
      <3> QED
        BY <3>1, <3>3
    <2>4. CASE m = "EXT" /\ client.close
      <3>1. incoming' \o toServer' = in /\ client' = [client EXCEPT !.errs = @ + n]
        BY <1>1, <1>2, <2>4 DEF in
      <3>2. First(q, "EXT", n) /\ client.stage # "gone" /\ n \in Nat
        BY <1>1, <1>5, <1>6, <2>4
      <3>3. K(s, in, Tail(q), [client EXCEPT !.errs = @ + n], child, pipe)
        BY <1>3, <2>4, <3>2, TakesErrors
      <3> QED
        BY <3>1, <3>3
    <2>5. CASE m = "EXT" /\ ~client.close
      <3>1. incoming' \o toServer' = Append(in, <<"ADJUST", n>>)
            /\ client' = [client EXCEPT !.errs = @ + n]
        BY <1>1, <1>2, <1>7, <2>5
      <3>2. First(q, "EXT", n) /\ client.stage # "gone" /\ n \in Nat
        BY <1>1, <1>5, <1>6, <2>5
      <3>3. K(s, Append(in, <<"ADJUST", n>>), Tail(q), [client EXCEPT !.errs = @ + n],
              child, pipe)
        BY <1>3, <2>5, <3>2, TakesErrorsAndGrants
      <3> QED
        BY <3>1, <3>3
    <2> QED
      BY <2>1, <2>2, <2>3, <2>4, <2>5
  <1>10. Served'
    BY <1>1, <1>2, <1>4, <1>5, <1>9 DEF Served, J
  <1>11. Loop'
    BY <1>1, <1>2, <1>3, <1>5, <1>8 DEF Loop
  <1> QED
    BY <1>2, <1>3, <1>10, <1>11 DEF Inv

(* Every step preserves the invariant. *)
LEMMA StepInv == Inv /\ [Next]_vars => Inv'
  <1>1. SUFFICES ASSUME Inv, [Next]_vars PROVE Inv'
    OBVIOUS
  <1>2. CASE \E ok \in BOOLEAN : Dispatch(ok)
    BY <1>1, <1>2, DispatchInv
  <1>3. CASE Prepare
    BY <1>1, <1>3, PrepareInv
  <1>4. CASE Select
    BY <1>1, <1>4, SelectInv
  <1>5. CASE AfterSelect
    BY <1>1, <1>5, AfterSelectInv
  <1>6. CASE Child
    BY <1>1, <1>6, ChildReadInv, ChildWriteInv, ChildErrorInv, ChildClosesStdinInv,
       ChildExitInv
       DEF Child
  <1>7. CASE ClientOpens \/ ClientEof \/ ClientClose \/ ClientLeaves \/ ClientReceives
    BY <1>1, <1>7, ClientOpensInv, ClientEofInv, ClientCloseInv, ClientLeavesInv,
       ClientReceivesInv
  <1>8. CASE \E kind \in {"exec", "subsystem"} : ClientRequests(kind)
    BY <1>1, <1>8, ClientRequestsInv
  <1>9. CASE \E n \in 1 .. MaxPacket : ClientData(n)
    BY <1>1, <1>9, ClientDataInv
  <1>10. CASE UNCHANGED vars
    <2>1. /\ pc' = pc /\ rset' = rset /\ wset' = wset /\ incoming' = incoming /\ s' = s
          /\ pipe' = pipe /\ child' = child /\ toServer' = toServer /\ toClient' = toClient
          /\ client' = client
      BY <1>10 DEF vars, loop
    <2> QED
      BY <1>1, <2>1 DEF Inv, Loop, Served, Ended, OutputComplete
  <1> QED
    BY <1>1, <1>2, <1>3, <1>4, <1>5, <1>6, <1>7, <1>8, <1>9, <1>10 DEF Next, Server, Client

(* The invariant holds in every state of every behaviour, for every size   *)
(* of window, packet, pipe and socket.                                     *)
THEOREM SessionInvariant == Spec => []Inv
  <1>1. Init => Inv
    BY InitInv
  <1>2. Inv /\ [Next]_vars => Inv'
    BY StepInv
  <1> QED
    BY <1>1, <1>2, PTL DEF Spec

-----------------------------------------------------------------------------
(* What the invariant says of the properties. *)

(* The order of the messages is a part of K. *)
LEMMA InvWire == Inv => WireDiscipline
  <1>1. SUFFICES ASSUME Inv, pc # "exit" PROVE WireDiscipline
    BY DEF WireDiscipline
  <1>2. Orderly(client.seen, Pending)
    BY <1>1, JTypes DEF Inv, Served, K, Truthful, Pending
  <1> QED
    BY <1>2 DEF WireDiscipline, Orderly

(* The bounds of the counters follow from the two sums of windows. *)
LEMMA InvTyped == Inv => TypeOK
  <1>1. SUFFICES ASSUME Inv PROVE TypeOK
    OBVIOUS
  <1>2. Loop
    BY <1>1 DEF Inv
  <1>3. CASE pc = "exit"
    <2>1. Ended
      BY <1>1, <1>3 DEF Inv
    <2>2. pipe.in \in 0 .. InPipe /\ pipe.out \in 0 .. OutPipe /\ pipe.err \in 0 .. OutPipe
      BY <2>1 DEF Ended, Pipes
    <2>3. s.c = NoChannel /\ NoChannel \in Channels
      BY <2>1, NoChannelFacts DEF Ended
    <2>4. 0 \in 0 .. WindowMax /\ 0 \in 0 .. ClientWindow
      BY SizeAssumption
    <2> QED
      BY <1>2, <2>2, <2>3, <2>4, NoChannelFacts DEF TypeOK, Loop, Channels
  <1>4. CASE pc # "exit"
    <2> DEFINE in == incoming \o toServer
    <2>1. Typed(s, in, Pending, client, child, pipe)
            /\ K(s, in, Pending, client, child, pipe)
      BY <1>1, <1>4, JTypes DEF Inv, Served, Pending
    <2>2. s.c \in Channels /\ pipe \in Pipes
      BY <2>1 DEF Typed, Sessions
    <2>3. /\ s.c.local_window \in Int /\ s.c.local_consumed \in Nat
          /\ s.c.remote_window \in Nat
          /\ s.c.output \in Nat /\ client.win \in Nat
          /\ Bytes(in, "DATA") \in Nat /\ Bytes(in, "ADJUST") \in Nat
          /\ Bytes(Pending, "DATA") \in Nat /\ Bytes(Pending, "EXT") \in Nat
          /\ Bytes(Pending, "ADJUST") \in Nat /\ WindowMax \in Nat /\ ClientWindow \in Nat
      BY <2>1, Numbers, SizeAssumption
    <2> HIDE DEF in
    <2>4. /\ s.c.local_window \in 0 .. WindowMax /\ s.c.local_consumed \in 0 .. WindowMax
          /\ s.c.remote_window \in 0 .. ClientWindow
      <3>1. CASE s.c.type = "none"
        <4>1. s.c = NoChannel
          BY <2>1, <3>1 DEF K, Tied
        <4> QED
          BY <2>3, <4>1, NoChannelFacts
      <3>2. CASE s.c.type = "larval"
        <4>1. s.c.local_window = 0 /\ s.c.local_consumed = 0
          BY <2>1, <3>2 DEF K, Tied
        <4>2. s.c.remote_window + Bytes(in, "ADJUST") + Bytes(Pending, "DATA")
                + Bytes(Pending, "EXT") <= ClientWindow
          BY <2>1, <3>2 DEF K, Windows
        <4> QED
          BY <2>3, <4>1, <4>2
      <3>3. CASE s.c.type = "open"
        <4>1. /\ client.win + Bytes(in, "DATA") + Bytes(Pending, "ADJUST")
                 <= s.c.local_window
              /\ s.c.local_window + s.c.local_consumed + s.c.output <= WindowMax
              /\ s.c.remote_window + Bytes(in, "ADJUST") + Bytes(Pending, "DATA")
                   + Bytes(Pending, "EXT") <= ClientWindow
          BY <2>1, <3>3 DEF K, Windows
        <4> QED
          BY <2>3, <4>1
      <3> QED
        BY <2>2, <3>1, <3>2, <3>3 DEF Channels
    <2>5. pipe.in \in 0 .. InPipe /\ pipe.out \in 0 .. OutPipe /\ pipe.err \in 0 .. OutPipe
      BY <2>2 DEF Pipes
    <2> QED
      BY <1>2, <2>2, <2>4, <2>5 DEF TypeOK, Loop, Channels
  <1> QED
    BY <1>3, <1>4

(* The sums of the windows are a part of K, with the packets on their way  *)
(* in one queue.                                                           *)
LEMMA InvWindows == Inv => WindowsAgree
  <1>1. SUFFICES ASSUME Inv, s.c.type = "open", client.stage # "gone"
                 PROVE  /\ client.win + (Bytes(incoming, "DATA") + Bytes(toServer, "DATA"))
                             + Bytes(Pending, "ADJUST") = s.c.local_window
                        /\ ~client.close =>
                             s.c.remote_window
                               + (Bytes(incoming, "ADJUST") + Bytes(toServer, "ADJUST"))
                               + Bytes(Pending, "DATA") + Bytes(Pending, "EXT")
                                 = ClientWindow
                        /\ s.c.ostate # "closed" =>
                             s.c.local_window + s.c.local_consumed + s.c.output = WindowMax
    BY InvTyped DEF WindowsAgree
  <1> DEFINE in == incoming \o toServer
  <1>2. /\ incoming \in Seq(Messages) /\ toServer \in Seq(Messages)
        /\ K(s, in, Pending, client, child, pipe)
    BY <1>1, JTypes DEF Inv, Loop, Ended, Served, Pending
  <1>3. /\ Bytes(in, "DATA") = Bytes(incoming, "DATA") + Bytes(toServer, "DATA")
        /\ Bytes(in, "ADJUST") = Bytes(incoming, "ADJUST") + Bytes(toServer, "ADJUST")
    BY <1>2, BytesConcat
  <1> HIDE DEF in
  <1> QED
    BY <1>1, <1>2, <1>3 DEF K, Windows

(* Output is closed while the child reads only after an EOF or a CLOSE,    *)
(* and no data is on its way then.                                         *)
LEMMA InvInput == Inv => InputComplete
  <1> DEFINE in == incoming \o toServer
  <1>1. SUFFICES ASSUME Inv, child.state = "running", child.stdin, ~s.c.wfd, pc # "exit"
                 PROVE  child.got + pipe.in = client.sent
    BY DEF InputComplete
  <1>2. /\ in \in Seq(Messages) /\ Typed(s, in, Pending, client, child, pipe)
        /\ K(s, in, Pending, client, child, pipe)
    BY <1>1, JTypes DEF Inv, Served, Pending, Typed
  <1>3. s.c \in Channels
    BY <1>2 DEF Typed, Sessions
  <1> HIDE DEF in
  <1>4. s.c.type = "open"
    BY <1>1, <1>2 DEF K, Tied
  <1>5. s.c.ostate = "closed" /\ s.c.output = 0
          /\ (Has(s, "eof_rcvd") \/ Has(s, "close_rcvd"))
    BY <1>1, <1>2, <1>3, <1>4 DEF K, Tied, Channels
  <1>6. Bytes(in, "DATA") = 0
    <2>1. CASE Has(s, "close_rcvd")
      BY <1>2, <2>1, BytesEmpty DEF K, Spoken
    <2>2. CASE Has(s, "eof_rcvd")
      <3>1. \A i \in 1 .. Len(in) : in[i][1] # "DATA"
        BY <1>2, <2>2 DEF K, Spoken, Holds
      <3> QED
        BY <1>2, <3>1, BytesNone
    <2> QED
      BY <1>5, <2>1, <2>2
  <1>7. child.got \in Nat /\ pipe.in \in Nat /\ client.sent \in Nat
    BY <1>2, Numbers
  <1>8. child.got + pipe.in + s.c.output + Bytes(in, "DATA") = client.sent
    BY <1>1, <1>2 DEF K, InputKept
  <1> QED
    BY <1>5, <1>6, <1>7, <1>8

(* A client that has seen CLOSE has nothing to read, so that what K says   *)
(* of all on its way is what it has got.                                   *)
LEMMA InvOutput == Inv => OutputComplete
  <1>1. SUFFICES ASSUME Inv, "CLOSE" \in client.seen, ~client.early PROVE OutputComplete
    BY DEF OutputComplete
  <1>2. CASE pc = "exit"
    BY <1>1, <1>2 DEF Inv, Ended
  <1>3. CASE pc # "exit"
    <2>1. K(s, incoming \o toServer, Pending, client, child, pipe)
      BY <1>1, <1>3 DEF Inv, Served, J, Pending
    <2> QED
      BY <1>1, <2>1, AllTold DEF OutputComplete
  <1> QED
    BY <1>2, <1>3

(* Nothing sets s.over. *)
LEMMA InvConnected == Inv => NeverDisconnected
  BY JTypes DEF Inv, Ended, Served, Tied, NeverDisconnected

-----------------------------------------------------------------------------

(* What sshd sends keeps to RFC 4254 whatever the two state machines of    *)
(* nchan.c, the exit message of session.c, the window adjustments and the  *)
(* poll of the buffers add to the queue: nothing after CLOSE, no data      *)
(* after EOF, and each of EOF, CLOSE and the exit status at most once.     *)
THEOREM WireDisciplineHolds == Spec => []WireDiscipline
  BY SessionInvariant, InvWire, PTL

(* Both ends agree about both windows of the channel in every state, with  *)
(* the packets on their way counted, for every window, packet and pipe     *)
(* size, and no counter of channels.c leaves its bounds.                   *)
THEOREM WindowsAgreeHolds == Spec => []WindowsAgree
  BY SessionInvariant, InvWindows, PTL

(* The input of the child is closed (chan_shutdown_write) only when every  *)
(* byte the client sent is in the pipe or has been read from it.           *)
THEOREM InputCompleteHolds == Spec => []InputComplete
  BY SessionInvariant, InvInput, PTL

(* A client that sees CLOSE before it sent its own has had all that the    *)
(* child wrote, EOF and the exit status, however the death of the child,   *)
(* the pipes and the windows interleave.                                   *)
THEOREM OutputCompleteHolds == Spec => []OutputComplete
  BY SessionInvariant, InvOutput, PTL

(* Neither dispatch nor session_exit_message meets a channel that is gone: *)
(* ssh_packet_disconnect and fatal are never reached with a client that    *)
(* keeps to the protocol.                                                  *)
THEOREM NeverDisconnectedHolds == Spec => []NeverDisconnected
  BY SessionInvariant, InvConnected, PTL

=============================================================================

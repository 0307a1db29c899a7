--------------------------- MODULE SftpLoopProofs ---------------------------
(***************************************************************************)
(* Proofs about the main loop of sftp-server, for all sizes of requests,   *)
(* answers, buffers and pipes: the queues fit, the input stays framed, and *)
(* every request with a handler is answered once.                          *)
(***************************************************************************)
EXTENDS SftpLoop, SequenceTheorems, TLAPS

Unit == Nat \X Nat

(* All that the client has sent and the server not processed. *)
Input == iqueue \o inpipe \o cbuf

(* A sequence of requests of rs, from number d + 1 on; the last may be cut *)
(* off.  Where a request begins all of it follows, and then the next one.  *)
Requested(q, d, rs) ==
    /\ q # << >> => q[1] = <<d + 1, 1>>
    /\ \A i \in 1 .. Len(q) : q[i][1] \in 1 .. Len(rs)
    /\ \A i \in 1 .. Len(q) : q[i][2] = 1 =>
         LET k == q[i][1] IN
         /\ \A j \in i .. Len(q) : j < i + rs[k].size => q[j] = <<k, j - i + 1>>
         /\ i + rs[k].size <= Len(q) => q[i + rs[k].size] = <<k + 1, 1>>

(* Nothing of it is cut off. *)
Whole(q, d, rs) ==
    /\ q = << >> => d = Len(rs)
    /\ \A i \in 1 .. Len(q) : q[i][2] = 1 =>
         LET k == q[i][1] IN
         /\ i + rs[k].size <= Len(q) + 1
         /\ i + rs[k].size = Len(q) + 1 => k = Len(rs)

Types ==
    /\ TypeOK
    /\ done \in Nat
    /\ iqueue \in Seq(Unit) /\ oqueue \in Seq(Unit) /\ cbuf \in Seq(Unit)
    /\ inpipe \in Seq(Unit) /\ outpipe \in Seq(Unit)
    /\ reqs \in Seq(Requests) /\ replies \in Seq(Nat)

(* What sshbuf_check_reserve has granted is still there. *)
Room ==
    /\ Len(iqueue) <= MaxSize /\ Len(oqueue) <= MaxSize
    /\ pc = "read" => Len(iqueue) + BufSize <= MaxSize
    /\ pc = "read" /\ wset => olen > 0

InputFramed == Requested(Input, done, reqs) /\ (~closed => Whole(Input, done, reqs))

(* No answer is ahead of the requests processed. *)
NotAhead ==
    LET out == outpipe \o oqueue
    IN  \A i \in 1 .. Len(out) : out[i][1] <= done

Inv == Types /\ Room /\ InputFramed /\ NotAhead /\ OneAnswerEach

-----------------------------------------------------------------------------
(* Lemmas about sequences. *)

LEMMA Grouping ==
    ASSUME NEW s \in Seq(Unit), NEW u \in Seq(Unit), NEW v \in Seq(Unit)
    PROVE  (s \o u) \o v = s \o (u \o v)
  <1>1. PICK U : U = Unit
    OBVIOUS
  <1>2. s \in Seq(U) /\ u \in Seq(U) /\ v \in Seq(U)
    BY <1>1
  <1> QED
    BY <1>2, ConcatAssociative, SMTT(60)


LEMMA UptoFacts ==
    ASSUME NEW q \in Seq(Unit), NEW n \in 0 .. Len(q)
    PROVE  /\ Upto(q, n) \in Seq(Unit) /\ Len(Upto(q, n)) = n /\ Len(q) \in Nat
           /\ \A i \in 1 .. n : Upto(q, n)[i] = q[i]
  BY LenProperties, SubSeqProperties DEF Upto

LEMMA AfterFacts ==
    ASSUME NEW q \in Seq(Unit), NEW n \in 0 .. Len(q)
    PROVE  /\ After(q, n) \in Seq(Unit) /\ Len(After(q, n)) = Len(q) - n /\ Len(q) \in Nat
           /\ \A i \in 1 .. Len(q) - n : After(q, n)[i] = q[n + i]
  BY LenProperties, SubSeqProperties DEF After

(* The units moved from the front of t to the end of s stay in place. *)
LEMMA Moved ==
    ASSUME NEW s \in Seq(Unit), NEW t \in Seq(Unit), NEW n \in 0 .. Len(t)
    PROVE  /\ Upto(t, n) \in Seq(Unit) /\ Len(Upto(t, n)) = n
           /\ After(t, n) \in Seq(Unit) /\ Len(After(t, n)) = Len(t) - n
           /\ s \o Upto(t, n) \in Seq(Unit)
           /\ Len(s \o Upto(t, n)) = Len(s) + n
           /\ (s \o Upto(t, n)) \o After(t, n) = s \o t
  <1>1. Upto(t, n) \in Seq(Unit) /\ Len(Upto(t, n)) = n
    BY UptoFacts
  <1>2. After(t, n) \in Seq(Unit) /\ Len(After(t, n)) = Len(t) - n
    BY AfterFacts
  <1>3. s \o Upto(t, n) \in Seq(Unit) /\ Len(s \o Upto(t, n)) = Len(s) + n
    BY <1>1, ConcatProperties
  <1>4. Upto(t, n) \o After(t, n) = t
    <2>1. /\ Len(t) \in Nat /\ 1 \in 1 .. Len(t) + 1 /\ n \in 1 - 1 .. Len(t)
          /\ Len(t) \in n .. Len(t)
      BY LenProperties
    <2>2. SubSeq(t, 1, n) \o SubSeq(t, n + 1, Len(t)) = SubSeq(t, 1, Len(t))
      BY <2>1, ConcatAdjacentSubSeq, Zenon
    <2> QED
      BY <2>2, SubSeqFull, Zenon DEF Upto, After
  <1>5. (s \o Upto(t, n)) \o After(t, n) = s \o (Upto(t, n) \o After(t, n))
    BY <1>1, <1>2, Grouping
  <1> QED
    BY <1>1, <1>2, <1>3, <1>4, <1>5

(* What is dropped from the front of s is dropped from the front of s \o t. *)
LEMMA Dropped ==
    ASSUME NEW s \in Seq(Unit), NEW t \in Seq(Unit), NEW n \in 0 .. Len(s)
    PROVE  After(s, n) \o t = After(s \o t, n)
  <1>1. After(s, n) \in Seq(Unit) /\ Len(After(s, n)) = Len(s) - n
        /\ \A i \in 1 .. Len(s) - n : After(s, n)[i] = s[n + i]
    BY AfterFacts
  <1>2. s \o t \in Seq(Unit) /\ Len(s \o t) = Len(s) + Len(t)
    BY ConcatProperties
  <1>3. After(s \o t, n) \in Seq(Unit) /\ Len(After(s \o t, n)) = Len(s) + Len(t) - n
        /\ \A i \in 1 .. Len(s) + Len(t) - n : After(s \o t, n)[i] = (s \o t)[n + i]
    <2>1. n \in 0 .. Len(s \o t)
      BY <1>2, LenProperties
    <2>2. /\ After(s \o t, n) \in Seq(Unit) /\ Len(After(s \o t, n)) = Len(s \o t) - n
          /\ \A i \in 1 .. Len(s \o t) - n : After(s \o t, n)[i] = (s \o t)[n + i]
      BY <1>2, <2>1, AfterFacts, Zenon
    <2> QED
      BY <1>2, <2>2
  <1>4. /\ After(s, n) \o t \in Seq(Unit)
        /\ Len(After(s, n) \o t) = Len(After(s, n)) + Len(t)
        /\ \A i \in 1 .. Len(After(s, n)) + Len(t) : (After(s, n) \o t)[i] =
              IF i <= Len(After(s, n)) THEN After(s, n)[i] ELSE t[i - Len(After(s, n))]
    BY <1>1, ConcatProperties, Zenon
  <1>5. \A i \in 1 .. Len(s) + Len(t) : (s \o t)[i] =
              IF i <= Len(s) THEN s[i] ELSE t[i - Len(s)]
    BY ConcatProperties, Zenon
  <1>6. Len(s) \in Nat /\ Len(t) \in Nat
    BY LenProperties
  <1>7. Len(After(s, n) \o t) = Len(s) + Len(t) - n
    BY <1>1, <1>4, <1>6
  <1>8. ASSUME NEW i \in 1 .. Len(s) + Len(t) - n
        PROVE  (After(s, n) \o t)[i] = After(s \o t, n)[i]
    BY <1>1, <1>3, <1>4, <1>5, <1>6
  <1> QED
    BY <1>3, <1>4, <1>7, <1>8, SeqEqual

LEMMA UnitsFacts ==
    ASSUME NEW k \in Nat, NEW n \in Nat
    PROVE  /\ Units(k, n) \in Seq(Unit) /\ Len(Units(k, n)) = n
           /\ \A j \in 1 .. n : Units(k, n)[j] = <<k, j>>
  BY DEF Units, Unit

LEMMA ReplyFacts ==
    ASSUME NEW k \in Nat, NEW n \in Nat
    PROVE  /\ Reply(k, n) \in Seq(Unit) /\ Len(Reply(k, n)) = n
           /\ \A j \in 1 .. n : Reply(k, n)[j] = <<k, n - j>>
  BY DEF Reply, Unit

-----------------------------------------------------------------------------
(* Lemmas about sequences of requests. *)

(* A request has a size. *)
LEMMA SizeFacts ==
    ASSUME NEW rs \in Seq(Requests), NEW k \in 1 .. Len(rs)
    PROVE  rs[k] \in Requests /\ rs[k].size \in Nat /\ rs[k].size >= 1 /\ rs[k].kind \in Kinds
  <1>1. rs[k] \in Requests
    BY ElementOfSeq
  <1> QED
    BY <1>1, SizesAssumption

(* A client that leaves cuts off the end. *)
LEMMA RequestedPrefix ==
    ASSUME NEW q \in Seq(Unit), NEW d \in Nat, NEW rs \in Seq(Requests),
           NEW n \in 0 .. Len(q), Requested(q, d, rs)
    PROVE  Requested(Upto(q, n), d, rs)
  <1> DEFINE p == Upto(q, n)
  <1>1. /\ p \in Seq(Unit) /\ Len(p) = n /\ Len(q) \in Nat
        /\ \A i \in 1 .. n : p[i] = q[i]
    BY UptoFacts
  <1> HIDE DEF p
  <1>2. p # << >> => p[1] = <<d + 1, 1>>
    BY <1>1, EmptySeq DEF Requested
  <1>3. \A i \in 1 .. Len(p) : p[i][1] \in 1 .. Len(rs)
    BY <1>1 DEF Requested
  <1>4. ASSUME NEW i \in 1 .. Len(p), p[i][2] = 1
        PROVE  LET k == p[i][1] IN
               /\ \A j \in i .. Len(p) : j < i + rs[k].size => p[j] = <<k, j - i + 1>>
               /\ i + rs[k].size <= Len(p) => p[i + rs[k].size] = <<k + 1, 1>>
    <2> DEFINE k == p[i][1]
    <2>1. k \in 1 .. Len(rs) /\ i \in 1 .. Len(q) /\ q[i] = p[i]
      BY <1>1, <1>3
    <2>2. rs[k].size \in Nat /\ rs[k].size >= 1
      BY <2>1, SizeFacts
    <2>3. /\ \A j \in i .. Len(q) : j < i + rs[k].size => q[j] = <<k, j - i + 1>>
          /\ i + rs[k].size <= Len(q) => q[i + rs[k].size] = <<k + 1, 1>>
      BY <1>4, <2>1 DEF Requested
    <2> HIDE DEF k
    <2>4. \A j \in i .. Len(p) : j < i + rs[k].size => p[j] = <<k, j - i + 1>>
      BY <1>1, <2>2, <2>3, SMTT(60)
    <2>5. i + rs[k].size <= Len(p) => p[i + rs[k].size] = <<k + 1, 1>>
      BY <1>1, <2>2, <2>3, SMTT(60)
    <2> QED
      BY <2>4, <2>5 DEF k
  <1>5. Requested(p, d, rs)
    BY <1>2, <1>3, <1>4 DEF Requested
  <1> QED
    BY <1>5 DEF p

(* Where the second of three stretches of a queue of l units ends. *)
LEMMA ShiftedIndex ==
    ASSUME NEW l \in Nat, NEW n \in Nat, NEW i \in Nat, NEW z \in Nat,
           i >= 1, n <= l, i + z <= l - n
    PROVE  i + z \in 1 .. l - n /\ (n + i) + z <= l /\ n + (i + z) = (n + i) + z
  OBVIOUS

(* process() drops exactly one request. *)
LEMMA RequestedDrop ==
    ASSUME NEW q \in Seq(Unit), NEW d \in Nat, NEW rs \in Seq(Requests),
           Requested(q, d, rs), q # << >>, rs[d + 1].size <= Len(q)
    PROVE  Requested(After(q, rs[d + 1].size), d + 1, rs)
  <1> DEFINE n == rs[d + 1].size
             p == After(q, n)
  <1>1. Len(q) \in Nat /\ Len(q) >= 1 /\ q[1] = <<d + 1, 1>> /\ d + 1 \in 1 .. Len(rs)
        /\ Len(rs) \in Nat
    BY EmptySeq, LenProperties DEF Requested
  <1>2. n \in Nat /\ n >= 1 /\ n <= Len(q)
    BY <1>1, SizeFacts
  <1> HIDE DEF n
  <1>3. /\ p \in Seq(Unit) /\ Len(p) = Len(q) - n
        /\ \A i \in 1 .. Len(q) - n : p[i] = q[n + i]
    BY <1>1, <1>2, AfterFacts
  <1> HIDE DEF p
  <1>4. 1 + n <= Len(q) => q[1 + n] = <<d + 2, 1>>
    BY <1>1, <1>2 DEF Requested, n
  <1>5. p # << >> => p[1] = <<(d + 1) + 1, 1>>
    BY <1>1, <1>2, <1>3, <1>4, EmptySeq
  <1>6. \A i \in 1 .. Len(p) : p[i][1] \in 1 .. Len(rs)
    BY <1>1, <1>2, <1>3 DEF Requested
  <1>7. ASSUME NEW i \in 1 .. Len(p), p[i][2] = 1
        PROVE  LET k == p[i][1] IN
               /\ \A j \in i .. Len(p) : j < i + rs[k].size => p[j] = <<k, j - i + 1>>
               /\ i + rs[k].size <= Len(p) => p[i + rs[k].size] = <<k + 1, 1>>
    <2> DEFINE k == p[i][1]
    <2>1. k \in 1 .. Len(rs) /\ n + i \in 1 .. Len(q) /\ q[n + i] = p[i]
      BY <1>1, <1>2, <1>3, <1>6
    <2>2. rs[k].size \in Nat /\ rs[k].size >= 1
      BY <2>1, SizeFacts
    <2>3. /\ \A j \in (n + i) .. Len(q) : j < (n + i) + rs[k].size => q[j] = <<k, j - (n + i) + 1>>
          /\ (n + i) + rs[k].size <= Len(q) => q[(n + i) + rs[k].size] = <<k + 1, 1>>
      BY <1>7, <2>1 DEF Requested
    <2> HIDE DEF k
    <2>5. ASSUME NEW j \in i .. Len(p), j < i + rs[k].size
          PROVE  p[j] = <<k, j - i + 1>>
      <3>1. n + j \in (n + i) .. Len(q) /\ n + j < (n + i) + rs[k].size /\ p[j] = q[n + j]
        BY <1>1, <1>2, <1>3, <2>2, <2>5, SMTT(60)
      <3>2. PICK m : m = n + j
        OBVIOUS
      <3>3. q[m] = <<k, m - (n + i) + 1>>
        BY <2>3, <3>1, <3>2
      <3>4. m - (n + i) + 1 = j - i + 1
        BY <1>1, <1>2, <1>3, <2>5, <3>2
      <3> QED
        BY <3>1, <3>2, <3>3, <3>4
    <2>6. ASSUME i + rs[k].size <= Len(p)
          PROVE  p[i + rs[k].size] = <<k + 1, 1>>
      <3>1. PICK z \in Nat : z = rs[k].size /\ z >= 1
        BY <2>2
      <3>2. i \in Nat /\ i >= 1 /\ i + z <= Len(q) - n
        BY <1>3, <2>6, <3>1
      <3>3. i + z \in 1 .. Len(q) - n /\ (n + i) + z <= Len(q) /\ n + (i + z) = (n + i) + z
        <4>1. Len(q) \in Nat /\ n \in Nat /\ z \in Nat /\ n <= Len(q)
          BY <1>1, <1>2, <3>1
        <4>2. PICK l \in Nat : l = Len(q)
          BY <4>1
        <4>3. i + z \in 1 .. l - n /\ (n + i) + z <= l /\ n + (i + z) = (n + i) + z
          BY <3>2, <4>1, <4>2, ShiftedIndex, SMTT(30)
        <4> QED
          BY <3>2, <4>2, <4>3
      <3>4. p[i + z] = q[n + (i + z)]
        BY <1>3, <3>3
      <3>5. q[(n + i) + z] = <<k + 1, 1>>
        BY <2>3, <3>1, <3>3
      <3> QED
        BY <3>1, <3>3, <3>4, <3>5
    <2>8. \A j \in i .. Len(p) : j < i + rs[k].size => p[j] = <<k, j - i + 1>>
      BY <2>5
    <2> QED
      BY <2>6, <2>8 DEF k
  <1>9. Requested(p, d + 1, rs)
    BY <1>5, <1>6, <1>7 DEF Requested
  <1> QED
    BY <1>9 DEF p, n

(* What remains is not cut off if it was not before. *)
LEMMA WholeDrop ==
    ASSUME NEW q \in Seq(Unit), NEW d \in Nat, NEW rs \in Seq(Requests),
           Requested(q, d, rs), Whole(q, d, rs), q # << >>, rs[d + 1].size <= Len(q)
    PROVE  Whole(After(q, rs[d + 1].size), d + 1, rs)
  <1> DEFINE n == rs[d + 1].size
             p == After(q, n)
  <1>1. Len(q) \in Nat /\ Len(q) >= 1 /\ q[1] = <<d + 1, 1>> /\ d + 1 \in 1 .. Len(rs)
        /\ Len(rs) \in Nat
    BY EmptySeq, LenProperties DEF Requested
  <1>2. n \in Nat /\ n >= 1 /\ n <= Len(q)
    BY <1>1, SizeFacts
  <1>3. n = Len(q) => d + 1 = Len(rs)
    BY <1>1, <1>2, SMTT(30) DEF Whole
  <1> HIDE DEF n
  <1>4. /\ p \in Seq(Unit) /\ Len(p) = Len(q) - n
        /\ \A i \in 1 .. Len(q) - n : p[i] = q[n + i]
    BY <1>1, <1>2, AfterFacts
  <1> HIDE DEF p
  <1>5. p = << >> => d + 1 = Len(rs)
    BY <1>1, <1>2, <1>3, <1>4, EmptySeq
  <1>6. ASSUME NEW i \in 1 .. Len(p), p[i][2] = 1
        PROVE  LET k == p[i][1] IN
               /\ i + rs[k].size <= Len(p) + 1
               /\ i + rs[k].size = Len(p) + 1 => k = Len(rs)
    <2> DEFINE k == p[i][1]
               z == rs[k].size
    <2>1. n + i \in 1 .. Len(q) /\ q[n + i] = p[i]
      BY <1>1, <1>2, <1>4, SMTT(30)
    <2>2. k \in 1 .. Len(rs)
      BY <2>1 DEF Requested
    <2>3. z \in Nat
      BY <2>2, SizeFacts
    <2>4. (n + i) + z <= Len(q) + 1 /\ ((n + i) + z = Len(q) + 1 => k = Len(rs))
      BY <1>6, <2>1 DEF Whole
    <2> HIDE DEF k, z
    <2>5. Len(p) = Len(q) - n /\ i \in Nat
      BY <1>1, <1>2, <1>4
    <2>6. i + z <= Len(p) + 1
      BY <1>1, <1>2, <2>3, <2>4, <2>5, SMTT(30)
    <2>7. i + z = Len(p) + 1 => (n + i) + z = Len(q) + 1
      BY <1>1, <1>2, <2>3, <2>5
    <2> QED
      BY <2>4, <2>6, <2>7 DEF k, z
  <1>7. Whole(p, d + 1, rs)
    BY <1>5, <1>6 DEF Whole
  <1> QED
    BY <1>7 DEF p, n

(* The client writes another request behind what is whole. *)
LEMMA RequestedAppend ==
    ASSUME NEW q \in Seq(Unit), NEW d \in Nat, NEW rs \in Seq(Requests), NEW r \in Requests,
           Requested(q, d, rs), Whole(q, d, rs)
    PROVE  /\ Requested(q \o Units(Len(rs) + 1, r.size), d, Append(rs, r))
           /\ Whole(q \o Units(Len(rs) + 1, r.size), d, Append(rs, r))
  <1> DEFINE m == Len(rs) + 1
             s == r.size
             u == Units(m, s)
             p == q \o u
             t == Append(rs, r)
             L == Len(q)
  <1>1. Len(rs) \in Nat /\ m \in Nat /\ L \in Nat /\ s \in Nat /\ s >= 1
    BY LenProperties, SizesAssumption
  <1>2. u \in Seq(Unit) /\ Len(u) = s /\ \A j \in 1 .. s : u[j] = <<m, j>>
    BY <1>1, UnitsFacts
  <1>3. t \in Seq(Requests) /\ Len(t) = m /\ t[m] = r /\ \A k \in 1 .. Len(rs) : t[k] = rs[k]
    BY <1>1, AppendProperties
  <1>4. /\ p \in Seq(Unit) /\ Len(p) = Len(q) + Len(u)
        /\ \A i \in 1 .. Len(q) + Len(u) : p[i] = IF i <= Len(q) THEN q[i] ELSE u[i - Len(q)]
    <2> HIDE DEF u
    <2> QED
      BY <1>2, ConcatProperties, Zenon
  <1> HIDE DEF u, p, t, s
  <1>5. Len(p) = L + s /\ p # << >>
    BY <1>1, <1>2, <1>4, EmptySeq
  <1>6. \A i \in 1 .. L : p[i] = q[i]
    BY <1>1, <1>2, <1>4
  <1>7. \A i \in (L + 1) .. (L + s) : p[i] = <<m, i - L>>
    BY <1>1, <1>2, <1>4
  <1>8. \A i \in 1 .. L : q[i][1] \in 1 .. Len(rs)
    BY DEF Requested
  <1> HIDE DEF L, m
  <1>9. m = Len(rs) + 1
    BY DEF m
  <1>10. p[1] = <<d + 1, 1>>
    <2>1. CASE q = << >>
      <3>1. L = 0 /\ m = d + 1
        BY <1>1, <1>9, <2>1, EmptySeq DEF Whole, L
      <3> QED
        BY <1>1, <1>7, <3>1
    <2>2. CASE q # << >>
      <3>1. L >= 1 /\ q[1] = <<d + 1, 1>>
        BY <1>1, <2>2, EmptySeq DEF Requested, L
      <3> QED
        BY <1>1, <1>6, <3>1
    <2> QED
      BY <2>1, <2>2
  <1>11. ASSUME NEW i \in 1 .. Len(p) PROVE p[i][1] \in 1 .. Len(t)
    <2>1. CASE i <= L
      BY <1>1, <1>3, <1>5, <1>6, <1>8, <1>9, <2>1
    <2>2. CASE i > L
      BY <1>1, <1>3, <1>5, <1>7, <1>9, <2>2
    <2> QED
      BY <1>1, <1>5, <2>1, <2>2
  <1>12. ASSUME NEW i \in 1 .. Len(p), p[i][2] = 1
        PROVE  LET k == p[i][1] IN
               /\ \A j \in i .. Len(p) : j < i + t[k].size => p[j] = <<k, j - i + 1>>
               /\ i + t[k].size <= Len(p) => p[i + t[k].size] = <<k + 1, 1>>
               /\ i + t[k].size <= Len(p) + 1
               /\ i + t[k].size = Len(p) + 1 => k = Len(t)
    <2> DEFINE k == p[i][1]
               z == t[k].size
    <2>1. CASE i <= L
      <3>1. i \in 1 .. L /\ p[i] = q[i]
        BY <1>1, <1>5, <1>6, <2>1
      <3>2. k \in 1 .. Len(rs) /\ k = q[i][1] /\ q[i][2] = 1
        BY <1>8, <1>12, <3>1
      <3>3. t[k] = rs[k] /\ z = rs[k].size
        BY <1>3, <3>2
      <3>4. z \in Nat /\ z >= 1
        BY <3>2, <3>3, SizeFacts
      <3>5. /\ \A j \in i .. L : j < i + z => q[j] = <<k, j - i + 1>>
            /\ i + z <= L => q[i + z] = <<k + 1, 1>>
        BY <3>1, <3>2, <3>3 DEF Requested, L
      <3>6. i + z <= L + 1 /\ (i + z = L + 1 => k = Len(rs))
        BY <3>1, <3>2, <3>3 DEF Whole, L
      <3> HIDE DEF k, z
      <3>7. ASSUME NEW j \in i .. Len(p), j < i + z PROVE p[j] = <<k, j - i + 1>>
        <4>1. j \in i .. L /\ j \in 1 .. L
          BY <1>1, <3>1, <3>4, <3>6, <3>7
        <4> QED
          BY <1>6, <3>5, <3>7, <4>1
      <3>8. ASSUME i + z <= Len(p) PROVE p[i + z] = <<k + 1, 1>>
        <4>1. CASE i + z <= L
          <5>1. i + z \in 1 .. L
            BY <1>1, <3>1, <3>4, <4>1
          <5> QED
            BY <1>6, <3>5, <4>1, <5>1
        <4>2. CASE i + z = L + 1
          <5>1. p[L + 1] = <<m, 1>>
            BY <1>1, <1>7
          <5> QED
            BY <1>9, <3>6, <4>2, <5>1
        <4> QED
          BY <1>1, <3>1, <3>4, <3>6, <4>1, <4>2
      <3>9. i + z <= Len(p) + 1 /\ i + z # Len(p) + 1
        BY <1>1, <1>5, <3>1, <3>4, <3>6
      <3>10. \A j \in i .. Len(p) : j < i + z => p[j] = <<k, j - i + 1>>
        BY <3>7
      <3> QED
        BY <3>8, <3>9, <3>10 DEF k, z
    <2>2. CASE i > L
      <3>1. p[i] = <<m, i - L>>
        BY <1>1, <1>5, <1>7, <2>2
      <3>2. i = L + 1 /\ k = m
        BY <1>1, <1>12, <2>2, <3>1
      <3>3. z = s
        BY <1>3, <3>2 DEF s
      <3> HIDE DEF k, z
      <3>4. \A j \in i .. Len(p) : p[j] = <<k, j - i + 1>>
        BY <1>1, <1>5, <1>7, <3>2
      <3>5. i + z = Len(p) + 1 /\ k = Len(t) /\ ~(i + z <= Len(p))
        BY <1>1, <1>3, <1>5, <3>2, <3>3
      <3>6. i + z <= Len(p) + 1
        BY <1>1, <1>5, <3>5
      <3> QED
        BY <3>4, <3>5, <3>6 DEF k, z
    <2> QED
      BY <1>1, <1>5, <2>1, <2>2
  <1>13. Requested(p, d, t)
    BY <1>10, <1>11, <1>12 DEF Requested
  <1>14. Whole(p, d, t)
    BY <1>5, <1>12 DEF Whole
  <1> QED
    BY <1>13, <1>14 DEF p, u, t, s, m

-----------------------------------------------------------------------------
(* Lemmas about sequences of answers. *)

(* The answers to the requests of e are in rp or end in out. *)
Answering(out, rp, e) ==
    /\ \A i, j \in 1 .. Len(rp) : i < j => rp[i] < rp[j]
    /\ \A i \in 1 .. Len(rp), j \in 1 .. Len(out) : rp[i] < out[j][1]
    /\ \A i, j \in 1 .. Len(out) : i < j =>
          \/ out[i][1] < out[j][1]
          \/ out[i][1] = out[j][1] /\ out[i][2] > out[j][2]
    /\ \A i \in 1 .. Len(out) : out[i][2] > 0 =>
          i < Len(out) /\ out[i + 1] = <<out[i][1], out[i][2] - 1>>
    /\ Elements(rp) \cup Answered(out) = e

LEMMA UnitFacts ==
    ASSUME NEW q \in Seq(Unit), NEW i \in 1 .. Len(q)
    PROVE  q[i] \in Unit /\ q[i][1] \in Nat /\ q[i][2] \in Nat
  <1>1. q[i] \in Unit
    BY ElementOfSeq
  <1> QED
    BY <1>1 DEF Unit

(* The client takes the first unit. *)
LEMMA AnsweringTake ==
    ASSUME NEW out \in Seq(Unit), NEW rp \in Seq(Nat), NEW e, out # << >>, Answering(out, rp, e)
    PROVE  Answering(Tail(out), IF out[1][2] = 0 THEN Append(rp, out[1][1]) ELSE rp, e)
  <1> DEFINE t == Tail(out)
             x == out[1][1]
             L == Len(out)
             R == Len(rp)
  <1>1. L \in Nat /\ L >= 1 /\ R \in Nat
    BY EmptySeq, LenProperties
  <1>2. t \in Seq(Unit) /\ Len(t) = L - 1 /\ \A i \in 1 .. L - 1 : t[i] = out[i + 1]
    BY HeadTailProperties, Zenon
  <1>3. x \in Nat /\ out[1][2] \in Nat /\ \A i \in 1 .. L : out[i][1] \in Nat /\ out[i][2] \in Nat
    BY <1>1, UnitFacts
  <1> HIDE DEF t
  <1>4. /\ \A i, j \in 1 .. Len(t) : i < j =>
              \/ t[i][1] < t[j][1]
              \/ t[i][1] = t[j][1] /\ t[i][2] > t[j][2]
    <2> SUFFICES ASSUME NEW i \in 1 .. Len(t), NEW j \in 1 .. Len(t), i < j
                 PROVE  \/ t[i][1] < t[j][1]
                        \/ t[i][1] = t[j][1] /\ t[i][2] > t[j][2]
      OBVIOUS
    <2>1. i + 1 \in 1 .. L /\ j + 1 \in 1 .. L /\ i + 1 < j + 1
      BY <1>1, <1>2
    <2>2. t[i] = out[i + 1] /\ t[j] = out[j + 1]
      BY <1>1, <1>2
    <2> QED
      BY <2>1, <2>2 DEF Answering
  <1>5. ASSUME NEW i \in 1 .. Len(t), t[i][2] > 0
        PROVE  i < Len(t) /\ t[i + 1] = <<t[i][1], t[i][2] - 1>>
    <2>1. i + 1 \in 1 .. L /\ t[i] = out[i + 1]
      BY <1>1, <1>2
    <2>2. i + 1 < L /\ out[(i + 1) + 1] = <<t[i][1], t[i][2] - 1>>
      BY <1>5, <2>1 DEF Answering
    <2>3. i < Len(t) /\ t[i + 1] = out[(i + 1) + 1]
      BY <1>1, <1>2, <2>2, SMTT(30)
    <2> QED
      BY <2>2, <2>3
  <1>6. Answered(out) = Answered(t) \cup (IF out[1][2] = 0 THEN {x} ELSE {})
    <2>1. ASSUME NEW y \in Answered(out)
          PROVE  y \in Answered(t) \cup (IF out[1][2] = 0 THEN {x} ELSE {})
      <3>1. PICK i \in 1 .. L : out[i][2] = 0 /\ y = out[i][1]
        BY <2>1 DEF Answered
      <3>2. CASE i = 1
        BY <3>1, <3>2
      <3>3. CASE i # 1
        <4>1. i - 1 \in 1 .. Len(t) /\ t[i - 1] = out[i]
          BY <1>1, <1>2, <3>3
        <4> QED
          BY <3>1, <4>1 DEF Answered
      <3> QED
        BY <3>2, <3>3
    <2>2. ASSUME NEW y \in Answered(t) PROVE y \in Answered(out)
      <3>1. PICK i \in 1 .. Len(t) : t[i][2] = 0 /\ y = t[i][1]
        BY <2>2 DEF Answered
      <3>2. i + 1 \in 1 .. L /\ t[i] = out[i + 1]
        BY <1>1, <1>2
      <3> QED
        BY <3>1, <3>2 DEF Answered
    <2>3. out[1][2] = 0 => x \in Answered(out)
      BY <1>1 DEF Answered
    <2> QED
      BY <2>1, <2>2, <2>3
  <1>7. CASE out[1][2] = 0
    <2> DEFINE p == Append(rp, x)
    <2>1. p \in Seq(Nat) /\ Len(p) = R + 1 /\ p[R + 1] = x /\ \A i \in 1 .. R : p[i] = rp[i]
      BY <1>3, AppendProperties
    <2> HIDE DEF p
    <2>2. ASSUME NEW i \in 1 .. Len(p), NEW j \in 1 .. Len(p), i < j PROVE p[i] < p[j]
      <3>1. i \in 1 .. R /\ p[i] = rp[i]
        BY <1>1, <2>1, <2>2, SMTT(30)
      <3>2. CASE j = R + 1
        <4>1. rp[i] < x
          BY <1>1, <3>1 DEF Answering
        <4> QED
          BY <2>1, <3>1, <3>2, <4>1
      <3>3. CASE j # R + 1
        <4>1. j \in 1 .. R /\ p[j] = rp[j]
          BY <1>1, <2>1, <3>3
        <4> QED
          BY <2>2, <3>1, <4>1 DEF Answering
      <3> QED
        BY <3>2, <3>3
    <2>3. ASSUME NEW i \in 1 .. Len(p), NEW j \in 1 .. Len(t) PROVE p[i] < t[j][1]
      <3>1. j + 1 \in 1 .. L /\ t[j] = out[j + 1] /\ 1 \in 1 .. L /\ 1 < j + 1
        BY <1>1, <1>2
      <3>2. CASE i = R + 1
        <4>1. \/ x < out[j + 1][1]
              \/ x = out[j + 1][1] /\ out[1][2] > out[j + 1][2]
          BY <3>1 DEF Answering
        <4>2. out[j + 1][2] \in Nat
          BY <1>3, <3>1
        <4>3. x < out[j + 1][1]
          BY <1>7, <4>1, <4>2
        <4> QED
          BY <2>1, <3>1, <3>2, <4>3
      <3>3. CASE i # R + 1
        <4>1. i \in 1 .. R /\ p[i] = rp[i]
          BY <1>1, <2>1, <3>3
        <4> QED
          BY <3>1, <4>1 DEF Answering
      <3> QED
        BY <3>2, <3>3
    <2>4. Elements(p) = Elements(rp) \cup {x}
      <3>1. ASSUME NEW y \in Elements(p) PROVE y \in Elements(rp) \cup {x}
        <4>1. PICK i \in 1 .. R + 1 : y = p[i]
          BY <2>1, <3>1 DEF Elements
        <4>2. CASE i = R + 1
          BY <2>1, <4>1, <4>2
        <4>3. CASE i # R + 1
          <5>1. i \in 1 .. R /\ y = rp[i]
            BY <1>1, <2>1, <4>1, <4>3
          <5> QED
            BY <5>1 DEF Elements
        <4> QED
          BY <4>2, <4>3
      <3>2. ASSUME NEW y \in Elements(rp) PROVE y \in Elements(p)
        <4>1. PICK i \in 1 .. R : y = rp[i]
          BY <3>2 DEF Elements
        <4>2. i \in 1 .. Len(p) /\ y = p[i]
          BY <1>1, <2>1, <4>1
        <4> QED
          BY <4>2 DEF Elements
      <3>3. x \in Elements(p)
        <4>1. R + 1 \in 1 .. Len(p)
          BY <1>1, <2>1
        <4> QED
          BY <2>1, <4>1 DEF Elements
      <3> QED
        BY <3>1, <3>2, <3>3
    <2>5. Elements(p) \cup Answered(t) = e
      BY <1>6, <1>7, <2>4 DEF Answering
    <2>6. Answering(t, p, e)
      BY <1>4, <1>5, <2>2, <2>3, <2>5 DEF Answering
    <2> QED
      BY <1>7, <2>6 DEF t, p
  <1>8. CASE out[1][2] # 0
    <2>1. ASSUME NEW i \in 1 .. R, NEW j \in 1 .. Len(t) PROVE rp[i] < t[j][1]
      <3>1. j + 1 \in 1 .. L /\ t[j] = out[j + 1]
        BY <1>1, <1>2
      <3> QED
        BY <3>1 DEF Answering
    <2>2. Elements(rp) \cup Answered(t) = e
      BY <1>6, <1>8 DEF Answering
    <2>3. \A i, j \in 1 .. R : i < j => rp[i] < rp[j]
      BY DEF Answering
    <2>4. Answering(t, rp, e)
      BY <1>4, <1>5, <2>1, <2>2, <2>3 DEF Answering
    <2> QED
      BY <1>8, <2>4 DEF t
  <1> QED
    BY <1>7, <1>8

(* A handler appends the answer to request k. *)
LEMMA AnsweringReply ==
    ASSUME NEW out \in Seq(Unit), NEW rp \in Seq(Nat), NEW e, NEW k \in Nat, NEW n \in Nat,
           Answering(out, rp, e), n >= 1, \A y \in e : y < k,
           \A i \in 1 .. Len(out) : out[i][1] < k
    PROVE  Answering(out \o Reply(k, n), rp, e \cup {k})
  <1> DEFINE u == Reply(k, n)
             p == out \o u
             L == Len(out)
  <1>1. L \in Nat /\ Len(rp) \in Nat
    BY LenProperties
  <1>2. u \in Seq(Unit) /\ Len(u) = n /\ \A j \in 1 .. n : u[j] = <<k, n - j>>
    BY ReplyFacts
  <1>3. /\ p \in Seq(Unit) /\ Len(p) = Len(out) + Len(u)
        /\ \A i \in 1 .. Len(out) + Len(u) : p[i] = IF i <= Len(out) THEN out[i] ELSE u[i - Len(out)]
    <2> HIDE DEF u
    <2> QED
      BY <1>2, ConcatProperties, Zenon
  <1> HIDE DEF u, p
  <1>4. Len(p) = L + n
    BY <1>2, <1>3
  <1>5. \A i \in 1 .. L : p[i] = out[i]
    BY <1>1, <1>2, <1>3
  <1>6. \A i \in (L + 1) .. (L + n) : p[i] = <<k, (L + n) - i>>
    BY <1>1, <1>2, <1>3
  <1>7. \A i \in 1 .. L : out[i][1] \in Nat /\ out[i][2] \in Nat /\ out[i][1] < k
    BY UnitFacts
  <1>8. Len(out) = L
    OBVIOUS
  <1> HIDE DEF L
  <1>9. \A i, j \in 1 .. Len(rp) : i < j => rp[i] < rp[j]
    BY DEF Answering
  <1>10. ASSUME NEW i \in 1 .. Len(rp), NEW j \in 1 .. Len(p) PROVE rp[i] < p[j][1]
    <2>1. CASE j <= L
      <3>1. j \in 1 .. L /\ p[j] = out[j]
        BY <1>1, <1>4, <1>5, <2>1
      <3> QED
        BY <1>8, <3>1 DEF Answering
    <2>2. CASE j > L
      <3>1. p[j] = <<k, (L + n) - j>>
        BY <1>1, <1>4, <1>6, <2>2
      <3>2. rp[i] < k
        BY DEF Answering, Elements
      <3> QED
        BY <3>1, <3>2
    <2> QED
      BY <1>1, <1>4, <2>1, <2>2
  <1>11. ASSUME NEW i \in 1 .. Len(p), NEW j \in 1 .. Len(p), i < j
         PROVE  \/ p[i][1] < p[j][1]
                \/ p[i][1] = p[j][1] /\ p[i][2] > p[j][2]
    <2>1. CASE j <= L
      <3>1. i \in 1 .. L /\ j \in 1 .. L
        BY <1>1, <1>4, <1>11, <2>1
      <3>2. p[i] = out[i] /\ p[j] = out[j]
        BY <1>5, <3>1
      <3> QED
        BY <1>8, <1>11, <3>1, <3>2 DEF Answering
    <2>2. CASE i <= L /\ j > L
      <3>1. p[i][1] < k
        BY <1>1, <1>4, <1>5, <1>7, <2>2
      <3>2. p[j] = <<k, (L + n) - j>>
        BY <1>1, <1>4, <1>6, <2>2
      <3> QED
        BY <3>1, <3>2
    <2>3. CASE i > L
      <3>1. p[i] = <<k, (L + n) - i>> /\ p[j] = <<k, (L + n) - j>>
        BY <1>1, <1>4, <1>6, <1>11, <2>3
      <3> QED
        BY <1>1, <1>4, <1>11, <3>1
    <2> QED
      BY <1>1, <1>4, <2>1, <2>2, <2>3
  <1>12. ASSUME NEW i \in 1 .. Len(p), p[i][2] > 0
         PROVE  i < Len(p) /\ p[i + 1] = <<p[i][1], p[i][2] - 1>>
    <2>1. CASE i <= L
      <3>1. i \in 1 .. L /\ p[i] = out[i]
        BY <1>1, <1>4, <1>5, <2>1
      <3>2. i < L /\ out[i + 1] = <<p[i][1], p[i][2] - 1>>
        BY <1>8, <1>12, <3>1 DEF Answering
      <3>3. i + 1 \in 1 .. L /\ p[i + 1] = out[i + 1] /\ i < Len(p)
        BY <1>1, <1>4, <1>5, <3>1, <3>2
      <3> QED
        BY <3>2, <3>3
    <2>2. CASE i > L
      <3>1. p[i] = <<k, (L + n) - i>>
        BY <1>1, <1>4, <1>6, <2>2
      <3>2. i < L + n
        BY <1>1, <1>4, <1>12, <3>1
      <3>3. p[i + 1] = <<k, (L + n) - (i + 1)>>
        BY <1>1, <1>4, <1>6, <2>2, <3>2
      <3> QED
        BY <1>1, <1>4, <3>1, <3>2, <3>3
    <2> QED
      BY <1>1, <1>4, <2>1, <2>2
  <1>13. Answered(p) = Answered(out) \cup {k}
    <2>1. ASSUME NEW y \in Answered(p) PROVE y \in Answered(out) \cup {k}
      <3>1. PICK i \in 1 .. Len(p) : p[i][2] = 0 /\ y = p[i][1]
        BY <2>1 DEF Answered
      <3>2. CASE i <= L
        <4>1. i \in 1 .. L /\ p[i] = out[i]
          BY <1>1, <1>4, <1>5, <3>2
        <4> QED
          BY <1>8, <3>1, <4>1 DEF Answered
      <3>3. CASE i > L
        BY <1>1, <1>4, <1>6, <3>1, <3>3
      <3> QED
        BY <1>1, <1>4, <3>2, <3>3
    <2>2. ASSUME NEW y \in Answered(out) PROVE y \in Answered(p)
      <3>1. PICK i \in 1 .. L : out[i][2] = 0 /\ y = out[i][1]
        BY <1>8, <2>2 DEF Answered
      <3>2. i \in 1 .. Len(p) /\ p[i] = out[i]
        BY <1>1, <1>4, <1>5
      <3> QED
        BY <3>1, <3>2 DEF Answered
    <2>3. k \in Answered(p)
      <3>1. L + n \in 1 .. Len(p) /\ p[L + n] = <<k, 0>>
        BY <1>1, <1>4, <1>6
      <3> QED
        BY <3>1 DEF Answered
    <2> QED
      BY <2>1, <2>2, <2>3
  <1>14. Elements(rp) \cup Answered(p) = e \cup {k}
    BY <1>13 DEF Answering
  <1>15. Answering(p, rp, e \cup {k})
    BY <1>9, <1>10, <1>11, <1>12, <1>14 DEF Answering
  <1> QED
    BY <1>15 DEF p, u

-----------------------------------------------------------------------------
(* The inductive invariant. *)

LEMMA InvInit == Init => Inv
  <1> SUFFICES ASSUME Init PROVE Inv
    OBVIOUS
  <1>1. << >> \in Seq(Unit) /\ << >> \in Seq(Requests) /\ << >> \in Seq(Nat)
    BY EmptySeq
  <1>2. Len(<< >>) = 0
    BY EmptySeq
  <1>3. Input = << >> /\ outpipe \o oqueue = << >> /\ Len(Input) = 0 /\ Len(outpipe \o oqueue) = 0
    BY <1>1, <1>2 DEF Init, Input
  <1>4. TypeOK
    <2>1. <<rset, wset, init_done, closed>> \in BOOLEAN \X BOOLEAN \X BOOLEAN \X BOOLEAN
      BY DEF Init
    <2>2. Len(oqueue) = 0 /\ Len(reqs) = 0 /\ Len(inpipe) = 0 /\ Len(outpipe) = 0
      BY <1>2 DEF Init
    <2> QED
      BY <2>1, <2>2, SizesAssumption DEF Init, TypeOK
  <1>5. Types
    BY <1>1, <1>4 DEF Init, Types
  <1>6. Room
    BY <1>1, <1>2, SizesAssumption DEF Init, Room
  <1>7. InputFramed
    BY <1>1, <1>2, <1>3 DEF Init, InputFramed, Requested, Whole
  <1>8. NotAhead
    BY <1>3 DEF NotAhead
  <1>9. OneAnswerEach
    BY <1>1, <1>2, <1>3 DEF Init, OneAnswerEach, Elements, Answered, Expected
  <1> QED
    BY <1>5, <1>6, <1>7, <1>8, <1>9 DEF Inv

LEMMA AnsweringNext ==
    ASSUME Answering(outpipe' \o oqueue', replies', {k \in Expected' : k <= done'})
    PROVE  OneAnswerEach'
  BY DEF OneAnswerEach, Answering

LEMMA OutputFacts ==
    ASSUME Inv
    PROVE  /\ outpipe \o oqueue \in Seq(Unit)
           /\ \A i \in 1 .. Len(outpipe \o oqueue) : (outpipe \o oqueue)[i][1] <= done
           /\ Answering(outpipe \o oqueue, replies, {k \in Expected : k <= done})
  <1>1. outpipe \o oqueue \in Seq(Unit)
    BY ConcatProperties DEF Inv, Types
  <1>2. \A i \in 1 .. Len(outpipe \o oqueue) : (outpipe \o oqueue)[i][1] <= done
    BY DEF Inv, NotAhead
  <1>3. Answering(outpipe \o oqueue, replies, {k \in Expected : k <= done})
    BY DEF Inv, OneAnswerEach, Answering
  <1> QED
    BY <1>1, <1>2, <1>3

(* OneAnswerEach and NotAhead read the output as one sequence. *)
LEMMA SameOutput ==
    ASSUME Inv, Types', outpipe' \o oqueue' = outpipe \o oqueue, UNCHANGED <<replies, reqs, done>>
    PROVE  NotAhead' /\ OneAnswerEach'
  <1>1. NotAhead'
    BY DEF Inv, NotAhead
  <1>2. OneAnswerEach'
    <2>1. Expected' = Expected
      BY DEF Expected
    <2>2. Answering(outpipe' \o oqueue', replies', {k \in Expected' : k <= done'})
      BY <2>1, OutputFacts
    <2> QED
      BY <2>2, AnsweringNext
  <1> QED
    BY <1>1, <1>2

LEMMA SameInput ==
    ASSUME Inv, iqueue' \o inpipe' \o cbuf' = Input, UNCHANGED <<reqs, done, closed>>
    PROVE  InputFramed'
  BY DEF Inv, InputFramed, Input

LEMMA InputFacts ==
    ASSUME Inv
    PROVE  /\ iqueue \o inpipe \in Seq(Unit) /\ Len(iqueue \o inpipe) = Len(iqueue) + Len(inpipe)
           /\ Input \in Seq(Unit) /\ Len(Input) = Len(iqueue) + Len(inpipe) + Len(cbuf)
           /\ Len(iqueue) \in Nat /\ Len(inpipe) \in Nat /\ Len(cbuf) \in Nat
           /\ iqueue # << >> => Len(iqueue) >= 1 /\ Input[1] = iqueue[1]
  <1>1. iqueue \in Seq(Unit) /\ inpipe \in Seq(Unit) /\ cbuf \in Seq(Unit)
    BY DEF Inv, Types
  <1>2. Len(iqueue) \in Nat /\ Len(inpipe) \in Nat /\ Len(cbuf) \in Nat
    BY <1>1, LenProperties
  <1> DEFINE s == iqueue \o inpipe
  <1>3. /\ s \in Seq(Unit) /\ Len(s) = Len(iqueue) + Len(inpipe)
        /\ \A i \in 1 .. Len(iqueue) + Len(inpipe) :
              s[i] = IF i <= Len(iqueue) THEN iqueue[i] ELSE inpipe[i - Len(iqueue)]
    BY <1>1, ConcatProperties, Zenon
  <1> HIDE DEF s
  <1>4. /\ s \o cbuf \in Seq(Unit) /\ Len(s \o cbuf) = Len(s) + Len(cbuf)
        /\ \A i \in 1 .. Len(s) + Len(cbuf) :
              (s \o cbuf)[i] = IF i <= Len(s) THEN s[i] ELSE cbuf[i - Len(s)]
    <2>1. s \in Seq(Unit)
      BY <1>3
    <2> QED
      BY <1>1, <2>1, ConcatProperties, Zenon
  <1>5. iqueue # << >> => Len(iqueue) >= 1
    BY <1>1, <1>2, EmptySeq
  <1>6. iqueue # << >> => (s \o cbuf)[1] = iqueue[1]
    BY <1>2, <1>3, <1>4, <1>5
  <1> QED
    BY <1>2, <1>3, <1>4, <1>5, <1>6 DEF Input, s

LEMMA SendStep == ASSUME Inv, NEW r \in Requests, Send(r) PROVE Inv'
  <1>1. Types'
    <2>1. Len(reqs) \in Nat /\ Append(reqs, r) \in Seq(Requests)
          /\ Len(Append(reqs, r)) = Len(reqs) + 1
      BY LenProperties, AppendProperties DEF Inv, Types
    <2>2. r.size \in Nat
      BY SizesAssumption
    <2>3. cbuf' \in Seq(Unit)
      <3>1. Len(reqs) + 1 \in Nat
        BY <2>1
      <3>2. Units(Len(reqs) + 1, r.size) \in Seq(Unit)
        BY <2>2, <3>1, UnitsFacts
      <3> QED
        BY <3>2 DEF Send
    <2>4. done' \in 0 .. Len(reqs')
      BY <2>1 DEF Inv, Types, TypeOK, Send, server
    <2> QED
      BY <2>1, <2>3, <2>4 DEF Inv, Types, TypeOK, Send, server, pipes
  <1>2. Room'
    BY DEF Inv, Room, Send, server
  <1>3. InputFramed'
    <2> DEFINE u == Units(Len(reqs) + 1, r.size)
    <2>1. cbuf = << >> /\ ~closed /\ iqueue \o inpipe \in Seq(Unit)
      BY InputFacts DEF Send
    <2>2. Input = iqueue \o inpipe
      BY <2>1, ConcatEmptySeq DEF Input
    <2>3. done \in Nat /\ reqs \in Seq(Requests)
      BY DEF Inv, Types
    <2>4. Requested(Input, done, reqs) /\ Whole(Input, done, reqs)
      BY <2>1 DEF Inv, InputFramed
    <2>5. /\ Requested(Input \o u, done, Append(reqs, r))
          /\ Whole(Input \o u, done, Append(reqs, r))
      BY <2>1, <2>2, <2>3, <2>4, RequestedAppend
    <2>6. Input' = Input \o u /\ done' = done /\ reqs' = Append(reqs, r)
      BY <2>2 DEF Input, Send, server, pipes
    <2> QED
      BY <2>5, <2>6 DEF InputFramed
  <1>4. NotAhead'
    BY DEF Inv, NotAhead, Send, server, pipes
  <1>5. OneAnswerEach'
    <2>1. done' = done /\ reqs' = Append(reqs, r) /\ replies' = replies
          /\ outpipe' \o oqueue' = outpipe \o oqueue
      BY DEF Send, server, pipes
    <2>2. /\ Len(reqs) \in Nat /\ Len(reqs') = Len(reqs) + 1
          /\ \A k \in 1 .. Len(reqs) : reqs'[k] = reqs[k]
      BY <2>1, LenProperties, AppendProperties DEF Inv, Types
    <2>3. done \in 0 .. Len(reqs)
      BY DEF Inv, Types, TypeOK
    <2>4. {k \in Expected' : k <= done'} = {k \in Expected : k <= done}
      BY <2>1, <2>2, <2>3 DEF Expected
    <2> QED
      BY <2>1, <2>4, OutputFacts, AnsweringNext
  <1> QED
    BY <1>1, <1>2, <1>3, <1>4, <1>5 DEF Inv

LEMMA TransmitStep == ASSUME Inv, NEW n \in 1 .. PipeSize, Transmit(n) PROVE Inv'
  <1>1. n \in 0 .. Len(cbuf) /\ n >= 1 /\ Len(inpipe) + n <= PipeSize
        /\ cbuf \in Seq(Unit) /\ inpipe \in Seq(Unit) /\ iqueue \in Seq(Unit)
    BY SizesAssumption, LenProperties DEF Inv, Types, Transmit
  <1>2. /\ Upto(cbuf, n) \in Seq(Unit)
        /\ cbuf' \in Seq(Unit) /\ inpipe' \in Seq(Unit) /\ Len(inpipe') = Len(inpipe) + n
    BY <1>1, Moved DEF Transmit
  <1>3. Types'
    BY <1>1, <1>2 DEF Inv, Types, TypeOK, Transmit, server
  <1>4. Room'
    BY DEF Inv, Room, Transmit, server
  <1>5. iqueue' \o inpipe' \o cbuf' = Input
    <2>1. \A u, v \in Seq(Unit) : (iqueue \o u) \o v = iqueue \o (u \o v)
      <3>1. iqueue \in Seq(Unit)
        BY <1>1
      <3> QED
        BY <3>1, Grouping
    <2>2. iqueue \o (inpipe \o Upto(cbuf, n)) = (iqueue \o inpipe) \o Upto(cbuf, n)
      BY <1>1, <1>2, <2>1
    <2>3. ((iqueue \o inpipe) \o Upto(cbuf, n)) \o After(cbuf, n) = (iqueue \o inpipe) \o cbuf
      BY <1>1, InputFacts, Moved
    <2> QED
      BY <2>2, <2>3 DEF Input, Transmit, server
  <1>6. InputFramed'
    BY <1>5, SameInput DEF Transmit, server
  <1>7. NotAhead' /\ OneAnswerEach'
    BY <1>3, SameOutput DEF Transmit, server
  <1> QED
    BY <1>3, <1>4, <1>6, <1>7 DEF Inv

LEMMA TakeReplyStep == ASSUME Inv, TakeReply PROVE Inv'
  <1>1. outpipe \in Seq(Unit) /\ oqueue \in Seq(Unit) /\ replies \in Seq(Nat) /\ outpipe # << >>
    BY DEF Inv, Types, TakeReply
  <1>2. Len(outpipe) \in Nat /\ Len(outpipe) >= 1 /\ Len(oqueue) \in Nat
    BY <1>1, LenProperties, EmptySeq
  <1>3. /\ outpipe' \in Seq(Unit) /\ Len(outpipe') = Len(outpipe) - 1
        /\ \A i \in 1 .. Len(outpipe) - 1 : outpipe'[i] = outpipe[i + 1]
    BY <1>1, HeadTailProperties, Zenon DEF TakeReply
  <1>4. outpipe[1][1] \in Nat
    BY <1>1, <1>2, UnitFacts
  <1>5. replies' \in Seq(Nat)
    BY <1>1, <1>4, AppendProperties DEF TakeReply
  <1>6. Types'
    BY <1>2, <1>3, <1>5, SizesAssumption DEF Inv, Types, TypeOK, TakeReply, server
  <1>7. Room'
    BY DEF Inv, Room, TakeReply, server
  <1>8. InputFramed'
    BY SameInput DEF Input, TakeReply, server
  <1> DEFINE out == outpipe \o oqueue
  <1>9. /\ out \in Seq(Unit) /\ Len(out) = Len(outpipe) + Len(oqueue)
        /\ \A i \in 1 .. Len(outpipe) + Len(oqueue) :
              out[i] = IF i <= Len(outpipe) THEN outpipe[i] ELSE oqueue[i - Len(outpipe)]
    BY <1>1, ConcatProperties, Zenon
  <1>10. /\ outpipe' \o oqueue \in Seq(Unit)
         /\ Len(outpipe' \o oqueue) = Len(outpipe') + Len(oqueue)
         /\ \A i \in 1 .. Len(outpipe') + Len(oqueue) :
              (outpipe' \o oqueue)[i] = IF i <= Len(outpipe') THEN outpipe'[i] ELSE oqueue[i - Len(outpipe')]
    <2>1. outpipe' \in Seq(Unit)
      BY <1>3
    <2> QED
      BY <1>1, <2>1, ConcatProperties, Zenon
  <1> HIDE DEF out
  <1>11. out # << >> /\ out[1] = outpipe[1]
    BY <1>2, <1>9, EmptySeq
  <1>12. /\ Tail(out) \in Seq(Unit) /\ Len(Tail(out)) = Len(out) - 1
         /\ \A i \in 1 .. Len(out) - 1 : Tail(out)[i] = out[i + 1]
    <2>1. out \in Seq(Unit)
      BY <1>9
    <2> QED
      BY <1>11, <2>1, HeadTailProperties, Zenon
  <1>13. outpipe' \o oqueue = Tail(out)
    <2>1. Len(outpipe' \o oqueue) = Len(out) - 1
      BY <1>2, <1>3, <1>9, <1>10
    <2>2. ASSUME NEW i \in 1 .. Len(out) - 1 PROVE (outpipe' \o oqueue)[i] = out[i + 1]
      BY <1>2, <1>3, <1>9, <1>10
    <2> QED
      BY <1>10, <1>12, <2>1, <2>2, SeqEqual
  <1>14. oqueue' = oqueue /\ done' = done /\ reqs' = reqs
         /\ replies' = IF out[1][2] = 0 THEN Append(replies, out[1][1]) ELSE replies
    BY <1>11 DEF TakeReply, server
  <1>15. NotAhead'
    <2>1. \A i \in 1 .. Len(out) : out[i][1] <= done
      BY OutputFacts DEF out
    <2>2. \A i \in 1 .. Len(Tail(out)) : Tail(out)[i][1] <= done
      BY <1>2, <1>9, <1>12, <2>1
    <2> QED
      BY <1>13, <1>14, <2>2 DEF NotAhead
  <1>16. OneAnswerEach'
    <2>1. Answering(out, replies, {k \in Expected : k <= done})
      BY OutputFacts DEF out
    <2>2. Answering(Tail(out), replies', {k \in Expected : k <= done})
      BY <1>1, <1>9, <1>11, <1>14, <2>1, AnsweringTake
    <2>3. Expected' = Expected
      BY <1>14 DEF Expected
    <2> QED
      BY <1>13, <1>14, <2>2, <2>3, AnsweringNext
  <1> QED
    BY <1>6, <1>7, <1>8, <1>15, <1>16 DEF Inv

LEMMA CloseStep == ASSUME Inv, NEW n \in 0 .. Len(cbuf), Close(n) PROVE Inv'
  <1>1. cbuf \in Seq(Unit) /\ cbuf' \in Seq(Unit)
    BY UptoFacts DEF Inv, Types, Close
  <1>2. Types'
    <2>1. <<rset, wset, init_done, closed>>' \in BOOLEAN \X BOOLEAN \X BOOLEAN \X BOOLEAN
      BY DEF Inv, Types, TypeOK, Close, server
    <2> QED
      BY <1>1, <2>1 DEF Inv, Types, TypeOK, Close, server, pipes
  <1>3. Room'
    BY DEF Inv, Room, Close, server
  <1>4. InputFramed'
    <2> DEFINE s == iqueue \o inpipe
               m == Len(s) + n
    <2>1. s \in Seq(Unit) /\ Input \in Seq(Unit) /\ Len(Input) = Len(s) + Len(cbuf)
          /\ Len(s) \in Nat /\ Len(cbuf) \in Nat /\ Input = s \o cbuf
      BY InputFacts DEF Input
    <2>2. m \in 0 .. Len(Input)
      BY <2>1
    <2>3. s \o Upto(cbuf, n) = Upto(Input, m)
      <3> HIDE DEF s
      <3>1. Upto(cbuf, n) \in Seq(Unit) /\ Len(Upto(cbuf, n)) = n
            /\ \A i \in 1 .. n : Upto(cbuf, n)[i] = cbuf[i]
        BY <1>1, UptoFacts
      <3>2. /\ s \o Upto(cbuf, n) \in Seq(Unit)
            /\ Len(s \o Upto(cbuf, n)) = Len(s) + Len(Upto(cbuf, n))
            /\ \A i \in 1 .. Len(s) + Len(Upto(cbuf, n)) : (s \o Upto(cbuf, n))[i] =
                  IF i <= Len(s) THEN s[i] ELSE Upto(cbuf, n)[i - Len(s)]
        <4>1. s \in Seq(Unit) /\ Upto(cbuf, n) \in Seq(Unit)
          BY <2>1, <3>1
        <4> QED
          BY <4>1, ConcatProperties, Zenon
      <3>3. \A i \in 1 .. Len(s) + Len(cbuf) : Input[i] =
                  IF i <= Len(s) THEN s[i] ELSE cbuf[i - Len(s)]
        <4>1. s \in Seq(Unit) /\ Input = s \o cbuf
          BY <2>1
        <4> QED
          BY <1>1, <4>1, ConcatProperties, Zenon
      <3>4. Upto(Input, m) \in Seq(Unit) /\ Len(Upto(Input, m)) = m
            /\ \A i \in 1 .. m : Upto(Input, m)[i] = Input[i]
        BY <2>1, <2>2, UptoFacts
      <3>5. ASSUME NEW i \in 1 .. m PROVE (s \o Upto(cbuf, n))[i] = Upto(Input, m)[i]
        <4>1. i \in Nat /\ i >= 1 /\ i <= Len(s) + n /\ n \in Nat /\ n <= Len(cbuf)
          BY <2>1
        <4>2. CASE i <= Len(s)
          BY <2>1, <3>1, <3>2, <3>3, <3>4, <4>2
        <4>3. CASE ~(i <= Len(s))
          <5>1. i - Len(s) \in 1 .. n
            BY <2>1, <4>1, <4>3
          <5>2. (s \o Upto(cbuf, n))[i] = Upto(cbuf, n)[i - Len(s)]
            BY <2>1, <3>1, <3>2, <4>1, <4>3
          <5>3. Upto(Input, m)[i] = cbuf[i - Len(s)]
            BY <2>1, <3>3, <3>4, <4>1, <4>3
          <5> QED
            BY <3>1, <5>1, <5>2, <5>3
        <4> QED
          BY <4>2, <4>3
      <3> QED
        BY <2>1, <3>1, <3>2, <3>4, <3>5, SeqEqual, ZenonT(60)
    <2>4. Requested(Upto(Input, m), done, reqs)
      BY <2>1, <2>2, RequestedPrefix DEF Inv, Types, InputFramed
    <2>5. Input' = Upto(Input, m) /\ done' = done /\ reqs' = reqs /\ closed'
      BY <2>3 DEF Close, Input, server, pipes
    <2> QED
      BY <2>4, <2>5 DEF InputFramed
  <1>5. NotAhead' /\ OneAnswerEach'
    BY <1>2, SameOutput DEF Close, server, pipes
  <1> QED
    BY <1>2, <1>3, <1>4, <1>5 DEF Inv

LEMMA LenFacts ==
    ASSUME Inv
    PROVE  /\ Len(iqueue) \in Nat /\ Len(oqueue) \in Nat /\ Len(inpipe) \in Nat
           /\ Len(outpipe) \in Nat /\ Len(cbuf) \in Nat /\ Len(reqs) \in Nat
           /\ oqueue # << >> => Len(oqueue) >= 1
           /\ inpipe # << >> => Len(inpipe) >= 1
  BY LenProperties, EmptySeq DEF Inv, Types

LEMMA SelectStep == ASSUME Inv, Select PROVE Inv'
  <1> DEFINE r == Readable /\ (inpipe # << >> \/ (closed /\ cbuf = << >>))
             w == oqueue # << >> /\ (Len(outpipe) < PipeSize \/ closed)
  <1>1. /\ pc = "select" /\ (r \/ w) /\ rset' = r /\ wset' = w /\ olen' = Len(oqueue)
        /\ pc' = (IF r THEN "read" ELSE "write")
        /\ UNCHANGED <<iqueue, oqueue, init_done, done, client, pipes>>
    BY DEF Select
  <1>2. rset' \in BOOLEAN /\ wset' \in BOOLEAN
    BY <1>1
  <1>3. w => Len(oqueue) > 0
    BY LenFacts
  <1>4. r => Len(iqueue) + BufSize <= MaxSize
    BY DEF Readable, sshbuf_check_reserve
  <1> HIDE DEF r, w
  <1>5. Types'
    <2>1. <<rset, wset, init_done, closed>>' \in BOOLEAN \X BOOLEAN \X BOOLEAN \X BOOLEAN
      BY <1>1, <1>2 DEF Inv, Types, TypeOK, client
    <2>2. /\ pc' \in {"read", "write"} /\ olen' \in 0 .. Len(oqueue')
          /\ (pc' = "read" => rset') /\ (pc' = "write" => wset' /\ olen' > 0)
      BY <1>1, <1>3, LenFacts
    <2> QED
      BY <1>1, <2>1, <2>2 DEF Inv, Types, TypeOK, client, pipes
  <1>6. Room'
    BY <1>1, <1>3, <1>4 DEF Inv, Room
  <1>7. InputFramed'
    BY <1>1, SameInput DEF Input, client, pipes
  <1>8. NotAhead' /\ OneAnswerEach'
    BY <1>1, <1>5, SameOutput DEF client, pipes
  <1> QED
    BY <1>5, <1>6, <1>7, <1>8 DEF Inv

(* The session ends and no queue changes. *)
LEMMA ExitStep ==
    ASSUME Inv, Exit, UNCHANGED <<client, pipes>>
    PROVE  Inv'
  <1>1. Types'
    BY DEF Inv, Types, TypeOK, Exit, client, pipes
  <1>2. Room'
    BY DEF Inv, Room, Exit
  <1>3. InputFramed'
    BY SameInput DEF Exit, Input, client, pipes
  <1>4. NotAhead' /\ OneAnswerEach'
    BY <1>1, SameOutput DEF Exit, client, pipes
  <1> QED
    BY <1>1, <1>2, <1>3, <1>4 DEF Inv

LEMMA ReadStep == ASSUME Inv, Read PROVE Inv'
  <1>1. CASE inpipe = << >>
    BY <1>1, ExitStep DEF Read, pipes
  <1>2. CASE inpipe # << >>
    <2> DEFINE n == IF Len(inpipe) < BufSize THEN Len(inpipe) ELSE BufSize
    <2>1. /\ pc = "read" /\ iqueue' = iqueue \o Upto(inpipe, n) /\ inpipe' = After(inpipe, n)
          /\ pc' = (IF wset THEN "write" ELSE "process")
          /\ UNCHANGED <<rset, wset, olen, oqueue, init_done, done, client, outpipe>>
      BY <1>2 DEF Read
    <2>2. n \in 0 .. Len(inpipe) /\ n <= BufSize /\ n \in Nat
      BY LenFacts, SizesAssumption
    <2> HIDE DEF n
    <2>3. iqueue \in Seq(Unit) /\ inpipe \in Seq(Unit)
      BY DEF Inv, Types
    <2>4. /\ iqueue' \in Seq(Unit) /\ Len(iqueue') = Len(iqueue) + n
          /\ inpipe' \in Seq(Unit) /\ Len(inpipe') = Len(inpipe) - n
          /\ iqueue' \o inpipe' = iqueue \o inpipe
      BY <2>1, <2>2, <2>3, Moved
    <2>5. Types'
      <3>1. Len(inpipe') <= PipeSize
        BY <2>2, <2>4, LenFacts, SizesAssumption DEF Inv, Types, TypeOK
      <3>2. (pc' = "write" => wset' /\ olen' > 0) /\ (pc' = "process" => rset' \/ wset')
        BY <2>1 DEF Inv, Types, TypeOK, Room
      <3>3. pc' \in {"write", "process"}
        BY <2>1
      <3> QED
        BY <2>1, <2>4, <3>1, <3>2, <3>3 DEF Inv, Types, TypeOK, client
    <2>6. Room'
      <3>1. Len(iqueue') <= MaxSize
        BY <2>1, <2>2, <2>4, LenFacts, SizesAssumption DEF Inv, Room
      <3> QED
        BY <2>1, <3>1 DEF Inv, Room
    <2>7. InputFramed'
      BY <2>1, <2>4, SameInput DEF Input, client
    <2>8. NotAhead' /\ OneAnswerEach'
      BY <2>1, <2>5, SameOutput DEF client
    <2> QED
      BY <2>5, <2>6, <2>7, <2>8 DEF Inv
  <1> QED
    BY <1>1, <1>2

LEMMA WriteStep == ASSUME Inv, NEW n \in 1 .. PipeSize, Write(n) PROVE Inv'
  <1>1. CASE closed /\ Exit /\ UNCHANGED outpipe
    BY <1>1, ExitStep DEF Write, pipes
  <1>2. CASE ~(closed /\ Exit /\ UNCHANGED outpipe)
    <2>1. /\ pc = "write" /\ n \in 1 .. olen /\ Len(outpipe) + n <= PipeSize
          /\ outpipe' = outpipe \o Upto(oqueue, n)
          /\ oqueue' = After(oqueue, n)
          /\ olen' = olen - n
          /\ pc' = (IF n = olen THEN "process" ELSE "write")
          /\ UNCHANGED <<rset, wset, iqueue, init_done, done, client, inpipe>>
      BY <1>2 DEF Write
    <2>2. olen \in 0 .. Len(oqueue) /\ outpipe \in Seq(Unit) /\ oqueue \in Seq(Unit)
      BY DEF Inv, Types, TypeOK
    <2>3. n \in 0 .. Len(oqueue) /\ n \in Nat /\ olen \in Nat /\ n <= olen
      BY <2>1, <2>2, LenFacts, SizesAssumption
    <2>4. /\ outpipe' \in Seq(Unit) /\ Len(outpipe') = Len(outpipe) + n
          /\ oqueue' \in Seq(Unit) /\ Len(oqueue') = Len(oqueue) - n
          /\ outpipe' \o oqueue' = outpipe \o oqueue
      BY <2>1, <2>2, <2>3, Moved
    <2>5. Types'
      <3>1. Len(outpipe') <= PipeSize
        BY <2>1, <2>4
      <3>2. olen' \in 0 .. Len(oqueue')
        BY <2>1, <2>2, <2>3, <2>4, LenFacts
      <3>3. pc' = "write" => wset' /\ olen' > 0
        BY <2>1, <2>3 DEF Inv, Types, TypeOK
      <3>4. pc' = "process" => rset' \/ wset'
        BY <2>1 DEF Inv, Types, TypeOK
      <3>5. pc' \in {"write", "process"}
        BY <2>1
      <3> QED
        BY <2>1, <2>4, <3>1, <3>2, <3>3, <3>4, <3>5 DEF Inv, Types, TypeOK, client
    <2>6. Room'
      <3>1. Len(oqueue') <= MaxSize
        BY <2>3, <2>4, LenFacts, SizesAssumption DEF Inv, Room
      <3> QED
        BY <2>1, <3>1 DEF Inv, Room
    <2>7. InputFramed'
      BY <2>1, SameInput DEF Input, client
    <2>8. NotAhead' /\ OneAnswerEach'
      BY <2>1, <2>4, <2>5, SameOutput DEF client
    <2> QED
      BY <2>5, <2>6, <2>7, <2>8 DEF Inv
  <1> QED
    BY <1>1, <1>2

(* The input starts with the header of the next request. *)
LEMMA NextRequest ==
    ASSUME Inv, iqueue # << >>
    PROVE  iqueue[1] = <<done + 1, 1>> /\ done + 1 \in 1 .. Len(reqs)
  <1>1. Input # << >>
    BY InputFacts, EmptySeq
  <1>2. Input[1] = <<done + 1, 1>> /\ Input[1][1] \in 1 .. Len(reqs)
    BY <1>1, InputFacts DEF Inv, InputFramed, Requested
  <1> QED
    BY <1>2, InputFacts

LEMMA HandleStep ==
    ASSUME Inv, pc = "process", iqueue # << >>, Handle(done + 1),
           sshbuf_check_reserve(oqueue, SFTP_MAX_MSG_LENGTH),
           reqs[done + 1].kind \notin Fatal, reqs[done + 1].size <= Len(iqueue),
           UNCHANGED <<client, pipes>>
    PROVE  Inv'
  <1> DEFINE k == done + 1
             z == reqs[k].size
             out == outpipe \o oqueue
  <1>1. k \in 1 .. Len(reqs) /\ done \in Nat /\ k \in Nat /\ reqs \in Seq(Requests)
    BY NextRequest DEF Inv, Types
  <1>2. z \in Nat /\ z >= 1 /\ z <= Len(iqueue) /\ reqs[k].kind \in {"init", "known", "unknown"}
    BY <1>1, SizeFacts DEF Kinds, Fatal
  <1>3. iqueue \in Seq(Unit) /\ inpipe \in Seq(Unit) /\ cbuf \in Seq(Unit) /\ oqueue \in Seq(Unit)
        /\ outpipe \in Seq(Unit) /\ replies \in Seq(Nat)
    BY DEF Inv, Types
  <1>4. iqueue' = After(iqueue, z) /\ done' = k /\ pc' = "select" /\ reqs' = reqs
        /\ UNCHANGED <<rset, wset, olen, cbuf, closed, replies, inpipe, outpipe>>
    BY DEF Handle, Discard, client, pipes
  <1>5. init_done' \in BOOLEAN
    BY DEF Handle
  <1>6. z \in 0 .. Len(iqueue)
    BY <1>2, LenFacts
  <1>7. iqueue' \in Seq(Unit) /\ Len(iqueue') = Len(iqueue) - z
    BY <1>3, <1>4, <1>6, AfterFacts
  <1>8. InputFramed'
    <2>1. Input' = After(Input, z)
      <3>1. After(iqueue, z) \o inpipe = After(iqueue \o inpipe, z)
        BY <1>3, <1>6, Dropped
      <3>2. z \in 0 .. Len(iqueue \o inpipe)
        BY <1>2, InputFacts
      <3>3. After(iqueue \o inpipe, z) \o cbuf = After((iqueue \o inpipe) \o cbuf, z)
        BY <1>3, <3>2, InputFacts, Dropped
      <3> QED
        BY <1>4, <3>1, <3>3 DEF Input
    <2>2. Input # << >> /\ z <= Len(Input) /\ Input \in Seq(Unit)
      BY <1>2, InputFacts, EmptySeq
    <2>3. Requested(Input, done, reqs)
      BY DEF Inv, InputFramed
    <2>4. Requested(After(Input, z), k, reqs)
      BY <1>1, <2>2, <2>3, RequestedDrop
    <2>5. ~closed => Whole(After(Input, z), k, reqs)
      BY <1>1, <2>2, <2>3, WholeDrop DEF Inv, InputFramed
    <2> QED
      BY <1>4, <2>1, <2>4, <2>5 DEF InputFramed
  <1>9. CASE reqs[k].kind = "unknown"
    <2>1. oqueue' = oqueue
      BY <1>9 DEF Handle
    <2>2. Types'
      <3>1. done' \in 0 .. Len(reqs')
        BY <1>1, <1>4
      <3> QED
        BY <1>1, <1>4, <1>5, <1>7, <2>1, <3>1 DEF Inv, Types, TypeOK
    <2>3. Room'
      <3>1. Len(iqueue') <= MaxSize
        BY <1>2, <1>7, LenFacts, SizesAssumption, SMTT(30) DEF Inv, Room
      <3> QED
        BY <1>4, <2>1, <3>1 DEF Inv, Room
    <2>4. NotAhead'
      <3>1. out \in Seq(Unit) /\ \A i \in 1 .. Len(out) : out[i][1] <= done
        BY OutputFacts
      <3> HIDE DEF out
      <3>2. ASSUME NEW i \in 1 .. Len(out) PROVE out[i][1] <= k
        BY <1>1, <3>1, UnitFacts
      <3> QED
        BY <1>4, <2>1, <3>2 DEF NotAhead, out
    <2>5. OneAnswerEach'
      <3>1. {j \in Expected' : j <= done'} = {j \in Expected : j <= done}
        BY <1>1, <1>4, <1>9 DEF Expected
      <3> QED
        BY <1>4, <2>1, <3>1, OutputFacts, AnsweringNext
    <2> QED
      BY <1>8, <2>2, <2>3, <2>4, <2>5 DEF Inv
  <1>10. CASE reqs[k].kind # "unknown"
    <2>1. PICK n \in Answers : oqueue' = oqueue \o Reply(k, n)
      BY <1>10 DEF Handle
    <2>2. n \in Nat /\ n >= 1 /\ n <= SFTP_MAX_MSG_LENGTH
      BY SizesAssumption
    <2>3. Reply(k, n) \in Seq(Unit) /\ Len(Reply(k, n)) = n
          /\ \A j \in 1 .. n : Reply(k, n)[j] = <<k, n - j>>
      BY <1>1, <2>2, ReplyFacts
    <2>4. oqueue' \in Seq(Unit) /\ Len(oqueue') = Len(oqueue) + n
      <3>1. \A u, v \in Seq(Unit) : u \o v \in Seq(Unit) /\ Len(u \o v) = Len(u) + Len(v)
        BY ConcatProperties
      <3> QED
        BY <1>3, <2>1, <2>3, <3>1
    <2>5. Types'
      <3>1. done' \in 0 .. Len(reqs')
        BY <1>1, <1>4
      <3>2. olen' \in 0 .. Len(oqueue')
        BY <1>4, <2>2, <2>4, LenFacts, SMTT(30) DEF Inv, Types, TypeOK
      <3> QED
        BY <1>1, <1>4, <1>5, <1>7, <2>4, <3>1, <3>2 DEF Inv, Types, TypeOK
    <2>6. Room'
      <3>1. Len(iqueue') <= MaxSize
        BY <1>2, <1>7, LenFacts, SizesAssumption, SMTT(30) DEF Inv, Room
      <3>2. Len(oqueue') <= MaxSize
        BY <2>2, <2>4, LenFacts, SizesAssumption DEF sshbuf_check_reserve
      <3> QED
        BY <1>4, <3>1, <3>2 DEF Room
    <2>7. outpipe' \o oqueue' = out \o Reply(k, n)
      <3>1. outpipe \in Seq(Unit)
        BY <1>3
      <3>2. \A u, v \in Seq(Unit) : (outpipe \o u) \o v = outpipe \o (u \o v)
        BY <3>1, Grouping
      <3> QED
        BY <1>3, <1>4, <2>1, <2>3, <3>2
    <2>8. out \in Seq(Unit) /\ (\A i \in 1 .. Len(out) : out[i][1] <= done)
          /\ Answering(out, replies, {j \in Expected : j <= done})
      BY OutputFacts
    <2> HIDE DEF out
    <2>9. \A i \in 1 .. Len(out) : out[i][1] < k
      BY <1>1, <2>8, UnitFacts
    <2>10. NotAhead'
      <3>1. \A i \in 1 .. Len(out \o Reply(k, n)) : (out \o Reply(k, n))[i][1] <= k
        <4>1. out \in Seq(Unit) /\ Len(out) \in Nat
          BY <2>8, LenProperties
        <4>2. /\ Len(out \o Reply(k, n)) = Len(out) + Len(Reply(k, n))
              /\ \A i \in 1 .. Len(out) + Len(Reply(k, n)) : (out \o Reply(k, n))[i] =
                    IF i <= Len(out) THEN out[i] ELSE Reply(k, n)[i - Len(out)]
          <5>1. Reply(k, n) \in Seq(Unit)
            BY <2>3
          <5> QED
            BY <4>1, <5>1, ConcatProperties, Zenon
        <4>3. ASSUME NEW i \in 1 .. Len(out) + n PROVE (out \o Reply(k, n))[i][1] <= k
          <5>1. CASE i <= Len(out)
            <6>1. i \in 1 .. Len(out) /\ (out \o Reply(k, n))[i] = out[i]
              BY <2>2, <2>3, <4>1, <4>2, <5>1
            <6> QED
              BY <1>1, <2>8, <6>1, UnitFacts
          <5>2. CASE ~(i <= Len(out))
            <6>1. i - Len(out) \in 1 .. n
              BY <2>2, <4>1, <5>2
            <6>2. (out \o Reply(k, n))[i] = Reply(k, n)[i - Len(out)]
              BY <2>2, <2>3, <4>1, <4>2, <5>2
            <6> QED
              BY <1>1, <2>3, <6>1, <6>2
          <5> QED
            BY <5>1, <5>2
        <4> QED
          BY <2>3, <4>2, <4>3
      <3> QED
        BY <1>4, <2>7, <3>1 DEF NotAhead
    <2>11. OneAnswerEach'
      <3>1. {j \in Expected' : j <= done'} = {j \in Expected : j <= done} \cup {k}
        <4>1. k \in Expected
          BY <1>1, <1>2, <1>10 DEF Expected
        <4>2. Expected' = Expected /\ \A j \in Expected : j \in Nat
          BY <1>4 DEF Expected
        <4> QED
          BY <1>1, <1>4, <4>1, <4>2
      <3>2. \A y \in {j \in Expected : j <= done} : y < k
        BY <1>1 DEF Expected
      <3>3. Answering(out \o Reply(k, n), replies, {j \in Expected : j <= done} \cup {k})
        BY <1>1, <1>3, <2>2, <2>8, <2>9, <3>2, AnsweringReply
      <3> QED
        BY <1>4, <2>7, <3>1, <3>3, AnsweringNext
    <2> QED
      BY <1>8, <2>5, <2>6, <2>10, <2>11 DEF Inv
  <1> QED
    BY <1>9, <1>10

LEMMA ProcessStep == ASSUME Inv, Process PROVE Inv'
  <1>0. pc = "process" /\ UNCHANGED <<client, pipes>>
    BY DEF Process
  <1>1. CASE NothingToDo
    <2>1. Types'
      BY <1>0, <1>1 DEF Inv, Types, TypeOK, NothingToDo, client, pipes
    <2>2. Room'
      BY <1>1 DEF Inv, Room, NothingToDo
    <2>3. InputFramed'
      BY <1>0, <1>1, SameInput DEF NothingToDo, Input, client, pipes
    <2>4. NotAhead' /\ OneAnswerEach'
      BY <1>0, <1>1, <2>1, SameOutput DEF NothingToDo, client, pipes
    <2> QED
      BY <2>1, <2>2, <2>3, <2>4 DEF Inv
  <1>2. CASE Exit
    BY <1>0, <1>2, ExitStep
  <1>3. CASE ~NothingToDo /\ ~Exit
    <2>1. iqueue # << >> /\ sshbuf_check_reserve(oqueue, SFTP_MAX_MSG_LENGTH)
      BY <1>3 DEF Process
    <2>2. iqueue[1][1] = done + 1 /\ done + 1 \in 1 .. Len(reqs)
      BY <2>1, NextRequest
    <2>3. /\ reqs[done + 1].kind # "toolong" /\ ~(Len(iqueue) < reqs[done + 1].size)
          /\ ~Refused(done + 1) /\ Handle(done + 1)
      BY <1>3, <2>1, <2>2 DEF Process
    <2>4. reqs[done + 1].kind \notin Fatal
      BY <2>3 DEF Refused, Fatal
    <2>5. reqs[done + 1].size <= Len(iqueue)
      BY <2>2, <2>3, SizeFacts, LenFacts DEF Inv, Types
    <2> QED
      BY <1>0, <2>1, <2>3, <2>4, <2>5, HandleStep
  <1> QED
    BY <1>1, <1>2, <1>3

LEMMA InvNext == Inv /\ [Next]_vars => Inv'
  <1> SUFFICES ASSUME Inv, [Next]_vars PROVE Inv'
    OBVIOUS
  <1>1. CASE \E r \in Requests : Send(r)
    BY <1>1, SendStep
  <1>2. CASE \E n \in 1 .. PipeSize : Transmit(n)
    BY <1>2, TransmitStep
  <1>3. CASE TakeReply
    BY <1>3, TakeReplyStep
  <1>4. CASE \E n \in 0 .. Len(cbuf) : Close(n)
    BY <1>4, CloseStep
  <1>5. CASE Select
    BY <1>5, SelectStep
  <1>6. CASE Read
    BY <1>6, ReadStep
  <1>7. CASE \E n \in 1 .. PipeSize : Write(n)
    BY <1>7, WriteStep
  <1>8. CASE Process
    BY <1>8, ProcessStep
  <1>9. CASE UNCHANGED vars
    <2>1. Types'
      BY <1>9 DEF Inv, Types, TypeOK, vars, server, client, pipes
    <2>2. Room'
      BY <1>9 DEF Inv, Room, vars, server
    <2>3. InputFramed'
      BY <1>9, SameInput DEF Input, vars, server, client, pipes
    <2>4. NotAhead' /\ OneAnswerEach'
      BY <1>9, <2>1, SameOutput DEF vars, server, client, pipes
    <2> QED
      BY <2>1, <2>2, <2>3, <2>4 DEF Inv
  <1> QED
    BY <1>1, <1>2, <1>3, <1>4, <1>5, <1>6, <1>7, <1>8, <1>9 DEF Next, Server

-----------------------------------------------------------------------------
LEMMA InvAlways == Spec => []Inv
  BY InvInit, InvNext, PTL DEF Spec

(* What sshbuf_check_reserve grants in one part of the loop is still there *)
(* when read() and send_msg use it in another: whatever the sizes of       *)
(* requests, answers and pipes, sshbuf_put never fails for want of space,  *)
(* as long as a queue takes the longest message and a buffer of input.     *)
THEOREM LoopQueuesFit == Spec => []QueuesFit
  <1>1. Inv => QueuesFit
    BY DEF Inv, Types, Room, QueuesFit
  <1> QED
    BY <1>1, InvAlways, PTL

(* process() finds the header of the first request it has not processed    *)
(* at the front of the input, however read() cut the input.                *)
THEOREM LoopFramed == Spec => []Framed
  <1>1. Inv => Framed
    BY NextRequest DEF Framed
  <1> QED
    BY <1>1, InvAlways, PTL

(* Every request with a handler is answered once and in order, in one      *)
(* piece, whatever of the output queue each write() took.                  *)
THEOREM LoopOneAnswerEach == Spec => []OneAnswerEach
  <1>1. Inv => OneAnswerEach
    BY DEF Inv
  <1> QED
    BY <1>1, InvAlways, PTL
=============================================================================

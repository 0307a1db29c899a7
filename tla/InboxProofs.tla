----------------------------- MODULE InboxProofs -----------------------------
(***************************************************************************)
(* Proofs about the notifications of MqNotify and about the dropbox, for   *)
(* any number of sessions, operations, paths, handles and requests.  The   *)
(* messages of the handlers are among those that MqNotify knows:           *)
(* Messages \subseteq Msgs.                                                *)
(*                                                                         *)
(* The safety properties of MqNotify come first: they are about MqSpec,    *)
(* whatever client makes the calls.  Of the dropbox, a handler or a step   *)
(* of it is first taken apart into what it does to each variable, place by *)
(* place (Opened, Wrote, Closed, RenameGoesOn ...); every later argument   *)
(* is about these.  Then come                                              *)
(*   - types, and that the dropbox is a client of MqNotify, so that the    *)
(*     contract with the consumer carries over;                            *)
(*   - sessions started with -R;                                           *)
(*   - clients that upload (Uploads): Orderly is inductive.  A session     *)
(*     keeps its own paths, files and handles in order (Upkeep) and leaves *)
(*     those of the others alone (Undisturbed), and the messages still on  *)
(*     their way lead the consumer to the truth (Chain);                   *)
(*   - renames of a session that is alone.                                 *)
(***************************************************************************)
EXTENDS Inbox, SequenceTheorems, TLAPS

-----------------------------------------------------------------------------
(* Notifications.  A step is taken by one session and leaves the others    *)
(* alone, so the inductive invariant MqInv is a conjunction over the       *)
(* sessions of SessionInv, and each action is looked at for its own        *)
(* session only.                                                           *)

Consecutive(q) == \A k \in 1 .. Len(q) - 1 : q[k + 1] = q[k] + 1

(* Types, one session at a time. *)
SessionType(s) ==
    /\ at[s] \in Steps \cup {"new", "idle", "clean", "exited"}
    /\ ready[s] \in BOOLEAN
    /\ opened[s] \in BOOLEAN
    /\ link[s] \in {"closed", "tcp", "up", "mute", "down"}
    /\ wire[s] \in Seq(Nat \ {0})
    /\ got[s] \in Seq(Nat \ {0})
    /\ hist[s] \in Seq(Msgs)
    /\ attempts[s] \in {0, 1}
    /\ rc[s] \in {"none", "ok", "failed", "died"}

(* Where the process is, against the state of its connection.  That a      *)
(* connection, once opened, is never opened again is what rules out gaps.  *)
LinkInv(s) ==
    /\ at[s] = "open_socket" => ~opened[s] /\ attempts[s] = 0
    /\ at[s] \in {"login", "open_channel"} => ~opened[s] /\ link[s] = "tcp"
    /\ at[s] = "publish" => opened[s]
    /\ at[s] \in Steps => hist[s] # << >>
    /\ opened[s] => link[s] \in {"up", "mute", "down"}
    /\ link[s] \in {"up", "mute", "down"} => opened[s] \/ at[s] = "exited"
    /\ rc[s] # "none" => at[s] = "exited"

(* What went out is a run of consecutive operations, split between the     *)
(* broker and the wire; only a connection that is up has anything on it.   *)
RunInv(s) ==
    /\ Consecutive(got[s])
    /\ Consecutive(wire[s])
    /\ \A k \in 1 .. Len(wire[s]) : wire[s][k] <= Len(hist[s])
    /\ got[s] # << >> /\ wire[s] # << >> => wire[s][1] = got[s][Len(got[s])] + 1
    /\ wire[s] # << >> => link[s] = "up"
    /\ link[s] \in {"closed", "tcp"} => NothingSent(s)

(* NothingQueued, with what holds while a message is being published. *)
QueueInv(s) ==
    link[s] = "up" =>
        /\ at[s] = "publish" => NothingSent(s) \/ LastSent(s) = Len(hist[s]) - 1
        /\ at[s] = "exited" => NothingSent(s) \/ LastSent(s) >= Len(hist[s]) - 1
        /\ at[s] \notin {"publish", "exited"} =>
               ~NothingSent(s) /\ LastSent(s) = Len(hist[s])

CleanInv(s) ==
    rc[s] = "ok" /\ ready[s] =>
        /\ wire[s] = << >>
        /\ got[s] # << >>
        /\ got[s][Len(got[s])] = Len(hist[s])

SessionInv(s) ==
    SessionType(s) /\ LinkInv(s) /\ RunInv(s) /\ QueueInv(s) /\ CleanInv(s)

(* The variables are functions on the sessions. *)
Domains ==
    /\ at = [s \in Sessions |-> at[s]]
    /\ ready = [s \in Sessions |-> ready[s]]
    /\ opened = [s \in Sessions |-> opened[s]]
    /\ link = [s \in Sessions |-> link[s]]
    /\ wire = [s \in Sessions |-> wire[s]]
    /\ got = [s \in Sessions |-> got[s]]
    /\ hist = [s \in Sessions |-> hist[s]]
    /\ attempts = [s \in Sessions |-> attempts[s]]
    /\ rc = [s \in Sessions |-> rc[s]]

MqInv == Domains /\ \A s \in Sessions : SessionInv(s)

Same(s) ==
    /\ at'[s] = at[s] /\ ready'[s] = ready[s] /\ opened'[s] = opened[s]
    /\ link'[s] = link[s] /\ wire'[s] = wire[s] /\ got'[s] = got[s]
    /\ hist'[s] = hist[s] /\ attempts'[s] = attempts[s] /\ rc'[s] = rc[s]

-----------------------------------------------------------------------------
(* Appending and taking the tail, element by element. *)
LEMMA AppendFacts ==
    ASSUME NEW q \in Seq(Nat \ {0}), NEW e \in Nat \ {0}
    PROVE  /\ Append(q, e) \in Seq(Nat \ {0})
           /\ Append(q, e) # << >>
           /\ Len(Append(q, e)) = Len(q) + 1
           /\ Len(q) \in Nat
           /\ \A k \in 1 .. Len(q) : Append(q, e)[k] = q[k]
           /\ Append(q, e)[Len(q) + 1] = e
  OBVIOUS

LEMMA TailFacts ==
    ASSUME NEW q \in Seq(Nat \ {0}), q # << >>
    PROVE  /\ Tail(q) \in Seq(Nat \ {0})
           /\ Head(q) = q[1] /\ q[1] \in Nat \ {0}
           /\ Len(q) \in Nat \ {0}
           /\ Len(Tail(q)) = Len(q) - 1
           /\ \A k \in 1 .. Len(q) - 1 : Tail(q)[k] = q[k + 1]
           /\ Tail(q) = << >> <=> Len(q) = 1
  <1>1. /\ Tail(q) \in Seq(Nat \ {0})
        /\ Len(Tail(q)) = Len(q) - 1
        /\ \A k \in 1 .. Len(Tail(q)) : Tail(q)[k] = q[k + 1]
    BY HeadTailProperties
  <1>2. Len(q) \in Nat \ {0}
    BY EmptySeq
  <1>3. Head(q) = q[1] /\ q[1] \in Nat \ {0}
    BY <1>2, LenProperties
  <1>4. Tail(q) = << >> <=> Len(Tail(q)) = 0
    BY <1>1, EmptySeq
  <1> QED
    BY <1>1, <1>2, <1>3, <1>4, SMTT(30)

(* A longer consecutive run, and the rest of one. *)
LEMMA ConsecutiveAppend ==
    ASSUME NEW q \in Seq(Nat \ {0}), NEW e \in Nat \ {0}, Consecutive(q),
           q = << >> \/ e = q[Len(q)] + 1
    PROVE  Consecutive(Append(q, e))
  <1>1. SUFFICES ASSUME NEW k \in 1 .. Len(q)
                 PROVE  Append(q, e)[k + 1] = Append(q, e)[k] + 1
    BY AppendFacts DEF Consecutive
  <1>2. q # << >> /\ e = q[Len(q)] + 1
    OBVIOUS
  <1>3. CASE k = Len(q)
    BY <1>2, <1>3, AppendFacts
  <1>4. CASE k # Len(q)
    <2>1. k \in 1 .. Len(q) - 1 /\ k + 1 \in 1 .. Len(q)
      BY <1>4
    <2> QED
      BY <2>1, AppendFacts DEF Consecutive
  <1> QED
    BY <1>3, <1>4

LEMMA ConsecutiveTail ==
    ASSUME NEW q \in Seq(Nat \ {0}), q # << >>, Consecutive(q)
    PROVE  Consecutive(Tail(q))
  <1>1. SUFFICES ASSUME NEW k \in 1 .. Len(q) - 2
                 PROVE  Tail(q)[k + 1] = Tail(q)[k] + 1
    BY TailFacts DEF Consecutive
  <1>2. k \in 1 .. Len(q) - 1 /\ k + 1 \in 1 .. Len(q) - 1
    OBVIOUS
  <1> QED
    BY <1>2, TailFacts DEF Consecutive

(* A session whose variables do not change keeps its invariant. *)
LEMMA Frame ==
    ASSUME NEW s \in Sessions, SessionInv(s), Same(s)
    PROVE  SessionInv(s)'
  BY DEF Same, SessionInv, SessionType, LinkInv, RunInv, QueueInv, CleanInv,
         NothingSent, LastSent, Consecutive

-----------------------------------------------------------------------------
(* At the start every session is new, and nothing was sent. *)
LEMMA InitInv == MqInit => MqInv
  <1> SUFFICES ASSUME MqInit PROVE MqInv
    OBVIOUS
  <1>1. Domains
    BY DEF MqInit, Domains
  <1>2. ASSUME NEW s \in Sessions PROVE SessionInv(s)
    BY DEF MqInit, SessionInv, SessionType, LinkInv, RunInv, QueueInv, CleanInv,
           NothingSent, LastSent, Consecutive, Steps
  <1> QED
    BY <1>1, <1>2 DEF MqInv

(* A step of one session preserves the invariant if it does so there. *)
LEMMA Others ==
    ASSUME MqInv, NEW s \in Sessions, Domains',
           \A t \in Sessions \ {s} : Same(t),
           SessionInv(s)'
    PROVE  MqInv'
  <1>1. ASSUME NEW t \in Sessions PROVE SessionInv(t)'
    <2>1. CASE t = s
      BY <2>1
    <2>2. CASE t # s
      BY <2>2, Frame DEF MqInv
    <2> QED
      BY <2>1, <2>2
  <1> QED
    BY <1>1 DEF MqInv

(* Starting a session sends nothing. *)
LEMMA LoadInv ==
    ASSUME MqInv, NEW s \in Sessions, NEW resolved \in BOOLEAN, load_mq_config(s, resolved)
    PROVE  MqInv'
  <1>1. Domains' /\ \A t \in Sessions \ {s} : Same(t)
    BY DEF MqInv, Domains, Same, load_mq_config
  <1>2. SessionInv(s)
    BY DEF MqInv
  <1>3. SessionInv(s)'
    BY <1>2 DEF MqInv, Domains, load_mq_config, SessionInv, SessionType, LinkInv, RunInv,
                QueueInv, CleanInv, NothingSent, LastSent, Consecutive, Steps
  <1> QED
    BY <1>1, <1>3, Others

(* A session that opens a socket has sent nothing yet. *)
LEMMA OpenSocketInv ==
    ASSUME MqInv, NEW s \in Sessions, open_socket(s)
    PROVE  MqInv'
  <1>1. Domains' /\ \A t \in Sessions \ {s} : Same(t)
    BY DEF MqInv, Domains, Same, open_socket
  <1>2. SessionInv(s)
    BY DEF MqInv
  <1>3. SessionInv(s)'
    BY <1>2 DEF MqInv, Domains, open_socket, SessionInv, SessionType, LinkInv, RunInv,
                QueueInv, CleanInv, NothingSent, LastSent, Consecutive, Steps
  <1> QED
    BY <1>1, <1>3, Others

(* Nor has one that logs in. *)
LEMMA LoginInv ==
    ASSUME MqInv, NEW s \in Sessions, login(s)
    PROVE  MqInv'
  <1>1. Domains' /\ \A t \in Sessions \ {s} : Same(t)
    BY DEF MqInv, Domains, Same, login
  <1>2. SessionInv(s)
    BY DEF MqInv
  <1>3. SessionInv(s)'
    BY <1>2 DEF MqInv, Domains, login, SessionInv, SessionType, LinkInv, RunInv,
                QueueInv, CleanInv, NothingSent, LastSent, Consecutive, Steps
  <1> QED
    BY <1>1, <1>3, Others

(* The channel is opened once, before the first message. *)
LEMMA OpenChannelInv ==
    ASSUME MqInv, NEW s \in Sessions, open_channel(s)
    PROVE  MqInv'
  <1>1. Domains' /\ \A t \in Sessions \ {s} : Same(t)
    BY DEF MqInv, Domains, Same, open_channel
  <1>2. SessionInv(s)
    BY DEF MqInv
  <1>3. SessionInv(s)'
    BY <1>2 DEF MqInv, Domains, open_channel, SessionInv, SessionType, LinkInv, RunInv,
                QueueInv, CleanInv, NothingSent, LastSent, Consecutive, Steps
  <1> QED
    BY <1>1, <1>3, Others

(* mq_clean is called with nothing in hand. *)
LEMMA CleanCallInv ==
    ASSUME MqInv, NEW s \in Sessions, mq_clean(s)
    PROVE  MqInv'
  <1>1. Domains' /\ \A t \in Sessions \ {s} : Same(t)
    BY DEF MqInv, Domains, Same, mq_clean
  <1>2. SessionInv(s)
    BY DEF MqInv
  <1>3. SessionInv(s)'
    BY <1>2 DEF MqInv, Domains, mq_clean, SessionInv, SessionType, LinkInv, RunInv,
                QueueInv, CleanInv, NothingSent, LastSent, Consecutive, Steps
  <1> QED
    BY <1>1, <1>3, Others

(* A clean return finds the wire empty. *)
LEMMA CleanReturnInv ==
    ASSUME MqInv, NEW s \in Sessions, mq_clean_return(s)
    PROVE  MqInv'
  <1>1. Domains' /\ \A t \in Sessions \ {s} : Same(t)
    BY DEF MqInv, Domains, Same, mq_clean_return
  <1>2. SessionInv(s)
    BY DEF MqInv
  <1>a. /\ at[s] = "clean" /\ at'[s] = "exited"
        /\ rc[s] = "none"
        /\ ready'[s] = ready[s] /\ link'[s] = link[s] /\ wire'[s] = wire[s]
        /\ got'[s] = got[s] /\ hist'[s] = hist[s] /\ attempts'[s] = attempts[s]
        /\ opened'[s] = opened[s] \/ (opened'[s] = FALSE /\ rc'[s] = "ok")
        /\ rc'[s] \in {"ok", "failed"}
        /\ rc'[s] = "ok" /\ ready[s] => link[s] = "up" /\ wire[s] = << >>
    BY <1>2 DEF MqInv, Domains, mq_clean_return, SessionInv, SessionType, LinkInv, Steps
  <1>b. SessionType(s)' /\ LinkInv(s)' /\ RunInv(s)'
    BY <1>2, <1>a DEF SessionInv, SessionType, LinkInv, RunInv, NothingSent, Consecutive, Steps
  <1>c. link[s] = "up" => ~NothingSent(s) /\ LastSent(s) = Len(hist[s])
    BY <1>2, <1>a DEF SessionInv, QueueInv
  <1>d. QueueInv(s)'
    BY <1>2, <1>a, <1>c DEF SessionInv, SessionType, QueueInv, NothingSent, LastSent
  <1>e. CleanInv(s)'
    BY <1>2, <1>a, <1>c DEF CleanInv, NothingSent, LastSent
  <1>3. SessionInv(s)'
    BY <1>b, <1>d, <1>e DEF SessionInv
  <1> QED
    BY <1>1, <1>3, Others

(* A process that dies takes at most one message with it. *)
LEMMA DieInv ==
    ASSUME MqInv, NEW s \in Sessions, die(s)
    PROVE  MqInv'
  <1>1. Domains' /\ \A t \in Sessions \ {s} : Same(t)
    BY DEF MqInv, Domains, Same, die
  <1>2. SessionInv(s)
    BY DEF MqInv
  <1>3. SessionInv(s)'
    BY <1>2 DEF MqInv, Domains, die, SessionInv, SessionType, LinkInv, RunInv,
                QueueInv, CleanInv, NothingSent, LastSent, Consecutive, Steps
  <1> QED
    BY <1>1, <1>3, Others

(* A broken connection is never up again. *)
LEMMA BreakInv ==
    ASSUME MqInv, NEW s \in Sessions, NEW how, Break(s, how)
    PROVE  MqInv'
  <1>1. Domains' /\ \A t \in Sessions \ {s} : Same(t)
    BY DEF MqInv, Domains, Same, Break
  <1>2. SessionInv(s)
    BY DEF MqInv
  <1>3. SessionInv(s)'
    BY <1>2 DEF MqInv, Domains, Break, SessionInv, SessionType, LinkInv, RunInv,
                QueueInv, CleanInv, NothingSent, LastSent, Consecutive, Steps
  <1> QED
    BY <1>1, <1>3, Others

(* A new operation is the one message that is not on the wire. *)
LEMMA SendInv ==
    ASSUME MqInv, NEW s \in Sessions, NEW m \in Msgs, mq_send(s, m)
    PROVE  MqInv'
  <1>1. Domains' /\ \A t \in Sessions \ {s} : Same(t)
    BY DEF MqInv, Domains, Same, mq_send
  <1>2. SessionInv(s)
    BY DEF MqInv
  <1>3. /\ at[s] = "idle"
        /\ hist'[s] = Append(hist[s], m)
        /\ attempts'[s] = 0
        /\ at'[s] \in {"publish", "open_socket", "idle"}
        /\ opened[s] <=> at'[s] = "publish"
        /\ ready'[s] = ready[s] /\ opened'[s] = opened[s] /\ link'[s] = link[s]
        /\ wire'[s] = wire[s] /\ got'[s] = got[s] /\ rc'[s] = rc[s]
    BY <1>2 DEF MqInv, Domains, mq_send, SessionInv, SessionType
  <1>4. /\ hist'[s] \in Seq(Msgs) /\ hist'[s] # << >>
        /\ Len(hist'[s]) = Len(hist[s]) + 1 /\ Len(hist[s]) \in Nat
    <2>1. hist[s] \in Seq(Msgs)
      BY <1>2 DEF SessionInv, SessionType
    <2> QED
      BY <1>3, <2>1
  <1>5. SessionType(s)' /\ LinkInv(s)' /\ CleanInv(s)'
    BY <1>2, <1>3, <1>4 DEF SessionInv, SessionType, LinkInv, CleanInv, Steps
  <1>6. RunInv(s)'
    <2>1. \A k \in 1 .. Len(wire[s]) : wire[s][k] \in Nat
      BY <1>2, LenProperties DEF SessionInv, SessionType
    <2>2. \A k \in 1 .. Len(wire[s]) : wire[s][k] <= Len(hist'[s])
      BY <1>2, <1>4, <2>1 DEF SessionInv, RunInv
    <2> QED
      BY <1>2, <1>3, <2>2, ZenonT(60) DEF SessionInv, RunInv, NothingSent, Consecutive
  <1>7. QueueInv(s)'
    BY <1>2, <1>3, <1>4 DEF SessionInv, LinkInv, QueueInv, NothingSent, LastSent
  <1> QED
    BY <1>1, <1>5, <1>6, <1>7, Others DEF SessionInv

(* A message published on a connection that is up follows the last one.  *)
LEMMA PublishInv ==
    ASSUME MqInv, NEW s \in Sessions, do_send_message(s)
    PROVE  MqInv'
  <1>1. Domains' /\ \A t \in Sessions \ {s} : Same(t)
    BY DEF MqInv, Domains, Same, do_send_message
  <1>2. SessionInv(s)
    BY DEF MqInv
  <1>3. /\ at[s] = "publish" /\ at'[s] = "idle"
        /\ link[s] = "up" => wire'[s] = Append(wire[s], Len(hist[s]))
        /\ link[s] # "up" => wire'[s] = wire[s]
        /\ ready'[s] = ready[s] /\ opened'[s] = opened[s] /\ link'[s] = link[s]
        /\ got'[s] = got[s] /\ hist'[s] = hist[s] /\ attempts'[s] = attempts[s]
        /\ rc'[s] = rc[s] /\ rc[s] = "none"
    BY <1>2 DEF MqInv, Domains, do_send_message, SessionInv, LinkInv
  <1>4. Len(hist[s]) \in Nat \ {0}
    BY <1>2, <1>3, EmptySeq DEF SessionInv, SessionType, LinkInv, Steps
  <1>5. CASE link[s] # "up"
    BY <1>1, <1>2, <1>3, <1>5, Others, ZenonT(60)
       DEF SessionInv, SessionType, LinkInv, RunInv, QueueInv, CleanInv,
           NothingSent, Consecutive, Steps
  <1>6. CASE link[s] = "up"
    <2>1. /\ wire[s] \in Seq(Nat \ {0})
          /\ NothingSent(s) \/ LastSent(s) = Len(hist[s]) - 1
      BY <1>2, <1>3, <1>6 DEF SessionInv, SessionType, QueueInv
    <2>2. /\ wire'[s] \in Seq(Nat \ {0}) /\ wire'[s] # << >>
          /\ Len(wire[s]) \in Nat
          /\ Len(wire'[s]) = Len(wire[s]) + 1
          /\ \A k \in 1 .. Len(wire[s]) : wire'[s][k] = wire[s][k]
          /\ wire'[s][Len(wire[s]) + 1] = Len(hist[s])
      <3>1. ASSUME NEW q, q = Append(wire[s], Len(hist[s]))
            PROVE  /\ q \in Seq(Nat \ {0}) /\ q # << >>
                   /\ Len(wire[s]) \in Nat
                   /\ Len(q) = Len(wire[s]) + 1
                   /\ \A k \in 1 .. Len(wire[s]) : q[k] = wire[s][k]
                   /\ q[Len(wire[s]) + 1] = Len(hist[s])
        BY <1>4, <2>1, <3>1, AppendFacts
      <3> QED
        BY <1>3, <1>6, <3>1
    <2>3. SessionType(s)' /\ LinkInv(s)' /\ CleanInv(s)'
      BY <1>2, <1>3, <2>2 DEF SessionInv, SessionType, LinkInv, CleanInv, Steps
    <2>4. QueueInv(s)'
      BY <1>3, <2>2 DEF QueueInv, NothingSent, LastSent
    <2>5. Consecutive(wire[s])'
      <3>1. wire[s] = << >> \/ Len(hist[s]) = wire[s][Len(wire[s])] + 1
        <4>1. CASE wire[s] # << >>
          <5>1. wire[s][Len(wire[s])] \in Nat
            BY <2>1, <2>2, <4>1, EmptySeq, LenProperties
          <5> QED
            BY <1>4, <2>1, <4>1, <5>1 DEF NothingSent, LastSent
        <4> QED
          BY <4>1
      <3> QED
        BY <1>2, <1>3, <1>4, <1>6, <2>1, <3>1, ConsecutiveAppend
           DEF SessionInv, RunInv
    <2>6. got[s] # << >> => wire'[s][1] = got[s][Len(got[s])] + 1
      <3>1. CASE wire[s] = << >>
        <4>1. wire'[s][1] = Len(hist[s])
          BY <2>2, <3>1, EmptySeq
        <4>2. got[s] # << >> => got[s][Len(got[s])] \in Nat
          BY <1>2, EmptySeq, LenProperties DEF SessionInv, SessionType
        <4> QED
          BY <1>4, <2>1, <3>1, <4>1, <4>2 DEF NothingSent, LastSent
      <3>2. CASE wire[s] # << >>
        <4>1. 1 \in 1 .. Len(wire[s])
          BY <2>1, <3>2, EmptySeq
        <4> QED
          BY <1>2, <2>2, <3>2, <4>1 DEF SessionInv, RunInv
      <3> QED
        BY <3>1, <3>2
    <2>7. RunInv(s)'
      <3>1. ASSUME NEW k \in 1 .. Len(wire'[s]) PROVE wire'[s][k] <= Len(hist[s])
        <4>1. CASE k = Len(wire[s]) + 1
          BY <1>4, <2>2, <4>1
        <4>2. CASE k # Len(wire[s]) + 1
          <5>1. k \in 1 .. Len(wire[s])
            BY <2>2, <4>2
          <5>2. wire[s][k] <= Len(hist[s])
            BY <1>2, <5>1 DEF SessionInv, RunInv
          <5> QED
            BY <2>2, <5>1, <5>2
        <4> QED
          BY <4>1, <4>2
      <3>2. Consecutive(got[s])
        BY <1>2 DEF SessionInv, RunInv
      <3> QED
        BY <1>3, <1>6, <2>2, <2>5, <2>6, <3>1, <3>2 DEF RunInv, Consecutive
    <2> QED
      BY <1>1, <2>3, <2>4, <2>7, Others DEF SessionInv
  <1> QED
    BY <1>5, <1>6

(* The broker's next message follows the last one it got. *)
LEMMA ReceiveInv ==
    ASSUME MqInv, NEW s \in Sessions, Receive(s)
    PROVE  MqInv'
  <1>1. Domains' /\ \A t \in Sessions \ {s} : Same(t)
    BY DEF MqInv, Domains, Same, Receive
  <1>2. SessionInv(s)
    BY DEF MqInv
  <1>3. /\ wire[s] # << >>
        /\ got'[s] = Append(got[s], Head(wire[s])) /\ wire'[s] = Tail(wire[s])
        /\ at'[s] = at[s] /\ ready'[s] = ready[s] /\ opened'[s] = opened[s]
        /\ link'[s] = link[s] /\ hist'[s] = hist[s] /\ rc'[s] = rc[s]
        /\ attempts'[s] = attempts[s]
    BY DEF MqInv, Domains, Receive
  <1>4. /\ link[s] = "up"
        /\ ~(rc[s] = "ok" /\ ready[s])
        /\ wire[s] \in Seq(Nat \ {0}) /\ got[s] \in Seq(Nat \ {0})
        /\ Consecutive(wire[s]) /\ Consecutive(got[s])
    BY <1>2, <1>3 DEF SessionInv, SessionType, RunInv, CleanInv
  <1>5. /\ wire'[s] \in Seq(Nat \ {0})
        /\ Head(wire[s]) = wire[s][1] /\ wire[s][1] \in Nat \ {0}
        /\ Len(wire[s]) \in Nat \ {0}
        /\ Len(wire'[s]) = Len(wire[s]) - 1
        /\ \A k \in 1 .. Len(wire[s]) - 1 : wire'[s][k] = wire[s][k + 1]
        /\ wire'[s] = << >> <=> Len(wire[s]) = 1
    BY <1>3, <1>4, TailFacts
  <1>6. /\ got'[s] \in Seq(Nat \ {0}) /\ got'[s] # << >>
        /\ Len(got[s]) \in Nat
        /\ Len(got'[s]) = Len(got[s]) + 1
        /\ got'[s][Len(got[s]) + 1] = wire[s][1]
    <2>1. ASSUME NEW q, q = Append(got[s], wire[s][1])
          PROVE  /\ q \in Seq(Nat \ {0}) /\ q # << >>
                 /\ Len(got[s]) \in Nat
                 /\ Len(q) = Len(got[s]) + 1
                 /\ q[Len(got[s]) + 1] = wire[s][1]
      BY <1>4, <1>5, <2>1, AppendFacts
    <2> QED
      BY <1>3, <1>5, <2>1
  <1>7. SessionType(s)' /\ LinkInv(s)' /\ CleanInv(s)'
    BY <1>2, <1>3, <1>4, <1>5, <1>6 DEF SessionInv, SessionType, LinkInv, CleanInv
  <1>8. ~NothingSent(s)' /\ LastSent(s)' = LastSent(s)
    <2>1. LastSent(s) = wire[s][Len(wire[s])]
      BY <1>3 DEF LastSent
    <2>2. CASE Len(wire[s]) = 1
      BY <1>5, <1>6, <2>1, <2>2 DEF NothingSent, LastSent
    <2>3. CASE Len(wire[s]) # 1
      <3>1. /\ Len(wire[s]) - 1 \in 1 .. Len(wire[s]) - 1
            /\ (Len(wire[s]) - 1) + 1 = Len(wire[s])
        BY <1>5, <2>3
      <3>2. wire'[s][Len(wire'[s])] = wire[s][Len(wire[s])]
        BY <1>5, <3>1
      <3> QED
        BY <1>5, <1>6, <2>1, <2>3, <3>2 DEF NothingSent, LastSent
    <2> QED
      BY <2>2, <2>3
  <1>9. QueueInv(s)'
    BY <1>2, <1>3, <1>8 DEF SessionInv, QueueInv, NothingSent
  <1>10. Consecutive(got'[s])
    <2>1. got[s] = << >> \/ wire[s][1] = got[s][Len(got[s])] + 1
      BY <1>2, <1>3 DEF SessionInv, RunInv
    <2> QED
      BY <1>3, <1>4, <1>5, <2>1, ConsecutiveAppend
  <1>11. Consecutive(wire'[s])
    BY <1>3, <1>4, ConsecutiveTail
  <1>12. wire'[s] # << >> => wire'[s][1] = wire[s][1] + 1
    <2>1. CASE Len(wire[s]) # 1
      <3>1. 1 \in 1 .. Len(wire[s]) - 1
        BY <1>5, <2>1
      <3>2. wire'[s][1] = wire[s][1 + 1] /\ wire[s][1 + 1] = wire[s][1] + 1
        BY <1>4, <1>5, <3>1 DEF Consecutive
      <3> QED
        BY <3>2
    <2> QED
      BY <1>5, <2>1
  <1>13. RunInv(s)'
    <2>1. \A k \in 1 .. Len(wire'[s]) : wire'[s][k] <= Len(hist[s])
      BY <1>2, <1>5 DEF SessionInv, RunInv
    <2> QED
      BY <1>3, <1>4, <1>6, <1>10, <1>11, <1>12, <2>1 DEF RunInv, Consecutive
  <1> QED
    BY <1>1, <1>7, <1>9, <1>13, Others DEF SessionInv

-----------------------------------------------------------------------------
(* What a session does, whoever decides what it has to announce.  MqNext   *)
(* bounds the number of operations and is otherwise a choice of these.     *)
MqStep ==
    \E s \in Sessions :
        \/ \E resolved \in BOOLEAN : load_mq_config(s, resolved)
        \/ \E m \in Msgs : mq_send(s, m)
        \/ open_socket(s) \/ login(s) \/ open_channel(s)
        \/ do_send_message(s)
        \/ mq_clean(s) \/ mq_clean_return(s)
        \/ die(s)
        \/ Receive(s)
        \/ \E how \in {"mute", "down"} : Break(s, how)

LEMMA NextIsStep == [MqNext]_mqvars => [MqStep]_mqvars
  BY DEF MqNext, MqStep, Connect, Leave

(* Every step preserves the invariant. *)
LEMMA StepInv == MqInv /\ [MqStep]_mqvars => MqInv'
  <1> SUFFICES ASSUME MqInv, [MqStep]_mqvars PROVE MqInv'
    OBVIOUS
  <1>1. CASE MqStep
    BY <1>1, LoadInv, SendInv, OpenSocketInv, LoginInv, OpenChannelInv,
       PublishInv, CleanCallInv, CleanReturnInv, DieInv, ReceiveInv, BreakInv DEF MqStep
  <1>2. CASE UNCHANGED mqvars
    <2>1. \A s \in Sessions : Same(s)
      BY <1>2 DEF mqvars, Same
    <2>2. Domains'
      BY <1>2 DEF MqInv, mqvars, Domains
    <2> QED
      BY <2>1, <2>2, Frame DEF MqInv
  <1> QED
    BY <1>1, <1>2

(* What the invariant says of the properties. *)
LEMMA InvTypes == MqInv => MqTypeOK
  BY DEF MqInv, Domains, SessionInv, SessionType, MqTypeOK

LEMMA InvNothingQueued == MqInv => NothingQueued
  <1> SUFFICES ASSUME MqInv, NEW s \in Sessions, link[s] = "up"
               PROVE  /\ ~NothingSent(s) => LastSent(s) >= Len(hist[s]) - 1
                      /\ at[s] \notin {"publish", "exited"} =>
                             ~NothingSent(s) /\ LastSent(s) = Len(hist[s])
    BY DEF NothingQueued
  <1>1. QueueInv(s) /\ Len(hist[s]) \in Nat
    BY DEF MqInv, SessionInv, SessionType
  <1> QED
    BY <1>1 DEF QueueInv

LEMMA InvCleanExit == MqInv => CleanExitIsComplete
  BY DEF MqInv, SessionInv, CleanInv, CleanExitIsComplete

(* The inductive invariant holds in every reachable state. *)
THEOREM MqInvHolds == MqSpec => []MqInv
  BY InitInv, NextIsStep, StepInv, PTL DEF MqSpec

(* Type correctness: among others, no message is given more than one       *)
(* attempt to connect.                                                     *)
THEOREM MqTypeCorrect == MqSpec => []MqTypeOK
  BY InvTypes, MqInvHolds, PTL

(* While the connection is up nothing is queued in the process: mq_send_*  *)
(* returns with the message on the wire.                                   *)
THEOREM NothingIsQueued == MqSpec => []NothingQueued
  BY InvNothingQueued, MqInvHolds, PTL

(* A session that mq_clean reports as cleanly closed has delivered its     *)
(* last message: the channel is closed behind it.                          *)
THEOREM CleanExitsAreComplete == MqSpec => []CleanExitIsComplete
  BY InvCleanExit, MqInvHolds, PTL

(* A step of MqNotify is a step of the contract or changes neither the     *)
(* operations nor the messages received.                                   *)
LEMMA ContractStep ==
    MqInv /\ [MqStep]_mqvars => [Contract!Next]_<<hist, got>>
  <1> SUFFICES ASSUME MqInv, MqStep, ~UNCHANGED <<hist, got>>
               PROVE  Contract!Next
    BY DEF mqvars
  <1>1. PICK s \in Sessions : (\E m \in Msgs : mq_send(s, m)) \/ Receive(s)
    BY DEF MqStep, load_mq_config, open_socket, login, open_channel,
           do_send_message, mq_clean, mq_clean_return, die, Break
  <1>2. CASE \E m \in Msgs : mq_send(s, m)
    BY <1>2 DEF mq_send, Contract!Next, Contract!Perform
  <1>3. CASE Receive(s)
    <2>1. SessionInv(s) /\ wire[s] # << >>
      BY <1>3 DEF MqInv, Receive
    <2>2. /\ Head(wire[s]) = wire[s][1] /\ wire[s][1] \in Nat \ {0}
          /\ Len(wire[s]) \in Nat \ {0}
      BY <2>1, TailFacts DEF SessionInv, SessionType
    <2>3. wire[s][1] <= Len(hist[s]) /\ Len(hist[s]) \in Nat
      BY <2>1, <2>2 DEF SessionInv, SessionType, RunInv
    <2>4. got[s] # << >> => wire[s][1] = got[s][Len(got[s])] + 1
      BY <2>1 DEF SessionInv, RunInv
    <2>5. Contract!Receive(s, wire[s][1])
      BY <1>3, <2>2, <2>4 DEF Receive, Contract!Receive
    <2> QED
      BY <2>2, <2>3, <2>5 DEF Contract!Next
  <1> QED
    BY <1>1, <1>2, <1>3

(* Whatever fails, the messages of a session arrive at most once, in order *)
(* and without a gap.                                                      *)
THEOREM MqImplementation == MqSpec => ImplementsContract
  <1>1. MqInit => Contract!Init
    BY DEF MqInit, Contract!Init
  <1> QED
    BY <1>1, NextIsStep, ContractStep, MqInvHolds, PTL
       DEF MqSpec, ImplementsContract, Contract!Spec

-----------------------------------------------------------------------------
(* The dropbox. *)

Flags == {"WRONLY", "RDWR", "APPEND", "CREAT", "TRUNC", "EXCL"}
FileSet == [kind : {"reg", "dir"}, data : Seq(Nat)]
HandleSet == [use : {"FILE", "UNUSED"}, ino : Inodes \cup {NoInode},
              flags : SUBSET Flags, name : Paths \cup {"none"}, md : Seq(Nat)]
CloseSet == [step : {"close"}, h : Slots, size : Nat]
RenameSet == [step : RenameSteps, old : Paths, new : Paths,
              ino : Inodes \cup {NoInode}, names : SUBSET Paths]
TodoSet == {Idle} \cup CloseSet \cup RenameSet

(* A handle is that of a file, or nothing is left of it but the digest. *)
Whole(hd) == IF hd.use = "FILE" THEN hd.ino \in Inodes /\ hd.name \in Paths
                                ELSE hd = Unused(hd.md)

FsTypes ==
    /\ dir \in [Paths -> Inodes \cup {NoInode}]
    /\ inode \in [Inodes -> FileSet]
    /\ \A i \in Inodes : Len(inode[i].data) <= MaxLen

HandleTypes ==
    /\ handles \in [Sessions -> [Slots -> HandleSet]]
    /\ \A s \in Sessions, h \in Slots : Whole(handles[s][h])

(* The handle a CLOSE is at work on is open. *)
TodoTypes ==
    /\ todo \in [Sessions -> TodoSet]
    /\ \A s \in Sessions : todo[s].step = "close" => IsOpen(s, todo[s].h)
    /\ \A s \in Sessions : at[s] = "clean" => todo[s] = Idle

CountTypes == reqs \in [Sessions -> 0 .. MaxReqs] /\ faults \in 0 .. MaxFaults

Types == FsTypes /\ HandleTypes /\ TodoTypes /\ CountTypes

-----------------------------------------------------------------------------
(* The operators. *)

LEMMA IdleFacts == Idle \in TodoSet /\ Idle.step = "idle"
  BY DEF Idle, TodoSet

LEMMA TodoKinds ==
    ASSUME NEW r \in TodoSet
    PROVE  /\ r.step = "close" => r \in CloseSet
           /\ r.step \in RenameSteps => r \in RenameSet
           /\ r.step \notin RenameSteps \cup {"close"} => r = Idle
  BY DEF TodoSet, Idle, CloseSet, RenameSet, RenameSteps

LEMMA ClosedHandle ==
    ASSUME NEW hd \in HandleSet
    PROVE  Unused(hd.md) \in HandleSet /\ Whole(Unused(hd.md)) /\ Unused(hd.md).use # "FILE"
  BY DEF Unused, HandleSet, Whole

LEMMA EmptyTable ==
    /\ NoHandles \in [Slots -> HandleSet]
    /\ \A h \in Slots : Whole(NoHandles[h]) /\ NoHandles[h].use # "FILE"
  <1>1. << >> \in Seq(Nat)
    OBVIOUS
  <1>2. Unused(<< >>) \in HandleSet /\ Unused(<< >>).use # "FILE" /\ Unused(<< >>).md = << >>
    BY <1>1 DEF Unused, HandleSet
  <1>3. Whole(Unused(<< >>))
    BY <1>2 DEF Whole
  <1> QED
    BY <1>2, <1>3 DEF NoHandles

LEMMA FlagsType ==
    ASSUME NEW m PROVE flags_from_portable(m) \in SUBSET Flags
  BY DEF flags_from_portable, Flags, O_RDWR, O_WRONLY, O_RDONLY

LEMMA NewHandle ==
    ASSUME NEW s, NEW h, NEW i \in Inodes, NEW f \in SUBSET Flags, NEW p \in Paths
    PROVE  /\ handle_new(s, h, i, f, p) \in HandleSet
           /\ Whole(handle_new(s, h, i, f, p))
           /\ handle_new(s, h, i, f, p).use = "FILE"
           /\ handle_new(s, h, i, f, p).ino = i
           /\ handle_new(s, h, i, f, p).flags = f
           /\ handle_new(s, h, i, f, p).name = p
           /\ handle_new(s, h, i, f, p).md = << >>
  BY DEF handle_new, HandleSet, Whole, checksum_init

LEMMA NewInodeIsFree ==
    ASSUME FreeInodes # {} PROVE NewInode \in FreeInodes /\ NewInode \in Inodes
  BY DEF NewInode, FreeInodes

LEMMA WriteAtLen ==
    ASSUME NEW d \in Seq(Nat), NEW off \in Nat, NEW b \in Seq(Nat),
           Len(d) <= MaxLen, off + Len(b) <= MaxLen
    PROVE  /\ WriteAt(d, off, b) \in Seq(Nat)
           /\ Len(WriteAt(d, off, b)) <= MaxLen
           /\ Len(WriteAt(d, off, b)) >= Len(d)
           /\ b # << >> => Len(WriteAt(d, off, b)) >= off + Len(b)
           /\ \A k \in 1 .. Len(WriteAt(d, off, b)) :
                 WriteAt(d, off, b)[k] = IF k \in off + 1 .. off + Len(b) THEN b[k - off]
                                         ELSE IF k <= Len(d) THEN d[k] ELSE 0
  <1>1. CASE b = << >>
    BY <1>1 DEF WriteAt
  <1>2. CASE b # << >>
    <2> DEFINE L == IF Len(d) > off + Len(b) THEN Len(d) ELSE off + Len(b)
               W == [k \in 1 .. L |-> IF k \in off + 1 .. off + Len(b) THEN b[k - off]
                                      ELSE IF k <= Len(d) THEN d[k] ELSE 0]
    <2>1. WriteAt(d, off, b) = W
      BY <1>2 DEF WriteAt
    <2>2. L \in Nat /\ L <= MaxLen /\ L >= Len(d) /\ L >= off + Len(b)
      OBVIOUS
    <2>3. ASSUME NEW k \in 1 .. L PROVE W[k] \in Nat
      <3>1. CASE k \in off + 1 .. off + Len(b)
        <4>1. k - off \in 1 .. Len(b)
          BY <3>1, <2>2
        <4> QED
          BY <3>1, <4>1
      <3>2. CASE k \notin off + 1 .. off + Len(b)
        BY <3>2, <2>2
      <3> QED
        BY <3>1, <3>2
    <2> HIDE DEF L
    <2>4. W \in Seq(Nat) /\ Len(W) = L
      BY <2>2, <2>3
    <2> QED
      BY <2>1, <2>2, <2>4
  <1> QED
    BY <1>1, <1>2

LEMMA TruncateLen ==
    ASSUME NEW d \in Seq(Nat), NEW n \in 0 .. MaxLen
    PROVE  Truncate(d, n) \in Seq(Nat) /\ Len(Truncate(d, n)) <= MaxLen
  <1>1. MaxLen \in Nat
    BY InboxAssumption
  <1>2. n \in Nat /\ n <= MaxLen
    BY <1>1
  <1>3. \A k \in 1 .. n : (IF k <= Len(d) THEN d[k] ELSE 0) \in Nat
    BY <1>2
  <1>4. Truncate(d, n) \in Seq(Nat) /\ Len(Truncate(d, n)) = n
    BY <1>2, <1>3 DEF Truncate
  <1> QED
    BY <1>2, <1>4

-----------------------------------------------------------------------------
(* Types. *)

LEMMA InitTypes == Init => Types
  <1> SUFFICES ASSUME Init PROVE Types
    OBVIOUS
  <1>1. InitInode \in [InitFiles -> Inodes]
    BY InboxAssumption DEF InitInode
  <1>2. EmptyFile \in FileSet /\ Len(EmptyFile.data) = 0
    BY DEF EmptyFile, FileSet
  <1>3. FsTypes
    <2>1. MaxLen \in Nat
      BY InboxAssumption
    <2> QED
      BY <1>1, <1>2, <2>1 DEF Init, FsTypes
  <1>4. HandleTypes
    BY EmptyTable DEF Init, HandleTypes
  <1>5. TodoTypes
    BY IdleFacts DEF Init, TodoTypes
  <1>6. CountTypes
    BY InboxAssumption DEF Init, CountTypes
  <1> QED
    BY <1>3, <1>4, <1>5, <1>6 DEF Types

(* Counters. *)
LEMMA CountStep ==
    ASSUME CountTypes, NEW s \in Sessions,
           \/ reqs' = reqs
           \/ reqs[s] < MaxReqs /\ reqs' = [reqs EXCEPT ![s] = @ + 1],
           faults' = faults \/ \E c : Fails(c)
    PROVE  CountTypes'
  <1>1. faults' \in 0 .. MaxFaults
    BY InboxAssumption DEF CountTypes, Fails
  <1>2. reqs' \in [Sessions -> 0 .. MaxReqs]
    BY InboxAssumption DEF CountTypes
  <1> QED
    BY <1>1, <1>2 DEF CountTypes

(* Where a request begins. *)
LEMMA RequestFacts ==
    ASSUME NEW s, NEW op, NEW paths, Request(s, op, paths)
    PROVE  /\ op \in Ops /\ at[s] = "idle" /\ todo[s] = Idle
           /\ reqs[s] < MaxReqs /\ reqs' = [reqs EXCEPT ![s] = @ + 1]
           /\ request_permitted(s, op) /\ Polite(s, paths)
  BY DEF Request

(* One place of a variable is changed, and the rest is as before. *)
Named(p, i) ==
    /\ dir' \in [Paths -> Inodes \cup {NoInode}]
    /\ dir'[p] = i
    /\ \A q \in Paths : q # p => dir'[q] = dir[q]

Stored(i, f) ==
    /\ inode' \in [Inodes -> FileSet]
    /\ \A j \in Inodes : Len(inode'[j].data) <= MaxLen
    /\ inode'[i] = f
    /\ \A j \in Inodes : j # i => inode'[j] = inode[j]

Handled(s, h, hd) ==
    /\ HandleTypes'
    /\ \A t \in Sessions : t # s => handles'[t] = handles[t]
    /\ handles'[s][h] = hd
    /\ \A g \in Slots : g # h => handles'[s][g] = handles[s][g]

Doing(s, r) ==
    /\ todo' \in [Sessions -> TodoSet]
    /\ todo'[s] = r
    /\ \A t \in Sessions : t # s => todo'[t] = todo[t]

LEMMA NameStep ==
    ASSUME FsTypes, NEW p \in Paths, NEW i \in Inodes \cup {NoInode}, dir' = [dir EXCEPT ![p] = i]
    PROVE  Named(p, i)
  BY DEF FsTypes, Named

LEMMA FileStep ==
    ASSUME FsTypes, NEW i \in Inodes, NEW f \in FileSet, Len(f.data) <= MaxLen,
           inode' = [inode EXCEPT ![i] = f]
    PROVE  Stored(i, f)
  BY DEF FsTypes, Stored

LEMMA HandleStep ==
    ASSUME HandleTypes, NEW s \in Sessions, NEW h \in Slots, NEW hd \in HandleSet, Whole(hd),
           handles' = [handles EXCEPT ![s][h] = hd]
    PROVE  Handled(s, h, hd)
  <1>1. handles' \in [Sessions -> [Slots -> HandleSet]]
    BY DEF HandleTypes
  <1>2. \A t \in Sessions : t # s => handles'[t] = handles[t]
    BY DEF HandleTypes
  <1>3. handles'[s][h] = hd
    BY DEF HandleTypes
  <1>4. \A g \in Slots : g # h => handles'[s][g] = handles[s][g]
    BY DEF HandleTypes
  <1>5. \A t \in Sessions, g \in Slots : Whole(handles'[t][g])
    BY <1>2, <1>3, <1>4 DEF HandleTypes
  <1>6. HandleTypes'
    BY <1>1, <1>5 DEF HandleTypes, Whole
  <1> QED
    BY <1>2, <1>3, <1>4, <1>6 DEF Handled

LEMMA DoingStep ==
    ASSUME TodoTypes, NEW s \in Sessions, NEW r \in TodoSet, todo' = [todo EXCEPT ![s] = r]
    PROVE  Doing(s, r)
  BY DEF TodoTypes, Doing

(* What is left to do is changed, and nothing is closed meanwhile. *)
LEMMA TodoStep ==
    ASSUME Types, NEW s \in Sessions, NEW r \in TodoSet, Doing(s, r),
           at'[s] = "clean" => r = Idle,
           \A t \in Sessions : t # s => at'[t] = at[t],
           \A t \in Sessions : t # s => handles'[t] = handles[t],
           r.step = "close" => handles'[s][r.h].use = "FILE"
    PROVE  TodoTypes'
  BY DEF Types, TodoTypes, IsOpen, Doing

LEMMA EmptyFacts == /\ EmptyFile \in FileSet /\ EmptyFile.kind = "reg" /\ EmptyFile.data = << >>
                    /\ Len(EmptyFile.data) <= MaxLen
                    /\ [kind |-> "dir", data |-> << >>] \in FileSet
                    /\ Len([kind |-> "dir", data |-> << >>].data) <= MaxLen
  <1>1. << >> \in Seq(Nat) /\ Len(<< >>) = 0 /\ MaxLen \in Nat
    BY InboxAssumption
  <1> QED
    BY <1>1 DEF EmptyFile, FileSet

-----------------------------------------------------------------------------
(* The steps of the handlers, taken apart. *)

(* OPEN of p as inode i with flags f gives the session slot h. *)
Opened(s, p, h, i, f) ==
    /\ ~IsOpen(s, h) /\ ~RefusesToOpen(s, f) /\ Opens(p, f)
    /\ Named(p, i)
    /\ \/ dir[p] = NoInode /\ i \in FreeInodes /\ Stored(i, EmptyFile)
       \/ dir[p] = i /\ "TRUNC" \in f /\ Stored(i, EmptyFile)
       \/ dir[p] = i /\ "TRUNC" \notin f /\ inode' = inode
    /\ Handled(s, h, handle_new(s, h, i, f, p))
    /\ UNCHANGED <<mqvars, todo, faults, view>>

LEMMA OpenFacts ==
    ASSUME Types, NEW s \in Sessions, NEW p \in Paths, NEW m \in OpenModes, process_open(s, p, m)
    PROVE  \E h \in Slots, i \in Inodes : Opened(s, p, h, i, flags_from_portable(m))
  <1> DEFINE i == IF dir[p] = NoInode THEN NewInode ELSE dir[p]
  <1>0. PICK f : f = flags_from_portable(m)
    OBVIOUS
  <1>1. f \in SUBSET Flags
    BY <1>0, FlagsType
  <1>2. /\ Opens(p, f)
        /\ dir' = [dir EXCEPT ![p] = i]
        /\ inode' = IF dir[p] = NoInode \/ "TRUNC" \in f THEN [inode EXCEPT ![i] = EmptyFile] ELSE inode
        /\ ~RefusesToOpen(s, f)
        /\ UNCHANGED <<mqvars, todo, faults, view>>
        /\ \E h \in Slots : /\ ~IsOpen(s, h)
                             /\ handles' = [handles EXCEPT ![s][h] = handle_new(s, h, i, f, p)]
    BY <1>0 DEF process_open
  <1>3. dir[p] = NoInode => FreeInodes # {}
    BY <1>2 DEF Opens, Kind
  <1>4. i \in Inodes /\ (dir[p] = NoInode => i \in FreeInodes) /\ (dir[p] # NoInode => i = dir[p])
    BY <1>3, NewInodeIsFree DEF Types, FsTypes
  <1> HIDE DEF i
  <1>5. PICK h \in Slots : /\ ~IsOpen(s, h)
                           /\ handles' = [handles EXCEPT ![s][h] = handle_new(s, h, i, f, p)]
    BY <1>2
  <1>6. PICK hd : hd = handle_new(s, h, i, f, p)
    OBVIOUS
  <1>7. hd \in HandleSet /\ Whole(hd) /\ handles' = [handles EXCEPT ![s][h] = hd]
    BY <1>1, <1>4, <1>5, <1>6, NewHandle
  <1>8. Handled(s, h, hd)
    BY <1>7, HandleStep DEF Types
  <1>9. Named(p, i)
    BY <1>2, <1>4, NameStep DEF Types
  <1>11. inode' = [inode EXCEPT ![i] = EmptyFile] => Stored(i, EmptyFile)
    BY <1>4, FileStep, EmptyFacts DEF Types
  <1>12. \/ dir[p] = NoInode /\ i \in FreeInodes /\ Stored(i, EmptyFile)
         \/ dir[p] = i /\ "TRUNC" \in f /\ Stored(i, EmptyFile)
         \/ dir[p] = i /\ "TRUNC" \notin f /\ inode' = inode
    BY <1>2, <1>4, <1>11
  <1>13. Opened(s, p, h, i, f)
    BY <1>2, <1>5, <1>6, <1>8, <1>9, <1>12 DEF Opened
  <1> QED
    BY <1>0, <1>4, <1>13

LEMMA OpenTypes ==
    ASSUME Types, NEW s \in Sessions, NEW p \in Paths, NEW m \in OpenModes, process_open(s, p, m)
    PROVE  Types'
  <1>1. PICK h \in Slots, i \in Inodes : Opened(s, p, h, i, flags_from_portable(m))
    BY OpenFacts
  <1>2. PICK f, hd : f = flags_from_portable(m) /\ hd = handle_new(s, h, i, f, p)
    OBVIOUS
  <1>3. FsTypes'
    BY <1>1 DEF Types, FsTypes, Opened, Named, Stored
  <1>4. Handled(s, h, hd) /\ UNCHANGED <<mqvars, todo, faults>>
    BY <1>1, <1>2 DEF Opened
  <1>5. /\ reqs[s] < MaxReqs /\ reqs' = [reqs EXCEPT ![s] = @ + 1]
        /\ todo[s] = Idle
    BY RequestFacts DEF process_open
  <1>6. CountTypes'
    BY <1>4, <1>5, CountStep DEF Types
  <1>7. TodoTypes'
    BY <1>4, <1>5, IdleFacts DEF Types, TodoTypes, IsOpen, mqvars, Handled
  <1> QED
    BY <1>3, <1>4, <1>6, <1>7 DEF Types, Handled

(* WRITE of b at pos stores the first n bytes.  When these are all, the     *)
(* digest of the handle grows by b.                                        *)
Digested(hd, hd2, b) ==
    /\ hd2 \in HandleSet /\ Whole(hd2)
    /\ hd2.use = hd.use /\ hd2.ino = hd.ino /\ hd2.flags = hd.flags /\ hd2.name = hd.name
    /\ hd2.md = hd.md \o b

Position(s, h, off) ==
    IF "APPEND" \in handles[s][h].flags THEN Len(inode[handles[s][h].ino].data) ELSE off

Wrote(s, h, off, b, n) ==
    /\ n \in 0 .. Len(b) /\ b \in Seq(Nat)
    /\ IsOpen(s, h) /\ handles[s][h].flags \cap O_ACCMODE # {}
    /\ Disciplined => off = Len(handles[s][h].md)
    /\ Position(s, h, off) \in Nat /\ Position(s, h, off) + Len(b) <= MaxLen
    /\ \E f : /\ Stored(handles[s][h].ino, f)
              /\ f.kind = inode[handles[s][h].ino].kind
              /\ f.data = WriteAt(inode[handles[s][h].ino].data, Position(s, h, off), SubSeq(b, 1, n))
    /\ \/ /\ n = Len(b) /\ faults' = faults
          /\ \E hd : Handled(s, h, hd) /\ Digested(handles[s][h], hd, b)
       \/ Fails("write") /\ handles' = handles
    /\ UNCHANGED <<mqvars, dir, todo, view>>

(* A file with other bytes in it. *)
LEMMA FileData ==
    ASSUME NEW f \in FileSet, NEW d \in Seq(Nat)
    PROVE  /\ [f EXCEPT !.data = d] \in FileSet
           /\ [f EXCEPT !.data = d].kind = f.kind
           /\ [f EXCEPT !.data = d].data = d
  BY DEF FileSet

LEMMA MdType ==
    ASSUME NEW hd \in HandleSet, NEW b \in Seq(Nat), Whole(hd), hd.use = "FILE"
    PROVE  Digested(hd, [hd EXCEPT !.md = checksum_add(@, b)], b)
  <1>1. hd.md \o b \in Seq(Nat)
    BY DEF HandleSet
  <1> QED
    BY <1>1 DEF Digested, HandleSet, Whole, checksum_add

LEMMA WriteFacts ==
    ASSUME Types, NEW s \in Sessions, NEW h \in Slots, NEW off \in 0 .. MaxLen, NEW b \in Data,
           process_write(s, h, off, b)
    PROVE  \E n \in 0 .. Len(b) : Wrote(s, h, off, b, n)
  <1>1. MaxLen \in Nat /\ b \in Seq(Nat)
    BY InboxAssumption
  <1>2. PICK hd : hd = handles[s][h]
    OBVIOUS
  <1>3. PICK pos : pos = Position(s, h, off)
    OBVIOUS
  <1>4. /\ IsOpen(s, h) /\ hd.flags \cap O_ACCMODE # {}
        /\ Disciplined => off = Len(hd.md)
        /\ pos + Len(b) <= MaxLen
        /\ \E n \in 0 .. Len(b) :
              /\ inode' = [inode EXCEPT ![hd.ino].data = WriteAt(@, pos, SubSeq(b, 1, n))]
              /\ IF n = Len(b)
                 THEN /\ handles' = [handles EXCEPT ![s][h].md = checksum_add(@, b)]
                      /\ UNCHANGED faults
                 ELSE /\ Fails("write")
                      /\ UNCHANGED handles
        /\ UNCHANGED <<mqvars, dir, todo, view>>
    BY <1>2, <1>3 DEF process_write, Position
  <1>5. hd \in HandleSet /\ Whole(hd) /\ hd.use = "FILE" /\ hd.ino \in Inodes
    BY <1>2, <1>4 DEF Types, HandleTypes, IsOpen, Whole
  <1>6. PICK x : x = inode[hd.ino]
    OBVIOUS
  <1>7. x \in FileSet /\ x.data \in Seq(Nat) /\ Len(x.data) <= MaxLen
    BY <1>5, <1>6 DEF Types, FsTypes, FileSet
  <1>8. pos \in Nat
    BY <1>1, <1>2, <1>3, <1>6, <1>7, SMTT(30) DEF Position
  <1>9. PICK n \in 0 .. Len(b) :
              /\ inode' = [inode EXCEPT ![hd.ino].data = WriteAt(@, pos, SubSeq(b, 1, n))]
              /\ IF n = Len(b)
                 THEN /\ handles' = [handles EXCEPT ![s][h].md = checksum_add(@, b)]
                      /\ UNCHANGED faults
                 ELSE /\ Fails("write")
                      /\ UNCHANGED handles
    BY <1>4
  <1>10. PICK c : c = SubSeq(b, 1, n)
    OBVIOUS
  <1>11. n \in Nat /\ n <= Len(b) /\ c \in Seq(Nat) /\ Len(c) = n
    BY <1>1, <1>10
  <1>12. PICK d : d = WriteAt(x.data, pos, c)
    OBVIOUS
  <1>13. d \in Seq(Nat) /\ Len(d) <= MaxLen
    <2>1. pos + Len(c) <= MaxLen
      BY <1>1, <1>4, <1>8, <1>11
    <2> QED
      BY <1>7, <1>8, <1>11, <1>12, <2>1, WriteAtLen
  <1>14. PICK f : f = [x EXCEPT !.data = d]
    OBVIOUS
  <1>15. f \in FileSet /\ f.kind = x.kind /\ f.data = d
    BY <1>7, <1>13, <1>14, FileData
  <1>16. inode' = [inode EXCEPT ![hd.ino] = f]
    BY <1>5, <1>6, <1>9, <1>10, <1>12, <1>14 DEF Types, FsTypes
  <1>17. Stored(hd.ino, f)
    BY <1>5, <1>13, <1>15, <1>16, FileStep DEF Types
  <1>18. \E y : /\ Stored(hd.ino, y)
                /\ y.kind = x.kind
                /\ y.data = WriteAt(x.data, pos, SubSeq(b, 1, n))
    BY <1>10, <1>12, <1>15, <1>17, Zenon
  <1>19. \/ /\ n = Len(b) /\ faults' = faults
            /\ \E y : Handled(s, h, y) /\ Digested(hd, y, b)
         \/ Fails("write") /\ handles' = handles
    <2>1. CASE n = Len(b)
      <3>1. PICK y : y = [hd EXCEPT !.md = checksum_add(@, b)]
        OBVIOUS
      <3>2. Digested(hd, y, b)
        BY <1>1, <1>5, <3>1, MdType
      <3>3. handles' = [handles EXCEPT ![s][h] = y] /\ faults' = faults
        BY <1>2, <1>9, <2>1, <3>1 DEF Types, HandleTypes
      <3>4. y \in HandleSet /\ Whole(y)
        BY <3>2 DEF Digested
      <3>5. Handled(s, h, y)
        BY <3>3, <3>4, HandleStep DEF Types
      <3> QED
        BY <2>1, <3>2, <3>3, <3>5, Zenon
    <2>2. CASE n # Len(b)
      BY <1>9, <2>2
    <2> QED
      BY <2>1, <2>2
  <1>20. Wrote(s, h, off, b, n)
    BY <1>1, <1>2, <1>3, <1>4, <1>6, <1>8, <1>18, <1>19, Zenon DEF Wrote
  <1> QED
    BY <1>20

LEMMA WriteTypes ==
    ASSUME Types, NEW s \in Sessions, NEW h \in Slots, NEW off \in 0 .. MaxLen, NEW b \in Data,
           process_write(s, h, off, b)
    PROVE  Types'
  <1>1. PICK n \in 0 .. Len(b) : Wrote(s, h, off, b, n)
    BY WriteFacts
  <1>2. FsTypes'
    BY <1>1 DEF Types, FsTypes, Wrote, Stored
  <1>3. /\ reqs[s] < MaxReqs /\ reqs' = [reqs EXCEPT ![s] = @ + 1]
        /\ todo[s] = Idle
    BY RequestFacts DEF process_write
  <1>4. \/ handles' = handles
        \/ \E hd : Handled(s, h, hd)
    BY <1>1 DEF Wrote
  <1>5. HandleTypes' /\ \A t \in Sessions : t # s => handles'[t] = handles[t]
    BY <1>4 DEF Types, HandleTypes, Handled
  <1>6. todo' = todo /\ at' = at
    BY <1>1 DEF Wrote, mqvars
  <1>7. TodoTypes'
    BY <1>3, <1>5, <1>6, IdleFacts DEF Types, TodoTypes, IsOpen
  <1>8. faults' = faults \/ Fails("write")
    BY <1>1 DEF Wrote
  <1>9. CountTypes'
    BY <1>3, <1>8, CountStep DEF Types
  <1> QED
    BY <1>2, <1>5, <1>7, <1>9 DEF Types

(* What a session that sends a message does to its place in mq-notify.c. *)
LEMMA SendFacts ==
    ASSUME MqInv, NEW s \in Sessions, NEW m, mq_send(s, m)
    PROVE  /\ at[s] = "idle" /\ at'[s] \in {"publish", "open_socket", "idle"}
           /\ opened[s] => at'[s] = "publish"
           /\ ~opened[s] /\ ready[s] => at'[s] = "open_socket"
           /\ hist'[s] = Append(hist[s], m)
           /\ \A t \in Sessions : t # s => at'[t] = at[t] /\ hist'[t] = hist[t]
           /\ UNCHANGED <<ready, opened, link, wire, got, rc>>
  BY DEF mq_send, MqInv, Domains, SessionInv, SessionType

(* The handler goes on from record r. *)
LEMMA GoOnFacts ==
    ASSUME Types, NEW s \in Sessions, NEW r \in TodoSet, GoOn(s, r)
    PROVE  Doing(s, r) /\ UNCHANGED mqvars
  BY DoingStep DEF GoOn, Types

LEMMA SilentFacts ==
    ASSUME Types, NEW s \in Sessions, ReturnSilently(s)
    PROVE  Doing(s, Idle) /\ UNCHANGED mqvars
  BY DoingStep, IdleFacts DEF ReturnSilently, Return, Types

LEMMA AnnounceFacts ==
    ASSUME Types, NEW s \in Sessions, NEW m, Announce(s, m)
    PROVE  Doing(s, Idle) /\ mq_send(s, m)
  BY DoingStep, IdleFacts DEF Announce, Return, Types

(* CLOSE remembers the size that fstat() gave. *)
Closing(s, h, r) ==
    /\ r \in CloseSet /\ r.step = "close" /\ r.h = h
    /\ r.size = Len(inode[handles[s][h].ino].data)
    /\ IsOpen(s, h)
    /\ Disciplined => Len(handles[s][h].md) = r.size \/ handles[s][h].flags = {}
    /\ Doing(s, r)
    /\ UNCHANGED <<mqvars, dir, inode, handles, faults, view>>

LEMMA CloseFacts ==
    ASSUME Types, NEW s \in Sessions, NEW h \in Slots, process_close(s, h)
    PROVE  \E r \in TodoSet : Closing(s, h, r)
  <1>1. PICK size : size = Len(inode[handles[s][h].ino].data)
    OBVIOUS
  <1>2. PICK r : r = [step |-> "close", h |-> h, size |-> size]
    OBVIOUS
  <1>3. /\ IsOpen(s, h) /\ GoOn(s, r)
        /\ Disciplined => Len(handles[s][h].md) = size \/ handles[s][h].flags = {}
        /\ UNCHANGED <<dir, inode, handles, faults, view>>
    BY <1>1, <1>2 DEF process_close, O_RDONLY, fsvars
  <1>4. handles[s][h].ino \in Inodes
    BY <1>3 DEF Types, HandleTypes, Whole, IsOpen
  <1>5. size \in Nat
    BY <1>1, <1>4 DEF Types, FsTypes, FileSet
  <1>6. r \in CloseSet /\ r \in TodoSet /\ r.step = "close" /\ r.h = h /\ r.size = size
    BY <1>2, <1>5 DEF CloseSet, TodoSet
  <1>7. Doing(s, r) /\ UNCHANGED mqvars
    BY <1>3, <1>6, GoOnFacts
  <1> QED
    BY <1>1, <1>3, <1>6, <1>7 DEF Closing

LEMMA CloseTypes ==
    ASSUME Types, NEW s \in Sessions, NEW h \in Slots, process_close(s, h)
    PROVE  Types'
  <1>1. PICK r \in TodoSet : Closing(s, h, r)
    BY CloseFacts
  <1>2. FsTypes' /\ HandleTypes'
    BY <1>1 DEF Types, FsTypes, HandleTypes, Closing, Whole
  <1>3. reqs[s] < MaxReqs /\ reqs' = [reqs EXCEPT ![s] = @ + 1] /\ at[s] = "idle"
    BY RequestFacts DEF process_close
  <1>4. CountTypes'
    BY <1>1, <1>3, CountStep DEF Types, Closing
  <1>5. at' = at /\ handles' = handles
    BY <1>1 DEF Closing, mqvars
  <1>6. TodoTypes'
    BY <1>1, <1>3, <1>5, TodoStep DEF Closing, IsOpen
  <1> QED
    BY <1>2, <1>4, <1>6 DEF Types

(* The rest of handle_close. *)
Announced(hd) == hd.flags \cap {"CREAT", "TRUNC", "APPEND"} # {}

Closed(s, h) ==
    /\ at[s] = "idle" /\ todo[s] \in CloseSet /\ todo[s].h = h /\ todo[s].step = "close"
    /\ IsOpen(s, h)
    /\ Handled(s, h, Unused(handles[s][h].md))
    /\ Doing(s, Idle)
    /\ \/ /\ Announced(handles[s][h]) /\ faults' = faults
          /\ mq_send(s, Upload(handles[s][h], todo[s].size))
       \/ /\ ~Announced(handles[s][h]) /\ faults' = faults
          /\ UNCHANGED mqvars
       \/ Fails("close") /\ UNCHANGED mqvars
    /\ UNCHANGED <<dir, inode, view, reqs>>

LEMMA ClosedFacts ==
    ASSUME Types, NEW s \in Sessions, handle_close(s)
    PROVE  \E h \in Slots : Closed(s, h)
  <1>1. PICK h, hd : h = todo[s].h /\ hd = handles[s][h]
    OBVIOUS
  <1>2. /\ at[s] = "idle" /\ todo[s].step = "close" /\ UNCHANGED reqs
        /\ handles' = [handles EXCEPT ![s][h] = Unused(hd.md)]
        /\ \/ /\ IF Announced(hd) THEN Announce(s, Upload(hd, todo[s].size))
                                  ELSE ReturnSilently(s)
              /\ faults' = faults
           \/ Fails("close") /\ ReturnSilently(s)
        /\ UNCHANGED <<dir, inode, view>>
    BY <1>1 DEF handle_close, Continue, Announced, fsvars, O_RDONLY
  <1>3. todo[s] \in CloseSet /\ h \in Slots
    BY <1>1, <1>2, TodoKinds DEF Types, TodoTypes, CloseSet
  <1>4. IsOpen(s, h)
    BY <1>1, <1>2 DEF Types, TodoTypes
  <1>5. hd \in HandleSet
    BY <1>1, <1>3 DEF Types, HandleTypes
  <1>6. PICK u : u = Unused(hd.md)
    OBVIOUS
  <1>7. u \in HandleSet /\ Whole(u)
    BY <1>5, <1>6, ClosedHandle
  <1>8. Handled(s, h, u)
    BY <1>2, <1>3, <1>6, <1>7, HandleStep DEF Types
  <1>9. /\ Doing(s, Idle)
        /\ \/ /\ Announced(hd) /\ faults' = faults
              /\ mq_send(s, Upload(hd, todo[s].size))
           \/ /\ ~Announced(hd) /\ faults' = faults
              /\ UNCHANGED mqvars
           \/ Fails("close") /\ UNCHANGED mqvars
    BY <1>2, SilentFacts, AnnounceFacts
  <1>10. Closed(s, h)
    BY <1>1, <1>2, <1>3, <1>4, <1>6, <1>8, <1>9, Zenon DEF Closed
  <1> QED
    BY <1>3, <1>10

LEMMA ClosedTypes ==
    ASSUME Types, MqInv, NEW s \in Sessions, handle_close(s)
    PROVE  Types'
  <1>1. PICK h \in Slots : Closed(s, h)
    BY ClosedFacts
  <1>2. FsTypes' /\ HandleTypes'
    BY <1>1 DEF Types, FsTypes, Closed, Handled
  <1>3. faults' = faults \/ Fails("close")
    BY <1>1 DEF Closed
  <1>4. CountTypes'
    BY <1>1, <1>3, CountStep DEF Types, Closed
  <1>5. \A t \in Sessions : t # s => at'[t] = at[t] /\ handles'[t] = handles[t]
    BY <1>1, SendFacts DEF Closed, Handled, mqvars
  <1>6. TodoTypes'
    BY <1>1, <1>5, TodoStep, IdleFacts DEF Closed
  <1> QED
    BY <1>2, <1>4, <1>6 DEF Types

(* Requests that act on names. *)
RemovedFile(s, p) ==
    /\ Kind(p) = "reg" /\ Named(p, NoInode)
    /\ Doing(s, Idle) /\ mq_send(s, Remove(p))
    /\ UNCHANGED <<inode, handles, faults, view>>

MadeDir(s, p, i) ==
    /\ Kind(p) = "none" /\ i \in FreeInodes /\ Named(p, i)
    /\ \E f : Stored(i, f) /\ f.kind = "dir"
    /\ UNCHANGED <<mqvars, handles, todo, faults, view>>

RemovedDir(s, p) ==
    /\ Kind(p) = "dir" /\ Named(p, NoInode)
    /\ UNCHANGED <<mqvars, inode, handles, todo, faults, view>>

Linked(s, old, new) ==
    /\ Kind(old) = "reg" /\ Kind(new) = "none" /\ Named(new, dir[old])
    /\ UNCHANGED <<mqvars, inode, handles, todo, faults, view>>

LEMMA RemoveFacts ==
    ASSUME Types, NEW s \in Sessions, NEW p \in Paths, process_remove(s, p)
    PROVE  RemovedFile(s, p)
  <1>1. NoInode \in Inodes \cup {NoInode}
    OBVIOUS
  <1>2. Named(p, NoInode)
    BY <1>1, NameStep DEF Types, process_remove
  <1> QED
    BY <1>2, AnnounceFacts DEF process_remove, RemovedFile

LEMMA MkdirFacts ==
    ASSUME Types, NEW s \in Sessions, NEW p \in Paths, process_mkdir(s, p)
    PROVE  \E i \in Inodes : MadeDir(s, p, i)
  <1>1. PICK i, f : i = NewInode /\ f = [kind |-> "dir", data |-> << >>]
    OBVIOUS
  <1>2. i \in FreeInodes /\ i \in Inodes
    BY <1>1, NewInodeIsFree DEF process_mkdir
  <1>3. f \in FileSet /\ Len(f.data) <= MaxLen /\ f.kind = "dir"
    BY <1>1, EmptyFacts
  <1>4. dir' = [dir EXCEPT ![p] = i] /\ inode' = [inode EXCEPT ![i] = f]
    BY <1>1 DEF process_mkdir
  <1>5. Named(p, i)
    BY <1>2, <1>4, NameStep DEF Types
  <1>6. Stored(i, f)
    BY <1>2, <1>3, <1>4, FileStep DEF Types
  <1> QED
    BY <1>2, <1>3, <1>5, <1>6 DEF process_mkdir, MadeDir

LEMMA RmdirFacts ==
    ASSUME Types, NEW s \in Sessions, NEW p \in Paths, process_rmdir(s, p)
    PROVE  RemovedDir(s, p)
  <1>1. NoInode \in Inodes \cup {NoInode}
    OBVIOUS
  <1>2. Named(p, NoInode)
    BY <1>1, NameStep DEF Types, process_rmdir
  <1> QED
    BY <1>2 DEF process_rmdir, RemovedDir

LEMMA HardlinkFacts ==
    ASSUME Types, NEW s \in Sessions, NEW old \in Paths, NEW new \in Paths,
           process_hardlink(s, old, new)
    PROVE  Linked(s, old, new)
  <1>1. dir[old] \in Inodes \cup {NoInode}
    BY DEF Types, FsTypes
  <1>2. Named(new, dir[old])
    BY <1>1, NameStep DEF Types, process_hardlink
  <1> QED
    BY <1>2 DEF process_hardlink, Linked

(* Nothing but the file system changes. *)
LEMMA OnlyFiles ==
    ASSUME Types, NEW s \in Sessions, NEW op, NEW paths, Request(s, op, paths), FsTypes',
           UNCHANGED <<mqvars, handles, todo, faults>>
    PROVE  Types'
  <1>1. CountTypes'
    BY RequestFacts, CountStep DEF Types
  <1>2. HandleTypes' /\ TodoTypes'
    BY DEF Types, HandleTypes, TodoTypes, Whole, IsOpen, mqvars
  <1> QED
    BY <1>1, <1>2 DEF Types

(* A request that is announced at once. *)
LEMMA AnnouncedTypes ==
    ASSUME Types, MqInv, NEW s \in Sessions, NEW m, FsTypes', CountTypes',
           UNCHANGED handles, Doing(s, Idle), mq_send(s, m)
    PROVE  Types'
  <1>1. \A t \in Sessions : t # s => at'[t] = at[t] /\ handles'[t] = handles[t]
    BY SendFacts
  <1>2. TodoTypes'
    BY <1>1, TodoStep, IdleFacts
  <1>3. HandleTypes'
    BY DEF Types, HandleTypes, Whole
  <1> QED
    BY <1>2, <1>3 DEF Types

(* The handler goes on, or returns, without a message. *)
LEMMA SilentTypes ==
    ASSUME Types, NEW s \in Sessions, NEW r \in TodoSet, FsTypes', CountTypes', at[s] = "idle",
           r.step # "close", UNCHANGED <<mqvars, handles>>, Doing(s, r)
    PROVE  Types'
  <1>1. at' = at /\ \A t \in Sessions : t # s => handles'[t] = handles[t]
    BY DEF mqvars
  <1>2. TodoTypes'
    BY <1>1, TodoStep
  <1>3. HandleTypes'
    BY DEF Types, HandleTypes, Whole
  <1> QED
    BY <1>2, <1>3 DEF Types

LEMMA RemoveTypes ==
    ASSUME Types, MqInv, NEW s \in Sessions, NEW p \in Paths, process_remove(s, p)
    PROVE  Types'
  <1>1. RemovedFile(s, p)
    BY RemoveFacts
  <1>2. FsTypes'
    BY <1>1 DEF RemovedFile, Named, Types, FsTypes
  <1>3. CountTypes'
    BY <1>1, RequestFacts, CountStep DEF process_remove, RemovedFile, Types
  <1> QED
    BY <1>1, <1>2, <1>3, AnnouncedTypes DEF RemovedFile

LEMMA DirTypes ==
    ASSUME Types, NEW s \in Sessions, NEW p \in Paths,
           process_mkdir(s, p) \/ process_rmdir(s, p)
    PROVE  Types'
  <1>1. CASE process_mkdir(s, p)
    <2>1. PICK i \in Inodes : MadeDir(s, p, i)
      BY <1>1, MkdirFacts
    <2>2. FsTypes'
      BY <2>1 DEF MadeDir, Named, Stored, Types, FsTypes
    <2> QED
      BY <1>1, <2>1, <2>2, OnlyFiles DEF process_mkdir, MadeDir
  <1>2. CASE process_rmdir(s, p)
    <2>1. RemovedDir(s, p)
      BY <1>2, RmdirFacts
    <2>2. FsTypes'
      BY <2>1 DEF RemovedDir, Named, Types, FsTypes
    <2> QED
      BY <1>2, <2>1, <2>2, OnlyFiles DEF process_rmdir, RemovedDir
  <1> QED
    BY <1>1, <1>2

LEMMA HardlinkTypes ==
    ASSUME Types, NEW s \in Sessions, NEW old \in Paths, NEW new \in Paths,
           process_hardlink(s, old, new)
    PROVE  Types'
  <1>1. Linked(s, old, new)
    BY HardlinkFacts
  <1>2. FsTypes'
    BY <1>1 DEF Linked, Named, Types, FsTypes
  <1> QED
    BY <1>1, <1>2, OnlyFiles DEF process_hardlink, Linked

(* SETSTAT and FSETSTAT leave every name and every kind alone. *)
LEMMA TruncateTypes ==
    ASSUME Types, NEW i \in Inodes, NEW n \in 0 .. MaxLen,
           inode' = [inode EXCEPT ![i].data = Truncate(@, n)]
    PROVE  \E f : Stored(i, f)
  <1>1. PICK x : x = inode[i]
    OBVIOUS
  <1>2. x \in FileSet /\ x.data \in Seq(Nat)
    BY <1>1 DEF Types, FsTypes, FileSet
  <1>3. PICK d : d = Truncate(x.data, n)
    OBVIOUS
  <1>4. d \in Seq(Nat) /\ Len(d) <= MaxLen
    BY <1>2, <1>3, TruncateLen
  <1>5. PICK f : f = [x EXCEPT !.data = d]
    OBVIOUS
  <1>6. f \in FileSet /\ f.data = d
    BY <1>2, <1>4, <1>5, FileData
  <1>7. inode' = [inode EXCEPT ![i] = f]
    BY <1>1, <1>3, <1>5 DEF Types, FsTypes
  <1> QED
    BY <1>4, <1>6, <1>7, FileStep DEF Types

LEMMA StatTypes ==
    ASSUME Types, NEW s \in Sessions, NEW n \in 0 .. MaxLen,
           \/ \E p \in Paths : process_setstat(s, p, n)
           \/ \E h \in Slots : process_fsetstat(s, h, n)
    PROVE  Types'
  <1>1. ASSUME NEW p \in Paths, process_setstat(s, p, n) PROVE Types'
    <2>1. dir[p] \in Inodes
      BY <1>1 DEF process_setstat, Kind, Types, FsTypes
    <2>2. \E f : Stored(dir[p], f)
      BY <1>1, <2>1, TruncateTypes DEF process_setstat
    <2>3. FsTypes'
      BY <1>1, <2>2 DEF Stored, Types, FsTypes, process_setstat
    <2> QED
      BY <1>1, <2>3, OnlyFiles DEF process_setstat
  <1>2. ASSUME NEW h \in Slots, process_fsetstat(s, h, n) PROVE Types'
    <2>1. handles[s][h].ino \in Inodes
      BY <1>2 DEF process_fsetstat, Types, HandleTypes, IsOpen, Whole
    <2>2. \E f : Stored(handles[s][h].ino, f)
      BY <1>2, <2>1, TruncateTypes DEF process_fsetstat
    <2>3. FsTypes'
      BY <1>2, <2>2 DEF Stored, Types, FsTypes, process_fsetstat
    <2> QED
      BY <1>2, <2>3, OnlyFiles DEF process_fsetstat
  <1> QED
    BY <1>1, <1>2

-----------------------------------------------------------------------------
(* Renames. *)
Moved(old, new) ==
    \/ dir[old] = dir[new] /\ dir' = dir
    \/ /\ dir[old] # dir[new]
       /\ dir' \in [Paths -> Inodes \cup {NoInode}]
       /\ dir'[new] = dir[old] /\ dir'[old] = NoInode
       /\ \A q \in Paths : q # old /\ q # new => dir'[q] = dir[q]

LEMMA MoveFacts ==
    ASSUME FsTypes, NEW old \in Paths, NEW new \in Paths, dir' = Renamed(old, new)
    PROVE  Moved(old, new) /\ dir' \in [Paths -> Inodes \cup {NoInode}]
  BY DEF FsTypes, Renamed, Moved

PosixRenamed(s, old, new) ==
    /\ Renameable(old, new) /\ Moved(old, new)
    /\ Doing(s, Idle) /\ mq_send(s, Rename(old, new))
    /\ UNCHANGED <<inode, handles, faults, view>>

LEMMA PosixRenameFacts ==
    ASSUME Types, NEW s \in Sessions, NEW old \in Paths, NEW new \in Paths,
           process_posix_rename(s, old, new)
    PROVE  PosixRenamed(s, old, new) /\ FsTypes'
  <1>1. Moved(old, new) /\ dir' \in [Paths -> Inodes \cup {NoInode}]
    BY MoveFacts DEF process_posix_rename, Types
  <1>2. FsTypes'
    BY <1>1 DEF process_posix_rename, Types, FsTypes
  <1> QED
    BY <1>1, <1>2, AnnounceFacts DEF process_posix_rename, PosixRenamed

LEMMA PosixRenameTypes ==
    ASSUME Types, MqInv, NEW s \in Sessions, NEW old \in Paths, NEW new \in Paths,
           process_posix_rename(s, old, new)
    PROVE  Types'
  <1>1. PosixRenamed(s, old, new) /\ FsTypes'
    BY PosixRenameFacts
  <1>2. CountTypes'
    BY <1>1, RequestFacts, CountStep DEF process_posix_rename, PosixRenamed, Types
  <1> QED
    BY <1>1, <1>2, AnnouncedTypes DEF PosixRenamed

(* The record of a RENAME in progress. *)
Renaming(r, step, old, new) ==
    r \in RenameSet /\ r \in TodoSet /\ r.step = step /\ r.old = old /\ r.new = new

RenameBegun(s, old, new, r) ==
    /\ dir[old] # NoInode
    /\ Renaming(r, "link", old, new) \/ Renaming(r, "stat", old, new)
    /\ r.ino = dir[old] /\ r.names = NamesOf(dir[old])
    /\ Doing(s, r)
    /\ UNCHANGED <<mqvars, dir, inode, handles, faults, view>>

LEMMA RenameFacts ==
    ASSUME Types, NEW s \in Sessions, NEW old \in Paths, NEW new \in Paths,
           process_rename(s, old, new)
    PROVE  \E r \in TodoSet : RenameBegun(s, old, new, r)
  <1>1. PICK st : st = IF Kind(old) = "reg" THEN "link" ELSE "stat"
    OBVIOUS
  <1>2. PICK i, ns : i = dir[old] /\ ns = NamesOf(dir[old])
    OBVIOUS
  <1>3. PICK r : r = [step |-> st, old |-> old, new |-> new, ino |-> i, names |-> ns]
    OBVIOUS
  <1>4. dir[old] # NoInode /\ GoOn(s, r) /\ UNCHANGED <<dir, inode, handles, faults, view>>
    BY <1>1, <1>2, <1>3 DEF process_rename, fsvars
  <1>5. i \in Inodes \cup {NoInode} /\ ns \in SUBSET Paths /\ (st = "link" \/ st = "stat")
    BY <1>1, <1>2 DEF Types, FsTypes, NamesOf
  <1>6. r \in RenameSet /\ r.step = st /\ r.old = old /\ r.new = new /\ r.ino = i /\ r.names = ns
    BY <1>3, <1>5 DEF RenameSet, RenameSteps
  <1>7. r \in TodoSet
    BY <1>6 DEF TodoSet
  <1>8. Renaming(r, "link", old, new) \/ Renaming(r, "stat", old, new)
    BY <1>5, <1>6, <1>7 DEF Renaming
  <1> QED
    BY <1>2, <1>4, <1>6, <1>7, <1>8, GoOnFacts DEF RenameBegun

LEMMA RenameTypes ==
    ASSUME Types, NEW s \in Sessions, NEW old \in Paths, NEW new \in Paths,
           process_rename(s, old, new)
    PROVE  Types'
  <1>1. PICK r \in TodoSet : RenameBegun(s, old, new, r)
    BY RenameFacts
  <1>2. FsTypes'
    BY <1>1 DEF RenameBegun, Types, FsTypes
  <1>3. CountTypes' /\ at[s] = "idle"
    BY <1>1, RequestFacts, CountStep DEF process_rename, RenameBegun, Types
  <1>4. r.step # "close"
    BY <1>1 DEF RenameBegun, Renaming
  <1>5. Doing(s, r) /\ UNCHANGED <<mqvars, handles>>
    BY <1>1 DEF RenameBegun
  <1> QED
    BY <1>2, <1>3, <1>4, <1>5, SilentTypes

(* One system call of a RENAME that is at the given step: the names change *)
(* and the handler returns with or without a message or goes on.           *)
Onward(s, old, new, step) ==
    \E r \in TodoSet : /\ Renaming(r, step, old, new) /\ Doing(s, r) /\ UNCHANGED mqvars
                       /\ r.ino = todo[s].ino /\ r.names = todo[s].names
Quits(s) == Doing(s, Idle) /\ UNCHANGED mqvars
Tells(s, old, new) == Doing(s, Idle) /\ mq_send(s, Rename(old, new))

LinkStep(s, old, new) ==
    \/ UNCHANGED dir /\ Quits(s)
    \/ /\ dir[old] # NoInode /\ dir[new] = NoInode /\ Kind(old) = "reg"
       /\ Named(new, dir[old]) /\ Onward(s, old, new, "unlink")
    \/ UNCHANGED dir /\ Onward(s, old, new, "stat")

UnlinkStep(s, old, new) ==
    \/ Kind(old) = "reg" /\ Named(old, NoInode) /\ Tells(s, old, new) /\ UNCHANGED faults
    \/ /\ (Kind(old) # "reg" /\ UNCHANGED faults) \/ Fails("unlink")
       /\ UNCHANGED dir /\ Onward(s, old, new, "undo")

UndoStep(s, old, new) ==
    /\ \/ /\ UNCHANGED faults
          /\ IF Kind(new) = "reg" THEN Named(new, NoInode) ELSE UNCHANGED dir
       \/ Fails("unlink") /\ UNCHANGED dir
    /\ Quits(s)

StatStep(s, old, new) ==
    UNCHANGED dir /\ (Quits(s) \/ (dir[new] = NoInode /\ Onward(s, old, new, "rename")))

MoveStep(s, old, new) ==
    \/ Renameable(old, new) /\ Moved(old, new) /\ Tells(s, old, new)
    \/ UNCHANGED dir /\ Quits(s)

RenameGoesOn(s, old, new) ==
    /\ at[s] = "idle" /\ todo[s] \in RenameSet /\ todo[s].old = old /\ todo[s].new = new
    /\ \/ todo[s].step = "link" /\ LinkStep(s, old, new) /\ UNCHANGED faults
       \/ todo[s].step = "unlink" /\ UnlinkStep(s, old, new)
       \/ todo[s].step = "undo" /\ UndoStep(s, old, new)
       \/ todo[s].step = "stat" /\ StatStep(s, old, new) /\ UNCHANGED faults
       \/ todo[s].step = "rename" /\ MoveStep(s, old, new) /\ UNCHANGED faults
    /\ UNCHANGED <<inode, handles, view, reqs>>

LEMMA NextStep ==
    ASSUME Types, NEW s \in Sessions, NEW r \in RenameSet, r = todo[s], NEW step \in RenameSteps,
           GoOn(s, [r EXCEPT !.step = step])
    PROVE  Onward(s, r.old, r.new, step)
  <1>1. PICK x : x = [r EXCEPT !.step = step]
    OBVIOUS
  <1>2. /\ x \in RenameSet /\ x.step = step /\ x.old = r.old /\ x.new = r.new
        /\ x.ino = r.ino /\ x.names = r.names
    BY <1>1 DEF RenameSet
  <1>3. x \in TodoSet
    BY <1>2 DEF TodoSet
  <1>4. Doing(s, x) /\ UNCHANGED mqvars
    BY <1>1, <1>3, GoOnFacts
  <1> QED
    BY <1>2, <1>3, <1>4 DEF Onward, Renaming

LEMMA RenameStepFacts ==
    ASSUME Types, NEW s \in Sessions,
           rename_link(s) \/ rename_unlink(s) \/ rename_undo(s) \/ rename_stat(s) \/ rename_rename(s)
    PROVE  \E old \in Paths, new \in Paths : RenameGoesOn(s, old, new)
  <1>1. PICK r : r = todo[s]
    OBVIOUS
  <1>2. PICK old, new : old = r.old /\ new = r.new
    OBVIOUS
  <1>3. at[s] = "idle" /\ r.step \in RenameSteps /\ UNCHANGED <<inode, handles, view, reqs>>
    BY <1>1 DEF rename_link, rename_unlink, rename_undo, rename_stat, rename_rename, Continue, RenameSteps, fsvars
  <1>4. r \in RenameSet /\ old \in Paths /\ new \in Paths
    BY <1>1, <1>2, <1>3, TodoKinds DEF Types, TodoTypes, RenameSet
  <1>5. dir[old] \in Inodes \cup {NoInode} /\ NoInode \in Inodes \cup {NoInode}
    BY <1>4 DEF Types, FsTypes
  <1>6. ReturnSilently(s) => Quits(s)
    BY SilentFacts DEF Quits
  <1>7. Announce(s, Rename(old, new)) => Tells(s, old, new)
    BY AnnounceFacts DEF Tells
  <1>8. CASE rename_link(s)
    <2>1. GoOn(s, [r EXCEPT !.step = "unlink"]) => Onward(s, old, new, "unlink")
      BY <1>1, <1>2, <1>4, NextStep DEF RenameSteps
    <2>2. GoOn(s, [r EXCEPT !.step = "stat"]) => Onward(s, old, new, "stat")
      BY <1>1, <1>2, <1>4, NextStep DEF RenameSteps
    <2>3. dir' = [dir EXCEPT ![new] = dir[old]] => Named(new, dir[old])
      BY <1>4, <1>5, NameStep DEF Types
    <2>4. r.step = "link" /\ UNCHANGED faults
      BY <1>1, <1>8 DEF rename_link, Continue
    <2>5. IF dir[old] = NoInode \/ dir[new] # NoInode
          THEN UNCHANGED dir /\ ReturnSilently(s)
          ELSE IF LinkSupported /\ Kind(old) = "reg"
          THEN /\ dir' = [dir EXCEPT ![new] = dir[old]]
               /\ GoOn(s, [r EXCEPT !.step = "unlink"])
          ELSE UNCHANGED dir /\ GoOn(s, [r EXCEPT !.step = "stat"])
      BY <1>1, <1>2, <1>8 DEF rename_link
    <2>6. LinkStep(s, old, new)
      BY <1>6, <2>1, <2>2, <2>3, <2>5 DEF LinkStep
    <2>7. RenameGoesOn(s, old, new)
      BY <1>1, <1>2, <1>3, <1>4, <2>4, <2>6 DEF RenameGoesOn
    <2> QED
      BY <1>4, <2>7
  <1>9. CASE rename_unlink(s)
    <2>1. GoOn(s, [r EXCEPT !.step = "undo"]) => Onward(s, old, new, "undo")
      BY <1>1, <1>2, <1>4, NextStep DEF RenameSteps
    <2>2. dir' = [dir EXCEPT ![old] = NoInode] => Named(old, NoInode)
      BY <1>4, <1>5, NameStep DEF Types
    <2>3. r.step = "unlink"
      BY <1>1, <1>9 DEF rename_unlink, Continue
    <2>4. \/ /\ Kind(old) = "reg"
             /\ dir' = [dir EXCEPT ![old] = NoInode]
             /\ Announce(s, Rename(old, new))
             /\ UNCHANGED faults
          \/ /\ (Kind(old) # "reg" /\ UNCHANGED faults) \/ Fails("unlink")
             /\ GoOn(s, [r EXCEPT !.step = "undo"])
             /\ UNCHANGED dir
      BY <1>1, <1>2, <1>9 DEF rename_unlink
    <2>5. UnlinkStep(s, old, new)
      BY <1>7, <2>1, <2>2, <2>4 DEF UnlinkStep
    <2>6. RenameGoesOn(s, old, new)
      BY <1>1, <1>2, <1>3, <1>4, <2>3, <2>5 DEF RenameGoesOn
    <2> QED
      BY <1>4, <2>6
  <1>10. CASE rename_undo(s)
    <2>1. dir' = [dir EXCEPT ![new] = NoInode] => Named(new, NoInode)
      BY <1>4, <1>5, NameStep DEF Types
    <2>2. r.step = "undo"
      BY <1>1, <1>10 DEF rename_undo, Continue
    <2>3. UndoStep(s, old, new)
      BY <1>1, <1>2, <1>6, <1>10, <2>1 DEF rename_undo, UndoStep
    <2>4. RenameGoesOn(s, old, new)
      BY <1>1, <1>2, <1>3, <1>4, <2>2, <2>3 DEF RenameGoesOn
    <2> QED
      BY <1>4, <2>4
  <1>11. CASE rename_stat(s)
    <2>1. GoOn(s, [r EXCEPT !.step = "rename"]) => Onward(s, old, new, "rename")
      BY <1>1, <1>2, <1>4, NextStep DEF RenameSteps
    <2>2. r.step = "stat" /\ UNCHANGED faults
      BY <1>1, <1>11 DEF rename_stat, Continue
    <2>3. StatStep(s, old, new)
      BY <1>1, <1>2, <1>6, <1>11, <2>1 DEF rename_stat, StatStep, fsvars
    <2>4. RenameGoesOn(s, old, new)
      BY <1>1, <1>2, <1>3, <1>4, <2>2, <2>3 DEF RenameGoesOn
    <2> QED
      BY <1>4, <2>4
  <1>12. CASE rename_rename(s)
    <2>1. dir' = Renamed(old, new) => Moved(old, new)
      BY <1>4, MoveFacts DEF Types
    <2>2. r.step = "rename" /\ UNCHANGED faults
      BY <1>1, <1>12 DEF rename_rename, Continue
    <2>3. MoveStep(s, old, new)
      BY <1>1, <1>2, <1>6, <1>7, <1>12, <2>1 DEF rename_rename, MoveStep
    <2>4. RenameGoesOn(s, old, new)
      BY <1>1, <1>2, <1>3, <1>4, <2>2, <2>3 DEF RenameGoesOn
    <2> QED
      BY <1>4, <2>4
  <1> QED
    BY <1>8, <1>9, <1>10, <1>11, <1>12

LEMMA RenameStepTypes ==
    ASSUME Types, MqInv, NEW s \in Sessions, NEW old \in Paths, NEW new \in Paths,
           RenameGoesOn(s, old, new)
    PROVE  Types'
  <1>1. dir' \in [Paths -> Inodes \cup {NoInode}]
    BY DEF RenameGoesOn, LinkStep, UnlinkStep, UndoStep, StatStep, MoveStep, Named, Moved, Types, FsTypes
  <1>2. FsTypes'
    BY <1>1 DEF RenameGoesOn, Types, FsTypes
  <1>3. faults' = faults \/ Fails("unlink")
    BY DEF RenameGoesOn, UnlinkStep, UndoStep
  <1>4. CountTypes'
    BY <1>3, CountStep DEF RenameGoesOn, Types
  <1>5. Quits(s) \/ Tells(s, old, new) \/ \E step \in RenameSteps : Onward(s, old, new, step)
    BY DEF RenameGoesOn, LinkStep, UnlinkStep, UndoStep, StatStep, MoveStep, RenameSteps
  <1>6. at[s] = "idle" /\ UNCHANGED handles
    BY DEF RenameGoesOn
  <1>7. CASE Quits(s)
    BY <1>2, <1>4, <1>6, <1>7, IdleFacts, SilentTypes DEF Quits
  <1>8. CASE Tells(s, old, new)
    BY <1>2, <1>4, <1>6, <1>8, AnnouncedTypes DEF Tells
  <1>9. ASSUME NEW step \in RenameSteps, Onward(s, old, new, step) PROVE Types'
    <2>1. PICK r \in TodoSet : Renaming(r, step, old, new) /\ Doing(s, r) /\ UNCHANGED mqvars
      BY <1>9 DEF Onward
    <2>2. r.step # "close"
      BY <2>1 DEF Renaming, RenameSteps
    <2> QED
      BY <1>2, <1>4, <1>6, <2>1, <2>2, SilentTypes
  <1> QED
    BY <1>5, <1>7, <1>8, <1>9

-----------------------------------------------------------------------------
(* The process around the handlers. *)

(* Where the session is in mq-notify.c changes, and nothing else of it. *)
LEMMA PlaceTypes ==
    ASSUME Types, NEW s \in Sessions,
           \A t \in Sessions : t # s => at'[t] = at[t],
           at'[s] = "clean" => todo[s] = Idle,
           UNCHANGED <<dir, inode, handles, todo, reqs, faults>>
    PROVE  Types'
  BY DEF Types, FsTypes, HandleTypes, TodoTypes, CountTypes, Whole, IsOpen

LEMMA StartTypes ==
    ASSUME Types, MqInv, NEW s \in Sessions, NEW resolved \in BOOLEAN, Start(s, resolved)
    PROVE  Types'
  <1>1. /\ \A t \in Sessions : t # s => at'[t] = at[t]
        /\ at'[s] # "clean"
        /\ UNCHANGED <<dir, inode, handles, todo, reqs, faults>>
    BY DEF Start, load_mq_config, fsvars, MqInv, Domains
  <1> QED
    BY <1>1, PlaceTypes

LEMMA PublishTypes ==
    ASSUME Types, MqInv, NEW s \in Sessions, Publish(s)
    PROVE  Types'
  <1>1. UNCHANGED <<dir, inode, handles, todo, reqs, faults>>
    BY DEF Publish, fsvars
  <1>2. \A t \in Sessions : t # s => at'[t] = at[t]
    BY DEF Publish, Connect, open_socket, login, open_channel, do_send_message, MqInv, Domains
  <1>3. at'[s] # "clean"
    BY DEF Publish, Connect, open_socket, login, open_channel, do_send_message, MqInv, Domains
  <1> QED
    BY <1>1, <1>2, <1>3, PlaceTypes

LEMMA ExitTypes ==
    ASSUME Types, MqInv, NEW s \in Sessions, Exit(s)
    PROVE  Types'
  <1>1. /\ \A t \in Sessions : t # s => at'[t] = at[t]
        /\ todo[s] = Idle
        /\ UNCHANGED <<dir, inode, handles, todo, reqs, faults>>
    BY DEF Exit, mq_clean, fsvars, MqInv, Domains
  <1> QED
    BY <1>1, PlaceTypes

LEMMA QuietTypes ==
    ASSUME Types, NEW s \in Sessions, LinkBreaks(s) \/ Consume(s)
    PROVE  Types'
  <1>1. at' = at /\ UNCHANGED <<dir, inode, handles, todo, reqs, faults>>
    BY DEF LinkBreaks, Consume, Break, Receive, fsvars
  <1>2. at'[s] = "clean" => todo[s] = Idle
    BY <1>1 DEF Types, TodoTypes
  <1> QED
    BY <1>1, <1>2, PlaceTypes

(* The process is gone, and its handles with it. *)
Ended(s) ==
    /\ handles' \in [Sessions -> [Slots -> HandleSet]]
    /\ \A t \in Sessions : t # s => handles'[t] = handles[t] /\ todo'[t] = todo[t] /\ at'[t] = at[t]
    /\ \A h \in Slots : handles'[s][h] = Unused(<< >>)
    /\ todo' \in [Sessions -> TodoSet] /\ todo'[s] = Idle
    /\ at'[s] = "exited"
    /\ UNCHANGED <<dir, inode, reqs, faults, view>>

LEMMA EndFacts ==
    ASSUME Types, MqInv, NEW s \in Sessions, Exited(s) \/ Die(s)
    PROVE  Ended(s)
  <1>1. /\ at[s] = "clean" \/ todo' = [todo EXCEPT ![s] = Idle]
        /\ todo' = todo \/ todo' = [todo EXCEPT ![s] = Idle]
        /\ UNCHANGED <<dir, inode, reqs, faults, view>>
        /\ handles' = [handles EXCEPT ![s] = NoHandles]
    BY DEF Exited, Die, mq_clean_return, fsvars
  <1>2. at'[s] = "exited" /\ \A t \in Sessions : t # s => at'[t] = at[t]
    BY DEF Exited, Die, mq_clean_return, die, MqInv, Domains
  <1>3. /\ handles' \in [Sessions -> [Slots -> HandleSet]] /\ handles'[s] = NoHandles
        /\ \A t \in Sessions : t # s => handles'[t] = handles[t]
    BY <1>1, EmptyTable DEF Types, HandleTypes
  <1>4. \A h \in Slots : handles'[s][h] = Unused(<< >>)
    BY <1>3 DEF NoHandles
  <1>5. /\ todo' \in [Sessions -> TodoSet] /\ todo'[s] = Idle
        /\ \A t \in Sessions : t # s => todo'[t] = todo[t]
    BY <1>1, IdleFacts DEF Types, TodoTypes
  <1> QED
    BY <1>1, <1>2, <1>3, <1>4, <1>5 DEF Ended

LEMMA EndTypes ==
    ASSUME Types, MqInv, NEW s \in Sessions, Exited(s) \/ Die(s)
    PROVE  Types'
  <1>1. Ended(s)
    BY EndFacts
  <1>2. FsTypes' /\ CountTypes'
    BY <1>1 DEF Ended, Types, FsTypes, CountTypes
  <1>3. \A h \in Slots : Whole(Unused(<< >>))
    BY EmptyTable DEF NoHandles
  <1>4. \A t \in Sessions, h \in Slots : Whole(handles'[t][h])
    BY <1>1, <1>3 DEF Ended, Types, HandleTypes
  <1>5. HandleTypes'
    BY <1>1, <1>4 DEF Ended, HandleTypes, Whole
  <1>6. TodoTypes'
    BY <1>1, IdleFacts DEF Ended, Types, TodoTypes, IsOpen
  <1> QED
    BY <1>2, <1>5, <1>6 DEF Types

-----------------------------------------------------------------------------
(* Every step is one of these. *)
HandlerStep(s) ==
    \/ \E p \in Paths, m \in OpenModes : process_open(s, p, m)
    \/ \E h \in Slots, off \in 0 .. MaxLen, b \in Data : process_write(s, h, off, b)
    \/ \E h \in Slots : process_close(s, h)
    \/ handle_close(s)
    \/ \E p \in Paths : process_remove(s, p)
    \/ \E p \in Paths : process_mkdir(s, p) \/ process_rmdir(s, p)
    \/ \E n \in 0 .. MaxLen : \/ \E p \in Paths : process_setstat(s, p, n)
                              \/ \E h \in Slots : process_fsetstat(s, h, n)
    \/ \E old \in Paths, new \in Paths : process_hardlink(s, old, new)
    \/ \E old \in Paths, new \in Paths : process_posix_rename(s, old, new)
    \/ \E old \in Paths, new \in Paths : process_rename(s, old, new)
    \/ rename_link(s) \/ rename_unlink(s) \/ rename_undo(s) \/ rename_stat(s) \/ rename_rename(s)

ProcessStep(s) ==
    \/ \E resolved \in BOOLEAN : Start(s, resolved)
    \/ Publish(s)
    \/ Exit(s)
    \/ Exited(s) \/ Die(s)
    \/ LinkBreaks(s) \/ Consume(s)

LEMMA Cases ==
    ASSUME Next PROVE \E s \in Sessions : HandlerStep(s) \/ ProcessStep(s)
  <1>1. PICK s \in Sessions :
            \/ \E resolved \in BOOLEAN : Start(s, resolved)
            \/ Handlers(s) \/ Proceed(s) \/ Exit(s) \/ Die(s) \/ LinkBreaks(s) \/ Consume(s)
    BY DEF Next
  <1>2. Handlers(s) => HandlerStep(s)
    BY DEF Handlers, HandlerStep
  <1>3. Proceed(s) => HandlerStep(s) \/ ProcessStep(s)
    BY DEF Proceed, HandlerStep, ProcessStep
  <1> QED
    BY <1>1, <1>2, <1>3 DEF ProcessStep

LEMMA HandlerTypes ==
    ASSUME Types, MqInv, NEW s \in Sessions, HandlerStep(s) PROVE Types'
  <1>1. CASE rename_link(s) \/ rename_unlink(s) \/ rename_undo(s) \/ rename_stat(s) \/ rename_rename(s)
    BY <1>1, RenameStepFacts, RenameStepTypes
  <1>2. CASE ~(rename_link(s) \/ rename_unlink(s) \/ rename_undo(s) \/ rename_stat(s) \/ rename_rename(s))
    BY <1>2, OpenTypes, WriteTypes, CloseTypes, ClosedTypes, RemoveTypes, DirTypes, StatTypes,
       HardlinkTypes, PosixRenameTypes, RenameTypes DEF HandlerStep
  <1> QED
    BY <1>1, <1>2

LEMMA NextTypes == Types /\ MqInv /\ [Next]_vars => Types'
  <1> SUFFICES ASSUME Types, MqInv, [Next]_vars PROVE Types'
    OBVIOUS
  <1>1. CASE Next
    <2>1. PICK s \in Sessions : HandlerStep(s) \/ ProcessStep(s)
      BY <1>1, Cases
    <2>2. ProcessStep(s) => Types'
      BY StartTypes, PublishTypes, ExitTypes, EndTypes, QuietTypes DEF ProcessStep
    <2> QED
      BY <2>1, <2>2, HandlerTypes
  <1>2. CASE UNCHANGED vars
    BY <1>2 DEF vars, mqvars, Types, FsTypes, HandleTypes, TodoTypes, CountTypes, Whole, IsOpen
  <1> QED
    BY <1>1, <1>2

-----------------------------------------------------------------------------
(* The dropbox in front of mq-notify.c: a handler sends one message that   *)
(* describes what it did, or none.                                         *)
LEMMA MessageFacts ==
    /\ \A p \in Paths : Remove(p) \in Messages
    /\ \A old \in Paths, new \in Paths : Rename(old, new) \in Messages
    /\ \A hd \in HandleSet, size \in Nat : hd.name \in Paths => Upload(hd, size) \in Messages
  BY DEF Messages, Remove, Rename, Upload, HandleSet

LEMMA HandlerSends ==
    ASSUME Types, MqInv, NEW s \in Sessions, HandlerStep(s)
    PROVE  UNCHANGED mqvars \/ \E m \in Messages : mq_send(s, m)
  <1>1. CASE rename_link(s) \/ rename_unlink(s) \/ rename_undo(s) \/ rename_stat(s) \/ rename_rename(s)
    <2>1. PICK old \in Paths, new \in Paths : RenameGoesOn(s, old, new)
      BY <1>1, RenameStepFacts
    <2>2. UNCHANGED mqvars \/ mq_send(s, Rename(old, new))
      BY <2>1 DEF RenameGoesOn, LinkStep, UnlinkStep, UndoStep, StatStep, MoveStep, Onward, Quits, Tells
    <2> QED
      BY <2>2, MessageFacts
  <1>2. CASE handle_close(s)
    <2>1. PICK h \in Slots : Closed(s, h)
      BY <1>2, ClosedFacts
    <2>2. PICK hd, size : hd = handles[s][h] /\ size = todo[s].size
      OBVIOUS
    <2>3. hd \in HandleSet /\ hd.name \in Paths
      BY <2>1, <2>2 DEF Types, HandleTypes, Whole, Closed, IsOpen
    <2>4. size \in Nat
      BY <2>1, <2>2 DEF Closed, CloseSet
    <2>5. Upload(hd, size) \in Messages
      BY <2>3, <2>4, MessageFacts
    <2>6. UNCHANGED mqvars \/ mq_send(s, Upload(hd, size))
      BY <2>1, <2>2 DEF Closed
    <2> QED
      BY <2>5, <2>6
  <1>3. ASSUME NEW p \in Paths, process_remove(s, p) PROVE \E m \in Messages : mq_send(s, m)
    <2>1. mq_send(s, Remove(p))
      BY <1>3, RemoveFacts DEF RemovedFile
    <2> QED
      BY <2>1, MessageFacts
  <1>4. ASSUME NEW old \in Paths, NEW new \in Paths, process_posix_rename(s, old, new)
        PROVE  \E m \in Messages : mq_send(s, m)
    <2>1. mq_send(s, Rename(old, new))
      BY <1>4, PosixRenameFacts DEF PosixRenamed
    <2> QED
      BY <2>1, MessageFacts
  <1>5. ASSUME NEW p \in Paths, NEW m \in OpenModes, process_open(s, p, m) PROVE UNCHANGED mqvars
    BY <1>5 DEF process_open
  <1>6. ASSUME NEW h, NEW off, NEW b, process_write(s, h, off, b) PROVE UNCHANGED mqvars
    BY <1>6 DEF process_write
  <1>7. ASSUME NEW h, process_close(s, h) PROVE UNCHANGED mqvars
    BY <1>7 DEF process_close, GoOn
  <1>8. ASSUME NEW p, process_mkdir(s, p) \/ process_rmdir(s, p) PROVE UNCHANGED mqvars
    BY <1>8 DEF process_mkdir, process_rmdir
  <1>9. ASSUME NEW p, NEW n, process_setstat(s, p, n) \/ process_fsetstat(s, p, n) PROVE UNCHANGED mqvars
    BY <1>9 DEF process_setstat, process_fsetstat
  <1>10. ASSUME NEW old, NEW new, process_hardlink(s, old, new) \/ process_rename(s, old, new)
         PROVE  UNCHANGED mqvars
    BY <1>10 DEF process_hardlink, process_rename, GoOn
  <1> QED
    BY <1>1, <1>2, <1>3, <1>4, <1>5, <1>6, <1>7, <1>8, <1>9, <1>10, Zenon DEF HandlerStep

LEMMA NextSends ==
    ASSUME Messages \subseteq Msgs, Types, MqInv, [Next]_vars PROVE [MqStep]_mqvars
  <1>1. CASE Next
    <2>1. PICK s \in Sessions : HandlerStep(s) \/ ProcessStep(s)
      BY <1>1, Cases
    <2>2. HandlerStep(s) => [MqStep]_mqvars
      BY HandlerSends DEF MqStep
    <2>3. ProcessStep(s) => MqStep
      BY DEF ProcessStep, Start, Publish, Connect, Exit, Exited, Die, LinkBreaks, Consume, MqStep
    <2> QED
      BY <2>1, <2>2, <2>3
  <1>2. CASE UNCHANGED vars
    BY <1>2 DEF vars
  <1> QED
    BY <1>1, <1>2

(* Types, and the invariant of MqNotify, in every reachable state of the   *)
(* dropbox.                                                                *)
LEMMA Typed ==
    ASSUME Messages \subseteq Msgs PROVE Spec => [](Types /\ MqInv)
  <1>1. Init => Types /\ MqInv
    BY InitTypes, InitInv DEF Init
  <1>2. Types /\ MqInv /\ [Next]_vars => (Types /\ MqInv)'
    BY NextTypes, NextSends, StepInv
  <1> QED
    BY <1>1, <1>2, PTL DEF Spec

(* Whatever requests clients send, in whatever order, and whichever        *)
(* process or connection fails: handles, requests in progress and files    *)
(* keep their shape.  A slot without a file holds nothing but a digest.    *)
THEOREM InboxTypeCorrect ==
    ASSUME Messages \subseteq Msgs PROVE Spec => []TypeOK
  <1>1. Types /\ MqInv => TypeOK
    <2> SUFFICES ASSUME Types, MqInv PROVE TypeOK
      OBVIOUS
    <2>1. MqTypeOK
      BY InvTypes
    <2>2. \A i \in Inodes : inode[i].kind \in {"reg", "dir"}
      BY DEF Types, FsTypes, FileSet
    <2>3. \A s \in Sessions : todo[s].step \in RenameSteps \cup {"idle", "close"}
      BY IdleFacts, TodoKinds DEF Types, TodoTypes
    <2> QED
      BY <2>1, <2>2, <2>3 DEF Types, FsTypes, HandleTypes, CountTypes, Whole, IsOpen, TypeOK
  <1> QED
    BY <1>1, Typed, PTL

(* The dropbox implements the contract with the consumer of the messages,  *)
(* and mq-notify.c keeps its promises inside it: whatever the handlers do, *)
(* the operations of a session are announced at most once, in order and    *)
(* without a gap.                                                          *)
THEOREM InboxImplementsContract ==
    ASSUME Messages \subseteq Msgs
    PROVE  Spec => ImplementsContract /\ []NothingQueued /\ []CleanExitIsComplete
  <1>1. Init => Contract!Init
    BY DEF Init, MqInit, Contract!Init
  <1>2. Types /\ MqInv /\ [Next]_vars => [Contract!Next]_<<hist, got>>
    BY NextSends, ContractStep
  <1> QED
    BY <1>1, <1>2, Typed, InvNothingQueued, InvCleanExit, PTL
       DEF Spec, ImplementsContract, Contract!Spec

-----------------------------------------------------------------------------
(* A step is taken by one session and leaves the others' own state alone. *)
Stays(t) == handles'[t] = handles[t] /\ todo'[t] = todo[t] /\ reqs'[t] = reqs[t]

LEMMA HandlerStays ==
    ASSUME Types, MqInv, NEW s \in Sessions, HandlerStep(s), NEW t \in Sessions, t # s
    PROVE  Stays(t)
  <1>1. ASSUME NEW op, NEW paths, Request(s, op, paths) PROVE reqs'[t] = reqs[t]
    BY <1>1, RequestFacts DEF Types, CountTypes
  <1>2. CASE rename_link(s) \/ rename_unlink(s) \/ rename_undo(s) \/ rename_stat(s) \/ rename_rename(s)
    <2>1. PICK old \in Paths, new \in Paths : RenameGoesOn(s, old, new)
      BY <1>2, RenameStepFacts
    <2>2. todo'[t] = todo[t]
      BY <2>1 DEF RenameGoesOn, LinkStep, UnlinkStep, UndoStep, StatStep, MoveStep, Onward, Quits, Tells, Doing
    <2> QED
      BY <2>1, <2>2 DEF RenameGoesOn, Stays
  <1>3. CASE handle_close(s)
    BY <1>3, ClosedFacts DEF Closed, Stays, Handled, Doing
  <1>4. ASSUME NEW p \in Paths, NEW m \in OpenModes, process_open(s, p, m) PROVE Stays(t)
    <2>1. PICK h \in Slots, i \in Inodes : Opened(s, p, h, i, flags_from_portable(m))
      BY <1>4, OpenFacts
    <2> QED
      BY <1>1, <1>4, <2>1 DEF process_open, Opened, Handled, Stays
  <1>5. ASSUME NEW h \in Slots, NEW off \in 0 .. MaxLen, NEW b \in Data, process_write(s, h, off, b)
        PROVE  Stays(t)
    <2>1. PICK n \in 0 .. Len(b) : Wrote(s, h, off, b, n)
      BY <1>5, WriteFacts
    <2>2. handles'[t] = handles[t] /\ todo' = todo
      BY <2>1 DEF Wrote, Handled
    <2> QED
      BY <1>1, <1>5, <2>2 DEF process_write, Stays
  <1>6. ASSUME NEW h \in Slots, process_close(s, h) PROVE Stays(t)
    BY <1>1, <1>6, CloseFacts DEF process_close, Closing, Doing, Stays
  <1>7. ASSUME NEW p \in Paths, process_remove(s, p) PROVE Stays(t)
    BY <1>1, <1>7, RemoveFacts DEF process_remove, RemovedFile, Doing, Stays
  <1>8. ASSUME NEW p \in Paths, process_mkdir(s, p) \/ process_rmdir(s, p) PROVE Stays(t)
    BY <1>1, <1>8 DEF process_mkdir, process_rmdir, Stays
  <1>9. ASSUME NEW p, NEW n, process_setstat(s, p, n) \/ process_fsetstat(s, p, n) PROVE Stays(t)
    BY <1>1, <1>9 DEF process_setstat, process_fsetstat, Stays
  <1>10. ASSUME NEW old \in Paths, NEW new \in Paths, process_posix_rename(s, old, new) PROVE Stays(t)
    BY <1>1, <1>10, PosixRenameFacts DEF process_posix_rename, PosixRenamed, Doing, Stays
  <1>11. ASSUME NEW old \in Paths, NEW new \in Paths, process_rename(s, old, new) PROVE Stays(t)
    BY <1>1, <1>11, RenameFacts DEF process_rename, RenameBegun, Doing, Stays
  <1>12. ASSUME NEW old \in Paths, NEW new \in Paths, process_hardlink(s, old, new) PROVE Stays(t)
    BY <1>1, <1>12 DEF process_hardlink, Stays
  <1> QED
    BY <1>2, <1>3, <1>4, <1>5, <1>6, <1>7, <1>8, <1>9, <1>10, <1>11, <1>12, Zenon DEF HandlerStep

LEMMA ProcessStays ==
    ASSUME Types, MqInv, NEW s \in Sessions, ProcessStep(s), NEW t \in Sessions
    PROVE  /\ t # s => Stays(t)
           /\ dir' = dir /\ inode' = inode /\ reqs' = reqs
           /\ (todo'[s] = todo[s] /\ handles' = handles) \/ Ended(s)
  <1>1. CASE Exited(s) \/ Die(s)
    <2>1. Ended(s)
      BY <1>1, EndFacts
    <2> QED
      BY <2>1 DEF Ended, Stays
  <1>2. CASE ~(Exited(s) \/ Die(s))
    BY <1>2 DEF ProcessStep, Start, Publish, Exit, LinkBreaks, Consume, fsvars, Stays
  <1> QED
    BY <1>1, <1>2

(* A session started with -R has nothing open for writing, and no rename   *)
(* in progress.                                                            *)
Tame(s) ==
    /\ \A h \in Slots : IsOpen(s, h) => handles[s][h].flags \cap O_ACCMODE = {}
    /\ todo[s].step = "idle" \/ todo[s].step = "close"

LEMMA TameHandlers ==
    ASSUME Types, MqInv, NEW s \in Sessions, s \in ReadOnly, Tame(s), HandlerStep(s)
    PROVE  Tame(s)' /\ dir' = dir /\ inode' = inode
  <1>1. ASSUME NEW op, NEW paths, Request(s, op, paths) PROVE op \notin DoesWrite
    BY <1>1, RequestFacts DEF request_permitted
  <1>2. ~(rename_link(s) \/ rename_unlink(s) \/ rename_undo(s) \/ rename_stat(s) \/ rename_rename(s))
    <2>1. todo[s].step \notin RenameSteps
      BY DEF Tame, RenameSteps
    <2> QED
      BY <2>1 DEF rename_link, rename_unlink, rename_undo, rename_stat, rename_rename, Continue, RenameSteps
  <1>3. \A h, off, b : ~process_write(s, h, off, b)
    BY <1>1 DEF process_write, DoesWrite
  <1>4. \A p, n : ~process_remove(s, p) /\ ~process_mkdir(s, p) /\ ~process_rmdir(s, p)
                  /\ ~process_setstat(s, p, n) /\ ~process_fsetstat(s, p, n)
    BY <1>1 DEF process_remove, process_mkdir, process_rmdir, process_setstat, process_fsetstat, DoesWrite
  <1>5. \A old, new : ~process_hardlink(s, old, new) /\ ~process_posix_rename(s, old, new)
                      /\ ~process_rename(s, old, new)
    BY <1>1 DEF process_hardlink, process_posix_rename, process_rename, DoesWrite
  <1>6. CASE handle_close(s)
    <2>1. PICK h \in Slots : Closed(s, h)
      BY <1>6, ClosedFacts
    <2>2. dir' = dir /\ inode' = inode /\ todo'[s].step = "idle"
      BY <2>1, IdleFacts DEF Closed, Doing
    <2>3. handles[s][h] \in HandleSet
      BY DEF Types, HandleTypes
    <2>4. handles'[s][h].use # "FILE" /\ \A g \in Slots : g # h => handles'[s][g] = handles[s][g]
      BY <2>1, <2>3, ClosedHandle DEF Closed, Handled
    <2> QED
      BY <2>2, <2>4 DEF Tame, IsOpen
  <1>7. ASSUME NEW h \in Slots, process_close(s, h) PROVE Tame(s)' /\ dir' = dir /\ inode' = inode
    <2>1. PICK r \in TodoSet : Closing(s, h, r)
      BY <1>7, CloseFacts
    <2> QED
      BY <2>1 DEF Closing, Doing, Tame, IsOpen
  <1>8. ASSUME NEW p \in Paths, NEW m \in OpenModes, process_open(s, p, m)
        PROVE  Tame(s)' /\ dir' = dir /\ inode' = inode
    <2>1. PICK h \in Slots, i \in Inodes : Opened(s, p, h, i, flags_from_portable(m))
      BY <1>8, OpenFacts
    <2>2. PICK f : f = flags_from_portable(m)
      OBVIOUS
    <2>3. f \in SUBSET Flags
      BY <2>2, FlagsType
    <2>4. "CREAT" \notin f /\ "TRUNC" \notin f /\ f \cap O_ACCMODE = {}
      <3>1. f \cap (O_ACCMODE \cup {"CREAT", "TRUNC"}) = {}
        BY <2>1, <2>2 DEF Opened, RefusesToOpen
      <3> QED
        BY <3>1, Zenon
    <2>5. dir[p] # NoInode
      BY <2>1, <2>2, <2>4 DEF Opened, Opens, Kind
    <2>6. inode' = inode /\ dir[p] = i /\ Named(p, i)
      BY <2>1, <2>2, <2>4, <2>5 DEF Opened
    <2>7. dir' = dir
      BY <2>6 DEF Named, Types, FsTypes
    <2>8. PICK hd : hd = handle_new(s, h, i, f, p)
      OBVIOUS
    <2>9. hd.flags = f
      BY <2>3, <2>8, NewHandle
    <2>10. Handled(s, h, hd) /\ todo' = todo
      BY <2>1, <2>2, <2>8 DEF Opened
    <2> QED
      BY <2>4, <2>6, <2>7, <2>9, <2>10 DEF Handled, Tame, IsOpen
  <1> QED
    BY <1>2, <1>3, <1>4, <1>5, <1>6, <1>7, <1>8, Zenon DEF HandlerStep

LEMMA TameStep ==
    ASSUME Types, MqInv, \A s \in ReadOnly : Tame(s), [Next]_vars
    PROVE  /\ \A s \in ReadOnly : Tame(s)'
           /\ \A s \in ReadOnly : reqs'[s] # reqs[s] \/ todo'[s] # todo[s] => UNCHANGED fsvars
  <1>1. CASE Next
    <2>1. PICK s \in Sessions : HandlerStep(s) \/ ProcessStep(s)
      BY <1>1, Cases
    <2>2. SUFFICES ASSUME NEW t \in ReadOnly
                   PROVE  /\ Tame(t)'
                          /\ reqs'[t] # reqs[t] \/ todo'[t] # todo[t] => UNCHANGED fsvars
      OBVIOUS
    <2>3. t \in Sessions /\ Tame(t)
      BY InboxAssumption
    <2>4. CASE t # s
      <3>1. Stays(t)
        BY <2>1, <2>3, <2>4, HandlerStays, ProcessStays
      <3> QED
        BY <2>3, <3>1 DEF Stays, Tame, IsOpen
    <2>5. CASE t = s /\ HandlerStep(s)
      BY <2>3, <2>5, TameHandlers DEF fsvars
    <2>6. CASE t = s /\ ProcessStep(s)
      <3>1. dir' = dir /\ inode' = inode
        BY <2>6, ProcessStays
      <3>2. CASE Ended(s)
        <4>1. \A h \in Slots : ~IsOpen(s, h)'
          BY <3>2 DEF Ended, IsOpen, Unused
        <4> QED
          BY <2>6, <3>1, <3>2, <4>1, IdleFacts DEF Ended, Tame, fsvars
      <3>3. CASE ~Ended(s)
        <4>1. todo'[s] = todo[s] /\ handles' = handles
          BY <2>6, <3>3, ProcessStays
        <4> QED
          BY <2>3, <2>6, <3>1, <4>1 DEF Tame, IsOpen, fsvars
      <3> QED
        BY <3>2, <3>3
    <2> QED
      BY <2>1, <2>4, <2>5, <2>6
  <1>2. CASE UNCHANGED vars
    BY <1>2 DEF vars, Tame, IsOpen
  <1> QED
    BY <1>1, <1>2

(* A session started with -R never changes a file or a name, whatever the  *)
(* other sessions do to the files it has open.                             *)
THEOREM ReadOnlySessions ==
    ASSUME Messages \subseteq Msgs PROVE Spec => ReadOnlyUntouched
  <1> DEFINE Unarmed == \A s \in ReadOnly : Tame(s)
  <1>1. Init => Unarmed
    <2> SUFFICES ASSUME Init, NEW s \in ReadOnly PROVE Tame(s)
      OBVIOUS
    <2>1. s \in Sessions
      BY InboxAssumption
    <2>2. todo[s].step = "idle" /\ \A h \in Slots : ~IsOpen(s, h)
      BY <2>1, IdleFacts, EmptyTable DEF Init, IsOpen
    <2> QED
      BY <2>2 DEF Tame
  <1>2. Types /\ MqInv /\ Unarmed /\ [Next]_vars => Unarmed'
    BY TameStep
  <1>3. Types /\ MqInv /\ Unarmed /\ [Next]_vars =>
          [\A s \in ReadOnly : reqs'[s] # reqs[s] \/ todo'[s] # todo[s] => UNCHANGED fsvars]_vars
    BY TameStep
  <1> HIDE DEF Unarmed
  <1> QED
    BY <1>1, <1>2, <1>3, Typed, PTL DEF Spec, ReadOnlyUntouched

-----------------------------------------------------------------------------
(***************************************************************************)
(* Clients that upload (Uploads): the inbox, the handles and the messages  *)
(* of one session s.  H is its table of handles, r what it has left to do, *)
(* d and n are the directory and the files.                                *)
(***************************************************************************)

(* md is the digest of the beginning of the bytes b. *)
Begins(md, b) == Len(md) <= Len(b) /\ \A k \in 1 .. Len(md) : md[k] = b[k]

Writes(hd) == hd.use = "FILE" /\ hd.flags \cap O_ACCMODE # {}

(* An open handle names a file of the session.  If it writes, its digest   *)
(* is that of the beginning of the file and closing it will be announced;  *)
(* if not, it will not.                                                    *)
Good(s, hd, d, n) ==
    /\ Owner[hd.name] = s /\ d[hd.name] = hd.ino
    /\ Announced(hd) <=> Writes(hd)
    /\ Writes(hd) => /\ "APPEND" \notin hd.flags
                     /\ n[hd.ino].kind = "reg"
                     /\ Begins(hd.md, n[hd.ino].data)

Table(s, H, d, n) ==
    /\ \A h \in Slots : H[h].use = "FILE" => Good(s, H[h], d, n)
    /\ \A h, g \in Slots : H[h].use = "FILE" /\ H[g].use = "FILE" /\ H[h].name = H[g].name => h = g

(* No handle of the table has the name p. *)
Spare(H, p) == \A h \in Slots : H[h].use = "FILE" => H[h].name # p

(* A RENAME in progress has its two names to itself; between link() and    *)
(* unlink() both are names of the file.  A CLOSE in progress knows the     *)
(* size of the file, and the digest covers all of it.                      *)
Task(s, H, r, d, n) ==
    /\ r.step \in RenameSteps => /\ r.step # "undo"
                                 /\ Owner[r.old] = s /\ Owner[r.new] = s
                                 /\ Spare(H, r.old) /\ Spare(H, r.new)
    /\ r.step = "unlink" => /\ r.old # r.new /\ d[r.new] = d[r.old]
                            /\ d[r.old] # NoInode /\ n[d[r.old]].kind = "reg"
    /\ r.step = "close" => /\ r.size = Len(n[H[r.h].ino].data)
                           /\ Len(H[r.h].md) = r.size \/ H[r.h].flags = {}

(* Names of one file: only those of a rename between its two calls. *)
Twins(r, p, q) == r.step = "unlink" /\ ((p = r.old /\ q = r.new) \/ (p = r.new /\ q = r.old))

Apart(s, r, d) ==
    \A p, q \in Paths :
        Owner[p] = s /\ Owner[q] = s /\ d[p] = d[q] /\ d[p] # NoInode => p = q \/ Twins(r, p, q)

(* No file belongs to two sessions. *)
Separate(d) == \A p, q \in Paths : Owner[p] # Owner[q] /\ d[p] = d[q] => d[p] = NoInode

(* What a consumer should believe of p, unless p is being written or named. *)
TruthIn(d, n, p) == IF d[p] # NoInode /\ n[d[p]].kind = "reg"
                    THEN {<<n[d[p]].data, Len(n[d[p]].data)>>}
                    ELSE {}

Settled(H, r, p) == /\ \A h \in Slots : Writes(H[h]) => H[h].name # p
                    /\ ~(r.step = "unlink" /\ p = r.new)

(* The messages of hs that the consumer has not read after g of them lead  *)
(* from what it believes of the session's paths, v, to the truth.          *)
IsView(v) == v = [p \in Paths |-> v[p]]

Leads(s, hs, g, v, vs) ==
    /\ \A k \in g .. Len(hs) : IsView(vs[k])
    /\ \A k \in g + 1 .. Len(hs) : vs[k] = Believe(vs[k - 1], hs[k])
    /\ \A p \in Paths : Owner[p] = s => vs[g][p] = v[p]

True(s, v, H, r, d, n) ==
    \A p \in Paths : Owner[p] = s /\ Settled(H, r, p) => v[p] = TruthIn(d, n, p)

Chain(s, hs, g, v, H, r, d, n) ==
    \E vs : Leads(s, hs, g, v, vs) /\ True(s, vs[Len(hs)], H, r, d, n)

(* The messages of a session are about its own paths. *)
OwnMessage(s, m) ==
    /\ m \in Messages /\ Owner[m.path] = s
    /\ m.op = "rename" => Owner[m.old] = s

(* Nothing is lost between the handlers and the consumer. *)
Flow(s) ==
    /\ at[s] # "new" => ready[s]
    /\ ~opened[s] /\ at[s] \in {"new", "idle", "open_socket"} => link[s] = "closed"
    /\ opened[s] => link[s] = "up"
    /\ at[s] \in Steps => Len(hist[s]) = Len(got[s]) + Len(wire[s]) + 1
    /\ at[s] \notin Steps => Len(hist[s]) = Len(got[s]) + Len(wire[s])
    /\ \A k \in 1 .. Len(wire[s]) : wire[s][k] = Len(got[s]) + k

Upkeep(s) ==
    /\ Table(s, handles[s], dir, inode)
    /\ Task(s, handles[s], todo[s], dir, inode)
    /\ Apart(s, todo[s], dir)
    /\ at[s] = "clean" => \A h \in Slots : ~IsOpen(s, h)

Faithful(s) ==
    /\ Flow(s)
    /\ \A k \in 1 .. Len(hist[s]) : OwnMessage(s, hist[s][k])
    /\ Chain(s, hist[s], Len(got[s]), view, handles[s], todo[s], dir, inode)

Orderly == Separate(dir) /\ IsView(view) /\ \A s \in Sessions : Upkeep(s) /\ Faithful(s)

(* The files that another session can see are as before. *)
Undisturbed(t) ==
    \A q \in Paths : Owner[q] = t => /\ dir'[q] = dir[q]
                                     /\ dir[q] # NoInode => inode'[dir[q]] = inode[dir[q]]

(* An inode that s may touch: it has no name, or a name of the session. *)
Mine(s, i) == (\A q \in Paths : dir[q] # i) \/ (\E x \in Paths : Owner[x] = s /\ dir[x] = i)

(* What a step of session s has to show, of the files and of the messages. *)
Kept(s) ==
    /\ \A t \in Sessions : t # s => Undisturbed(t)
    /\ Separate(dir')
    /\ Table(s, handles'[s], dir', inode')
    /\ Task(s, handles'[s], todo'[s], dir', inode')
    /\ Apart(s, todo'[s], dir')

Before(s, v) == IsView(v) /\ True(s, v, handles[s], todo[s], dir, inode)
After(s, v) == True(s, v, handles'[s], todo'[s], dir', inode')

Tracks(s) ==
    \/ UNCHANGED mqvars /\ \A v : Before(s, v) => After(s, v)
    \/ \E m : OwnMessage(s, m) /\ mq_send(s, m) /\ \A v : Before(s, v) => After(s, Believe(v, m))

LEMMA Touch ==
    ASSUME Types, Separate(dir), NEW s \in Sessions,
           \A q \in Paths : Owner[q] # s => dir'[q] = dir[q],
           \A i \in Inodes : inode'[i] = inode[i] \/ Mine(s, i),
           \A q \in Paths : Owner[q] = s => dir'[q] = NoInode \/ Mine(s, dir'[q])
    PROVE  (\A t \in Sessions : t # s => Undisturbed(t)) /\ Separate(dir')
  <1>1. ASSUME NEW t \in Sessions, t # s PROVE Undisturbed(t)
    <2> SUFFICES ASSUME NEW q \in Paths, Owner[q] = t
                 PROVE  dir'[q] = dir[q] /\ (dir[q] # NoInode => inode'[dir[q]] = inode[dir[q]])
      BY DEF Undisturbed
    <2>1. dir'[q] = dir[q]
      BY <1>1
    <2>2. ASSUME dir[q] # NoInode PROVE inode'[dir[q]] = inode[dir[q]]
      <3>1. dir[q] \in Inodes
        BY <2>2 DEF Types, FsTypes
      <3>2. ~Mine(s, dir[q])
        BY <1>1, <2>2 DEF Mine, Separate
      <3> QED
        BY <3>1, <3>2
    <2> QED
      BY <2>1, <2>2
  <1>2. ASSUME NEW p \in Paths, NEW q \in Paths, Owner[p] # Owner[q], dir'[p] = dir'[q],
               dir'[p] # NoInode
        PROVE  FALSE
    <2>1. CASE Owner[p] # s /\ Owner[q] # s
      BY <1>2, <2>1 DEF Separate
    <2>2. CASE Owner[p] = s
      <3>1. Mine(s, dir[q]) /\ dir[q] # NoInode
        BY <1>2, <2>2
      <3> QED
        BY <1>2, <2>2, <3>1 DEF Mine, Separate
    <2>3. CASE Owner[q] = s
      <3>1. Mine(s, dir[p]) /\ dir[p] # NoInode
        BY <1>2, <2>3
      <3> QED
        BY <1>2, <2>3, <3>1 DEF Mine, Separate
    <2> QED
      BY <2>1, <2>2, <2>3
  <1> QED
    BY <1>1, <1>2 DEF Separate

(* Session s, at the start of a step: types, and what it may rely on. *)
LEMMA OrderlyFacts ==
    ASSUME Types, Orderly, NEW s \in Sessions
    PROVE  /\ Separate(dir) /\ IsView(view)
           /\ Table(s, handles[s], dir, inode) /\ Task(s, handles[s], todo[s], dir, inode)
           /\ Apart(s, todo[s], dir)
           /\ dir \in [Paths -> Inodes \cup {NoInode}] /\ inode \in [Inodes -> FileSet]
           /\ NoInode \notin Inodes
           /\ \A h \in Slots : handles[s][h] \in HandleSet
           /\ \A h \in Slots : handles[s][h].use = "FILE" =>
                 /\ handles[s][h].name \in Paths /\ handles[s][h].ino \in Inodes
                 /\ dir[handles[s][h].name] = handles[s][h].ino
                 /\ Owner[handles[s][h].name] = s
  <1>1. Separate(dir) /\ IsView(view) /\ Upkeep(s)
    BY DEF Orderly
  <1>2. Table(s, handles[s], dir, inode) /\ Task(s, handles[s], todo[s], dir, inode) /\ Apart(s, todo[s], dir)
    BY <1>1 DEF Upkeep
  <1>3. dir \in [Paths -> Inodes \cup {NoInode}] /\ inode \in [Inodes -> FileSet] /\ NoInode \notin Inodes
    BY InboxAssumption DEF Types, FsTypes, NoInode
  <1>4. ASSUME NEW h \in Slots PROVE handles[s][h] \in HandleSet /\ Whole(handles[s][h])
    BY DEF Types, HandleTypes
  <1>5. ASSUME NEW h \in Slots, handles[s][h].use = "FILE"
        PROVE  /\ handles[s][h].name \in Paths /\ handles[s][h].ino \in Inodes
               /\ dir[handles[s][h].name] = handles[s][h].ino
               /\ Owner[handles[s][h].name] = s
    BY <1>2, <1>4, <1>5 DEF Whole, Table, Good
  <1> QED
    BY <1>1, <1>2, <1>3, <1>4, <1>5

(* While no rename is between its two calls, own names are names of        *)
(* different files.                                                        *)
LEMMA OwnApart ==
    ASSUME NEW s, NEW r, NEW d, Apart(s, r, d), r.step # "unlink",
           NEW p \in Paths, NEW q \in Paths, Owner[p] = s, Owner[q] = s, d[p] = d[q], d[p] # NoInode
    PROVE  p = q
  BY DEF Apart, Twins

LEMMA SameTruth ==
    ASSUME NEW p \in Paths, dir'[p] = dir[p], dir[p] # NoInode => inode'[dir[p]] = inode[dir[p]]
    PROVE  TruthIn(dir', inode', p) = TruthIn(dir, inode, p)
  BY DEF TruthIn

(* A disciplined client: what it opens, renames or removes is its own, and *)
(* not open.                                                               *)
LEMMA PoliteFacts ==
    ASSUME Uploads, NEW s, NEW op, NEW paths, Request(s, op, paths), NEW p \in paths
    PROVE  Owner[p] = s /\ Spare(handles[s], p)
  BY DEF Uploads, Request, Polite, Spare, IsOpen

LEMMA IdleTask ==
    ASSUME NEW s, NEW H, NEW d, NEW n PROVE Task(s, H, Idle, d, n)
  BY IdleFacts DEF Task, RenameSteps

(* The flags of clients that upload. *)
LEMMA UploadFlags ==
    ASSUME Uploads, NEW m \in OpenModes, NEW f, f = flags_from_portable(m)
    PROVE  \/ /\ f \cap O_ACCMODE # {} /\ "APPEND" \notin f
              /\ "TRUNC" \in f \/ ("CREAT" \in f /\ "EXCL" \in f)
           \/ f \cap O_ACCMODE = {} /\ "CREAT" \notin f /\ "TRUNC" \notin f /\ "APPEND" \notin f
  <1>1. CASE "WRITE" \in m
    <2>1. "APPEND" \notin m /\ ("TRUNC" \in m \/ ("CREAT" \in m /\ "EXCL" \in m))
      BY <1>1 DEF Uploads
    <2>2. f = O_RDWR \cup (m \cap {"APPEND", "CREAT", "TRUNC", "EXCL"})
          \/ f = O_WRONLY \cup (m \cap {"APPEND", "CREAT", "TRUNC", "EXCL"})
      BY <1>1 DEF flags_from_portable
    <2>3. f \cap O_ACCMODE # {}
      BY <2>2 DEF O_RDWR, O_WRONLY, O_ACCMODE
    <2> QED
      BY <2>1, <2>2, <2>3 DEF O_RDWR, O_WRONLY
  <1>2. CASE "WRITE" \notin m
    <2>1. "CREAT" \notin m /\ "TRUNC" \notin m /\ "APPEND" \notin m
      BY <1>2 DEF Uploads
    <2>2. f = O_RDONLY \cup (m \cap {"APPEND", "CREAT", "TRUNC", "EXCL"})
      BY <1>2 DEF flags_from_portable
    <2> QED
      BY <2>1, <2>2 DEF O_RDONLY, O_ACCMODE
  <1> QED
    BY <1>1, <1>2

(* OPEN empties or creates the file and will have its CLOSE announced, or  *)
(* changes nothing but the table of handles.                               *)
LEMMA UploadOpens ==
    ASSUME Uploads, Types, NEW s \in Sessions, NEW p \in Paths, NEW m \in OpenModes,
           NEW h \in Slots, NEW i \in Inodes, NEW f, f = flags_from_portable(m), Opened(s, p, h, i, f)
    PROVE  \/ /\ f \cap O_ACCMODE # {} /\ "APPEND" \notin f
              /\ "CREAT" \in f \/ "TRUNC" \in f
              /\ i \in FreeInodes \/ dir[p] = i
              /\ Stored(i, EmptyFile)
           \/ /\ f \cap O_ACCMODE = {} /\ "CREAT" \notin f /\ "TRUNC" \notin f /\ "APPEND" \notin f
              /\ dir[p] = i /\ inode' = inode
  <1>1. \/ /\ f \cap O_ACCMODE # {} /\ "APPEND" \notin f
           /\ "TRUNC" \in f \/ ("CREAT" \in f /\ "EXCL" \in f)
        \/ f \cap O_ACCMODE = {} /\ "CREAT" \notin f /\ "TRUNC" \notin f /\ "APPEND" \notin f
    BY UploadFlags
  <1>2. Opens(p, f) /\ \/ dir[p] = NoInode /\ i \in FreeInodes /\ Stored(i, EmptyFile)
                       \/ dir[p] = i /\ "TRUNC" \in f /\ Stored(i, EmptyFile)
                       \/ dir[p] = i /\ "TRUNC" \notin f /\ inode' = inode
    BY DEF Opened
  <1>3. i # NoInode
    BY InboxAssumption DEF NoInode
  <1>4. dir[p] = NoInode => "CREAT" \in f
    BY <1>2 DEF Opens, Kind
  <1>5. dir[p] # NoInode => Kind(p) = "reg" \/ Kind(p) = "dir"
    BY DEF Kind, Types, FsTypes, FileSet
  <1>6. Kind(p) = "reg" => ~("CREAT" \in f /\ "EXCL" \in f)
    BY <1>2 DEF Opens
  <1>7. Kind(p) = "dir" => f \cap O_ACCMODE = {}
    <2>1. Kind(p) = "dir" => f \cap (O_ACCMODE \cup {"CREAT", "TRUNC"}) = {}
      BY <1>2 DEF Opens
    <2> QED
      BY <2>1, Zenon
  <1>8. dir[p] # NoInode /\ f \cap O_ACCMODE # {} => "TRUNC" \in f
    BY <1>1, <1>5, <1>6, <1>7
  <1> QED
    BY <1>1, <1>2, <1>3, <1>4, <1>8

LEMMA FreeIsMine ==
    ASSUME NEW s, NEW i, i \in FreeInodes
    PROVE  Mine(s, i) /\ \A q \in Paths : dir[q] # i
  BY DEF FreeInodes, NamesOf, Mine

LEMMA OpenUpkeep ==
    ASSUME Uploads, Types, Orderly, NEW s \in Sessions, NEW p \in Paths, NEW m \in OpenModes,
           process_open(s, p, m)
    PROVE  Kept(s) /\ Tracks(s)
  <1>1. PICK f : f = flags_from_portable(m)
    OBVIOUS
  <1>2. PICK h \in Slots, i \in Inodes : Opened(s, p, h, i, f)
    BY <1>1, OpenFacts
  <1>3. PICK hd : hd = handle_new(s, h, i, f, p)
    OBVIOUS
  <1>4. /\ hd \in HandleSet /\ hd.use = "FILE" /\ hd.ino = i /\ hd.flags = f
        /\ hd.name = p /\ hd.md = << >>
    BY <1>1, <1>3, FlagsType, NewHandle
  <1>5. Handled(s, h, hd) /\ Named(p, i) /\ todo' = todo /\ UNCHANGED mqvars
    BY <1>2, <1>3 DEF Opened
  <1>6. Owner[p] = s /\ Spare(handles[s], p) /\ todo[s] = Idle
    BY PoliteFacts, RequestFacts DEF process_open
  <1>7. \/ /\ Writes(hd) /\ Announced(hd) /\ "APPEND" \notin hd.flags
           /\ (\A q \in Paths : dir[q] # i) \/ dir[p] = i
           /\ Stored(i, EmptyFile)
        \/ /\ ~Writes(hd) /\ ~Announced(hd)
           /\ dir[p] = i /\ inode' = inode
    <2>1. \/ /\ f \cap O_ACCMODE # {} /\ "APPEND" \notin f
             /\ "CREAT" \in f \/ "TRUNC" \in f
             /\ i \in FreeInodes \/ dir[p] = i
             /\ Stored(i, EmptyFile)
          \/ /\ f \cap O_ACCMODE = {} /\ "CREAT" \notin f /\ "TRUNC" \notin f /\ "APPEND" \notin f
             /\ dir[p] = i /\ inode' = inode
      BY <1>1, <1>2, UploadOpens
    <2>2. Announced(hd) <=> ("CREAT" \in f \/ "TRUNC" \in f \/ "APPEND" \in f)
      BY <1>4 DEF Announced
    <2>3. Writes(hd) <=> f \cap O_ACCMODE # {}
      BY <1>4 DEF Writes
    <2> QED
      BY <1>4, <2>1, <2>2, <2>3, FreeIsMine
  <1>8. i # NoInode /\ Mine(s, i)
    BY <1>6, <1>7, InboxAssumption DEF Mine, NoInode
  <1>9. \A q \in Paths : q # p => dir'[q] = dir[q]
    BY <1>5 DEF Named
  <1>10. dir'[p] = i
    BY <1>5 DEF Named
  <1>11. \A j \in Inodes : j # i => inode'[j] = inode[j]
    BY <1>7 DEF Stored
  <1>12. ASSUME NEW q \in Paths, Owner[q] = s, q # p PROVE dir[q] # i
    BY <1>6, <1>7, <1>8, <1>12, OrderlyFacts, OwnApart, IdleFacts
  <1>13. (\A t \in Sessions : t # s => Undisturbed(t)) /\ Separate(dir')
    <2>1. \A q \in Paths : Owner[q] # s => dir'[q] = dir[q]
      BY <1>6, <1>9
    <2>2. \A j \in Inodes : inode'[j] = inode[j] \/ Mine(s, j)
      BY <1>8, <1>11
    <2>3. \A q \in Paths : Owner[q] = s => dir'[q] = NoInode \/ Mine(s, dir'[q])
      BY <1>8, <1>9, <1>10 DEF Mine
    <2> QED
      BY <2>1, <2>2, <2>3, Touch, OrderlyFacts
  <1>14. ASSUME NEW q \in Paths, Owner[q] = s, q # p
         PROVE  dir'[q] = dir[q] /\ (dir[q] # NoInode => inode'[dir[q]] = inode[dir[q]])
    <2>1. dir[q] # i /\ dir'[q] = dir[q]
      BY <1>9, <1>12, <1>14
    <2>2. dir[q] # NoInode => dir[q] \in Inodes
      BY OrderlyFacts
    <2> QED
      BY <1>11, <2>1, <2>2
  <1>15. handles'[s][h] = hd /\ \A g \in Slots : g # h => handles'[s][g] = handles[s][g]
    BY <1>5 DEF Handled
  <1>16. Table(s, handles'[s], dir', inode')
    <2>1. Good(s, hd, dir', inode')
      <3>1. Owner[hd.name] = s /\ dir'[hd.name] = hd.ino
        BY <1>4, <1>6, <1>10
      <3>2. Writes(hd) => inode'[i] = EmptyFile
        BY <1>7 DEF Stored
      <3>3. Begins(<< >>, EmptyFile.data)
        BY EmptyFacts DEF Begins
      <3>4. Writes(hd) => inode'[hd.ino].kind = "reg" /\ Begins(hd.md, inode'[hd.ino].data)
        BY <1>4, <3>2, <3>3, EmptyFacts
      <3> QED
        BY <1>7, <3>1, <3>4 DEF Good
    <2>2. ASSUME NEW g \in Slots, g # h, handles[s][g].use = "FILE"
          PROVE  Good(s, handles[s][g], dir', inode') /\ handles[s][g].name # p
      <3>1. PICK x : x = handles[s][g]
        OBVIOUS
      <3>2. Good(s, x, dir, inode) /\ x.name \in Paths /\ x.ino \in Inodes /\ dir[x.name] = x.ino
            /\ Owner[x.name] = s /\ x.name # p
        BY <1>6, <2>2, <3>1, OrderlyFacts DEF Table, Spare
      <3>3. dir'[x.name] = x.ino /\ inode'[x.ino] = inode[x.ino]
        BY <1>14, <3>2, OrderlyFacts
      <3> QED
        BY <3>1, <3>2, <3>3 DEF Good
    <2>3. ASSUME NEW g \in Slots, NEW k \in Slots, handles'[s][g].use = "FILE", handles'[s][k].use = "FILE",
                 handles'[s][g].name = handles'[s][k].name
          PROVE  g = k
      <3>1. Table(s, handles[s], dir, inode)
        BY OrderlyFacts
      <3> QED
        BY <1>4, <1>15, <2>2, <2>3, <3>1 DEF Table
    <2>4. ASSUME NEW g \in Slots, handles'[s][g].use = "FILE"
          PROVE  Good(s, handles'[s][g], dir', inode')
      BY <1>15, <2>1, <2>2, <2>4
    <2> QED
      BY <2>3, <2>4 DEF Table
  <1>17. Task(s, handles'[s], todo'[s], dir', inode')
    BY <1>5, <1>6, IdleTask
  <1>18. Apart(s, todo'[s], dir')
    <2> SUFFICES ASSUME NEW q \in Paths, NEW x \in Paths, Owner[q] = s, Owner[x] = s,
                        dir'[q] = dir'[x], dir'[q] # NoInode
                 PROVE  q = x
      BY DEF Apart
    <2>1. Apart(s, todo[s], dir) /\ todo[s].step # "unlink"
      BY <1>6, IdleFacts, OrderlyFacts
    <2> QED
      BY <1>9, <1>10, <1>12, <2>1, OwnApart
  <1>19. ASSUME NEW v, Before(s, v) PROVE After(s, v)
    <2> SUFFICES ASSUME NEW q \in Paths, Owner[q] = s, Settled(handles'[s], todo'[s], q)
                 PROVE  v[q] = TruthIn(dir', inode', q)
      BY DEF After, True
    <2>1. ~Writes(hd) \/ q # p
      BY <1>4, <1>15 DEF Settled
    <2>2. TruthIn(dir', inode', q) = TruthIn(dir, inode, q)
      <3>1. CASE q # p
        BY <1>14, <3>1, SameTruth
      <3>2. CASE q = p
        BY <1>7, <1>10, <2>1, <3>2, SameTruth
      <3> QED
        BY <3>1, <3>2
    <2>3. Settled(handles[s], todo[s], q)
      <3>1. ASSUME NEW g \in Slots, Writes(handles[s][g]) PROVE handles[s][g].name # q
        BY <1>2, <1>15, <3>1 DEF Settled, Writes, Opened, IsOpen
      <3> QED
        BY <1>6, <3>1, IdleFacts DEF Settled
    <2> QED
      BY <1>19, <2>2, <2>3 DEF Before, True
  <1> QED
    BY <1>5, <1>13, <1>16, <1>17, <1>18, <1>19 DEF Kept, Tracks

(* Bytes written where the digest ends leave its beginning alone, and      *)
(* extend it.                                                              *)
LEMMA WriteBegins ==
    ASSUME NEW d \in Seq(Nat), NEW md \in Seq(Nat), NEW c \in Seq(Nat),
           Len(d) <= MaxLen, Len(md) + Len(c) <= MaxLen, Begins(md, d)
    PROVE  /\ Begins(md, WriteAt(d, Len(md), c))
           /\ Begins(md \o c, WriteAt(d, Len(md), c))
  <1>1. PICK W, L, M : W = WriteAt(d, Len(md), c) /\ L = Len(md) /\ M = Len(c)
    OBVIOUS
  <1>2. L \in Nat /\ M \in Nat /\ Len(d) \in Nat /\ L <= Len(d)
    BY <1>1 DEF Begins
  <1>3. /\ W \in Seq(Nat) /\ Len(W) \in Nat /\ Len(W) >= Len(d) /\ (c # << >> => Len(W) >= L + M)
        /\ \A k \in 1 .. Len(W) : W[k] = IF k \in L + 1 .. L + M THEN c[k - L]
                                         ELSE IF k <= Len(d) THEN d[k] ELSE 0
    <2>1. L + Len(c) <= MaxLen
      BY <1>1
    <2>2. /\ WriteAt(d, L, c) \in Seq(Nat)
          /\ Len(WriteAt(d, L, c)) >= Len(d)
          /\ c # << >> => Len(WriteAt(d, L, c)) >= L + Len(c)
          /\ \A k \in 1 .. Len(WriteAt(d, L, c)) :
                WriteAt(d, L, c)[k] = IF k \in L + 1 .. L + Len(c) THEN c[k - L]
                                      ELSE IF k <= Len(d) THEN d[k] ELSE 0
      BY <1>2, <2>1, WriteAtLen
    <2> QED
      BY <1>1, <2>2
  <1>4. M = 0 \/ Len(W) >= L + M
    BY <1>1, <1>3, EmptySeq
  <1>5. Len(W) >= L /\ Len(W) >= L + M
    BY <1>2, <1>3, <1>4
  <1>6. ASSUME NEW k \in 1 .. L PROVE W[k] = md[k]
    <2>1. k \in 1 .. Len(W) /\ k \notin L + 1 .. L + M /\ k <= Len(d)
      BY <1>2, <1>3, <1>5
    <2>2. md[k] = d[k]
      BY <1>1 DEF Begins
    <2> QED
      BY <1>3, <2>1, <2>2
  <1>7. ASSUME NEW k \in L + 1 .. L + M PROVE W[k] = c[k - L]
    <2>1. k \in 1 .. Len(W)
      BY <1>2, <1>3, <1>5
    <2> QED
      BY <1>3, <2>1
  <1>8. /\ md \o c \in Seq(Nat) /\ Len(md \o c) = L + M
        /\ \A k \in 1 .. L : (md \o c)[k] = md[k]
        /\ \A k \in L + 1 .. L + M : (md \o c)[k] = c[k - L]
    BY <1>1, ConcatProperties
  <1>9. ASSUME NEW k \in 1 .. L + M PROVE (md \o c)[k] = W[k]
    <2>1. k \in 1 .. L \/ k \in L + 1 .. L + M
      BY <1>2
    <2> QED
      BY <1>6, <1>7, <1>8, <2>1
  <1> QED
    BY <1>1, <1>3, <1>5, <1>6, <1>8, <1>9 DEF Begins

LEMMA WriteUpkeep ==
    ASSUME Uploads, Types, Orderly, NEW s \in Sessions, NEW h \in Slots, NEW off \in 0 .. MaxLen,
           NEW b \in Data, process_write(s, h, off, b)
    PROVE  Kept(s) /\ Tracks(s)
  <1>1. PICK n \in 0 .. Len(b) : Wrote(s, h, off, b, n)
    BY WriteFacts
  <1>2. PICK hd, i : hd = handles[s][h] /\ i = hd.ino
    OBVIOUS
  <1>3. todo[s] = Idle /\ todo' = todo /\ dir' = dir /\ UNCHANGED mqvars
    BY <1>1, RequestFacts DEF process_write, Wrote
  <1>4. /\ hd \in HandleSet /\ hd.use = "FILE" /\ hd.name \in Paths /\ i \in Inodes
        /\ dir[hd.name] = i /\ Owner[hd.name] = s /\ i # NoInode
    BY <1>1, <1>2, OrderlyFacts DEF Wrote, IsOpen
  <1>5. Writes(hd) /\ Good(s, hd, dir, inode)
    BY <1>1, <1>2, <1>4, OrderlyFacts DEF Writes, Wrote, Table
  <1>6. PICK d : d = inode[i].data
    OBVIOUS
  <1>7. /\ "APPEND" \notin hd.flags /\ inode[i].kind = "reg" /\ Begins(hd.md, d)
        /\ d \in Seq(Nat) /\ Len(d) <= MaxLen /\ hd.md \in Seq(Nat)
    BY <1>2, <1>4, <1>5, <1>6 DEF Good, Types, FsTypes, FileSet, HandleSet
  <1>8. Position(s, h, off) = Len(hd.md) /\ Len(hd.md) + Len(b) <= MaxLen /\ b \in Seq(Nat)
    <2>1. off = Len(hd.md)
      BY <1>1, <1>2 DEF Wrote, Uploads
    <2> QED
      BY <1>1, <1>2, <1>7, <2>1 DEF Wrote, Position
  <1>9. PICK c : c = SubSeq(b, 1, n)
    OBVIOUS
  <1>10. c \in Seq(Nat) /\ Len(c) = n /\ n <= Len(b) /\ n \in Nat
    BY <1>8, <1>9
  <1>11. n = Len(b) => c = b
    BY <1>8, <1>9, <1>10
  <1>12. MaxLen \in Nat /\ Len(hd.md) \in Nat /\ Len(b) \in Nat
    BY <1>7, <1>8, InboxAssumption
  <1>13. Len(hd.md) + Len(c) <= MaxLen
    BY <1>8, <1>10, <1>12
  <1>14. PICK W : W = WriteAt(d, Len(hd.md), c)
    OBVIOUS
  <1>15. Begins(hd.md, W) /\ Begins(hd.md \o c, W)
    BY <1>7, <1>10, <1>13, <1>14, WriteBegins
  <1>16. /\ inode'[i].kind = "reg" /\ inode'[i].data = W
         /\ \A j \in Inodes : j # i => inode'[j] = inode[j]
    <2>1. PICK f : /\ Stored(i, f) /\ f.kind = inode[i].kind
                   /\ f.data = WriteAt(inode[i].data, Position(s, h, off), SubSeq(b, 1, n))
      BY <1>1, <1>2 DEF Wrote
    <2>2. f.data = W
      BY <1>6, <1>8, <1>9, <1>14, <2>1
    <2> QED
      BY <1>7, <2>1, <2>2 DEF Stored
  <1>17. PICK hd2 : hd2 = handles'[s][h]
    OBVIOUS
  <1>18. /\ hd2.use = "FILE" /\ hd2.name = hd.name /\ hd2.ino = i /\ hd2.flags = hd.flags
         /\ Begins(hd2.md, W)
         /\ \A g \in Slots : g # h => handles'[s][g] = handles[s][g]
    <2>1. CASE n = Len(b) /\ \E x : Handled(s, h, x) /\ Digested(hd, x, b)
      <3>1. PICK x : Handled(s, h, x) /\ Digested(hd, x, b)
        BY <2>1
      <3>2. x = hd2 /\ \A g \in Slots : g # h => handles'[s][g] = handles[s][g]
        BY <1>17, <3>1 DEF Handled
      <3>3. hd2.md = hd.md \o c
        BY <1>11, <2>1, <3>1, <3>2 DEF Digested
      <3> QED
        BY <1>2, <1>4, <1>15, <3>1, <3>2, <3>3 DEF Digested
    <2>2. CASE handles' = handles
      BY <1>2, <1>4, <1>15, <1>17, <2>2
    <2> QED
      BY <1>1, <1>2, <2>1, <2>2 DEF Wrote
  <1>19. Mine(s, i)
    BY <1>4 DEF Mine
  <1>20. (\A t \in Sessions : t # s => Undisturbed(t)) /\ Separate(dir')
    <2>1. \A q \in Paths : dir'[q] = dir[q]
      BY <1>3
    <2>2. \A j \in Inodes : inode'[j] = inode[j] \/ Mine(s, j)
      BY <1>16, <1>19
    <2>3. \A q \in Paths : Owner[q] = s => dir'[q] = NoInode \/ Mine(s, dir'[q])
      BY <1>3 DEF Mine
    <2> QED
      BY <2>1, <2>2, <2>3, Touch, OrderlyFacts
  <1>21. ASSUME NEW q \in Paths, Owner[q] = s, q # hd.name
         PROVE  dir[q] # NoInode => dir[q] \in Inodes /\ inode'[dir[q]] = inode[dir[q]]
    <2>1. Apart(s, todo[s], dir) /\ todo[s].step # "unlink"
      BY <1>3, IdleFacts, OrderlyFacts
    <2>2. dir[q] # i
      BY <1>4, <1>21, <2>1, OwnApart
    <2>3. dir[q] # NoInode => dir[q] \in Inodes
      BY OrderlyFacts
    <2> QED
      BY <1>16, <2>2, <2>3
  <1>22. Table(s, handles'[s], dir', inode')
    <2>1. Good(s, hd2, dir, inode')
      <3>1. Writes(hd2) /\ Announced(hd2)
        BY <1>5, <1>18 DEF Writes, Good, Announced
      <3> QED
        BY <1>4, <1>7, <1>16, <1>18, <3>1 DEF Good
    <2>2. ASSUME NEW g \in Slots, g # h, handles[s][g].use = "FILE"
          PROVE  Good(s, handles[s][g], dir, inode')
      <3>1. PICK x : x = handles[s][g]
        OBVIOUS
      <3>2. Good(s, x, dir, inode) /\ x.name \in Paths /\ x.ino \in Inodes /\ dir[x.name] = x.ino
            /\ Owner[x.name] = s
        BY <2>2, <3>1, OrderlyFacts DEF Table
      <3>3. x.name # hd.name
        BY <1>2, <1>4, <2>2, <3>1, OrderlyFacts DEF Table
      <3>4. inode'[x.ino] = inode[x.ino]
        BY <1>21, <3>2, <3>3, OrderlyFacts
      <3> QED
        BY <3>1, <3>2, <3>4 DEF Good
    <2>3. Table(s, handles[s], dir, inode)
      BY OrderlyFacts
    <2>4. ASSUME NEW g \in Slots
          PROVE  handles'[s][g].use = handles[s][g].use /\ handles'[s][g].name = handles[s][g].name
      BY <1>2, <1>4, <1>17, <1>18
    <2>5. ASSUME NEW g \in Slots, handles'[s][g].use = "FILE"
          PROVE  Good(s, handles'[s][g], dir', inode')
      BY <1>3, <1>17, <1>18, <2>1, <2>2, <2>5
    <2> QED
      BY <2>3, <2>4, <2>5 DEF Table
  <1>23. Task(s, handles'[s], todo'[s], dir', inode')
    BY <1>3, IdleTask
  <1>24. Apart(s, todo'[s], dir')
    BY <1>3, OrderlyFacts
  <1>25. ASSUME NEW v, Before(s, v) PROVE After(s, v)
    <2> SUFFICES ASSUME NEW q \in Paths, Owner[q] = s, Settled(handles'[s], todo'[s], q)
                 PROVE  v[q] = TruthIn(dir', inode', q)
      BY DEF After, True
    <2>1. q # hd.name
      BY <1>5, <1>17, <1>18 DEF Settled, Writes
    <2>2. TruthIn(dir', inode', q) = TruthIn(dir, inode, q)
      BY <1>3, <1>21, <2>1, SameTruth
    <2>3. Settled(handles[s], todo[s], q)
      BY <1>2, <1>3, <1>18, <2>1 DEF Settled, Writes
    <2> QED
      BY <1>25, <2>2, <2>3 DEF Before, True
  <1> QED
    BY <1>3, <1>20, <1>22, <1>23, <1>24, <1>25 DEF Kept, Tracks

(* Nothing that anyone can see changes, except what is left to do. *)
LEMMA OnlyTodo ==
    ASSUME Types, Orderly, NEW s \in Sessions, todo[s].step # "unlink",
           UNCHANGED <<dir, inode, mqvars>>, handles'[s] = handles[s],
           Task(s, handles[s], todo'[s], dir, inode), todo'[s].step # "unlink"
    PROVE  Kept(s) /\ Tracks(s)
  <1>1. Separate(dir) /\ Table(s, handles[s], dir, inode) /\ Apart(s, todo[s], dir)
    BY OrderlyFacts
  <1>2. Apart(s, todo'[s], dir')
    BY <1>1 DEF Apart, Twins
  <1>3. Kept(s)
    BY <1>1, <1>2 DEF Kept, Undisturbed
  <1>4. ASSUME NEW v, Before(s, v) PROVE After(s, v)
    BY <1>4 DEF Before, After, True, Settled
  <1> QED
    BY <1>3, <1>4 DEF Tracks

LEMMA CloseUpkeep ==
    ASSUME Uploads, Types, Orderly, NEW s \in Sessions, NEW h \in Slots, process_close(s, h)
    PROVE  Kept(s) /\ Tracks(s)
  <1>1. PICK r \in TodoSet : Closing(s, h, r)
    BY CloseFacts
  <1>2. todo[s] = Idle /\ todo[s].step # "unlink"
    BY RequestFacts, IdleFacts DEF process_close
  <1>3. todo'[s] = r /\ r.step = "close" /\ r.h = h /\ UNCHANGED <<dir, inode, mqvars, handles>>
    BY <1>1 DEF Closing, Doing
  <1>4. /\ r.size = Len(inode[handles[s][h].ino].data)
        /\ Len(handles[s][h].md) = r.size \/ handles[s][h].flags = {}
    BY <1>1 DEF Closing, Uploads
  <1>5. Task(s, handles[s], r, dir, inode)
    BY <1>3, <1>4 DEF Task, RenameSteps
  <1> QED
    BY <1>2, <1>3, <1>5, OnlyTodo

(* What the consumer makes of a message. *)
LEMMA BelieveUpload ==
    ASSUME NEW v, IsView(v), NEW hd, hd.name \in Paths, NEW size, NEW q \in Paths
    PROVE  /\ q = hd.name => Believe(v, Upload(hd, size))[q] = {<<hd.md, size>>}
           /\ q # hd.name => Believe(v, Upload(hd, size))[q] = v[q]
  <1>1. PICK m : m = Upload(hd, size)
    OBVIOUS
  <1>2. m.op = "upload" /\ m.path = hd.name /\ m.digest = hd.md /\ m.size = size
    BY <1>1 DEF Upload
  <1>3. Believe(v, m) = [v EXCEPT ![hd.name] = {<<hd.md, size>>}]
    BY <1>2 DEF Believe
  <1> QED
    BY <1>1, <1>3 DEF IsView

LEMMA BelieveRemove ==
    ASSUME NEW v, IsView(v), NEW p \in Paths, NEW q \in Paths
    PROVE  /\ q = p => Believe(v, Remove(p))[q] = {}
           /\ q # p => Believe(v, Remove(p))[q] = v[q]
  <1>1. PICK m : m = Remove(p)
    OBVIOUS
  <1>2. m.op = "remove" /\ m.path = p
    BY <1>1 DEF Remove
  <1>3. Believe(v, m) = [v EXCEPT ![p] = {}]
    BY <1>2 DEF Believe
  <1> QED
    BY <1>1, <1>3 DEF IsView

LEMMA BelieveRename ==
    ASSUME NEW v, IsView(v), NEW old \in Paths, NEW new \in Paths, NEW q \in Paths
    PROVE  /\ old = new => Believe(v, Rename(old, new))[q] = v[q]
           /\ old # new => /\ q = new => Believe(v, Rename(old, new))[q] = v[old]
                           /\ q = old => Believe(v, Rename(old, new))[q] = {}
                           /\ q # new /\ q # old => Believe(v, Rename(old, new))[q] = v[q]
  <1>1. PICK m : m = Rename(old, new)
    OBVIOUS
  <1>2. m.op = "rename" /\ m.path = new /\ m.old = old
    BY <1>1 DEF Rename
  <1>3. old = new => Believe(v, m) = v
    BY <1>2 DEF Believe
  <1>4. old # new => Believe(v, m) = [v EXCEPT ![new] = v[old], ![old] = {}]
    BY <1>2 DEF Believe
  <1> QED
    BY <1>1, <1>3, <1>4 DEF IsView

LEMMA OwnMessages ==
    ASSUME NEW s
    PROVE  /\ \A p \in Paths : Owner[p] = s => OwnMessage(s, Remove(p))
           /\ \A old \in Paths, new \in Paths :
                 Owner[old] = s /\ Owner[new] = s => OwnMessage(s, Rename(old, new))
           /\ \A hd \in HandleSet, size \in Nat :
                 hd.name \in Paths /\ Owner[hd.name] = s => OwnMessage(s, Upload(hd, size))
  <1>1. ASSUME NEW p \in Paths, Owner[p] = s PROVE OwnMessage(s, Remove(p))
    BY <1>1, MessageFacts DEF OwnMessage, Remove
  <1>2. ASSUME NEW old \in Paths, NEW new \in Paths, Owner[old] = s, Owner[new] = s
        PROVE  OwnMessage(s, Rename(old, new))
    BY <1>2, MessageFacts DEF OwnMessage, Rename
  <1>3. ASSUME NEW hd \in HandleSet, NEW size \in Nat, hd.name \in Paths, Owner[hd.name] = s
        PROVE  OwnMessage(s, Upload(hd, size))
    BY <1>3, MessageFacts DEF OwnMessage, Upload
  <1> QED
    BY <1>1, <1>2, <1>3

(* A digest as long as the file is that of all of it. *)
LEMMA WholeDigest ==
    ASSUME NEW md \in Seq(Nat), NEW d \in Seq(Nat), Begins(md, d), Len(md) = Len(d)
    PROVE  md = d
  BY SeqEqual DEF Begins

LEMMA ClosedUpkeep ==
    ASSUME Uploads, Types, Orderly, NEW s \in Sessions, handle_close(s)
    PROVE  Kept(s) /\ Tracks(s)
  <1>1. PICK h \in Slots : Closed(s, h)
    BY ClosedFacts
  <1>2. PICK hd, r : hd = handles[s][h] /\ r = todo[s]
    OBVIOUS
  <1>3. /\ r.step = "close" /\ r.h = h /\ r \in CloseSet /\ todo'[s] = Idle
        /\ dir' = dir /\ inode' = inode
    BY <1>1, <1>2 DEF Closed, Doing
  <1>4. /\ hd \in HandleSet /\ hd.use = "FILE" /\ hd.name \in Paths /\ hd.ino \in Inodes
        /\ dir[hd.name] = hd.ino /\ Owner[hd.name] = s /\ hd.ino # NoInode
    BY <1>1, <1>2, OrderlyFacts DEF Closed, IsOpen
  <1>5. /\ handles'[s][h].use # "FILE"
        /\ \A g \in Slots : g # h => handles'[s][g] = handles[s][g]
    BY <1>1, <1>2, <1>4, ClosedHandle DEF Closed, Handled
  <1>6. Good(s, hd, dir, inode)
    BY <1>2, <1>4, OrderlyFacts DEF Table
  <1>7. r.size = Len(inode[hd.ino].data) /\ (Len(hd.md) = r.size \/ hd.flags = {})
    BY <1>2, <1>3, OrderlyFacts DEF Task
  <1>8. Kept(s)
    <2>1. Separate(dir) /\ Table(s, handles[s], dir, inode) /\ Apart(s, todo[s], dir)
      BY OrderlyFacts
    <2>2. Table(s, handles'[s], dir', inode')
      BY <1>3, <1>5, <2>1 DEF Table
    <2>3. Apart(s, todo'[s], dir')
      BY <1>2, <1>3, <2>1 DEF Apart, Twins
    <2>4. Task(s, handles'[s], todo'[s], dir', inode')
      BY <1>3, IdleTask
    <2> QED
      BY <1>3, <2>1, <2>2, <2>3, <2>4 DEF Kept, Undisturbed
  <1>9. ASSUME NEW q \in Paths, Settled(handles'[s], todo'[s], q), q # hd.name \/ ~Writes(hd)
        PROVE  Settled(handles[s], todo[s], q)
    BY <1>2, <1>3, <1>5, <1>9 DEF Settled, Writes
  <1>10. CASE Announced(hd)
    <2>1. Writes(hd)
      BY <1>6, <1>10 DEF Good
    <2>2. hd.md = inode[hd.ino].data /\ inode[hd.ino].kind = "reg"
      <3>1. hd.flags # {}
        BY <2>1 DEF Writes
      <3>2. inode[hd.ino].data \in Seq(Nat) /\ hd.md \in Seq(Nat)
        BY <1>4, OrderlyFacts DEF FileSet, HandleSet
      <3> QED
        BY <1>6, <1>7, <2>1, <3>1, <3>2, WholeDigest DEF Good
    <2>3. TruthIn(dir, inode, hd.name) = {<<hd.md, r.size>>}
      BY <1>4, <1>7, <2>2 DEF TruthIn
    <2>4. ASSUME NEW v, Before(s, v) PROVE After(s, Believe(v, Upload(hd, r.size)))
      <3> SUFFICES ASSUME NEW q \in Paths, Owner[q] = s, Settled(handles'[s], todo'[s], q)
                   PROVE  Believe(v, Upload(hd, r.size))[q] = TruthIn(dir', inode', q)
        BY DEF After, True
      <3>1. IsView(v)
        BY <2>4 DEF Before
      <3>2. CASE q = hd.name
        BY <1>3, <1>4, <2>3, <3>1, <3>2, BelieveUpload
      <3>3. CASE q # hd.name
        <4>1. v[q] = TruthIn(dir, inode, q)
          BY <1>9, <2>4, <3>3 DEF Before, True
        <4> QED
          BY <1>3, <1>4, <3>1, <3>3, <4>1, BelieveUpload
      <3> QED
        BY <3>2, <3>3
    <2>5. mq_send(s, Upload(hd, r.size))
      BY <1>1, <1>2, <1>10 DEF Closed, Uploads, Fails
    <2>6. OwnMessage(s, Upload(hd, r.size))
      BY <1>3, <1>4, OwnMessages DEF CloseSet
    <2> QED
      BY <1>8, <2>4, <2>5, <2>6 DEF Tracks
  <1>11. CASE ~Announced(hd)
    <2>1. ~Writes(hd) /\ UNCHANGED mqvars
      BY <1>1, <1>2, <1>6, <1>11 DEF Good, Closed
    <2>2. ASSUME NEW v, Before(s, v) PROVE After(s, v)
      BY <1>3, <1>9, <2>1, <2>2 DEF Before, After, True
    <2> QED
      BY <1>8, <2>1, <2>2 DEF Tracks
  <1> QED
    BY <1>10, <1>11

(* Only names of the session that it has not open change. *)
LEMMA NamesKept ==
    ASSUME Types, Orderly, NEW s \in Sessions, handles'[s] = handles[s],
           \A q \in Paths : dir'[q] = dir[q] \/ (Owner[q] = s /\ Spare(handles[s], q)),
           \A q \in Paths : Owner[q] = s => dir'[q] = NoInode \/ Mine(s, dir'[q]),
           \A q \in Paths : dir[q] # NoInode => inode'[dir[q]] = inode[dir[q]],
           Task(s, handles'[s], todo'[s], dir', inode'), Apart(s, todo'[s], dir')
    PROVE  Kept(s)
  <1>1. (\A t \in Sessions : t # s => Undisturbed(t)) /\ Separate(dir')
    <2>1. \A q \in Paths : Owner[q] # s => dir'[q] = dir[q]
      OBVIOUS
    <2>2. \A j \in Inodes : inode'[j] = inode[j] \/ Mine(s, j)
      BY InboxAssumption DEF Mine, NoInode
    <2> QED
      BY <2>1, <2>2, Touch, OrderlyFacts
  <1>2. Table(s, handles'[s], dir', inode')
    <2>1. Table(s, handles[s], dir, inode)
      BY OrderlyFacts
    <2>2. ASSUME NEW g \in Slots, handles[s][g].use = "FILE"
          PROVE  Good(s, handles[s][g], dir', inode')
      <3>1. PICK x : x = handles[s][g]
        OBVIOUS
      <3>2. Good(s, x, dir, inode) /\ x.name \in Paths /\ x.ino \in Inodes /\ dir[x.name] = x.ino
            /\ x.ino # NoInode
        BY <2>1, <2>2, <3>1, OrderlyFacts DEF Table
      <3>3. dir'[x.name] = x.ino /\ inode'[x.ino] = inode[x.ino]
        BY <2>2, <3>1, <3>2 DEF Spare
      <3> QED
        BY <3>1, <3>2, <3>3 DEF Good
    <2> QED
      BY <2>1, <2>2 DEF Table
  <1> QED
    BY <1>1, <1>2 DEF Kept

(* REMOVE, MKDIR and RMDIR: one name changes, to nothing or to a new file. *)
LEMMA OneName ==
    ASSUME Types, Orderly, NEW s \in Sessions, NEW p \in Paths, NEW i \in Inodes \cup {NoInode},
           Owner[p] = s, Spare(handles[s], p), todo[s] = Idle, todo'[s] = Idle, handles' = handles,
           Named(p, i), i = NoInode \/ (\A q \in Paths : dir[q] # i),
           \A j \in Inodes : j # i => inode'[j] = inode[j]
    PROVE  /\ Kept(s)
           /\ \A q \in Paths : q # p => TruthIn(dir', inode', q) = TruthIn(dir, inode, q)
           /\ \A q \in Paths : Settled(handles'[s], todo'[s], q) <=> Settled(handles[s], todo[s], q)
  <1>1. dir'[p] = i /\ \A q \in Paths : q # p => dir'[q] = dir[q]
    BY DEF Named
  <1>2. ASSUME NEW q \in Paths, dir[q] # NoInode PROVE inode'[dir[q]] = inode[dir[q]]
    <2>1. dir[q] \in Inodes /\ NoInode \notin Inodes
      BY <1>2, OrderlyFacts
    <2>2. dir[q] # i
      BY <1>2
    <2> QED
      BY <2>1, <2>2
  <1>3. \A q \in Paths : Owner[q] = s => dir'[q] = NoInode \/ Mine(s, dir'[q])
    BY <1>1 DEF Mine
  <1>4. Apart(s, todo'[s], dir')
    <2>1. Apart(s, todo[s], dir) /\ todo[s].step # "unlink"
      BY IdleFacts, OrderlyFacts
    <2> QED
      BY <1>1, <2>1 DEF Apart, Twins
  <1>5. Task(s, handles'[s], todo'[s], dir', inode')
    BY IdleTask
  <1>6. Kept(s)
    BY <1>1, <1>2, <1>3, <1>4, <1>5, NamesKept
  <1>7. \A q \in Paths : q # p => TruthIn(dir', inode', q) = TruthIn(dir, inode, q)
    BY <1>1, <1>2, SameTruth
  <1> QED
    BY <1>6, <1>7

LEMMA RemoveUpkeep ==
    ASSUME Uploads, Types, Orderly, NEW s \in Sessions, NEW p \in Paths, process_remove(s, p)
    PROVE  Kept(s) /\ Tracks(s)
  <1>1. RemovedFile(s, p)
    BY RemoveFacts
  <1>2. Owner[p] = s /\ Spare(handles[s], p) /\ todo[s] = Idle
    BY PoliteFacts, RequestFacts DEF process_remove
  <1>3. todo'[s] = Idle /\ handles' = handles /\ Named(p, NoInode) /\ inode' = inode
    BY <1>1 DEF RemovedFile, Doing
  <1>4. /\ Kept(s)
        /\ \A q \in Paths : q # p => TruthIn(dir', inode', q) = TruthIn(dir, inode, q)
        /\ \A q \in Paths : Settled(handles'[s], todo'[s], q) <=> Settled(handles[s], todo[s], q)
    BY <1>2, <1>3, OneName
  <1>5. TruthIn(dir', inode', p) = {}
    BY <1>3 DEF Named, TruthIn
  <1>6. ASSUME NEW v, Before(s, v) PROVE After(s, Believe(v, Remove(p)))
    BY <1>4, <1>5, <1>6, BelieveRemove DEF Before, After, True
  <1>7. mq_send(s, Remove(p)) /\ OwnMessage(s, Remove(p))
    BY <1>1, <1>2, OwnMessages DEF RemovedFile
  <1> QED
    BY <1>4, <1>6, <1>7 DEF Tracks

LEMMA DirUpkeep ==
    ASSUME Uploads, Types, Orderly, NEW s \in Sessions, NEW p \in Paths,
           process_mkdir(s, p) \/ process_rmdir(s, p)
    PROVE  Kept(s) /\ Tracks(s)
  <1>1. Owner[p] = s /\ Spare(handles[s], p) /\ todo[s] = Idle
    BY PoliteFacts, RequestFacts DEF process_mkdir, process_rmdir
  <1>2. PICK i \in Inodes \cup {NoInode} :
            /\ Named(p, i) /\ (i = NoInode \/ (\A q \in Paths : dir[q] # i))
            /\ \A j \in Inodes : j # i => inode'[j] = inode[j]
            /\ i # NoInode => inode'[i].kind = "dir"
            /\ UNCHANGED <<mqvars, handles, todo>>
    <2>1. CASE process_mkdir(s, p)
      <3>1. PICK i \in Inodes : MadeDir(s, p, i)
        BY <2>1, MkdirFacts
      <3> QED
        BY <3>1, FreeIsMine DEF MadeDir, Stored
    <2>2. CASE process_rmdir(s, p)
      BY <2>2, RmdirFacts DEF RemovedDir
    <2> QED
      BY <2>1, <2>2
  <1>3. TruthIn(dir, inode, p) = {}
    BY DEF TruthIn, process_mkdir, process_rmdir, Kind
  <1>4. TruthIn(dir', inode', p) = {}
    BY <1>2 DEF TruthIn, Named
  <1>5. todo'[s] = Idle /\ handles' = handles
    BY <1>1, <1>2
  <1>6. /\ Kept(s)
        /\ \A q \in Paths : q # p => TruthIn(dir', inode', q) = TruthIn(dir, inode, q)
        /\ \A q \in Paths : Settled(handles'[s], todo'[s], q) <=> Settled(handles[s], todo[s], q)
    BY <1>1, <1>2, <1>5, OneName
  <1>7. ASSUME NEW v, Before(s, v) PROVE After(s, v)
    BY <1>3, <1>4, <1>6, <1>7 DEF Before, After, True
  <1> QED
    BY <1>2, <1>6, <1>7 DEF Tracks

(* rename(2) moves a name of the session onto another. *)
LEMMA MoveUpkeep ==
    ASSUME Types, Orderly, NEW s \in Sessions, NEW old \in Paths, NEW new \in Paths,
           Owner[old] = s, Owner[new] = s, Spare(handles[s], old), Spare(handles[s], new),
           todo[s].step # "unlink", handles' = handles, inode' = inode,
           Renameable(old, new), Moved(old, new), Tells(s, old, new)
    PROVE  Kept(s) /\ Tracks(s)
  <1>1. todo'[s] = Idle /\ mq_send(s, Rename(old, new)) /\ OwnMessage(s, Rename(old, new))
    BY OwnMessages DEF Tells, Doing
  <1>2. Apart(s, todo[s], dir) /\ dir[old] # NoInode
    BY OrderlyFacts DEF Renameable
  <1>3. \/ old = new /\ dir' = dir
        \/ /\ old # new /\ dir[old] # dir[new] /\ dir'[new] = dir[old] /\ dir'[old] = NoInode
           /\ \A q \in Paths : q # old /\ q # new => dir'[q] = dir[q]
    BY <1>2, OwnApart DEF Moved
  <1>4. \A q \in Paths : dir'[q] = dir[q] \/ (Owner[q] = s /\ Spare(handles[s], q))
    BY <1>3
  <1>5. \A q \in Paths : Owner[q] = s => dir'[q] = NoInode \/ Mine(s, dir'[q])
    BY <1>3 DEF Mine
  <1>6. Apart(s, todo'[s], dir')
    <2> SUFFICES ASSUME NEW q \in Paths, NEW x \in Paths, Owner[q] = s, Owner[x] = s,
                        dir'[q] = dir'[x], dir'[q] # NoInode
                 PROVE  q = x
      BY DEF Apart
    <2>1. \A y, z \in Paths : Owner[y] = s /\ Owner[z] = s /\ dir[y] = dir[z] /\ dir[y] # NoInode => y = z
      BY <1>2, OwnApart
    <2> QED
      BY <1>3, <2>1
  <1>7. Task(s, handles'[s], todo'[s], dir', inode')
    BY <1>1, IdleTask
  <1>8. Kept(s)
    BY <1>4, <1>5, <1>6, <1>7, NamesKept
  <1>9. ASSUME NEW v, Before(s, v) PROVE After(s, Believe(v, Rename(old, new)))
    <2>1. IsView(v) /\ \A q \in Paths : Owner[q] = s /\ Settled(handles[s], todo[s], q) => v[q] = TruthIn(dir, inode, q)
      BY <1>9 DEF Before, True
    <2>2. ASSUME NEW q \in Paths, Settled(handles'[s], todo'[s], q) PROVE Settled(handles[s], todo[s], q)
      BY <2>2 DEF Settled
    <2>3. Settled(handles[s], todo[s], old)
      BY DEF Settled, Spare, Writes
    <2> SUFFICES ASSUME NEW q \in Paths, Owner[q] = s, Settled(handles'[s], todo'[s], q)
                 PROVE  Believe(v, Rename(old, new))[q] = TruthIn(dir', inode', q)
      BY DEF After, True
    <2>4. v[q] = TruthIn(dir, inode, q) /\ v[old] = TruthIn(dir, inode, old)
      BY <2>1, <2>2, <2>3
    <2>5. CASE old = new
      <3>1. TruthIn(dir', inode', q) = TruthIn(dir, inode, q)
        BY <1>3, <2>5 DEF TruthIn
      <3> QED
        BY <2>1, <2>4, <2>5, <3>1, BelieveRename
    <2>6. CASE old # new /\ q = new
      <3>1. TruthIn(dir', inode', q) = TruthIn(dir, inode, old)
        BY <1>3, <2>6 DEF TruthIn
      <3> QED
        BY <2>1, <2>4, <2>6, <3>1, BelieveRename
    <2>7. CASE old # new /\ q = old
      <3>1. TruthIn(dir', inode', q) = {}
        BY <1>3, <2>7 DEF TruthIn
      <3> QED
        BY <2>1, <2>7, <3>1, BelieveRename
    <2>8. CASE old # new /\ q # old /\ q # new
      <3>1. TruthIn(dir', inode', q) = TruthIn(dir, inode, q)
        BY <1>3, <2>8 DEF TruthIn
      <3> QED
        BY <2>1, <2>4, <2>8, <3>1, BelieveRename
    <2> QED
      BY <2>5, <2>6, <2>7, <2>8
  <1> QED
    BY <1>1, <1>8, <1>9 DEF Tracks

LEMMA PosixRenameUpkeep ==
    ASSUME Uploads, Types, Orderly, NEW s \in Sessions, NEW old \in Paths, NEW new \in Paths,
           process_posix_rename(s, old, new)
    PROVE  Kept(s) /\ Tracks(s)
  <1>1. PosixRenamed(s, old, new)
    BY PosixRenameFacts
  <1>2. Request(s, "posix_rename", {old, new})
    BY DEF process_posix_rename
  <1>3. Owner[old] = s /\ Owner[new] = s /\ Spare(handles[s], old) /\ Spare(handles[s], new)
    BY <1>2, PoliteFacts
  <1>4. todo[s].step # "unlink"
    BY <1>2, RequestFacts, IdleFacts
  <1>5. handles' = handles /\ inode' = inode /\ Renameable(old, new) /\ Moved(old, new) /\ Tells(s, old, new)
    BY <1>1 DEF PosixRenamed, Tells
  <1> QED
    BY <1>3, <1>4, <1>5, MoveUpkeep

LEMMA RenameTask ==
    ASSUME NEW s, NEW H, NEW d, NEW n, NEW r, NEW step \in {"link", "stat", "rename"},
           NEW old, NEW new, Renaming(r, step, old, new),
           Owner[old] = s, Owner[new] = s, Spare(H, old), Spare(H, new)
    PROVE  Task(s, H, r, d, n)
  BY DEF Renaming, Task

LEMMA RenameUpkeep ==
    ASSUME Uploads, Types, Orderly, NEW s \in Sessions, NEW old \in Paths, NEW new \in Paths,
           process_rename(s, old, new)
    PROVE  Kept(s) /\ Tracks(s)
  <1>1. PICK r \in TodoSet : RenameBegun(s, old, new, r)
    BY RenameFacts
  <1>2. Request(s, "rename", {old, new})
    BY DEF process_rename
  <1>3. Owner[old] = s /\ Owner[new] = s /\ Spare(handles[s], old) /\ Spare(handles[s], new)
    BY <1>2, PoliteFacts
  <1>4. todo[s].step # "unlink"
    BY <1>2, RequestFacts, IdleFacts
  <1>5. UNCHANGED <<dir, inode, mqvars>> /\ handles'[s] = handles[s] /\ todo'[s] = r
    BY <1>1 DEF RenameBegun, Doing
  <1>6. r.step # "unlink"
    BY <1>1 DEF RenameBegun, Renaming
  <1>7. Task(s, handles[s], r, dir, inode)
    BY <1>1, <1>3, RenameTask DEF RenameBegun
  <1> QED
    BY <1>4, <1>5, <1>6, <1>7, OnlyTodo

(* link(): the file has two names, and nothing is said of the new one. *)
LEMMA LinkUpkeep ==
    ASSUME Types, Orderly, NEW s \in Sessions, NEW old \in Paths, NEW new \in Paths,
           Owner[old] = s, Owner[new] = s, Spare(handles[s], old), Spare(handles[s], new),
           todo[s].step = "link", handles' = handles, inode' = inode,
           dir[old] # NoInode, dir[new] = NoInode, Kind(old) = "reg",
           Named(new, dir[old]), Onward(s, old, new, "unlink")
    PROVE  Kept(s) /\ Tracks(s)
  <1>1. PICK r \in TodoSet : Renaming(r, "unlink", old, new) /\ Doing(s, r) /\ UNCHANGED mqvars
    BY DEF Onward
  <1>2. todo'[s] = r /\ r.step = "unlink" /\ r.old = old /\ r.new = new /\ UNCHANGED mqvars
    BY <1>1 DEF Renaming, Doing
  <1>3. old # new /\ dir'[new] = dir[old] /\ \A q \in Paths : q # new => dir'[q] = dir[q]
    BY DEF Named
  <1>4. Task(s, handles'[s], todo'[s], dir', inode')
    BY <1>2, <1>3 DEF Task, Kind, RenameSteps
  <1>5. Apart(s, todo'[s], dir')
    <2> SUFFICES ASSUME NEW q \in Paths, NEW x \in Paths, Owner[q] = s, Owner[x] = s,
                        dir'[q] = dir'[x], dir'[q] # NoInode
                 PROVE  q = x \/ Twins(todo'[s], q, x)
      BY DEF Apart
    <2>1. \A y, z \in Paths : Owner[y] = s /\ Owner[z] = s /\ dir[y] = dir[z] /\ dir[y] # NoInode => y = z
      BY OrderlyFacts, OwnApart
    <2> QED
      BY <1>2, <1>3, <2>1 DEF Twins
  <1>6. \A q \in Paths : Owner[q] = s => dir'[q] = NoInode \/ Mine(s, dir'[q])
    BY <1>3 DEF Mine
  <1>7. Kept(s)
    BY <1>3, <1>4, <1>5, <1>6, NamesKept
  <1>8. ASSUME NEW v, Before(s, v) PROVE After(s, v)
    <2> SUFFICES ASSUME NEW q \in Paths, Owner[q] = s, Settled(handles'[s], todo'[s], q)
                 PROVE  v[q] = TruthIn(dir', inode', q)
      BY DEF After, True
    <2>1. q # new /\ Settled(handles[s], todo[s], q)
      BY <1>2 DEF Settled
    <2>2. TruthIn(dir', inode', q) = TruthIn(dir, inode, q)
      BY <1>3, <2>1, SameTruth
    <2> QED
      BY <1>8, <2>1, <2>2 DEF Before, True
  <1> QED
    BY <1>2, <1>7, <1>8 DEF Tracks

(* unlink(): the file has its new name only, and that is announced. *)
LEMMA UnlinkUpkeep ==
    ASSUME Types, Orderly, NEW s \in Sessions, NEW old \in Paths, NEW new \in Paths,
           Owner[old] = s, Owner[new] = s, Spare(handles[s], old), Spare(handles[s], new),
           todo[s].step = "unlink", todo[s].old = old, todo[s].new = new,
           handles' = handles, inode' = inode,
           Named(old, NoInode), Tells(s, old, new)
    PROVE  Kept(s) /\ Tracks(s)
  <1>1. todo'[s] = Idle /\ mq_send(s, Rename(old, new)) /\ OwnMessage(s, Rename(old, new))
    BY OwnMessages DEF Tells, Doing
  <1>2. Apart(s, todo[s], dir) /\ old # new /\ dir[new] = dir[old] /\ dir[old] # NoInode
    BY OrderlyFacts DEF Task
  <1>3. dir'[old] = NoInode /\ \A q \in Paths : q # old => dir'[q] = dir[q]
    BY DEF Named
  <1>4. Apart(s, todo'[s], dir')
    BY <1>2, <1>3 DEF Apart, Twins
  <1>5. Task(s, handles'[s], todo'[s], dir', inode')
    BY <1>1, IdleTask
  <1>6. \A q \in Paths : Owner[q] = s => dir'[q] = NoInode \/ Mine(s, dir'[q])
    BY <1>3 DEF Mine
  <1>7. Kept(s)
    BY <1>3, <1>4, <1>5, <1>6, NamesKept
  <1>8. ASSUME NEW v, Before(s, v) PROVE After(s, Believe(v, Rename(old, new)))
    <2>1. IsView(v) /\ \A q \in Paths : Owner[q] = s /\ Settled(handles[s], todo[s], q) => v[q] = TruthIn(dir, inode, q)
      BY <1>8 DEF Before, True
    <2>2. ASSUME NEW q \in Paths, q # new, Settled(handles'[s], todo'[s], q) PROVE Settled(handles[s], todo[s], q)
      BY <2>2 DEF Settled
    <2>3. Settled(handles[s], todo[s], old)
      BY <1>2 DEF Settled, Spare, Writes
    <2> SUFFICES ASSUME NEW q \in Paths, Owner[q] = s, Settled(handles'[s], todo'[s], q)
                 PROVE  Believe(v, Rename(old, new))[q] = TruthIn(dir', inode', q)
      BY DEF After, True
    <2>4. v[old] = TruthIn(dir, inode, old)
      BY <2>1, <2>3
    <2>6. CASE q = new
      <3>1. TruthIn(dir', inode', q) = TruthIn(dir, inode, old)
        BY <1>2, <1>3, <2>6 DEF TruthIn
      <3> QED
        BY <1>2, <2>1, <2>4, <2>6, <3>1, BelieveRename
    <2>7. CASE q = old
      <3>1. TruthIn(dir', inode', q) = {}
        BY <1>3, <2>7 DEF TruthIn
      <3> QED
        BY <1>2, <2>1, <2>7, <3>1, BelieveRename
    <2>8. CASE q # old /\ q # new
      <3>1. TruthIn(dir', inode', q) = TruthIn(dir, inode, q)
        BY <1>3, <2>8 DEF TruthIn
      <3>2. v[q] = TruthIn(dir, inode, q)
        BY <2>1, <2>2, <2>8
      <3> QED
        BY <1>2, <2>1, <2>8, <3>1, <3>2, BelieveRename
    <2> QED
      BY <2>6, <2>7, <2>8
  <1> QED
    BY <1>1, <1>7, <1>8 DEF Tracks

LEMMA RenameStepUpkeep ==
    ASSUME Uploads, Types, Orderly, NEW s \in Sessions, NEW old \in Paths, NEW new \in Paths,
           RenameGoesOn(s, old, new)
    PROVE  Kept(s) /\ Tracks(s)
  <1>1. /\ todo[s] \in RenameSet /\ todo[s].old = old /\ todo[s].new = new
        /\ handles' = handles /\ inode' = inode
    BY DEF RenameGoesOn
  <1>2. todo[s].step \in RenameSteps /\ todo[s].step # "undo"
    BY <1>1, OrderlyFacts DEF RenameSet, Task
  <1>3. Owner[old] = s /\ Owner[new] = s /\ Spare(handles[s], old) /\ Spare(handles[s], new)
    BY <1>1, <1>2, OrderlyFacts DEF Task
  <1>4. ASSUME UNCHANGED dir, Quits(s), todo[s].step # "unlink" PROVE Kept(s) /\ Tracks(s)
    <2>1. todo'[s] = Idle /\ UNCHANGED mqvars
      BY <1>4 DEF Quits, Doing
    <2>2. Task(s, handles[s], todo'[s], dir, inode) /\ todo'[s].step # "unlink"
      BY <2>1, IdleTask, IdleFacts
    <2> QED
      BY <1>1, <1>4, <2>1, <2>2, OnlyTodo
  <1>5. ASSUME UNCHANGED dir, NEW step \in {"stat", "rename"}, Onward(s, old, new, step), todo[s].step # "unlink"
        PROVE  Kept(s) /\ Tracks(s)
    <2>1. PICK r \in TodoSet : Renaming(r, step, old, new) /\ Doing(s, r) /\ UNCHANGED mqvars
      BY <1>5 DEF Onward
    <2>2. todo'[s] = r /\ r.step # "unlink"
      BY <2>1 DEF Renaming, Doing
    <2>3. Task(s, handles[s], r, dir, inode)
      BY <1>3, <2>1, RenameTask
    <2> QED
      BY <1>1, <1>5, <2>1, <2>2, <2>3, OnlyTodo
  <1>6. CASE todo[s].step = "link"
    <2>1. LinkStep(s, old, new)
      BY <1>6 DEF RenameGoesOn
    <2> QED
      BY <1>1, <1>3, <1>4, <1>5, <1>6, <2>1, LinkUpkeep DEF LinkStep
  <1>7. CASE todo[s].step = "unlink"
    <2>1. UnlinkStep(s, old, new)
      BY <1>7 DEF RenameGoesOn
    <2>2. Kind(old) = "reg"
      BY <1>1, <1>7, OrderlyFacts DEF Task, Kind
    <2>3. ~Fails("unlink")
      BY DEF Fails, Uploads
    <2>4. Named(old, NoInode) /\ Tells(s, old, new)
      BY <2>1, <2>2, <2>3 DEF UnlinkStep
    <2> QED
      BY <1>1, <1>3, <1>7, <2>4, UnlinkUpkeep
  <1>8. CASE todo[s].step = "stat"
    <2>1. StatStep(s, old, new)
      BY <1>8 DEF RenameGoesOn
    <2> QED
      BY <1>4, <1>5, <1>8, <2>1 DEF StatStep
  <1>9. CASE todo[s].step = "rename"
    <2>1. MoveStep(s, old, new)
      BY <1>9 DEF RenameGoesOn
    <2> QED
      BY <1>1, <1>3, <1>4, <1>9, <2>1, MoveUpkeep DEF MoveStep
  <1> QED
    BY <1>2, <1>6, <1>7, <1>8, <1>9 DEF RenameSteps

(* What a client asks for that uploads. *)
LEMMA HandlerUpkeep ==
    ASSUME Uploads, Types, MqInv, Orderly, NEW s \in Sessions, HandlerStep(s)
    PROVE  Kept(s) /\ Tracks(s)
  <1>1. CASE rename_link(s) \/ rename_unlink(s) \/ rename_undo(s) \/ rename_stat(s) \/ rename_rename(s)
    BY <1>1, RenameStepFacts, RenameStepUpkeep
  <1>2. ASSUME NEW p \in Paths, NEW n, process_setstat(s, p, n) PROVE FALSE
    BY <1>2, RequestFacts DEF process_setstat, Uploads
  <1>3. ASSUME NEW h \in Slots, NEW n, process_fsetstat(s, h, n) PROVE FALSE
    BY <1>3, RequestFacts DEF process_fsetstat, Uploads
  <1>4. ASSUME NEW old, NEW new, process_hardlink(s, old, new) PROVE FALSE
    BY <1>4, RequestFacts DEF process_hardlink, Uploads
  <1>5. CASE ~(rename_link(s) \/ rename_unlink(s) \/ rename_undo(s) \/ rename_stat(s) \/ rename_rename(s))
    BY <1>2, <1>3, <1>4, <1>5, OpenUpkeep, WriteUpkeep, CloseUpkeep, ClosedUpkeep, RemoveUpkeep,
       DirUpkeep, PosixRenameUpkeep, RenameUpkeep DEF HandlerStep
  <1> QED
    BY <1>1, <1>5

-----------------------------------------------------------------------------
(* The messages of clients that upload, when nothing fails. *)
LEMMA FlowFacts ==
    ASSUME MqInv, NEW s \in Sessions, Flow(s)
    PROVE  /\ Len(hist[s]) \in Nat /\ Len(got[s]) \in Nat /\ Len(wire[s]) \in Nat
           /\ hist[s] \in Seq(Msgs) /\ got[s] \in Seq(Nat \ {0}) /\ wire[s] \in Seq(Nat \ {0})
           /\ Len(got[s]) <= Len(hist[s])
           /\ at[s] \in Steps => Len(hist[s]) = Len(got[s]) + Len(wire[s]) + 1
           /\ at[s] \notin Steps => Len(hist[s]) = Len(got[s]) + Len(wire[s])
           /\ \A k \in 1 .. Len(wire[s]) : wire[s][k] = Len(got[s]) + k
  <1>1. hist[s] \in Seq(Msgs) /\ got[s] \in Seq(Nat \ {0}) /\ wire[s] \in Seq(Nat \ {0})
    BY DEF MqInv, SessionInv, SessionType
  <1>2. Len(hist[s]) \in Nat /\ Len(got[s]) \in Nat /\ Len(wire[s]) \in Nat
    BY <1>1
  <1>3. /\ at[s] \in Steps => Len(hist[s]) = Len(got[s]) + Len(wire[s]) + 1
        /\ at[s] \notin Steps => Len(hist[s]) = Len(got[s]) + Len(wire[s])
        /\ \A k \in 1 .. Len(wire[s]) : wire[s][k] = Len(got[s]) + k
    BY <1>2 DEF Flow
  <1>4. Len(got[s]) <= Len(hist[s])
    <2>1. PICK H, G, W : H = Len(hist[s]) /\ G = Len(got[s]) /\ W = Len(wire[s])
      OBVIOUS
    <2>2. H \in Nat /\ G \in Nat /\ W \in Nat /\ (H = G + W + 1 \/ H = G + W)
      BY <1>2, <1>3, <2>1
    <2>3. G <= H
      BY <2>2
    <2> QED
      BY <2>1, <2>3
  <1> QED
    BY <1>1, <1>2, <1>3, <1>4

LEMMA FlowFrame ==
    ASSUME NEW t \in Sessions, Flow(t), Same(t) PROVE Flow(t)'
  BY DEF Same, Flow, Steps

(* A message is added to those that are under way. *)
LEMMA SendFlow ==
    ASSUME MqInv, NEW s \in Sessions, Flow(s), NEW m, mq_send(s, m), m \in Msgs
    PROVE  /\ Flow(s)' /\ \A t \in Sessions : t # s => Same(t)
           /\ hist'[s] = Append(hist[s], m) /\ got' = got
           /\ Len(hist'[s]) = Len(hist[s]) + 1 /\ at'[s] \in Steps
  <1>1. \A t \in Sessions : t # s => Same(t)
    BY DEF MqInv, Domains, Same, mq_send
  <1>2. /\ at[s] = "idle" /\ ready[s] /\ hist'[s] = Append(hist[s], m)
        /\ UNCHANGED <<ready, opened, link, wire, got>>
        /\ opened[s] => at'[s] = "publish"
        /\ ~opened[s] => at'[s] = "open_socket"
    BY SendFacts DEF Flow
  <1>3. opened[s] \in BOOLEAN
    BY DEF MqInv, SessionInv, SessionType
  <1>4. at'[s] \in Steps /\ at[s] \notin Steps /\ at'[s] \in {"publish", "open_socket"}
    BY <1>2, <1>3 DEF Steps
  <1>5. Len(hist'[s]) = Len(hist[s]) + 1
    BY <1>2, FlowFacts
  <1>6. Len(hist'[s]) = Len(got'[s]) + Len(wire'[s]) + 1
    BY <1>2, <1>4, <1>5, FlowFacts
  <1>7. \A k \in 1 .. Len(wire'[s]) : wire'[s][k] = Len(got'[s]) + k
    BY <1>2, FlowFacts
  <1>8. /\ at'[s] # "new" => ready'[s]
        /\ ~opened'[s] /\ at'[s] \in {"new", "idle", "open_socket"} => link'[s] = "closed"
        /\ opened'[s] => link'[s] = "up"
    BY <1>2, <1>3 DEF Flow
  <1>9. Flow(s)'
    BY <1>4, <1>6, <1>7, <1>8 DEF Flow
  <1> QED
    BY <1>1, <1>2, <1>4, <1>5, <1>9

(* Steps of a process that neither add a message nor deliver one. *)
LEMMA QuietFlow ==
    ASSUME Uploads, MqInv, NEW s \in Sessions, Flow(s),
           \/ \E resolved \in BOOLEAN : load_mq_config(s, resolved)
           \/ Connect(s) \/ do_send_message(s) \/ mq_clean(s) \/ mq_clean_return(s)
    PROVE  Flow(s)' /\ hist' = hist /\ got' = got /\ \A t \in Sessions : t # s => Same(t)
  <1>1. ~Unreliable
    BY DEF Uploads
  <1>2. SessionType(s) /\ LinkInv(s)
    BY DEF MqInv, SessionInv
  <1>3. hist' = hist /\ got' = got
    BY DEF load_mq_config, Connect, open_socket, login, open_channel, do_send_message, mq_clean, mq_clean_return
  <1>4. \A t \in Sessions : t # s => Same(t)
    BY DEF MqInv, Domains, Same, load_mq_config, Connect, open_socket, login, open_channel,
           do_send_message, mq_clean, mq_clean_return
  <1>5. ASSUME NEW resolved \in BOOLEAN, load_mq_config(s, resolved) PROVE Flow(s)'
    BY <1>1, <1>2, <1>5 DEF MqInv, Domains, load_mq_config, Flow, Steps
  <1>6. ASSUME at[s] \in Steps <=> at'[s] \in Steps,
               wire'[s] = wire[s], ready'[s] = ready[s], ready[s],
               ~opened'[s] /\ at'[s] \in {"new", "idle", "open_socket"} => link'[s] = "closed",
               opened'[s] => link'[s] = "up"
        PROVE  Flow(s)'
    <2>1. /\ at'[s] \in Steps => Len(hist'[s]) = Len(got'[s]) + Len(wire'[s]) + 1
          /\ at'[s] \notin Steps => Len(hist'[s]) = Len(got'[s]) + Len(wire'[s])
          /\ \A k \in 1 .. Len(wire'[s]) : wire'[s][k] = Len(got'[s]) + k
      BY <1>3, <1>6 DEF Flow
    <2> QED
      BY <1>6, <2>1 DEF Flow
  <1>7. CASE open_socket(s)
    <2>1. /\ at'[s] = "login" /\ (at[s] \in Steps <=> at'[s] \in Steps)
          /\ wire'[s] = wire[s] /\ ready'[s] = ready[s] /\ ready[s]
          /\ opened'[s] = FALSE
      BY <1>1, <1>2, <1>7 DEF MqInv, Domains, open_socket, Flow, Steps, LinkInv, SessionType
    <2> QED
      BY <1>3, <1>4, <1>6, <2>1
  <1>8. CASE login(s)
    <2>1. /\ at'[s] = "open_channel" /\ (at[s] \in Steps <=> at'[s] \in Steps)
          /\ wire'[s] = wire[s] /\ ready'[s] = ready[s] /\ ready[s]
          /\ opened'[s] = FALSE
      BY <1>1, <1>2, <1>8 DEF MqInv, Domains, login, Flow, Steps, LinkInv, SessionType
    <2> QED
      BY <1>3, <1>4, <1>6, <2>1
  <1>9. CASE open_channel(s)
    <2>1. /\ at'[s] = "publish" /\ (at[s] \in Steps <=> at'[s] \in Steps)
          /\ wire'[s] = wire[s] /\ ready'[s] = ready[s] /\ ready[s]
          /\ opened'[s] = TRUE /\ link'[s] = "up"
      BY <1>1, <1>2, <1>9 DEF MqInv, Domains, open_channel, Flow, Steps, LinkInv, SessionType
    <2> QED
      BY <1>3, <1>4, <1>6, <2>1
  <1>10. CASE mq_clean(s)
    <2>1. /\ at'[s] = "clean" /\ (at[s] \in Steps <=> at'[s] \in Steps)
          /\ wire'[s] = wire[s] /\ ready'[s] = ready[s] /\ ready[s]
          /\ (opened'[s] => link'[s] = "up")
      BY <1>1, <1>2, <1>10 DEF MqInv, Domains, mq_clean, Flow, Steps, LinkInv
    <2> QED
      BY <1>3, <1>4, <1>6, <2>1
  <1>11. CASE mq_clean_return(s)
    <2>1. /\ at'[s] = "exited" /\ (at[s] \in Steps <=> at'[s] \in Steps)
          /\ wire'[s] = wire[s] /\ ready'[s] = ready[s] /\ ready[s]
          /\ (opened'[s] => link'[s] = "up")
      BY <1>1, <1>2, <1>11 DEF MqInv, Domains, mq_clean_return, Flow, Steps, LinkInv, SessionType
    <2> QED
      BY <1>3, <1>4, <1>6, <2>1
  <1>12. CASE do_send_message(s)
    <2>1. opened[s] /\ link[s] = "up" /\ at[s] = "publish" /\ at[s] \in Steps
      BY <1>2, <1>12 DEF do_send_message, LinkInv, Flow, Steps
    <2>2. /\ at'[s] = "idle" /\ at'[s] \notin Steps
          /\ wire'[s] = Append(wire[s], Len(hist[s]))
          /\ UNCHANGED <<ready, opened, link, got, hist>>
      BY <1>12, <2>1 DEF MqInv, Domains, do_send_message, Steps
    <2>3. PICK L, G, W : L = Len(hist[s]) /\ G = Len(got[s]) /\ W = wire[s]
      OBVIOUS
    <2>4. /\ L \in Nat /\ G \in Nat /\ Len(W) \in Nat /\ W \in Seq(Nat \ {0}) /\ L = G + Len(W) + 1
          /\ \A k \in 1 .. Len(W) : W[k] = G + k
      BY <2>1, <2>3, FlowFacts
    <2>5. L \in Nat \ {0}
      BY <2>4
    <2>6. PICK V : V = Append(W, L)
      OBVIOUS
    <2>7. /\ Len(V) = Len(W) + 1 /\ \A k \in 1 .. Len(W) : V[k] = W[k]
          /\ V[Len(W) + 1] = L
      BY <2>4, <2>5, <2>6, AppendFacts
    <2>8. L = G + Len(V)
      BY <2>4, <2>7
    <2>9. ASSUME NEW k \in 1 .. Len(V) PROVE V[k] = G + k
      <3>1. CASE k = Len(W) + 1
        BY <2>4, <2>7, <3>1
      <3>2. CASE k # Len(W) + 1
        <4>1. k \in 1 .. Len(W)
          BY <2>4, <2>7, <3>2
        <4> QED
          BY <2>4, <2>7, <4>1
      <3> QED
        BY <3>1, <3>2
    <2>10. /\ Len(hist'[s]) = Len(got'[s]) + Len(wire'[s])
           /\ \A k \in 1 .. Len(wire'[s]) : wire'[s][k] = Len(got'[s]) + k
      BY <2>2, <2>3, <2>6, <2>8, <2>9
    <2>13. /\ at'[s] # "new" => ready'[s]
           /\ ~opened'[s] /\ at'[s] \in {"new", "idle", "open_socket"} => link'[s] = "closed"
           /\ opened'[s] => link'[s] = "up"
      BY <2>1, <2>2 DEF Flow
    <2>11. at'[s] \notin Steps
      BY <2>2
    <2>12. Flow(s)'
      BY <2>10, <2>11, <2>13 DEF Flow
    <2> QED
      BY <1>3, <1>4, <2>12
  <1> QED
    BY <1>3, <1>4, <1>5, <1>7, <1>8, <1>9, <1>10, <1>11, <1>12 DEF Connect

(* The broker takes the oldest message that it has not got. *)
LEMMA ReceiveFlow ==
    ASSUME MqInv, NEW s \in Sessions, Flow(s), Receive(s)
    PROVE  /\ Flow(s)' /\ hist' = hist /\ at' = at /\ \A t \in Sessions : t # s => Same(t)
           /\ Head(wire[s]) = Len(got[s]) + 1
           /\ Len(got'[s]) = Len(got[s]) + 1 /\ Len(got'[s]) <= Len(hist[s])
  <1>1. \A t \in Sessions : t # s => Same(t)
    BY DEF MqInv, Domains, Same, Receive
  <1>2. /\ wire[s] # << >> /\ got'[s] = Append(got[s], Head(wire[s])) /\ wire'[s] = Tail(wire[s])
        /\ UNCHANGED <<at, ready, opened, link, hist>>
    BY DEF MqInv, Domains, Receive
  <1>3. PICK L, G, W : L = Len(hist[s]) /\ G = got[s] /\ W = wire[s]
    OBVIOUS
  <1>4. /\ L \in Nat /\ G \in Seq(Nat \ {0}) /\ Len(G) \in Nat /\ W \in Seq(Nat \ {0}) /\ W # << >>
        /\ at[s] \in Steps => L = Len(G) + Len(W) + 1
        /\ at[s] \notin Steps => L = Len(G) + Len(W)
        /\ \A k \in 1 .. Len(W) : W[k] = Len(G) + k
    BY <1>2, <1>3, FlowFacts
  <1>5. PICK T : T = Tail(W)
    OBVIOUS
  <1>6. /\ Len(W) \in Nat \ {0} /\ Len(T) = Len(W) - 1
        /\ Head(W) = W[1] /\ W[1] \in Nat \ {0}
        /\ \A k \in 1 .. Len(W) - 1 : T[k] = W[k + 1]
    BY <1>4, <1>5, TailFacts
  <1>7. Head(W) = Len(G) + 1
    <2>1. 1 \in 1 .. Len(W)
      BY <1>6
    <2> QED
      BY <1>4, <1>6, <2>1
  <1>8. PICK N : N = Append(G, Head(W))
    OBVIOUS
  <1>9. Len(N) = Len(G) + 1
    BY <1>4, <1>6, <1>8, AppendFacts
  <1>10. Len(N) + Len(T) = Len(G) + Len(W) /\ Len(N) <= L /\ Len(N) \in Nat /\ Len(T) \in Nat
    BY <1>4, <1>6, <1>9
  <1>11. ASSUME NEW k \in 1 .. Len(T) PROVE T[k] = Len(N) + k
    <2>1. k \in 1 .. Len(W) - 1 /\ k + 1 \in 1 .. Len(W)
      BY <1>6
    <2>2. T[k] = Len(G) + (k + 1)
      BY <1>4, <1>6, <2>1
    <2> QED
      BY <1>4, <1>9, <2>2
  <1>12. got'[s] = N /\ wire'[s] = T
    BY <1>2, <1>3, <1>5, <1>8
  <1>13. /\ at'[s] \in Steps => Len(hist'[s]) = Len(N) + Len(T) + 1
         /\ at'[s] \notin Steps => Len(hist'[s]) = Len(N) + Len(T)
    BY <1>2, <1>3, <1>4, <1>10
  <1>14. /\ at'[s] # "new" => ready'[s]
         /\ ~opened'[s] /\ at'[s] \in {"new", "idle", "open_socket"} => link'[s] = "closed"
         /\ opened'[s] => link'[s] = "up"
    BY <1>2 DEF Flow
  <1>15. Flow(s)'
    BY <1>11, <1>12, <1>13, <1>14 DEF Flow
  <1> QED
    BY <1>1, <1>2, <1>3, <1>7, <1>9, <1>10, <1>12, <1>15

(* A message is about paths of its session, and what a consumer makes of   *)
(* it depends on what it believes of these.                                *)
LEMMA BelieveOwn ==
    ASSUME NEW s, NEW m, OwnMessage(s, m), NEW v, IsView(v)
    PROVE  /\ IsView(Believe(v, m))
           /\ \A p \in Paths : Owner[p] # s => Believe(v, m)[p] = v[p]
           /\ \A w : IsView(w) /\ (\A q \in Paths : Owner[q] = s => w[q] = v[q])
                     => \A p \in Paths : Owner[p] = s => Believe(w, m)[p] = Believe(v, m)[p]
  <1>1. CASE m.op = "upload"
    <2>1. m.path \in Paths /\ Owner[m.path] = s
      BY <1>1 DEF OwnMessage, Messages
    <2>2. PICK e : e = {<<m.digest, m.size>>}
      OBVIOUS
    <2>3. \A w : Believe(w, m) = [w EXCEPT ![m.path] = e]
      BY <1>1, <2>2 DEF Believe
    <2>4. ASSUME NEW w, IsView(w)
          PROVE  /\ IsView(Believe(w, m)) /\ Believe(w, m)[m.path] = e
                 /\ \A p \in Paths : p # m.path => Believe(w, m)[p] = w[p]
      BY <2>1, <2>3, <2>4 DEF IsView
    <2> QED
      BY <2>1, <2>4
  <1>2. CASE m.op = "remove"
    <2>1. m.path \in Paths /\ Owner[m.path] = s
      BY <1>2 DEF OwnMessage, Messages
    <2>2. PICK e : e = {}
      OBVIOUS
    <2>3. \A w : Believe(w, m) = [w EXCEPT ![m.path] = e]
      BY <1>2, <2>2 DEF Believe
    <2>4. ASSUME NEW w, IsView(w)
          PROVE  /\ IsView(Believe(w, m)) /\ Believe(w, m)[m.path] = e
                 /\ \A p \in Paths : p # m.path => Believe(w, m)[p] = w[p]
      BY <2>1, <2>3, <2>4 DEF IsView
    <2> QED
      BY <2>1, <2>4
  <1>3. CASE m.op = "rename"
    <2>1. m.path \in Paths /\ Owner[m.path] = s /\ m.old \in Paths /\ Owner[m.old] = s
      BY <1>3 DEF OwnMessage, Messages
    <2>2. CASE m.old = m.path
      <3>1. \A w : Believe(w, m) = w
        BY <1>3, <2>2 DEF Believe
      <3> QED
        BY <3>1
    <2>3. CASE m.old # m.path
      <3>1. PICK e : e = {}
        OBVIOUS
      <3>2. \A w : Believe(w, m) = [w EXCEPT ![m.path] = w[m.old], ![m.old] = e]
        BY <1>3, <2>3, <3>1 DEF Believe
      <3>3. ASSUME NEW w, IsView(w)
            PROVE  /\ IsView(Believe(w, m))
                   /\ Believe(w, m)[m.path] = w[m.old] /\ Believe(w, m)[m.old] = e
                   /\ \A p \in Paths : p # m.path /\ p # m.old => Believe(w, m)[p] = w[p]
        BY <2>1, <2>3, <3>2, <3>3 DEF IsView
      <3> QED
        BY <2>1, <2>3, <3>3
    <2> QED
      BY <2>2, <2>3
  <1>4. m.op \in {"upload", "remove", "rename"}
    BY DEF OwnMessage, Messages
  <1> QED
    BY <1>1, <1>2, <1>3, <1>4

-----------------------------------------------------------------------------
(* Another session's step. *)
LEMMA FrameTruth ==
    ASSUME NEW t, Undisturbed(t), handles'[t] = handles[t], todo'[t] = todo[t], NEW v
    PROVE  Before(t, v) => After(t, v)
  <1> SUFFICES ASSUME Before(t, v), NEW q \in Paths, Owner[q] = t, Settled(handles[t], todo[t], q)
               PROVE  v[q] = TruthIn(dir', inode', q)
    BY DEF After, True
  <1>1. v[q] = TruthIn(dir, inode, q)
    BY DEF Before, True
  <1>2. TruthIn(dir', inode', q) = TruthIn(dir, inode, q)
    BY SameTruth DEF Undisturbed
  <1> QED
    BY <1>1, <1>2

LEMMA FrameUpkeep ==
    ASSUME Types, Orderly, NEW t \in Sessions, Undisturbed(t), Stays(t), at'[t] = at[t]
    PROVE  Upkeep(t)'
  <1>1. handles'[t] = handles[t] /\ todo'[t] = todo[t]
    BY DEF Stays
  <1>2. PICK H, r : H = handles[t] /\ r = todo[t]
    OBVIOUS
  <1>3. /\ Table(t, H, dir, inode) /\ Task(t, H, r, dir, inode) /\ Apart(t, r, dir)
        /\ NoInode \notin Inodes
        /\ \A h \in Slots : H[h].use = "FILE" =>
                 /\ H[h].name \in Paths /\ H[h].ino \in Inodes
                 /\ dir[H[h].name] = H[h].ino /\ Owner[H[h].name] = t
    BY <1>2, OrderlyFacts
  <1>4. ASSUME NEW h \in Slots, H[h].use = "FILE"
        PROVE  dir'[H[h].name] = H[h].ino /\ inode'[H[h].ino] = inode[H[h].ino]
    BY <1>3, <1>4 DEF Undisturbed
  <1>5. Table(t, H, dir', inode')
    <2>1. ASSUME NEW h \in Slots, H[h].use = "FILE" PROVE Good(t, H[h], dir', inode')
      <3>1. Good(t, H[h], dir, inode)
        BY <1>3, <2>1 DEF Table
      <3> QED
        BY <1>4, <2>1, <3>1 DEF Good
    <2> QED
      BY <1>3, <2>1 DEF Table
  <1>6. Apart(t, r, dir')
    BY <1>3 DEF Apart, Undisturbed
  <1>7. Task(t, H, r, dir', inode')
    <2>1. r \in TodoSet /\ (r.step = "close" => H[r.h].use = "FILE")
      BY <1>2 DEF Types, TodoTypes, IsOpen
    <2>2. r.step = "close" => r.h \in Slots
      BY <2>1, TodoKinds DEF CloseSet
    <2>3. r.step = "close" => inode'[H[r.h].ino] = inode[H[r.h].ino]
      BY <1>4, <2>1, <2>2
    <2>4. r.step = "unlink" => r.step \in RenameSteps /\ r.old \in Paths /\ r.new \in Paths
      BY <2>1, TodoKinds DEF RenameSteps, RenameSet
    <2>5. r.step = "unlink" => /\ dir'[r.old] = dir[r.old] /\ dir'[r.new] = dir[r.new]
                               /\ inode'[dir[r.old]] = inode[dir[r.old]]
      BY <1>3, <2>4 DEF Task, Undisturbed
    <2> QED
      BY <1>3, <2>3, <2>5 DEF Task
  <1>8. at'[t] = "clean" => \A h \in Slots : H[h].use # "FILE"
    BY <1>2 DEF Orderly, Upkeep, IsOpen
  <1> QED
    BY <1>1, <1>2, <1>5, <1>6, <1>7, <1>8 DEF Upkeep, IsOpen

-----------------------------------------------------------------------------
(* The chain from what the consumer believes to the truth. *)
LEMMA ChainFacts ==
    ASSUME MqInv, Orderly, NEW s \in Sessions
    PROVE  \E vs : /\ Leads(s, hist[s], Len(got[s]), view, vs)
                   /\ Before(s, vs[Len(hist[s])])
  <1>1. Faithful(s)
    BY DEF Orderly
  <1>2. PICK vs : Leads(s, hist[s], Len(got[s]), view, vs)
                  /\ True(s, vs[Len(hist[s])], handles[s], todo[s], dir, inode)
    BY <1>1 DEF Faithful, Chain
  <1>3. Len(hist[s]) \in Nat /\ Len(got[s]) \in Nat /\ Len(got[s]) <= Len(hist[s])
    BY <1>1, FlowFacts DEF Faithful
  <1>4. Len(hist[s]) \in Len(got[s]) .. Len(hist[s])
    BY <1>3
  <1>5. IsView(vs[Len(hist[s])])
    BY <1>2, <1>4 DEF Leads
  <1> QED
    BY <1>2, <1>5 DEF Before

(* No message of the session is added or delivered. *)
LEMMA ChainSilent ==
    ASSUME MqInv, Orderly, NEW s \in Sessions, hist'[s] = hist[s], got'[s] = got[s],
           \A q \in Paths : Owner[q] = s => view'[q] = view[q],
           \A v : Before(s, v) => After(s, v), Flow(s)'
    PROVE  Faithful(s)'
  <1>1. PICK vs : Leads(s, hist[s], Len(got[s]), view, vs) /\ Before(s, vs[Len(hist[s])])
    BY ChainFacts
  <1>2. Leads(s, hist'[s], Len(got'[s]), view', vs)
    BY <1>1 DEF Leads
  <1>3. True(s, vs[Len(hist'[s])], handles'[s], todo'[s], dir', inode')
    BY <1>1 DEF After
  <1>4. Chain(s, hist'[s], Len(got'[s]), view', handles'[s], todo'[s], dir', inode')
    BY <1>2, <1>3 DEF Chain
  <1>5. \A k \in 1 .. Len(hist'[s]) : OwnMessage(s, hist'[s][k])
    BY DEF Orderly, Faithful
  <1> QED
    BY <1>4, <1>5 DEF Faithful

(* One more message makes up for what the handler has done. *)
LEMMA ChainSend ==
    ASSUME MqInv, Orderly, NEW s \in Sessions, NEW m, OwnMessage(s, m), m \in Msgs,
           hist'[s] = Append(hist[s], m), got'[s] = got[s], view' = view,
           \A v : Before(s, v) => After(s, Believe(v, m)), Flow(s)'
    PROVE  Faithful(s)'
  <1>1. PICK vs : Leads(s, hist[s], Len(got[s]), view, vs) /\ Before(s, vs[Len(hist[s])])
    BY ChainFacts
  <1>2. PICK L, g, hs : L = Len(hist[s]) /\ g = Len(got[s]) /\ hs = hist[s]
    OBVIOUS
  <1>3. L \in Nat /\ g \in Nat /\ g <= L /\ hs \in Seq(Msgs) /\ Len(hs) = L
    BY <1>2, FlowFacts DEF Orderly, Faithful
  <1>4. PICK new : new = Append(hs, m)
    OBVIOUS
  <1>5. /\ Len(new) = L + 1 /\ new[L + 1] = m
        /\ \A k \in 1 .. L : new[k] = hs[k]
    BY <1>3, <1>4
  <1>6. PICK b : b = Believe(vs[L], m)
    OBVIOUS
  <1>7. IsView(b) /\ After(s, b)
    <2>1. Before(s, vs[L])
      BY <1>1, <1>2
    <2>2. IsView(vs[L])
      BY <2>1 DEF Before
    <2>3. IsView(Believe(vs[L], m))
      BY <2>2, BelieveOwn
    <2> QED
      BY <1>6, <2>1, <2>3
  <1>8. PICK ws : ws = [k \in Nat |-> IF k = L + 1 THEN b ELSE vs[k]]
    OBVIOUS
  <1>9. ws[L + 1] = b /\ \A k \in Nat : k # L + 1 => ws[k] = vs[k]
    BY <1>3, <1>8
  <1>10. Leads(s, new, g, view, ws)
    <2>0. /\ \A k \in g .. L : IsView(vs[k])
          /\ \A k \in g + 1 .. L : vs[k] = Believe(vs[k - 1], hs[k])
          /\ \A p \in Paths : Owner[p] = s => vs[g][p] = view[p]
      BY <1>1, <1>2 DEF Leads
    <2>1. ASSUME NEW k \in g .. L + 1 PROVE IsView(ws[k])
      <3>1. CASE k = L + 1
        BY <1>7, <1>9, <3>1
      <3>2. CASE k # L + 1
        <4>1. k \in g .. L /\ k \in Nat
          BY <1>3, <3>2
        <4> QED
          BY <1>9, <2>0, <3>2, <4>1
      <3> QED
        BY <3>1, <3>2
    <2>2. ASSUME NEW k \in g + 1 .. L + 1 PROVE ws[k] = Believe(ws[k - 1], new[k])
      <3>1. CASE k = L + 1
        <4>1. k - 1 = L /\ L # L + 1
          BY <1>3, <3>1
        <4> QED
          BY <1>3, <1>5, <1>6, <1>9, <3>1, <4>1
      <3>2. CASE k # L + 1
        <4>1. k \in g + 1 .. L /\ k \in 1 .. L /\ k \in Nat /\ k - 1 \in Nat /\ k - 1 # L + 1
          BY <1>3, <3>2
        <4> QED
          BY <1>5, <1>9, <2>0, <3>2, <4>1
      <3> QED
        BY <3>1, <3>2
    <2>3. ws[g] = vs[g]
      <3>1. g # L + 1
        BY <1>3
      <3> QED
        BY <1>3, <1>9, <3>1
    <2> QED
      BY <1>5, <2>0, <2>1, <2>2, <2>3 DEF Leads
  <1>11. hist'[s] = new /\ Len(got'[s]) = g
    BY <1>2, <1>4
  <1>12. True(s, ws[Len(new)], handles'[s], todo'[s], dir', inode')
    BY <1>5, <1>7, <1>9 DEF After
  <1>13. Chain(s, hist'[s], Len(got'[s]), view', handles'[s], todo'[s], dir', inode')
    BY <1>10, <1>11, <1>12 DEF Chain
  <1>14. \A k \in 1 .. Len(new) : OwnMessage(s, new[k])
    <2>1. \A k \in 1 .. L : OwnMessage(s, hs[k])
      BY <1>2 DEF Orderly, Faithful
    <2> QED
      BY <1>3, <1>5, <2>1
  <1> QED
    BY <1>11, <1>13, <1>14 DEF Faithful

(* The consumer reads the next message of session s. *)
LEMMA ChainConsume ==
    ASSUME Types, MqInv, Orderly, NEW s \in Sessions, Consume(s)
    PROVE  /\ \A t \in Sessions : Faithful(t)'
           /\ IsView(view')
  <1>1. Flow(s) /\ \A k \in 1 .. Len(hist[s]) : OwnMessage(s, hist[s][k])
    BY DEF Orderly, Faithful
  <1>2. /\ Flow(s)' /\ hist' = hist /\ \A t \in Sessions : t # s => Same(t)
        /\ Head(wire[s]) = Len(got[s]) + 1
        /\ Len(got'[s]) = Len(got[s]) + 1 /\ Len(got'[s]) <= Len(hist[s])
    BY <1>1, ReceiveFlow DEF Consume
  <1>3. PICK L, g, hs, m : L = Len(hist[s]) /\ g = Len(got[s]) /\ hs = hist[s] /\ m = hs[g + 1]
    OBVIOUS
  <1>4. L \in Nat /\ g \in Nat /\ g + 1 <= L /\ Len(hs) = L
    BY <1>1, <1>2, <1>3, FlowFacts
  <1>5. OwnMessage(s, m)
    <2>1. g + 1 \in 1 .. L
      BY <1>4
    <2> QED
      BY <1>1, <1>3, <2>1
  <1>6. view' = Believe(view, m) /\ UNCHANGED <<dir, inode, handles, todo>>
    BY <1>2, <1>3 DEF Consume, fsvars
  <1>7. IsView(view)
    BY DEF Orderly
  <1>8. IsView(view') /\ \A p \in Paths : Owner[p] # s => view'[p] = view[p]
    BY <1>5, <1>6, <1>7, BelieveOwn
  <1>9. ASSUME NEW t \in Sessions, t # s PROVE Faithful(t)'
    <2>1. hist'[t] = hist[t] /\ got'[t] = got[t] /\ Flow(t)'
      <3>1. Same(t) /\ Flow(t)
        BY <1>2, <1>9 DEF Orderly, Faithful
      <3> QED
        BY <3>1, FlowFrame DEF Same
    <2>2. ASSUME NEW v, Before(t, v) PROVE After(t, v)
      BY <1>6, <2>2 DEF Before, After
    <2>3. \A q \in Paths : Owner[q] = t => view'[q] = view[q]
      BY <1>8, <1>9
    <2> QED
      BY <2>1, <2>2, <2>3, ChainSilent
  <1>10. Faithful(s)'
    <2>1. PICK vs : Leads(s, hist[s], Len(got[s]), view, vs) /\ Before(s, vs[Len(hist[s])])
      BY ChainFacts
    <2>2. /\ \A k \in g .. L : IsView(vs[k])
          /\ \A k \in g + 1 .. L : vs[k] = Believe(vs[k - 1], hs[k])
          /\ \A p \in Paths : Owner[p] = s => vs[g][p] = view[p]
      BY <1>3, <2>1 DEF Leads
    <2>3. IsView(vs[g]) /\ vs[g + 1] = Believe(vs[g], m)
      <3>1. g \in g .. L /\ g + 1 \in g + 1 .. L /\ (g + 1) - 1 = g
        BY <1>4
      <3> QED
        BY <1>3, <2>2, <3>1
    <2>4. \A p \in Paths : Owner[p] = s => vs[g + 1][p] = view'[p]
      BY <1>5, <1>6, <1>7, <2>2, <2>3, BelieveOwn
    <2>5. /\ \A k \in g + 1 .. L : IsView(vs[k])
          /\ \A k \in (g + 1) + 1 .. L : vs[k] = Believe(vs[k - 1], hs[k])
      <3>1. \A k \in g + 1 .. L : k \in g .. L
        BY <1>4
      <3>2. \A k \in (g + 1) + 1 .. L : k \in g + 1 .. L
        BY <1>4
      <3> QED
        BY <2>2, <3>1, <3>2
    <2>6. Leads(s, hs, g + 1, view', vs)
      BY <1>4, <2>4, <2>5 DEF Leads
    <2>7. True(s, vs[Len(hs)], handles'[s], todo'[s], dir', inode')
      BY <1>3, <1>6, <2>1 DEF Before
    <2>8. Chain(s, hist'[s], Len(got'[s]), view', handles'[s], todo'[s], dir', inode')
      <3>1. hist'[s] = hs /\ Len(got'[s]) = g + 1
        BY <1>2, <1>3
      <3> QED
        BY <2>6, <2>7, <3>1 DEF Chain
    <2> QED
      BY <1>1, <1>2, <2>8 DEF Faithful
  <1> QED
    BY <1>8, <1>9, <1>10

-----------------------------------------------------------------------------
(* Orderly is inductive. *)
LEMMA HandlerPlace ==
    ASSUME NEW s, HandlerStep(s) PROVE at[s] = "idle" /\ view' = view
  <1>1. ASSUME NEW p, NEW m, process_open(s, p, m) PROVE at[s] = "idle" /\ view' = view
    BY <1>1, RequestFacts DEF process_open
  <1>2. ASSUME NEW h, NEW off, NEW b, process_write(s, h, off, b) PROVE at[s] = "idle" /\ view' = view
    BY <1>2, RequestFacts DEF process_write
  <1>3. ASSUME NEW h, process_close(s, h) PROVE at[s] = "idle" /\ view' = view
    BY <1>3, RequestFacts DEF process_close
  <1>4. CASE handle_close(s) \/ rename_link(s) \/ rename_unlink(s) \/ rename_undo(s) \/ rename_stat(s)
             \/ rename_rename(s)
    BY <1>4 DEF handle_close, rename_link, rename_unlink, rename_undo, rename_stat, rename_rename, Continue
  <1>5. ASSUME NEW p, process_remove(s, p) \/ process_mkdir(s, p) \/ process_rmdir(s, p)
        PROVE  at[s] = "idle" /\ view' = view
    BY <1>5, RequestFacts DEF process_remove, process_mkdir, process_rmdir
  <1>6. ASSUME NEW p, NEW n, process_setstat(s, p, n) \/ process_fsetstat(s, p, n)
        PROVE  at[s] = "idle" /\ view' = view
    BY <1>6, RequestFacts DEF process_setstat, process_fsetstat
  <1>7. ASSUME NEW old, NEW new, \/ process_hardlink(s, old, new) \/ process_posix_rename(s, old, new)
                                 \/ process_rename(s, old, new)
        PROVE  at[s] = "idle" /\ view' = view
    BY <1>7, RequestFacts DEF process_hardlink, process_posix_rename, process_rename
  <1> QED
    BY <1>1, <1>2, <1>3, <1>4, <1>5, <1>6, <1>7, Zenon DEF HandlerStep

LEMMA HandlerOrderly ==
    ASSUME Uploads, Messages \subseteq Msgs, Types, MqInv, Orderly, NEW s \in Sessions, HandlerStep(s)
    PROVE  Orderly'
  <1>1. Kept(s) /\ Tracks(s)
    BY HandlerUpkeep
  <1>2. at[s] = "idle" /\ view' = view /\ IsView(view)
    BY HandlerPlace DEF Orderly
  <1>3. Flow(s)
    BY DEF Orderly, Faithful
  <1>4. /\ \A t \in Sessions : t # s => Same(t)
        /\ at'[s] # "clean" /\ Faithful(s)'
    <2>1. CASE UNCHANGED mqvars /\ \A v : Before(s, v) => After(s, v)
      <3>1. \A t \in Sessions : Same(t)
        BY <2>1 DEF mqvars, Same
      <3>2. Flow(s)' /\ hist'[s] = hist[s] /\ got'[s] = got[s] /\ at'[s] = at[s]
        BY <1>3, <3>1, FlowFrame DEF Same
      <3>3. Faithful(s)'
        BY <1>2, <2>1, <3>2, ChainSilent
      <3> QED
        BY <1>2, <3>1, <3>2, <3>3
    <2>2. ASSUME NEW m, OwnMessage(s, m), mq_send(s, m), \A v : Before(s, v) => After(s, Believe(v, m))
          PROVE  (\A t \in Sessions : t # s => Same(t)) /\ at'[s] # "clean" /\ Faithful(s)'
      <3>1. m \in Msgs
        BY <2>2 DEF OwnMessage
      <3>2. /\ Flow(s)' /\ \A t \in Sessions : t # s => Same(t)
            /\ hist'[s] = Append(hist[s], m) /\ got' = got /\ at'[s] \in Steps
        BY <1>3, <2>2, <3>1, SendFlow
      <3>3. Faithful(s)'
        BY <1>2, <2>2, <3>1, <3>2, ChainSend
      <3> QED
        BY <3>2, <3>3 DEF Steps
    <2> QED
      BY <1>1, <2>1, <2>2 DEF Tracks
  <1>5. Upkeep(s)'
    BY <1>1, <1>4 DEF Kept, Upkeep
  <1>6. ASSUME NEW t \in Sessions, t # s PROVE Upkeep(t)' /\ Faithful(t)'
    <2>1. Stays(t) /\ Undisturbed(t) /\ Same(t)
      BY <1>1, <1>4, <1>6, HandlerStays DEF Kept
    <2>2. Upkeep(t)'
      BY <2>1, FrameUpkeep DEF Same
    <2>3. Flow(t)' /\ hist'[t] = hist[t] /\ got'[t] = got[t]
      BY <2>1, FlowFrame DEF Orderly, Faithful, Same
    <2>4. \A v : Before(t, v) => After(t, v)
      BY <2>1, FrameTruth DEF Stays
    <2>5. Faithful(t)'
      BY <1>2, <2>3, <2>4, ChainSilent
    <2> QED
      BY <2>2, <2>5
  <1>7. Separate(dir)' /\ IsView(view)'
    BY <1>1, <1>2 DEF Kept
  <1> QED
    BY <1>4, <1>5, <1>6, <1>7 DEF Orderly

(* A process that ends has nothing open. *)
LEMMA EndUpkeep ==
    ASSUME Types, MqInv, Orderly, NEW s \in Sessions, Exited(s)
    PROVE  Upkeep(s)' /\ \A v : Before(s, v) => After(s, v)
  <1>1. Ended(s) /\ at[s] = "clean"
    BY EndFacts DEF Exited, mq_clean_return
  <1>2. todo[s] = Idle /\ \A h \in Slots : handles[s][h].use # "FILE"
    BY <1>1 DEF Types, TodoTypes, Orderly, Upkeep, IsOpen
  <1>3. /\ dir' = dir /\ inode' = inode /\ todo'[s] = Idle /\ at'[s] = "exited"
        /\ \A h \in Slots : handles'[s][h].use # "FILE"
    BY <1>1 DEF Ended, Unused
  <1>4. Table(s, handles'[s], dir', inode')
    BY <1>3 DEF Table
  <1>5. Task(s, handles'[s], todo'[s], dir', inode')
    BY <1>3, IdleTask
  <1>6. Apart(s, todo'[s], dir')
    BY <1>2, <1>3, OrderlyFacts
  <1>7. Upkeep(s)'
    BY <1>3, <1>4, <1>5, <1>6 DEF Upkeep
  <1>8. ASSUME NEW v, Before(s, v) PROVE After(s, v)
    <2> SUFFICES ASSUME NEW q \in Paths, Owner[q] = s, Settled(handles'[s], todo'[s], q)
                 PROVE  v[q] = TruthIn(dir', inode', q)
      BY DEF After, True
    <2>1. Settled(handles[s], todo[s], q)
      BY <1>2, IdleFacts DEF Settled, Writes
    <2> QED
      BY <1>3, <1>8, <2>1 DEF Before, True
  <1> QED
    BY <1>7, <1>8

LEMMA ProcessOrderly ==
    ASSUME Uploads, Types, MqInv, Orderly, NEW s \in Sessions, ProcessStep(s)
    PROVE  Orderly'
  <1>1. ~Unreliable /\ Disciplined
    BY DEF Uploads
  <1>2. dir' = dir /\ inode' = inode
    BY ProcessStays
  <1>3. \A t \in Sessions : Undisturbed(t)
    BY <1>2 DEF Undisturbed
  <1>4. Separate(dir)' /\ Flow(s)
    BY <1>2 DEF Orderly, Faithful, Separate
  <1>5. ASSUME NEW t \in Sessions, t # s, Same(t) PROVE Upkeep(t)'
    <2>1. Stays(t) /\ at'[t] = at[t]
      BY <1>5, ProcessStays DEF Same
    <2> QED
      BY <1>3, <2>1, FrameUpkeep
  <1>6. CASE Consume(s)
    <2>1. IsView(view)' /\ \A t \in Sessions : Faithful(t)'
      BY <1>6, ChainConsume
    <2>2. at' = at /\ handles' = handles /\ todo' = todo /\ reqs' = reqs
      BY <1>6 DEF Consume, Receive
    <2>3. \A t \in Sessions : Upkeep(t)'
      BY <1>3, <2>2, FrameUpkeep DEF Stays
    <2> QED
      BY <1>4, <2>1, <2>3 DEF Orderly
  <1>7. CASE (\E resolved \in BOOLEAN : Start(s, resolved)) \/ Publish(s) \/ Exit(s) \/ Exited(s)
    <2>1. /\ Flow(s)' /\ hist' = hist /\ got' = got /\ \A t \in Sessions : t # s => Same(t)
      BY <1>4, <1>7, QuietFlow DEF Start, Publish, Exit, Exited
    <2>2. view' = view
      BY <1>7 DEF Start, Publish, Exit, Exited
    <2>3. Upkeep(s)' /\ \A v : Before(s, v) => After(s, v)
      <3>1. CASE Exited(s)
        BY <3>1, EndUpkeep
      <3>2. CASE ~Exited(s)
        <4>1. handles' = handles /\ todo' = todo
          BY <1>7, <3>2 DEF Start, Publish, Exit
        <4>2. at'[s] = "clean" => \A h \in Slots : handles[s][h].use # "FILE"
          <5>1. CASE Exit(s)
            BY <1>1, <5>1 DEF Exit, IsOpen
          <5>2. CASE ~Exit(s)
            <6>1. at'[s] # "clean"
              BY <1>7, <3>2, <5>2
                 DEF Start, load_mq_config, Publish, Connect, open_socket, login, open_channel,
                     do_send_message, MqInv, Domains
            <6> QED
              BY <6>1
          <5> QED
            BY <5>1, <5>2
        <4>3. /\ Table(s, handles[s], dir, inode) /\ Task(s, handles[s], todo[s], dir, inode)
              /\ Apart(s, todo[s], dir)
          BY OrderlyFacts
        <4>4. Upkeep(s)'
          BY <1>2, <4>1, <4>2, <4>3 DEF Upkeep, IsOpen
        <4>5. \A v : Before(s, v) => After(s, v)
          BY <1>2, <4>1 DEF Before, After
        <4> QED
          BY <4>4, <4>5
      <3> QED
        BY <3>1, <3>2
    <2>4. Faithful(s)'
      BY <2>1, <2>2, <2>3, ChainSilent
    <2>5. ASSUME NEW t \in Sessions, t # s PROVE Upkeep(t)' /\ Faithful(t)'
      <3>1. Same(t) /\ Stays(t) /\ Flow(t)
        BY <2>1, <2>5, ProcessStays DEF Orderly, Faithful
      <3>2. Flow(t)' /\ hist'[t] = hist[t] /\ got'[t] = got[t]
        BY <3>1, FlowFrame DEF Same
      <3>3. \A v : Before(t, v) => After(t, v)
        BY <1>3, <3>1, FrameTruth DEF Stays
      <3>4. Faithful(t)'
        BY <2>2, <3>2, <3>3, ChainSilent
      <3> QED
        BY <1>5, <2>5, <3>1, <3>4
    <2>6. IsView(view)'
      BY <2>2 DEF Orderly
    <2> QED
      BY <1>4, <2>3, <2>4, <2>5, <2>6 DEF Orderly
  <1>8. ~Die(s) /\ ~LinkBreaks(s)
    BY <1>1 DEF Die, die, LinkBreaks, Break
  <1> QED
    BY <1>6, <1>7, <1>8 DEF ProcessStep

LEMMA InitOrderly ==
    ASSUME Init PROVE Orderly
  <1>1. /\ InitInode \in [InitFiles -> Inodes] /\ InitFiles \subseteq Paths
        /\ \A p, q \in InitFiles : InitInode[p] = InitInode[q] => p = q
        /\ NoInode \notin Inodes
    BY InboxAssumption DEF InitInode, NoInode
  <1>2. ASSUME NEW p \in Paths
        PROVE  /\ p \in InitFiles => dir[p] = InitInode[p] /\ dir[p] \in Inodes /\ dir[p] # NoInode
               /\ p \notin InitFiles => dir[p] = NoInode
    BY <1>1 DEF Init
  <1>3. \A p, q \in Paths : dir[p] = dir[q] /\ dir[p] # NoInode => p = q
    BY <1>1, <1>2
  <1>4. Separate(dir)
    BY <1>3 DEF Separate
  <1>5. IsView(view)
    BY DEF Init, IsView
  <1>6. \A p \in Paths : view[p] = TruthIn(dir, inode, p)
    <2> SUFFICES ASSUME NEW p \in Paths PROVE view[p] = TruthIn(dir, inode, p)
      OBVIOUS
    <2>1. CASE p \in InitFiles
      <3>1. inode[dir[p]] = EmptyFile /\ dir[p] # NoInode
        BY <1>2, <2>1 DEF Init
      <3>2. TruthIn(dir, inode, p) = {<< << >>, Len(<< >>) >>}
        BY <3>1, EmptyFacts DEF TruthIn
      <3>3. view[p] = {<< << >>, 0 >>}
        BY <2>1 DEF Init
      <3> QED
        BY <3>2, <3>3
    <2>2. CASE p \notin InitFiles
      BY <1>2, <2>2 DEF Init, TruthIn
    <2> QED
      BY <2>1, <2>2
  <1>7. ASSUME NEW s \in Sessions PROVE Upkeep(s) /\ Faithful(s)
    <2>1. todo[s] = Idle /\ at[s] = "new" /\ \A h \in Slots : handles[s][h].use # "FILE"
      BY EmptyTable DEF Init, MqInit
    <2>2. Task(s, handles[s], todo[s], dir, inode)
      BY <2>1, IdleTask
    <2>3. Upkeep(s)
      BY <1>3, <2>1, <2>2 DEF Upkeep, Table, Apart, IsOpen
    <2>4. /\ hist[s] = << >> /\ got[s] = << >> /\ wire[s] = << >>
          /\ opened[s] = FALSE /\ link[s] = "closed"
      BY DEF Init, MqInit
    <2>5. Len(hist[s]) = 0 /\ Len(got[s]) = 0 /\ Len(wire[s]) = 0
      BY <2>4
    <2>6. Flow(s)
      BY <2>1, <2>4, <2>5 DEF Flow, Steps
    <2>7. PICK vs : vs = [k \in Nat |-> view]
      OBVIOUS
    <2>8. \A k \in 0 .. 0 : IsView(vs[k])
      BY <1>5, <2>7
    <2>9. vs[0] = view
      BY <2>7
    <2>10. Leads(s, hist[s], Len(got[s]), view, vs)
      BY <2>5, <2>8, <2>9 DEF Leads
    <2>11. True(s, vs[Len(hist[s])], handles[s], todo[s], dir, inode)
      BY <1>6, <2>5, <2>9 DEF True
    <2>12. Chain(s, hist[s], Len(got[s]), view, handles[s], todo[s], dir, inode)
      BY <2>10, <2>11 DEF Chain
    <2>13. Faithful(s)
      BY <2>5, <2>6, <2>12 DEF Faithful
    <2> QED
      BY <2>3, <2>13
  <1> QED
    BY <1>4, <1>5, <1>7 DEF Orderly

LEMMA NextOrderly ==
    ASSUME Uploads, Messages \subseteq Msgs, Types, MqInv, Orderly, [Next]_vars PROVE Orderly'
  <1>1. CASE Next
    BY <1>1, Cases, HandlerOrderly, ProcessOrderly
  <1>2. CASE UNCHANGED vars
    <2>1. ASSUME NEW t \in Sessions PROVE Upkeep(t)' /\ Faithful(t)'
      <3>1. Stays(t) /\ Undisturbed(t) /\ Same(t) /\ view' = view
        BY <1>2 DEF vars, mqvars, Stays, Undisturbed, Same
      <3>2. Upkeep(t)'
        BY <3>1, FrameUpkeep DEF Same
      <3>3. Flow(t)' /\ hist'[t] = hist[t] /\ got'[t] = got[t]
        BY <3>1, FlowFrame DEF Orderly, Faithful, Same
      <3>4. \A v : Before(t, v) => After(t, v)
        BY <3>1, FrameTruth DEF Stays
      <3>5. Faithful(t)'
        BY <3>1, <3>3, <3>4, ChainSilent
      <3> QED
        BY <3>2, <3>5
    <2>2. Separate(dir)' /\ IsView(view)'
      BY <1>2 DEF vars, Orderly, Separate
    <2> QED
      BY <2>1, <2>2 DEF Orderly
  <1> QED
    BY <1>1, <1>2

LEMMA Kempt ==
    ASSUME Uploads, Messages \subseteq Msgs PROVE Spec => [](Types /\ MqInv /\ Orderly)
  <1>1. Init => Types /\ MqInv /\ Orderly
    BY InitTypes, InitInv, InitOrderly DEF Init
  <1>2. Types /\ MqInv /\ Orderly /\ [Next]_vars => (Types /\ MqInv /\ Orderly)'
    BY NextTypes, NextSends, StepInv, NextOrderly
  <1> QED
    BY <1>1, <1>2, PTL DEF Spec

LEMMA PrefixEqual ==
    ASSUME NEW md \in Seq(Nat), NEW d \in Seq(Nat), Begins(md, d)
    PROVE  md = SubSeq(d, 1, Len(md))
  <1>1. PICK n : n = Len(md)
    OBVIOUS
  <1>2. n \in Nat /\ n <= Len(d) /\ Len(d) \in Nat
    BY <1>1 DEF Begins
  <1>3. PICK e : e = SubSeq(d, 1, n)
    OBVIOUS
  <1>4. e \in Seq(Nat) /\ Len(e) = n /\ \A k \in 1 .. n : e[k] = d[k]
    <2>1. \A k \in 1 .. n : k \in 1 .. Len(d)
      BY <1>2
    <2> QED
      BY <1>2, <1>3, <2>1
  <1>5. \A k \in 1 .. n : md[k] = e[k]
    BY <1>1, <1>4 DEF Begins
  <1> QED
    BY <1>1, <1>3, <1>4, <1>5, SeqEqual

(* Clients that upload, any number of them on any number of paths: the     *)
(* checksum of a handle that writes is that of the beginning of the file   *)
(* it names, whatever the slot held before, whichever writes were short    *)
(* and whatever other sessions do meanwhile.                               *)
THEOREM DigestsOfUploads ==
    ASSUME Uploads, Messages \subseteq Msgs PROVE Spec => []DigestIsPrefix
  <1>1. Types /\ MqInv /\ Orderly /\ TypeOK => DigestIsPrefix
    <2> SUFFICES ASSUME Types, MqInv, Orderly, TypeOK PROVE DigestIsPrefix
      OBVIOUS
    <2>1. ASSUME NEW s \in Sessions, NEW h \in Slots, IsOpen(s, h), handles[s][h].flags \cap O_ACCMODE # {}
          PROVE  /\ Len(handles[s][h].md) <= Len(inode[handles[s][h].ino].data)
                 /\ handles[s][h].md = SubSeq(inode[handles[s][h].ino].data, 1, Len(handles[s][h].md))
      <3>1. PICK hd, d : hd = handles[s][h] /\ d = inode[hd.ino].data
        OBVIOUS
      <3>2. Good(s, hd, dir, inode) /\ hd.ino \in Inodes /\ hd \in HandleSet
        BY <2>1, <3>1, OrderlyFacts DEF Table, IsOpen
      <3>3. Begins(hd.md, d)
        BY <2>1, <3>1, <3>2 DEF Good, Writes, IsOpen
      <3>4. hd.md \in Seq(Nat) /\ d \in Seq(Nat)
        BY <3>1, <3>2 DEF HandleSet, Types, FsTypes, FileSet
      <3>5. hd.md = SubSeq(d, 1, Len(hd.md)) /\ Len(hd.md) <= Len(d)
        BY <3>3, <3>4, PrefixEqual DEF Begins
      <3> QED
        BY <3>1, <3>5
    <2> QED
      BY <2>1 DEF DigestIsPrefix
  <1> QED
    BY <1>1, Kempt, InboxTypeCorrect, PTL

(* Clients that upload: when everything has come to rest, what the         *)
(* messages told the consumer of every path is what the inbox holds, with  *)
(* size and checksum, through both forms of rename, removals, replaced     *)
(* files and sessions that ended.                                          *)
THEOREM ConsumerSeesInbox ==
    ASSUME Uploads, Messages \subseteq Msgs PROVE Spec => []ViewIsInbox
  <1>1. Types /\ MqInv /\ Orderly => ViewIsInbox
    <2> SUFFICES ASSUME Types, MqInv, Orderly, Quiescent, NEW p \in Paths
                 PROVE  view[p] = Truth(p)
      BY DEF ViewIsInbox
    <2>1. PICK s \in Sessions : Owner[p] = s
      BY DEF Uploads
    <2>2. /\ todo[s] = Idle /\ Len(got[s]) = Len(hist[s])
          /\ \A h \in Slots : handles[s][h].use # "FILE"
      BY DEF Quiescent, IsOpen
    <2>3. PICK vs : Leads(s, hist[s], Len(got[s]), view, vs) /\ Before(s, vs[Len(hist[s])])
      BY ChainFacts
    <2>4. Settled(handles[s], todo[s], p)
      BY <2>2, IdleFacts DEF Settled, Writes
    <2>5. vs[Len(hist[s])][p] = TruthIn(dir, inode, p)
      BY <2>1, <2>3, <2>4 DEF Before, True
    <2>6. vs[Len(got[s])][p] = view[p]
      BY <2>1, <2>3 DEF Leads
    <2>7. TruthIn(dir, inode, p) = Truth(p)
      BY DEF TruthIn, Truth, Kind
    <2> QED
      BY <2>2, <2>5, <2>6, <2>7
  <1> QED
    BY <1>1, Kempt, PTL

-----------------------------------------------------------------------------
(***************************************************************************)
(* A session alone in the inbox, and one failure at most: renames, with    *)
(* any client and any failure of processes and connections.                *)
(***************************************************************************)

(* The names that a RENAME in progress found its file to have are those it *)
(* has, and the new one between link() and unlink().  Cleaning up is the   *)
(* answer to a failure.                                                    *)
Midway(r) ==
    r.step \in RenameSteps =>
        /\ r.ino # NoInode /\ dir[r.old] = r.ino /\ r.old \in r.names
        /\ r.step \in {"link", "stat", "rename"} => \A p \in Paths : p \in r.names <=> dir[p] = r.ino
        /\ r.step = "rename" => dir[r.new] = NoInode
        /\ r.step \in {"unlink", "undo"} =>
              /\ r.new \notin r.names /\ inode[r.ino].kind = "reg"
              /\ \A p \in Paths : p \in r.names \/ p = r.new <=> dir[p] = r.ino
        /\ r.step = "undo" => faults >= 1

Alone == \A s \in Sessions : Midway(todo[s])

(* How a RENAME that is over has left the names of its file. *)
AllOrNothing(s) ==
    todo'[s] = Idle =>
        \A p \in Paths : dir'[p] = todo[s].ino <=>
            IF hist'[s] # hist[s] THEN (p \in todo[s].names /\ p # todo[s].old) \/ p = todo[s].new
                                  ELSE p \in todo[s].names

LEMMA TellsFacts ==
    ASSUME MqInv, NEW s \in Sessions, NEW old, NEW new, Tells(s, old, new)
    PROVE  todo'[s] = Idle /\ hist'[s] # hist[s]
  <1>1. todo'[s] = Idle /\ mq_send(s, Rename(old, new))
    BY DEF Tells, Doing
  <1>2. PICK m, hs : m = Rename(old, new) /\ hs = hist[s]
    OBVIOUS
  <1>3. hist'[s] = Append(hs, m)
    BY <1>1, <1>2, SendFacts
  <1>4. hs \in Seq(Msgs)
    BY <1>2 DEF MqInv, SessionInv, SessionType
  <1>5. Len(Append(hs, m)) = Len(hs) + 1 /\ Len(hs) \in Nat
    <2>1. hs \in Seq(Msgs \cup {m}) /\ m \in Msgs \cup {m}
      BY <1>4
    <2> QED
      BY <2>1, AppendProperties
  <1>6. Len(Append(hs, m)) # Len(hs)
    BY <1>5
  <1> QED
    BY <1>1, <1>2, <1>3, <1>6

LEMMA MidwayStep ==
    ASSUME Types, MqInv, MaxFaults <= 1, NEW s \in Sessions, NEW old \in Paths, NEW new \in Paths,
           RenameGoesOn(s, old, new), Midway(todo[s])
    PROVE  Midway(todo[s])' /\ AllOrNothing(s)
  <1>1. /\ todo[s].old = old /\ todo[s].new = new /\ inode' = inode
        /\ todo[s] \in RenameSet
    BY DEF RenameGoesOn
  <1>2. PICK i, ns, st : i = todo[s].ino /\ ns = todo[s].names /\ st = todo[s].step
    OBVIOUS
  <1>3. st \in RenameSteps
    BY <1>1, <1>2 DEF RenameSet
  <1>4. /\ i # NoInode /\ dir[old] = i /\ old \in ns
        /\ st \in {"link", "stat", "rename"} => \A p \in Paths : p \in ns <=> dir[p] = i
        /\ st = "rename" => dir[new] = NoInode
        /\ st \in {"unlink", "undo"} =>
              /\ new \notin ns /\ inode[i].kind = "reg"
              /\ \A p \in Paths : p \in ns \/ p = new <=> dir[p] = i
        /\ st = "undo" => faults >= 1
    BY <1>1, <1>2, <1>3 DEF Midway
  <1>5. ASSUME Quits(s), \A p \in Paths : p \in ns <=> dir'[p] = i
        PROVE  Midway(todo[s])' /\ AllOrNothing(s)
    <2>1. todo'[s] = Idle /\ hist' = hist
      BY <1>5 DEF Quits, Doing, mqvars
    <2> QED
      BY <1>2, <1>5, <2>1, IdleFacts DEF Midway, AllOrNothing, RenameSteps
  <1>6. ASSUME Tells(s, old, new), \A p \in Paths : dir'[p] = i <=> (p \in ns /\ p # old) \/ p = new
        PROVE  Midway(todo[s])' /\ AllOrNothing(s)
    <2>1. todo'[s] = Idle /\ hist'[s] # hist[s]
      BY <1>6, TellsFacts
    <2> QED
      BY <1>1, <1>2, <1>6, <2>1, IdleFacts DEF Midway, AllOrNothing, RenameSteps
  <1>7. ASSUME NEW step \in RenameSteps, Onward(s, old, new, step),
               dir'[old] = i,
               step \in {"link", "stat", "rename"} => \A p \in Paths : p \in ns <=> dir'[p] = i,
               step = "rename" => dir'[new] = NoInode,
               step \in {"unlink", "undo"} =>
                  /\ new \notin ns /\ inode[i].kind = "reg"
                  /\ \A p \in Paths : p \in ns \/ p = new <=> dir'[p] = i,
               step = "undo" => faults' >= 1
        PROVE  Midway(todo[s])' /\ AllOrNothing(s)
    <2>1. PICK r \in TodoSet : /\ Renaming(r, step, old, new) /\ Doing(s, r)
                               /\ r.ino = i /\ r.names = ns
      BY <1>2, <1>7 DEF Onward
    <2>2. todo'[s] = r /\ r.step = step /\ r.old = old /\ r.new = new
      BY <2>1 DEF Renaming, Doing
    <2>3. r # Idle
      BY <1>7, <2>2, IdleFacts DEF RenameSteps
    <2> QED
      BY <1>1, <1>4, <1>7, <2>1, <2>2, <2>3 DEF Midway, AllOrNothing
  <1>8. CASE st = "link"
    <2>1. LinkStep(s, old, new)
      BY <1>2, <1>8 DEF RenameGoesOn
    <2>2. CASE UNCHANGED dir /\ Quits(s)
      BY <1>4, <1>5, <1>8, <2>2
    <2>3. CASE UNCHANGED dir /\ Onward(s, old, new, "stat")
      BY <1>4, <1>7, <1>8, <2>3 DEF RenameSteps
    <2>4. CASE /\ dir[old] # NoInode /\ dir[new] = NoInode /\ Kind(old) = "reg"
               /\ Named(new, dir[old]) /\ Onward(s, old, new, "unlink")
      <3>1. new \notin ns /\ inode[i].kind = "reg" /\ old # new
        BY <1>4, <1>8, <2>4 DEF Kind
      <3>2. dir'[new] = i /\ \A p \in Paths : p # new => dir'[p] = dir[p]
        BY <1>4, <2>4 DEF Named
      <3>3. \A p \in Paths : p \in ns \/ p = new <=> dir'[p] = i
        BY <1>4, <1>8, <3>2
      <3> QED
        BY <1>4, <1>7, <2>4, <3>1, <3>2, <3>3 DEF RenameSteps
    <2> QED
      BY <2>1, <2>2, <2>3, <2>4 DEF LinkStep
  <1>9. CASE st = "unlink"
    <2>1. UnlinkStep(s, old, new)
      BY <1>2, <1>9 DEF RenameGoesOn
    <2>2. Kind(old) = "reg"
      BY <1>4, <1>9 DEF Kind
    <2>3. CASE Named(old, NoInode) /\ Tells(s, old, new)
      <3>1. dir'[old] = NoInode /\ \A p \in Paths : p # old => dir'[p] = dir[p]
        BY <2>3 DEF Named
      <3>2. \A p \in Paths : dir'[p] = i <=> (p \in ns /\ p # old) \/ p = new
        BY <1>4, <1>9, <3>1
      <3> QED
        BY <1>6, <2>3, <3>2
    <2>4. CASE Fails("unlink") /\ UNCHANGED dir /\ Onward(s, old, new, "undo")
      <3>1. faults' >= 1
        BY <2>4, InboxAssumption DEF Fails, Types, CountTypes
      <3> QED
        BY <1>4, <1>7, <1>9, <2>4, <3>1 DEF RenameSteps
    <2> QED
      BY <2>1, <2>2, <2>3, <2>4 DEF UnlinkStep
  <1>10. CASE st = "undo"
    <2>1. UndoStep(s, old, new)
      BY <1>2, <1>10 DEF RenameGoesOn
    <2>2. Kind(new) = "reg"
      BY <1>4, <1>10 DEF Kind
    <2>3. ~Fails("unlink")
      BY <1>4, <1>10, InboxAssumption DEF Fails, Types, CountTypes
    <2>4. Named(new, NoInode) /\ Quits(s)
      BY <2>1, <2>2, <2>3 DEF UndoStep
    <2>5. \A p \in Paths : p \in ns <=> dir'[p] = i
      BY <1>4, <1>10, <2>4 DEF Named
    <2> QED
      BY <1>5, <2>4, <2>5
  <1>11. CASE st = "stat"
    <2>1. StatStep(s, old, new)
      BY <1>2, <1>11 DEF RenameGoesOn
    <2> QED
      BY <1>4, <1>5, <1>7, <1>11, <2>1 DEF StatStep, RenameSteps
  <1>12. CASE st = "rename"
    <2>1. MoveStep(s, old, new)
      BY <1>2, <1>12 DEF RenameGoesOn
    <2>2. CASE Moved(old, new) /\ Tells(s, old, new)
      <3>1. \A p \in Paths : dir'[p] = i <=> (p \in ns /\ p # old) \/ p = new
        BY <1>4, <1>12, <2>2 DEF Moved
      <3> QED
        BY <1>6, <2>2, <3>1
    <2>3. CASE UNCHANGED dir /\ Quits(s)
      BY <1>4, <1>5, <1>12, <2>3
    <2> QED
      BY <2>1, <2>2, <2>3 DEF MoveStep
  <1> QED
    BY <1>3, <1>8, <1>9, <1>10, <1>11, <1>12 DEF RenameSteps

LEMMA HandlerAlone ==
    ASSUME Types, MqInv, MaxFaults <= 1, NEW s \in Sessions, Sessions = {s}, Alone, HandlerStep(s)
    PROVE  /\ Alone'
           /\ todo[s].step \in RenameSteps => AllOrNothing(s)
  <1>0. Midway(todo[s]) /\ (Midway(todo[s])' => Alone')
    BY DEF Alone
  <1>1. CASE rename_link(s) \/ rename_unlink(s) \/ rename_undo(s) \/ rename_stat(s) \/ rename_rename(s)
    BY <1>0, <1>1, RenameStepFacts, MidwayStep
  <1>2. ASSUME NEW old \in Paths, NEW new \in Paths, process_rename(s, old, new)
        PROVE  Alone' /\ todo[s].step \notin RenameSteps
    <2>1. PICK r \in TodoSet : RenameBegun(s, old, new, r)
      BY <1>2, RenameFacts
    <2>2. /\ todo'[s] = r /\ dir' = dir /\ r.old = old /\ r.step \in {"link", "stat"}
          /\ r.ino = dir[old] /\ r.names = NamesOf(dir[old]) /\ dir[old] # NoInode
      BY <2>1 DEF RenameBegun, Renaming, Doing
    <2>3. Midway(todo[s])'
      BY <2>2 DEF Midway, NamesOf
    <2>4. todo[s] = Idle
      BY <1>2, RequestFacts DEF process_rename
    <2> QED
      BY <1>0, <2>3, <2>4, IdleFacts DEF RenameSteps
  <1>3. CASE handle_close(s)
    <2>1. todo[s].step = "close" /\ todo'[s] = Idle
      <3>1. PICK h \in Slots : Closed(s, h)
        BY <1>3, ClosedFacts
      <3> QED
        BY <1>3, <3>1 DEF Closed, Doing, handle_close, Continue
    <2> QED
      BY <1>0, <2>1, IdleFacts DEF RenameSteps, Midway
  <1>4. ASSUME NEW h \in Slots, process_close(s, h) PROVE Alone' /\ todo[s].step \notin RenameSteps
    <2>1. PICK r \in TodoSet : Closing(s, h, r)
      BY <1>4, CloseFacts
    <2>2. todo[s] = Idle /\ todo'[s].step = "close"
      BY <1>4, <2>1, RequestFacts DEF process_close, Closing, Doing
    <2> QED
      BY <1>0, <2>2, IdleFacts DEF RenameSteps, Midway
  <1>5. ASSUME todo[s] = Idle, todo'[s] = Idle PROVE Alone' /\ todo[s].step \notin RenameSteps
    BY <1>0, <1>5, IdleFacts DEF RenameSteps, Midway
  <1>6. ASSUME NEW p \in Paths, process_remove(s, p) PROVE todo[s] = Idle /\ todo'[s] = Idle
    BY <1>6, RequestFacts, RemoveFacts DEF process_remove, RemovedFile, Doing
  <1>7. ASSUME NEW old \in Paths, NEW new \in Paths, process_posix_rename(s, old, new)
        PROVE  todo[s] = Idle /\ todo'[s] = Idle
    BY <1>7, RequestFacts, PosixRenameFacts DEF process_posix_rename, PosixRenamed, Doing
  <1>8. ASSUME NEW p, NEW m, process_open(s, p, m) PROVE todo[s] = Idle /\ todo'[s] = Idle
    BY <1>8, RequestFacts DEF process_open
  <1>9. ASSUME NEW h, NEW off, NEW b, process_write(s, h, off, b) PROVE todo[s] = Idle /\ todo'[s] = Idle
    BY <1>9, RequestFacts DEF process_write
  <1>10. ASSUME NEW p, process_mkdir(s, p) \/ process_rmdir(s, p) PROVE todo[s] = Idle /\ todo'[s] = Idle
    BY <1>10, RequestFacts DEF process_mkdir, process_rmdir
  <1>11. ASSUME NEW p, NEW n, process_setstat(s, p, n) \/ process_fsetstat(s, p, n)
         PROVE  todo[s] = Idle /\ todo'[s] = Idle
    BY <1>11, RequestFacts DEF process_setstat, process_fsetstat
  <1>12. ASSUME NEW old, NEW new, process_hardlink(s, old, new) PROVE todo[s] = Idle /\ todo'[s] = Idle
    BY <1>12, RequestFacts DEF process_hardlink
  <1> QED
    BY <1>1, <1>2, <1>3, <1>4, <1>5, <1>6, <1>7, <1>8, <1>9, <1>10, <1>11, <1>12, Zenon DEF HandlerStep

LEMMA ProcessAlone ==
    ASSUME Types, MqInv, NEW s \in Sessions, Sessions = {s}, Alone, ProcessStep(s)
    PROVE  /\ Alone'
           /\ todo'[s] = todo[s] \/ at'[s] = "exited"
  <1>1. dir' = dir /\ inode' = inode /\ ((todo'[s] = todo[s] /\ handles' = handles) \/ Ended(s))
    BY ProcessStays
  <1>2. faults' = faults
    BY DEF ProcessStep, Start, Publish, Exit, Exited, Die, LinkBreaks, Consume
  <1>3. CASE todo'[s] = todo[s]
    <2>1. Midway(todo[s])'
      BY <1>1, <1>2, <1>3 DEF Midway, Alone
    <2> QED
      BY <1>3, <2>1 DEF Alone
  <1>4. CASE Ended(s)
    BY <1>4, IdleFacts DEF Ended, Alone, Midway, RenameSteps
  <1> QED
    BY <1>1, <1>3, <1>4

(* A session alone in the inbox, any client, and one failed system call at *)
(* most: a RENAME whose process lives to its end either moves the name of  *)
(* the file and announces it (mq_send is called), or leaves the names of   *)
(* the file as they were and announces nothing.                            *)
(* Another session could undo it in between, and a second failure could    *)
(* leave the spare link of process_rename behind.                          *)
THEOREM RenamesOfOneSession ==
    ASSUME NEW one, Sessions = {one}, MaxFaults <= 1, Messages \subseteq Msgs
    PROVE  Spec => RenameAllOrNothing
  <1>0. one \in Sessions
    OBVIOUS
  <1>1. Init => Alone
    BY IdleFacts DEF Init, Alone, Midway, RenameSteps
  <1>2. ASSUME Types, MqInv, Alone, [Next]_vars
        PROVE  /\ Alone'
               /\ todo[one].step \in RenameSteps /\ at'[one] # "exited" => AllOrNothing(one)
    <2>1. CASE UNCHANGED vars
      <3>1. Alone'
        BY <1>2, <2>1 DEF vars, Alone, Midway
      <3>2. todo'[one] = todo[one]
        BY <2>1 DEF vars
      <3> QED
        BY <3>1, <3>2, IdleFacts DEF AllOrNothing, RenameSteps
    <2>2. CASE HandlerStep(one)
      BY <1>0, <1>2, <2>2, HandlerAlone
    <2>3. CASE ProcessStep(one)
      <3>1. Alone' /\ (todo'[one] = todo[one] \/ at'[one] = "exited")
        BY <1>0, <1>2, <2>3, ProcessAlone
      <3> QED
        BY <3>1, IdleFacts DEF AllOrNothing, RenameSteps
    <2> QED
      BY <1>2, <2>1, <2>2, <2>3, Cases
  <1>3. Types /\ MqInv /\ Alone /\ [Next]_vars =>
            [\A s \in Sessions :
                LET r == todo[s]
                IN  r.step \in RenameSteps /\ todo'[s] = Idle /\ at'[s] # "exited" =>
                      {p \in Paths : dir'[p] = r.ino} =
                          IF hist'[s] # hist[s] THEN (r.names \ {r.old}) \cup {r.new}
                                                ELSE r.names]_vars
    <2> SUFFICES ASSUME Types, MqInv, Alone, [Next]_vars,
                        todo[one].step \in RenameSteps, todo'[one] = Idle, at'[one] # "exited"
                 PROVE  {p \in Paths : dir'[p] = todo[one].ino} =
                            IF hist'[one] # hist[one] THEN (todo[one].names \ {todo[one].old}) \cup {todo[one].new}
                                                  ELSE todo[one].names
      OBVIOUS
    <2>1. AllOrNothing(one)
      BY <1>2
    <2>2. PICK r, i, ns, old, new : r = todo[one] /\ i = r.ino /\ ns = r.names /\ old = r.old /\ new = r.new
      OBVIOUS
    <2>3. ns \subseteq Paths /\ old \in Paths /\ new \in Paths
      <3>1. r \in RenameSet
        BY <1>0, <2>2, TodoKinds DEF Types, TodoTypes
      <3> QED
        BY <2>2, <3>1 DEF RenameSet
    <2>4. \A p \in Paths : dir'[p] = i <=> IF hist'[one] # hist[one] THEN (p \in ns /\ p # old) \/ p = new
                                                                ELSE p \in ns
      BY <2>1, <2>2 DEF AllOrNothing
    <2>5. {p \in Paths : dir'[p] = i} = IF hist'[one] # hist[one] THEN (ns \ {old}) \cup {new} ELSE ns
      BY <2>3, <2>4
    <2> QED
      BY <2>2, <2>5
  <1>4. Types /\ MqInv /\ Alone /\ [Next]_vars => Alone'
    BY <1>2
  <1>5. Spec => [](Types /\ MqInv)
    BY Typed
  <1> QED
    BY <1>1, <1>3, <1>4, <1>5, PTL DEF Spec, RenameAllOrNothing
=============================================================================

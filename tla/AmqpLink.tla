------------------------------ MODULE AmqpLink ------------------------------
(***************************************************************************)
(* The AMQP connection of one session: rabbitmq-c (amqp_connection.c,      *)
(* amqp_socket.c, amqp_api.c) as mq-notify.c calls it, and a conforming    *)
(* broker at the other end (external).                                     *)
(*                                                                         *)
(* Bytes from the broker are integers, cut by recv() at any place.  Sizes  *)
(* are scaled: a header is 2 bytes (type and channel, length) for 7, the   *)
(* footer 1, the payload of a method 2 (high byte of the class, the rest). *)
(* Bytes to the broker are the two halves of a frame.  Time is counted in  *)
(* ticks; a point in time is the number of ticks left until it.            *)
(*                                                                         *)
(* A function of the C code is an operator from the client's memory c to   *)
(* its memory after the call.  c.at is the call mq-notify.c is in: the     *)
(* bytes c.out are sent first, then an answer is waited for.               *)
(***************************************************************************)
EXTENDS Integers, Sequences, FiniteSets

CONSTANTS Heartbeats,    \* values "heartbeat" may have in mq.conf, 0 for none
          LoginTime,     \* AMQP_DEFAULT_LOGIN_TIMEOUT_SEC, in ticks
          SockCap,       \* capacity of the socket towards the broker
          MaxMsgs,       \* bound on the messages published
          MaxConns,      \* bound on the connections opened
          MaxBeats       \* bound on the heartbeats in the client's queue

ASSUME HeartbeatAssumption == Heartbeats \subseteq Nat
ASSUME SockCapAssumption == SockCap \in Nat /\ SockCap >= 4   \* the handshake fits

VARIABLES c,             \* the client
          up, down,      \* bytes in flight to, and from, the broker
          br,            \* the broker's end
          pend           \* history: frames of the broker not yet decoded

vars == <<c, up, down, br, pend>>

HEADER_SIZE == 2
FOOTER_SIZE == 1
FRAME_END == 206
FRAME_MAX == 8
INF == 99                \* amqp_time_infinite

(* Methods of the broker, and their numbers on the wire. *)
Method == [start |-> 41, tune |-> 42, open_ok |-> 43, chan_open_ok |-> 44,
           chan_close |-> 45, chan_close_ok |-> 46, conn_close |-> 47,
           conn_close_ok |-> 48]
Channel(id) == IF id \in {"chan_open_ok", "chan_close", "chan_close_ok"} THEN 1 ELSE 0

Heartbeat == [type |-> "heartbeat", ch |-> 0, id |-> "none"]
ProtocolHeader == [type |-> "protocol", ch |-> 0, id |-> "none"]
NoFrame == [type |-> "none", ch |-> 0, id |-> "none"]
MethodFrame(id) == [type |-> "method", ch |-> Channel(id), id |-> id]

Encode(f) ==
    CASE f.type = "heartbeat" -> <<18, 0, FRAME_END>>
      [] f.type = "protocol" -> <<65, 65, 65>>
      [] f.type = "method" -> <<10 + f.ch, 2, 0, Method[f.id], FRAME_END>>

Halves(f, n) == <<[f |-> f, n |-> n, h |-> 1], [f |-> f, n |-> n, h |-> 2]>>

Least(a, b) == IF a < b THEN a ELSE b

-----------------------------------------------------------------------------
(* Times. *)

amqp_time_s_from_now(seconds) == IF seconds = 0 THEN INF ELSE seconds
amqp_heartbeat_send(m) == m.hb
amqp_heartbeat_recv(m) == 2 * m.hb

(* Calls that wait for a frame, and the state the caller rests in. *)
Waits == {"start", "tune", "open", "chan", "chan_close", "conn_close"}
Rests == {"closed", "idle", "end", "crashed"}

amqp_new_connection(h) ==
    [sock |-> FALSE, at |-> "closed", out |-> << >>, dl |-> INF,
     want |-> h, hb |-> 0, ns |-> INF, nr |-> INF, trying |-> FALSE,
     state |-> "INITIAL", buf |-> << >>, target |-> HEADER_SIZE + FOOTER_SIZE,
     inb |-> << >>, queue |-> << >>,
     msg |-> 0, conns |-> 0, rc |-> "none",
     fresh |-> TRUE, odd |-> FALSE,       \* history: was the stream new, has
     cut |-> FALSE]                       \* it been misread, or a frame cut off

NoBroker == [conn |-> "none", chan |-> "none", expect |-> "method",
             dying |-> FALSE, tuned |-> FALSE, hb |-> 0]

Init ==
    /\ \E h \in Heartbeats : c = amqp_new_connection(h)
    /\ up = << >> /\ down = << >> /\ pend = << >>
    /\ br = [link |-> NoBroker, rcvd |-> << >>, refused |-> FALSE]

-----------------------------------------------------------------------------
(* amqp_connection.c: the decoder. *)

(* Slip: bytes of the frame before it are kept. *)
return_to_idle_Keeps(m) ==
    [m EXCEPT !.target = HEADER_SIZE, !.state = "IDLE"]

return_to_idle(m) ==
    [m EXCEPT !.buf = << >>, !.target = HEADER_SIZE, !.state = "IDLE"]

consume_data(m) ==
    LET n == Least(m.target - Len(m.buf), Len(m.inb))
    IN [m EXCEPT !.buf = @ \o SubSeq(m.inb, 1, n),
                 !.inb = SubSeq(@, n + 1, Len(@))]

(* A result of amqp_handle_input: the memory and the frame decoded. *)
Result(m, f) == [mem |-> m, frame |-> f]

(* amqp_handle_input, first part: idle becomes header, bytes are taken. *)
handle_start(m) ==
    consume_data([m EXCEPT !.state = IF @ = "IDLE" THEN "HEADER" ELSE @])

(* case CONNECTION_STATE_HEADER, once the header is complete; INITIAL falls *)
(* through to it unless the broker answered with a protocol header.  Only   *)
(* HEADER_SIZE bytes of header_buffer are copied, although one more was     *)
(* read before the first frame: it is 0 in every method, and amqp_pool_alloc *)
(* clears a new page.  A frame that is too long is BAD_AMQP_DATA, and the   *)
(* decoder does not return to idle.                                         *)
handle_header(m) ==
    LET size == m.buf[2] + HEADER_SIZE + FOOTER_SIZE
        copy == [i \in 1..Len(m.buf) |-> IF i <= HEADER_SIZE THEN m.buf[i] ELSE 0]
    IN CASE Len(m.buf) < m.target \/ m.state = "BODY" -> m
         [] m.state = "INITIAL" /\ m.buf[1] = 65 -> m
         [] FRAME_MAX < size -> [m EXCEPT !.target = size, !.state = "BAD"]
         [] OTHER -> consume_data([m EXCEPT !.state = "BODY", !.target = size,
                                            !.buf = copy])

(* case CONNECTION_STATE_BODY, once the frame is complete; frames of an     *)
(* unknown type are ignored.                                                *)
handle_body(m) ==
    CASE Len(m.buf) < m.target \/ m.state = "BAD" -> Result(m, NoFrame)
      [] Len(m.buf) = m.target /\ m.state = "INITIAL" ->
             Result(return_to_idle(m), ProtocolHeader)
      [] OTHER ->
             CASE m.buf[m.target] # FRAME_END ->
                      Result([m EXCEPT !.state = "BAD"], NoFrame)
               [] m.buf[m.target] = FRAME_END /\ m.buf[1] \in {10, 11} ->
                      Result(return_to_idle(m),
                             MethodFrame(CHOOSE id \in DOMAIN Method :
                                             Method[id] = m.buf[HEADER_SIZE + 2]))
               [] m.buf[m.target] = FRAME_END /\ m.buf[1] = 18 ->
                      Result(return_to_idle(m), Heartbeat)
               [] OTHER -> Result(return_to_idle(m), NoFrame)

-----------------------------------------------------------------------------
(* How calls end. *)

(* Slip: after a publish that failed the connection is opened again. *)
Fail_Reconnects(m) ==
    [m EXCEPT !.out = << >>, !.trying = FALSE, !.dl = INF,
              !.cut = @ \/ (m.out # << >> /\ Head(m.out).h = 2),
              !.sock = @ /\ m.at \in {"open", "chan"},
              !.at = IF m.at \in {"chan_close", "conn_close"} THEN "end" ELSE "closed",
              !.rc = IF m.at \in {"chan_close", "conn_close"} THEN "failed" ELSE @]

(* A call reports an error: amqp_login_inner closes the socket unless the   *)
(* RPC in it failed, nobody else does; mq_clean is the end of the process.  *)
(* The bytes left to send are dropped.                                      *)
Fail(m) ==
    [m EXCEPT !.out = << >>, !.trying = FALSE, !.dl = INF,
              !.cut = @ \/ (m.out # << >> /\ Head(m.out).h = 2),
              !.sock = @ /\ m.at \in {"open", "chan", "publish"},
              !.at = CASE m.at = "publish" -> "idle"
                       [] m.at \in {"chan_close", "conn_close"} -> "end"
                       [] OTHER -> "closed",
              !.rc = IF m.at \in {"chan_close", "conn_close"} THEN "failed" ELSE @]

(* amqp_socket_close, and the error is reported. *)
FailClosed(m) == [Fail(m) EXCEPT !.sock = FALSE]

(* ENFORCE_STATE(state, CONNECTION_STATE_IDLE) aborts the process. *)
ENFORCE_STATE(m) == IF m.state = "IDLE" THEN m ELSE [m EXCEPT !.at = "aborted"]

Call(m, at, frames, deadline) ==
    [m EXCEPT !.at = at, !.out = frames, !.dl = deadline]

amqp_release_buffers(m) == ENFORCE_STATE(m)

amqp_tune_connection(m, h) ==
    LET n == [m EXCEPT !.hb = h]
    IN ENFORCE_STATE([n EXCEPT !.ns = amqp_time_s_from_now(amqp_heartbeat_send(n)),
                               !.nr = amqp_time_s_from_now(amqp_heartbeat_recv(n))])

tune_heartbeat(client, server) ==
    IF server # 0 /\ server < client THEN server ELSE client

(* amqp_queue_frame, and the same lines in amqp_try_recv and simple_rpc_inner *)
amqp_queue_frame(m, f) == [m EXCEPT !.queue = Append(@, f)]

(* The socket has taken the last byte of m.out, which was of frame f. *)
Sent(m, f) ==
    CASE f = "start_ok" -> amqp_release_buffers(m)
      [] f = "tune_ok" ->
             LET n == amqp_release_buffers(m)
             IN IF n.at = "aborted" THEN n
                ELSE Call(n, "open", Halves("open", 0), m.dl)
      [] f = "body" -> [m EXCEPT !.at = "idle"]
      [] OTHER -> m

Expected == [open |-> "open_ok", chan |-> "chan_open_ok",
             chan_close |-> "chan_close_ok", conn_close |-> "conn_close_ok"]

(* What follows an RPC that was answered: mq_open_connection, mq_clean. *)
Answered(m) ==
    CASE m.at = "open" -> Call(m, "chan", Halves("chan_open", 0), INF)
      [] m.at = "chan" -> [m EXCEPT !.at = "idle"]
      [] m.at = "chan_close" -> Call(m, "conn_close", Halves("conn_close", 0), INF)
      [] m.at = "conn_close" -> [m EXCEPT !.at = "end", !.sock = FALSE, !.rc = "ok"]

(* Slip: any method on the channel is taken for the answer. *)
simple_rpc_inner_AnyMethod(m, f) ==
    CASE f.type = "method" /\ f.ch = Channel(Expected[m.at]) -> Answered(m)
      [] f = MethodFrame("conn_close") -> Fail(m)
      [] OTHER -> amqp_queue_frame(m, f)

(* The part of simple_rpc_inner after wait_frame_inner returned f. *)
simple_rpc_inner(m, f) ==
    CASE f = MethodFrame(Expected[m.at]) -> Answered(m)
      [] f = MethodFrame("conn_close") -> Fail(m)
      [] f = MethodFrame("chan_close") /\ Channel(Expected[m.at]) = 1 -> Fail(m)
      [] OTHER -> amqp_queue_frame(m, f)

(* amqp_login_inner after amqp_simple_wait_method_list returned f.  A      *)
(* "start" of another version or without our SASL method ends as any other *)
(* unexpected frame does, in FailClosed.                                   *)
amqp_login_inner(m, f, server_hb) ==
    CASE m.at = "start" /\ f = MethodFrame("start") ->
             Call(m, "tune", Halves("start_ok", 0), m.dl)
      [] m.at = "tune" /\ f = MethodFrame("tune") ->
             LET n == amqp_tune_connection(m, tune_heartbeat(m.want, server_hb))
             IN IF n.at = "aborted" THEN n
                ELSE Call(n, "tune_ok", Halves("tune_ok", n.hb), m.dl)
      [] m.at = "tune" /\ f = MethodFrame("conn_close") ->
             [m EXCEPT !.at = "closed", !.dl = INF]
      [] OTHER -> FailClosed(m)

Deliver(m, f) ==
    IF m.at \in {"start", "tune"} THEN amqp_login_inner(m, f, br.link.hb)
    ELSE simple_rpc_inner(m, f)

-----------------------------------------------------------------------------
Disconnected ==
    /\ up' = << >> /\ down' = << >> /\ pend' = << >>
    /\ br' = [br EXCEPT !.link = NoBroker]

(* The client's memory becomes m; a closed socket takes the link with it. *)
Becomes(m) ==
    /\ c' = m
    /\ IF m.sock THEN UNCHANGED <<up, down, br, pend>> ELSE Disconnected

(* mq_open_connection: amqp_socket_open, then amqp_login.  fresh: the       *)
(* connection object keeps nothing of an earlier connection's stream, which *)
(* neither function looks at.  A socket left over refuses the call.         *)
mq_open_connection ==
    /\ c.at = "closed" /\ ~c.sock
    /\ c.conns < MaxConns
    /\ c' = [Call(c, "start", Halves("header", 0), LoginTime)
             EXCEPT !.sock = TRUE, !.conns = @ + 1, !.odd = FALSE, !.cut = FALSE,
                    !.fresh = /\ c.buf = << >> /\ c.state # "BAD"
                              /\ c.inb = << >> /\ c.queue = << >>]
    /\ br' = [br EXCEPT !.link.conn = "open"]
    /\ UNCHANGED <<up, down, pend>>

(* The frames of one message: method, content header, one body frame. *)
amqp_basic_publish ==
    /\ c.at = "idle"
    /\ c.msg < MaxMsgs
    /\ LET n == c.msg + 1
       IN c' = [Call(c, "publish", Halves("publish", n) \o Halves("header_frame", n)
                                       \o Halves("body", n), INF)
                EXCEPT !.msg = n, !.trying = (c.nr = 0)]
    /\ UNCHANGED <<up, down, br, pend>>

(* amqp_channel_close, then amqp_connection_close. *)
mq_clean ==
    /\ c.at \in {"idle", "closed"}
    /\ Becomes(Call(c, "chan_close", Halves("chan_close", 0), INF))

(* Only amqp_login_inner passes its deadline on to amqp_send_method_inner. *)
SendDeadline ==
    IF Head(c.out).f \in {"header", "start_ok", "tune_ok"} THEN c.dl ELSE INF

Sending == c.out # << >> /\ ~c.trying

(* The socket takes n bytes of the frame being sent. *)
Sends(n, rest) ==
    LET last == c.out[n]
        m == [c EXCEPT !.out = rest,
                       !.ns = IF last.h = 2
                              THEN amqp_time_s_from_now(amqp_heartbeat_send(c)) ELSE @]
    IN /\ c' = IF rest = << >> THEN Sent(m, last.f) ELSE m
       /\ up' = IF br.link.conn = "open" THEN up \o SubSeq(c.out, 1, n) ELSE up
       /\ UNCHANGED <<down, br, pend>>

Fits == Least(SockCap - Len(up), 3 - Head(c.out).h)

(* Slip: after an interruption the frame is sent from its beginning. *)
amqp_try_send_Again ==
    /\ Sending /\ c.sock
    /\ Fits > 0
    /\ Sends(Fits, IF c.out[Fits].h = 1 THEN c.out
                   ELSE SubSeq(c.out, Fits + 1, Len(c.out)))

(* amqp_try_send: as much of the frame as fits.  A connection the broker    *)
(* has closed may still accept bytes, which are lost.                       *)
amqp_try_send ==
    /\ Sending /\ c.sock
    /\ Fits > 0
    /\ Sends(Fits, SubSeq(c.out, Fits + 1, Len(c.out)))

(* The socket is closed, or the connection reset. *)
send_error ==
    /\ Sending
    /\ ~c.sock \/ br.link.conn = "closed"
    /\ Becomes(Fail(c))

(* amqp_send_frame_inner when the socket has been full until next_timeout. *)
send_timeout ==
    /\ Sending /\ c.sock
    /\ br.link.conn = "open" /\ Len(up) = SockCap
    /\ Least(SendDeadline, c.nr) = 0
    /\ Becomes(IF SendDeadline = 0 THEN FailClosed(c) ELSE [c EXCEPT !.trying = TRUE])

(* Who gets a decoded frame: amqp_try_recv queues every one, heartbeats     *)
(* too, wait_frame_inner skips heartbeats.                                  *)
Decoded(m, f) ==
    CASE f.type = "none" -> m
      [] f.type # "none" /\ m.trying -> amqp_queue_frame(m, f)
      [] f = Heartbeat /\ ~m.trying -> m
      [] OTHER -> Deliver(m, f)

Receiving == c.trying \/ (c.out = << >> /\ c.at \in Waits)

(* amqp_simple_wait_frame_noblock takes a queued frame first. *)
FromQueue == ~c.trying /\ c.at \in {"start", "tune"} /\ c.queue # << >>

wait_queued ==
    /\ Receiving /\ FromQueue
    /\ Becomes(Deliver([c EXCEPT !.queue = Tail(@)], Head(c.queue)))

Consumed(r) ==
    LET wrong == r.frame.type # "none" /\ (pend = << >> \/ Head(pend) # r.frame)
    IN CASE c.state = "BAD" -> [c EXCEPT !.at = "crashed", !.sock = FALSE,
                                         !.out = << >>, !.trying = FALSE]
         [] c.state # "BAD" /\ r.mem.state = "BAD" -> Fail(r.mem)
         [] OTHER -> Decoded([r.mem EXCEPT !.odd = @ \/ wrong], r.frame)

(* A decoder that has failed before writes outside its buffer when it is    *)
(* used again: what follows is undefined, the process is taken to end.      *)
consume_one_frame ==
    /\ Receiving /\ ~FromQueue
    /\ c.inb # << >>
    /\ \E m \in {handle_start(c)} : \E b \in {handle_header(m)} :
       \E r \in {handle_body(b)} : \E n \in {Consumed(r)} :
          /\ c' = n
          /\ IF n.sock
             THEN /\ pend' = IF r.frame.type = "none" \/ pend = << >> THEN pend
                             ELSE Tail(pend)
                  /\ UNCHANGED <<up, down, br>>
             ELSE Disconnected

(* Nothing is left in sock_inbound_buffer and no heartbeat is due. *)
Reading == Receiving /\ ~FromQueue /\ c.inb = << >> /\ (c.trying \/ c.ns # 0)

(* recv_with_timeout gets n bytes. *)
recv_with_timeout(n) ==
    /\ Reading /\ c.sock
    /\ c' = [c EXCEPT !.inb = SubSeq(down, 1, n), !.trying = FALSE,
                      !.nr = amqp_time_s_from_now(amqp_heartbeat_recv(c))]
    /\ down' = SubSeq(down, n + 1, Len(down))
    /\ UNCHANGED <<up, br, pend>>

(* Slip: end of file is taken for nothing to read yet. *)
recv_closed_Ignored ==
    /\ Reading /\ ~c.sock
    /\ Becomes(Fail(c))

(* End of file, or the socket is not there. *)
recv_closed ==
    /\ Reading
    /\ ~c.sock \/ (down = << >> /\ br.link.conn = "closed")
    /\ Becomes(Fail(c))

(* amqp_try_recv does not wait; its caller reports a missing heartbeat and  *)
(* keeps the socket.                                                        *)
try_recv_timeout ==
    /\ Reading /\ c.sock /\ c.trying
    /\ down = << >> /\ br.link.conn = "open"
    /\ Becomes(Fail(c))

(* Slip: the deadline of a call is forgotten when heartbeats are off. *)
wait_timeout_NoDeadline ==
    /\ Reading /\ c.sock /\ ~c.trying
    /\ down = << >> /\ br.link.conn = "open"
    /\ c.nr = 0
    /\ Becomes(FailClosed(c))

(* wait_frame_inner: the broker's heartbeat is missing, or the deadline of  *)
(* the call has passed.  Both close the socket.                             *)
wait_timeout ==
    /\ Reading /\ c.sock /\ ~c.trying
    /\ down = << >> /\ br.link.conn = "open"
    /\ Least(c.nr, c.dl) = 0
    /\ Becomes(FailClosed(c))

(* wait_frame_inner sends a heartbeat when one is due. *)
send_heartbeat ==
    /\ Receiving /\ ~c.trying /\ ~FromQueue
    /\ c.inb = << >> /\ c.ns = 0
    /\ c' = [c EXCEPT !.out = Halves("heartbeat", 0)]
    /\ UNCHANGED <<up, down, br, pend>>

ClientStep ==
    \/ amqp_try_send \/ send_error \/ send_timeout \/ send_heartbeat
    \/ wait_queued \/ consume_one_frame
    \/ \E n \in 1..Len(down) : recv_with_timeout(n)
    \/ recv_closed \/ try_recv_timeout \/ wait_timeout

(* The process cannot take a step of its own: it rests or is in poll(). *)
Blocked ==
    \/ c.at \in Rests
    \/ /\ c.sock /\ br.link.conn = "open"
       /\ \/ Sending /\ Len(up) = SockCap /\ Least(SendDeadline, c.nr) # 0
          \/ Reading /\ ~c.trying /\ down = << >> /\ Least(c.nr, c.dl) # 0

(* Time passes while the process waits; its own steps take none.  A point   *)
(* in time that is past stays so.                                           *)
Tick ==
    /\ Blocked
    /\ LET Later(t) == IF t \in {0, INF} THEN t ELSE t - 1
           m == [c EXCEPT !.dl = Later(@), !.ns = Later(@), !.nr = Later(@)]
       IN m # c /\ c' = m
    /\ UNCHANGED <<up, down, br, pend>>

-----------------------------------------------------------------------------
(* The broker. *)

Tells(f) ==
    /\ down' = down \o Encode(f)
    /\ pend' = Append(pend, f)

Says(id) == Tells(MethodFrame(id))
Quiet == UNCHANGED <<down, pend>>

link == br.link

(* A frame out of place: the broker closes the connection. *)
Hangs(l) == [l EXCEPT !.conn = "closed"]

(* Refused: connection.close, and nothing else is looked at any more. *)
Refuse ==
    /\ Says("conn_close")
    /\ br' = [br EXCEPT !.link.dying = TRUE]

Handshake(f) ==
    \/ /\ f.f = "header"
       /\ \/ Says("start") /\ UNCHANGED br
          \/ Tells(ProtocolHeader) /\ br' = [br EXCEPT !.link = Hangs(@)]
    \/ /\ f.f = "start_ok"
       /\ \/ \E h \in Heartbeats : Says("tune") /\ br' = [br EXCEPT !.link.hb = h]
          \/ Refuse
    \/ f.f = "tune_ok" /\ Quiet /\ br' = [br EXCEPT !.link.hb = f.n, !.link.tuned = TRUE]
    \/ f.f = "open" /\ (Refuse \/ (Says("open_ok") /\ UNCHANGED br))
    \/ f.f = "chan_open" /\ Says("chan_open_ok") /\ br' = [br EXCEPT !.link.chan = "open"]

(* method, content header, body: complete messages are taken or, when the  *)
(* exchange is not there, answered by channel.close.                       *)
Content(f) ==
    LET Next3 == [publish |-> "header_frame", header_frame |-> "body", body |-> "publish"]
    IN /\ f.f \in DOMAIN Next3
       /\ \/ link.chan # "open" /\ Quiet /\ UNCHANGED br
          \/ /\ link.chan = "open"
             /\ f.f # (IF link.expect = "method" THEN "publish" ELSE link.expect)
             /\ Quiet /\ br' = [br EXCEPT !.link = Hangs(@)]
          \/ /\ link.chan = "open"
             /\ f.f = (IF link.expect = "method" THEN "publish" ELSE link.expect)
             /\ \/ /\ f.f # "body" /\ Quiet
                   /\ br' = [br EXCEPT !.link.expect = Next3[f.f]]
                \/ /\ f.f = "body" /\ Quiet
                   /\ br' = [br EXCEPT !.link.expect = "method", !.rcvd = Append(@, f.n)]
                \/ /\ f.f = "body" /\ Says("chan_close")
                   /\ br' = [br EXCEPT !.link.expect = "method", !.link.chan = "closing",
                                       !.refused = TRUE]

Closing(f) ==
    \/ f.f = "chan_close" /\ link.chan = "none" /\ Refuse
    \/ /\ f.f = "chan_close" /\ link.chan # "none" /\ Says("chan_close_ok")
       /\ br' = [br EXCEPT !.link.chan = "none"]
    \/ /\ f.f = "conn_close" /\ Says("conn_close_ok")
       /\ br' = [br EXCEPT !.link = Hangs(@)]
    \/ f.f = "heartbeat" /\ Quiet /\ UNCHANGED br

BrokerReads ==
    /\ link.conn = "open"
    /\ Len(up) >= 2
    /\ up' = SubSeq(up, 3, Len(up))
    /\ UNCHANGED c
    /\ \/ /\ up[1].f # up[2].f \/ up[2].h # 2
          /\ Quiet /\ br' = [br EXCEPT !.link = Hangs(@)]
       \/ /\ up[1].f = up[2].f /\ up[2].h = 2
          /\ IF link.dying
             THEN IF up[1].f = "conn_close" THEN Closing(up[1]) ELSE Quiet /\ UNCHANGED br
             ELSE Handshake(up[1]) \/ Content(up[1]) \/ Closing(up[1])

(* At most one heartbeat is on its way, and MaxBeats wait in the client.    *)
BrokerBeats ==
    /\ link.conn = "open" /\ link.hb > 0 /\ link.tuned
    /\ pend = << >> /\ Len(c.queue) < MaxBeats
    /\ Tells(Heartbeat)
    /\ UNCHANGED <<c, up, br>>

(* The broker ends the connection; some of what it said may be lost. *)
BrokerCloses(n) ==
    /\ link.conn = "open"
    /\ br' = [br EXCEPT !.link = Hangs(@)]
    /\ down' = SubSeq(down, 1, n)
    /\ UNCHANGED <<c, up, pend>>

(* A connection the broker wants closed is closed after a while. *)
BrokerGivesUp == link.dying /\ BrokerCloses(Len(down))

BrokerStep ==
    \/ BrokerReads \/ BrokerBeats
    \/ \E n \in {0, Len(down)} : BrokerCloses(n)

Next ==
    \/ mq_open_connection \/ amqp_basic_publish \/ mq_clean
    \/ ClientStep \/ Tick
    \/ BrokerStep

Spec == Init /\ [][Next]_vars

(* The process runs and time passes.  The broker may fall silent for good.  *)
FairSpec ==
    /\ Spec
    /\ WF_vars(ClientStep) /\ WF_vars(Tick) /\ WF_vars(BrokerGivesUp)

-----------------------------------------------------------------------------
TypeOK ==
    /\ c.at \in Waits \cup Rests \cup {"tune_ok", "publish"}
    /\ c.state \in {"INITIAL", "IDLE", "HEADER", "BODY", "BAD"}
    /\ Len(up) <= SockCap
    /\ c.nr \in 0..(2 * c.hb) \cup {INF} /\ c.ns \in 0..c.hb \cup {INF}
    /\ c.out # << >> => c.at \notin Rests
    /\ c.at \in {"idle", "publish"} => c.sock

(* The bytes are those of the frames, or of their beginning.  A frame      *)
(* starts behind those before it: 3 bytes each, 5 for a method.            *)
Offset(frames, k) == 3 * k + 2 * Cardinality({j \in 1..k : frames[j].type = "method"})
Spells(bytes, frames) ==
    /\ Len(bytes) <= Offset(frames, Len(frames))
    /\ \A k \in 1..Len(frames) : \A j \in 1..Len(Encode(frames[k])) :
          LET i == Offset(frames, k - 1) + j
          IN  i <= Len(bytes) => bytes[i] = Encode(frames[k])[j]

(* Whatever the cuts recv() makes, the decoder gives back the frames the    *)
(* broker sent, in order: what it holds, what is in sock_inbound_buffer and *)
(* what is in flight are the bytes of the frames still to be decoded.  No   *)
(* call returns with a part of its own frame still to be sent.              *)
StreamKept ==
    TypeOK /\ (c.fresh /\ c.sock =>
        LET held == (IF c.at = "crashed" THEN << >> ELSE c.buf) \o c.inb \o down
        IN /\ ~c.odd
           /\ c.state # "BAD"
           /\ Spells(held, pend)
           /\ link.conn = "open" => Len(held) = Offset(pend, Len(pend)))

(* What is on its way to the broker are whole frames, also when a full      *)
(* socket interrupted one and the wait for it was spent reading; only a     *)
(* call that gave up in the middle of a frame leaves it cut off.            *)
WholeFrames ==
    ~c.cut => \A i \in 1..Len(up) :
                  /\ up[i].h = 2 - (i % 2)
                  /\ i % 2 = 0 => up[i].f = up[i - 1].f /\ up[i].n = up[i - 1].n

(* Without heartbeats the broker has the messages from the first one on,    *)
(* without a gap: once publishing has failed it never works again.          *)
NoGap ==
    c.hb = 0 => \A i \in 1..Len(br.rcvd) : br.rcvd[i] = i

(* Without heartbeats a channel and a connection closed in order mean that  *)
(* the broker took every message: the answer to channel.close cannot pass   *)
(* a refusal, and nothing but that answer counts.                           *)
CloseConfirms ==
    c.hb = 0 /\ c.rc = "ok" /\ c.conns > 0 =>
        Len(br.rcvd) = c.msg /\ ~br.refused

(* Calls without a deadline on a connection without heartbeats. *)
Unbounded == c.hb = 0 /\ c.at \in {"chan", "publish", "chan_close", "conn_close"}

(* A broker that falls silent is noticed: the login timeout or the missing  *)
(* heartbeat ends every call, except those without a deadline on a          *)
(* connection without heartbeats.                                           *)
SilenceEnds ==
    <>[][~BrokerStep]_vars => []<>(c.at \in Rests \/ Unbounded)

(* With a broker that keeps reading, every call of mq-notify.c returns. *)
CallsEnd == WF_vars(BrokerReads) => []<>(c.at \in Rests)
=============================================================================

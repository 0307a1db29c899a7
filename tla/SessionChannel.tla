--------------------------- MODULE SessionChannel ---------------------------
(***************************************************************************)
(* The session channel between an SFTP client and the program sshd starts  *)
(* for it: the per-session sshd process (server_loop2), its channel        *)
(* (channels.c, nchan.c) and session (session.c), the child behind three   *)
(* pipes, and the client behind the connection.                            *)
(*                                                                         *)
(* A function of the C code that works on the memory of sshd is an         *)
(* operator from the record s to the record after the call.  Bytes are     *)
(* counted, a message is a pair of its type and a count.                   *)
(***************************************************************************)
EXTENDS Integers, Sequences, FiniteSets

CONSTANTS WindowMax,    \* CHAN_SES_WINDOW_DEFAULT
          MaxPacket,    \* local_maxpacket, also the client's
          ClientWindow, \* the window the client grants
          InPipe, OutPipe,  \* what a pipe to the child, or from it, holds
          CHAN_RBUF,    \* what one read() from the child returns at most
          SockSize,     \* what the socket to the client holds
          MuchData,     \* packet_not_very_much_data_to_write: fewer packets than this
          MaxBytes,     \* bound on the bytes that client and child write
          SSH_NEW_OPENSSH   \* does the client know eow@openssh.com?

ASSUME SizeAssumption ==
    /\ WindowMax \in Nat /\ WindowMax >= 2 /\ MaxPacket \in Nat \ {0}
    /\ ClientWindow \in Nat \ {0} /\ InPipe \in Nat \ {0} /\ OutPipe \in Nat \ {0}
    /\ CHAN_RBUF \in Nat \ {0} /\ SockSize \in Nat \ {0} /\ MuchData \in Nat \ {0}
    /\ MaxBytes \in Nat
    /\ SSH_NEW_OPENSSH \in BOOLEAN

VARIABLES pc, rset, wset,     \* the loop, and what select() was asked or returned
          incoming,           \* packets read, not dispatched
          s,                  \* channel, session and packets to write
          child_terminated,   \* set by the SIGCHLD handler
          pipe,               \* bytes in the pipes to and from the child
          child,
          toServer, toClient, \* the connection
          client

loop == <<pc, rset, wset, incoming>>
vars == <<loop, s, child_terminated, pipe, child, toServer, toClient, client>>

Budget == MaxBytes - (client.sent + child.wrote + child.errs)

Lesser(m, n) == IF m < n THEN m ELSE n

NoChannel ==
    [type |-> "none", istate |-> "closed", ostate |-> "closed", flags |-> {},
     input |-> 0, output |-> 0, extended |-> 0, usage |-> "ignore",
     local_window |-> 0, local_consumed |-> 0, remote_window |-> 0,
     rfd |-> FALSE, wfd |-> FALSE, efd |-> FALSE,
     detach_user |-> FALSE, detach_close |-> FALSE]

(* A larval channel, with the callback session_close_by_channel. *)
channel_new(window) ==
    [NoChannel EXCEPT !.type = "larval", !.istate = "open", !.ostate = "open",
                      !.remote_window = window, !.detach_user = TRUE]

Init ==
    /\ pc = "dispatch" /\ rset = {} /\ wset = {} /\ incoming = << >>
    /\ s = [c |-> NoChannel, used |-> FALSE, pid |-> FALSE, over |-> FALSE, out |-> << >>]
    /\ child_terminated = FALSE
    /\ pipe = [in |-> 0, out |-> 0, err |-> 0]
    /\ child = [state |-> "none", stdin |-> FALSE, got |-> 0, wrote |-> 0, errs |-> 0]
    /\ toServer = << >> /\ toClient = << >>
    /\ client = [stage |-> "new", kind |-> "none", win |-> 0, sent |-> 0, eof |-> FALSE, close |-> FALSE,
                 got |-> 0, errs |-> 0, seen |-> {}, early |-> FALSE]

-----------------------------------------------------------------------------
(* nchan.c: the states of the two directions of a channel.  An operator    *)
(* named after a function with a suffix is a slip that function might      *)
(* have: the properties below tell it from the real one.                   *)

(* ssh_packet_disconnect and fatal(). *)
Disconnect(t) == [t EXCEPT !.over = TRUE]

Send(t, m, n) == [t EXCEPT !.out = Append(@, <<m, n>>)]
Has(t, f) == f \in t.c.flags
Flag(t, f) == [t EXCEPT !.c.flags = @ \cup {f}]

chan_shutdown_write(t) ==
    [t EXCEPT !.c.output = 0, !.c.wfd = IF t.c.type = "larval" THEN @ ELSE FALSE]

chan_shutdown_read(t) == [t EXCEPT !.c.rfd = IF t.c.type = "larval" THEN @ ELSE FALSE]

chan_send_eof2(t) == Flag(Send(t, "EOF", 0), "eof_sent")

chan_send_close2(t) == Flag(Send(t, "CLOSE", 0), "close_sent")

chan_send_eow2(t) == IF SSH_NEW_OPENSSH THEN Send(t, "EOW", 0) ELSE t

chan_read_failed(t) ==
    IF t.c.istate = "open"
    THEN [chan_shutdown_read(t) EXCEPT !.c.istate = "drain"]
    ELSE t

chan_ibuf_empty(t) ==
    LET told == IF Has(t, "close_sent") THEN t ELSE chan_send_eof2(t)
    IN  IF t.c.istate = "drain" THEN [told EXCEPT !.c.istate = "closed"] ELSE t

chan_obuf_empty(t) ==
    IF t.c.ostate = "drain"
    THEN [chan_shutdown_write(t) EXCEPT !.c.ostate = "closed"]
    ELSE t

chan_write_failed(t) ==
    IF t.c.ostate \in {"open", "drain"}
    THEN [chan_send_eow2(chan_shutdown_write(t)) EXCEPT !.c.ostate = "closed"]
    ELSE t

(* The output side drains; it is done at once when nothing is buffered. *)
Drain(t) == IF t.c.ostate = "open" THEN [t EXCEPT !.c.ostate = "drain"] ELSE t

chan_rcvd_ieof(t) ==
    LET d == Drain(Flag(t, "eof_rcvd"))
    IN  IF d.c.output = 0 THEN chan_obuf_empty(d) ELSE d

(* Slip: a CLOSE is taken for the end of both directions. *)
chan_rcvd_oclose_NoDrain(t) ==
    LET f == Flag(t, "close_rcvd")
    IN  [chan_shutdown_read(chan_shutdown_write(f)) EXCEPT
            !.c.ostate = "closed", !.c.istate = "closed"]

(* What is buffered for the child is still written, what comes from it is  *)
(* no longer read.                                                         *)
chan_rcvd_oclose(t) ==
    LET f == Flag(t, "close_rcvd")
        d == Drain(f)
    IN  IF t.c.type = "larval"
        THEN [f EXCEPT !.c.ostate = "closed", !.c.istate = "closed"]
        ELSE CASE d.c.istate = "open" -> [chan_shutdown_read(d) EXCEPT !.c.istate = "closed"]
               [] d.c.istate = "drain" -> [chan_send_eof2(d) EXCEPT !.c.istate = "closed"]
               [] OTHER -> d

(* chan_is_dead in two parts: the CLOSE it may send, and its result.  With *)
(* do_send off a channel counts as dead when only our CLOSE is missing.    *)
BothClosed(t) == t.c.istate = "closed" /\ t.c.ostate = "closed"

(* Slip: CLOSE is sent whether or not the session is ready for it. *)
chan_is_dead_sends_Always(t, do_send) ==
    IF BothClosed(t) /\ ~Has(t, "close_sent") THEN chan_send_close2(t) ELSE t

chan_is_dead_sends(t, do_send) ==
    IF BothClosed(t) /\ do_send /\ ~Has(t, "close_sent") THEN chan_send_close2(t) ELSE t

chan_is_dead(t, do_send) ==
    /\ BothClosed(t)
    /\ Has(t, "close_rcvd")
    /\ do_send => Has(chan_is_dead_sends(t, do_send), "close_sent")

-----------------------------------------------------------------------------
(* session.c: what ties the channel to the child. *)

(* Slip: the channel is let go although its child still runs. *)
session_close_by_channel_Early(t) ==
    [t EXCEPT !.c.detach_user = FALSE, !.c.detach_close = FALSE, !.used = t.pid]

(* The channel died; the session stays until its child is collected. *)
session_close_by_channel(t) ==
    IF t.pid THEN t
    ELSE [t EXCEPT !.c.detach_user = FALSE, !.c.detach_close = FALSE, !.used = FALSE]

(* Slip: reading from the child ends with it. *)
session_exit_message_StopsReading(t) ==
    chan_read_failed(chan_write_failed(
        [Send(t, "STATUS", 0) EXCEPT !.c.detach_user = TRUE, !.c.detach_close = TRUE]))

(* From here on the channel may send CLOSE; nobody reads the input of the  *)
(* child any more, but its output may still wait in the pipe.              *)
session_exit_message(t) ==
    IF t.c.type = "none" THEN Disconnect(t) ELSE
    chan_write_failed(
        [Send(t, "STATUS", 0) EXCEPT !.c.detach_user = TRUE, !.c.detach_close = TRUE])

session_close_by_pid(t) ==
    [IF t.used THEN session_exit_message(t) ELSE t EXCEPT !.pid = FALSE]

-----------------------------------------------------------------------------
(* channels.c: buffers, windows and the life of a channel. *)

channel_free(t) == [t EXCEPT !.c = NoChannel]

Reap(t) ==
    LET closing == chan_is_dead_sends(t, TRUE)
    IN  IF chan_is_dead(t, TRUE) THEN channel_free(closing) ELSE closing

channel_garbage_collect(t) ==
    LET closing == chan_is_dead_sends(t, t.c.detach_close)
        told == session_close_by_channel(closing)
    IN  IF t.c.type = "none" THEN t
        ELSE IF ~t.c.detach_user THEN Reap(t)
        ELSE IF ~chan_is_dead(t, t.c.detach_close) THEN closing
        ELSE IF told.c.detach_user THEN told
        ELSE Reap(told)

CHANNEL_EFD_INPUT_ACTIVE(t) == t.c.usage = "read" /\ (t.c.efd \/ t.c.extended > 0)

channel_output_poll_input_open(t) ==
    LET n == Lesser(t.c.input, Lesser(t.c.remote_window, MaxPacket))
    IN  IF t.c.input = 0
        THEN IF t.c.istate = "drain" /\ ~CHANNEL_EFD_INPUT_ACTIVE(t)
             THEN chan_ibuf_empty(t) ELSE t
        ELSE IF n = 0 THEN t
        ELSE [Send(t, "DATA", n) EXCEPT !.c.input = @ - n, !.c.remote_window = @ - n]

channel_output_poll_extended_read(t) ==
    LET n == Lesser(t.c.extended, Lesser(t.c.remote_window, MaxPacket))
    IN  IF n = 0 THEN t
        ELSE [Send(t, "EXT", n) EXCEPT !.c.extended = @ - n, !.c.remote_window = @ - n]

channel_output_poll(t) ==
    LET a == IF t.c.istate \in {"open", "drain"} THEN channel_output_poll_input_open(t) ELSE t
    IN  IF t.c.type # "open" \/ Has(t, "close_sent") \/ Has(t, "close_rcvd") THEN t
        ELSE IF ~Has(a, "eof_sent") /\ t.c.usage = "read" THEN channel_output_poll_extended_read(a)
        ELSE a

(* What channel_pre_open asks select() for, and what it does by itself. *)
PreRead(t) ==
    {fd \in {"rfd"} : t.c.istate = "open" /\ t.c.input < t.c.remote_window}
    \cup {fd \in {"efd"} : t.c.efd /\ ~BothClosed(t) /\ ~Has(t, "eof_sent")
                           /\ t.c.extended < t.c.remote_window}
PreWrite(t) == {fd \in {"wfd"} : t.c.ostate \in {"open", "drain"} /\ t.c.output > 0}

(* Slip: the end of the output buffer is only noticed when EOF arrives. *)
channel_pre_open_Waits(t) == t

channel_pre_open(t) ==
    IF t.c.ostate = "drain" /\ t.c.output = 0 THEN chan_obuf_empty(t) ELSE t

(* The descriptors that select() found ready are used one after the other, *)
(* each read at most once.                                                 *)
channel_handle_rfd(t) ==
    IF ~t.c.rfd \/ "rfd" \notin rset THEN t
    ELSE IF pipe.out > 0 THEN [t EXCEPT !.c.input = @ + Lesser(pipe.out, CHAN_RBUF)]
    ELSE IF child.state # "running" THEN chan_read_failed(t)
    ELSE t

(* Slip: bytes written to the child are not counted. *)
channel_handle_wfd_Uncounted(t) ==
    LET n == Lesser(t.c.output, InPipe - pipe.in)
    IN  IF ~t.c.wfd \/ "wfd" \notin wset \/ t.c.output = 0 THEN t
        ELSE IF child.stdin THEN [t EXCEPT !.c.output = @ - n]
        ELSE chan_write_failed(t)

channel_handle_wfd(t) ==
    LET n == Lesser(t.c.output, InPipe - pipe.in)
    IN  IF ~t.c.wfd \/ "wfd" \notin wset \/ t.c.output = 0 THEN t
        ELSE IF child.stdin THEN [t EXCEPT !.c.output = @ - n, !.c.local_consumed = @ + n]
        ELSE chan_write_failed(t)

(* The window does not matter once the child is gone (detach_close): the   *)
(* rest of stderr is read, and then the descriptor is closed.              *)
channel_handle_efd_read(t) ==
    IF ~t.c.efd \/ ("efd" \notin rset /\ ~t.c.detach_close) THEN t
    ELSE IF pipe.err > 0
         THEN [t EXCEPT !.c.extended =
                   IF t.c.usage = "ignore" THEN @ ELSE @ + Lesser(pipe.err, CHAN_RBUF)]
    ELSE IF child.state # "running" \/ t.c.detach_close THEN [t EXCEPT !.c.efd = FALSE]
    ELSE t

channel_check_window(t) ==
    IF /\ ~Has(t, "close_sent") /\ ~Has(t, "close_rcvd")
       /\ \/ WindowMax - t.c.local_window > MaxPacket * 3
          \/ t.c.local_window < WindowMax \div 2
       /\ t.c.local_consumed > 0
    THEN [Send(t, "ADJUST", t.c.local_consumed) EXCEPT
             !.c.local_window = @ + t.c.local_consumed, !.c.local_consumed = 0]
    ELSE t

-----------------------------------------------------------------------------
(* Packets from the client.  For a channel that does not exist the         *)
(* connection is ended, but for a window adjustment.                       *)

server_input_channel_open(t, window) ==
    Send([t EXCEPT !.c = channel_new(window), !.used = TRUE], "CONFIRM", 0)

(* The channel is open and the window of the client as large as it gets. *)
channel_set_fds(t, usage) ==
    Send([t EXCEPT !.c.type = "open", !.c.usage = usage, !.c.local_window = WindowMax,
                   !.c.rfd = TRUE, !.c.wfd = TRUE, !.c.efd = TRUE],
         "ADJUST", WindowMax)

do_exec_no_pty(t, usage) == channel_set_fds([t EXCEPT !.pid = TRUE], usage)

(* The child is started (ok), or it cannot be.  A subsystem ignores its    *)
(* stderr, a command does not.                                             *)
server_input_channel_req(t, usage, ok) ==
    IF ok THEN Send(do_exec_no_pty(t, usage), "SUCCESS", 0) ELSE Send(t, "FAILURE", 0)

channel_input_data(t, n) ==
    IF t.c.type # "open" THEN t
    ELSE IF t.c.ostate # "open"
         THEN [t EXCEPT !.c.local_window = @ - n, !.c.local_consumed = @ + n]
    ELSE IF n > MaxPacket \/ n > t.c.local_window THEN t
    ELSE [t EXCEPT !.c.local_window = @ - n, !.c.output = @ + n]

channel_input_window_adjust(t, n) ==
    IF t.c.type = "none" THEN t ELSE [t EXCEPT !.c.remote_window = @ + n]

(* One packet; one for a channel that does not exist ends the connection. *)
dispatch(t, packet, ok) ==
    LET m == packet[1]
        n == packet[2]
    IN  CASE m = "OPEN" -> server_input_channel_open(t, n)
          [] m = "ADJUST" -> channel_input_window_adjust(t, n)
          [] t.c.type = "none" /\ m \notin {"OPEN", "ADJUST"} -> Disconnect(t)
          [] t.c.type # "none" /\ m = "exec" -> server_input_channel_req(t, "read", ok)
          [] t.c.type # "none" /\ m = "subsystem" -> server_input_channel_req(t, "ignore", ok)
          [] t.c.type # "none" /\ m = "DATA" -> channel_input_data(t, n)
          [] t.c.type # "none" /\ m = "EOF" -> chan_rcvd_ieof(t)
          [] t.c.type # "none" /\ m = "CLOSE" -> chan_rcvd_oclose(t)

(* The session of a child that has died, and the child itself. *)
Dead == child_terminated /\ child.state = "zombie"
collect_children(t) == IF Dead THEN session_close_by_pid(t) ELSE t
Collected == /\ child' = IF Dead THEN [child EXCEPT !.state = "reaped"] ELSE child
             /\ child_terminated' = FALSE

(* Channels and sessions are freed, which closes the pipes to the child. *)
Exit(t) == /\ pc' = "exit" /\ rset' = {} /\ wset' = {} /\ incoming' = << >>
           /\ s' = [collect_children(t) EXCEPT !.c = NoChannel, !.used = FALSE,
                                               !.pid = FALSE, !.out = << >>]
           /\ Collected

(* process_buffered_input_packets, a packet at a time. *)
Dispatch(ok) ==
    /\ pc = "dispatch" /\ incoming # << >>
    /\ s' = dispatch(s, Head(incoming), ok)
    /\ incoming' = Tail(incoming)
    /\ child' = IF s'.pid /\ ~s.pid
                THEN [child EXCEPT !.state = "running", !.stdin = TRUE] ELSE child
    /\ UNCHANGED <<pc, rset, wset, child_terminated, pipe, toServer, toClient, client>>

(* channel_output_poll and the first half of wait_until_can_do_something. *)
Prepare ==
    LET polled == IF Len(s.out) < MuchData THEN channel_output_poll(s) ELSE s
        opened == polled.c.type = "open"
    IN  /\ pc = "dispatch" /\ incoming = << >>
        /\ s' = channel_garbage_collect(IF opened THEN channel_pre_open(polled) ELSE polled)
        /\ rset' = {"conn"} \cup IF opened THEN PreRead(polled) ELSE {}
        /\ wset' = {fd \in {"conn"} : s'.out # << >>} \cup IF opened THEN PreWrite(polled) ELSE {}
        /\ pc' = "select"
        /\ UNCHANGED <<incoming, child_terminated, pipe, child, toServer, toClient, client>>

ReadReady ==
    {fd \in rset : CASE fd = "conn" -> toServer # << >> \/ client.stage = "gone"
                     [] fd = "rfd" -> pipe.out > 0 \/ child.state # "running"
                     [] fd = "efd" -> pipe.err > 0 \/ child.state # "running"}
WriteReady ==
    {fd \in wset : CASE fd = "conn" -> Len(toClient) < SockSize \/ client.stage = "gone"
                     [] fd = "wfd" -> pipe.in < InPipe \/ ~child.stdin}

(* SIGCHLD writes to a pipe that select() waits for.  collect_children     *)
(* comes next and may close what select() has just found ready.            *)
Select ==
    /\ pc = "select"
    /\ ReadReady # {} \/ WriteReady # {} \/ child_terminated
    /\ rset' = ReadReady /\ wset' = WriteReady
    /\ s' = collect_children(s) /\ Collected
    /\ pc' = "post"
    /\ UNCHANGED <<incoming, pipe, toServer, toClient, client>>

(* channel_after_select, process_input and process_output.  At end of file *)
(* the loop is left and everything is freed.                               *)
AfterSelect ==
    LET r == channel_handle_rfd(s)
        w == channel_handle_wfd(r)
        e == channel_handle_efd_read(w)
        after == channel_garbage_collect(
                     IF s.c.type = "open" THEN channel_check_window(e) ELSE s)
        gone == client.stage = "gone"
        n == IF "conn" \notin wset THEN 0
             ELSE IF gone THEN Len(after.out)
             ELSE Lesser(Len(after.out), SockSize - Len(toClient))
    IN  /\ pc = "post"
        /\ pipe' = IF s.c.type # "open" THEN pipe
                   ELSE [in |-> IF w.c.wfd THEN pipe.in + r.c.output - w.c.output ELSE pipe.in,
                         out |-> pipe.out + s.c.input - r.c.input,
                         err |-> IF s.c.efd /\ ("efd" \in rset \/ s.c.detach_close)
                                 THEN pipe.err - Lesser(pipe.err, CHAN_RBUF) ELSE pipe.err]
        /\ IF "conn" \in rset /\ toServer = << >>
           THEN Exit(after) /\ UNCHANGED <<toServer, toClient>>
           ELSE /\ pc' = "dispatch" /\ rset' = {} /\ wset' = {}
                /\ incoming' = IF "conn" \in rset THEN toServer ELSE << >>
                /\ toServer' = IF "conn" \in rset THEN << >> ELSE toServer
                /\ toClient' = IF gone THEN << >> ELSE toClient \o SubSeq(after.out, 1, n)
                /\ s' = [after EXCEPT !.out = SubSeq(@, n + 1, Len(@))]
                /\ UNCHANGED <<child_terminated, child>>
        /\ UNCHANGED client

Server == (\E ok \in BOOLEAN : Dispatch(ok)) \/ Prepare \/ Select \/ AfterSelect

-----------------------------------------------------------------------------
(* The child: it reads its input, writes, may close its input early, and   *)
(* may end at any time.                                                    *)

ChildRead ==
    /\ child.state = "running" /\ child.stdin /\ pipe.in > 0
    /\ pipe' = [pipe EXCEPT !.in = @ - 1]
    /\ child' = [child EXCEPT !.got = @ + 1]
    /\ UNCHANGED <<loop, s, child_terminated, toServer, toClient, client>>

ChildWrite ==
    /\ child.state = "running" /\ Budget > 0 /\ pipe.out < OutPipe /\ s.c.rfd
    /\ pipe' = [pipe EXCEPT !.out = @ + 1]
    /\ child' = [child EXCEPT !.wrote = @ + 1]
    /\ UNCHANGED <<loop, s, child_terminated, toServer, toClient, client>>

ChildError ==
    /\ child.state = "running" /\ Budget > 0 /\ pipe.err < OutPipe /\ s.c.efd
    /\ pipe' = [pipe EXCEPT !.err = @ + 1]
    /\ child' = [child EXCEPT !.errs = @ + 1]
    /\ UNCHANGED <<loop, s, child_terminated, toServer, toClient, client>>

ChildClosesStdin ==
    /\ child.state = "running" /\ child.stdin
    /\ pipe' = [pipe EXCEPT !.in = 0]
    /\ child' = [child EXCEPT !.stdin = FALSE]
    /\ UNCHANGED <<loop, s, child_terminated, toServer, toClient, client>>

ChildExit ==
    /\ child.state = "running"
    /\ child' = [child EXCEPT !.state = "zombie", !.stdin = FALSE]
    /\ pipe' = [pipe EXCEPT !.in = 0]
    /\ child_terminated' = (pc # "exit")
    /\ UNCHANGED <<loop, s, toServer, toClient, client>>

(* A program that has closed its input, or finds its end, comes to an end. *)
ChildDone == ChildExit /\ (~child.stdin \/ (pipe.in = 0 /\ ~s.c.wfd))

Child == ChildRead \/ ChildWrite \/ ChildError \/ ChildClosesStdin \/ ChildExit

-----------------------------------------------------------------------------
(* The client keeps to RFC 4254: it sends no more than its window, nothing *)
(* after its CLOSE, no data after its EOF, and answers CLOSE with CLOSE.   *)
(* It waits for the answer to its request before it sends EOF.             *)

ClientSends(m, n) == toServer' = Append(toServer, <<m, n>>)
ClientOnly == UNCHANGED <<loop, s, child_terminated, pipe, child, toClient>>

ClientOpens ==
    /\ client.stage = "new"
    /\ client' = [client EXCEPT !.stage = "opening"]
    /\ ClientSends("OPEN", ClientWindow) /\ ClientOnly

ClientRequests(kind) ==
    /\ client.stage = "larval" /\ ~client.close
    /\ client' = [client EXCEPT !.stage = "waiting", !.kind = kind]
    /\ ClientSends(kind, 0) /\ ClientOnly

ClientData(n) ==
    /\ client.stage = "running" /\ ~client.eof /\ ~client.close /\ "EOW" \notin client.seen
    /\ n \in 1 .. Lesser(MaxPacket, Lesser(client.win, Budget))
    /\ client' = [client EXCEPT !.win = @ - n, !.sent = @ + n]
    /\ ClientSends("DATA", n) /\ ClientOnly

ClientEof ==
    /\ client.stage = "running" /\ ~client.eof /\ ~client.close
    /\ client' = [client EXCEPT !.eof = TRUE]
    /\ ClientSends("EOF", 0) /\ ClientOnly

ClientClose ==
    /\ client.stage \in {"larval", "waiting", "running", "refused"} /\ ~client.close
    /\ client' = [client EXCEPT !.close = TRUE, !.early = "CLOSE" \notin client.seen]
    /\ ClientSends("CLOSE", 0) /\ ClientOnly

(* The connection is lost, or the client ends; sshd notices in select().   *)
ClientLeaves ==
    /\ client.stage # "gone" /\ pc = "select"
    /\ client' = [client EXCEPT !.stage = "gone"]
    /\ toClient' = << >>
    /\ UNCHANGED <<loop, s, child_terminated, pipe, child, toServer>>

(* Data is consumed at once and the window given back. *)
ClientReceives ==
    /\ toClient # << >> /\ client.stage # "gone"
    /\ toClient' = Tail(toClient)
    /\ LET m == Head(toClient)[1]
           n == Head(toClient)[2]
       IN  /\ client' = CASE m = "CONFIRM" -> [client EXCEPT !.stage = "larval"]
                          [] m = "SUCCESS" -> [client EXCEPT !.stage = "running"]
                          [] m = "FAILURE" -> [client EXCEPT !.stage = "refused"]
                          [] m = "ADJUST" -> [client EXCEPT !.win = @ + n]
                          [] m = "DATA" -> [client EXCEPT !.got = @ + n]
                          [] m = "EXT" -> [client EXCEPT !.errs = @ + n]
                          [] OTHER -> [client EXCEPT !.seen = @ \cup {m}]
           /\ IF m \in {"DATA", "EXT"} /\ ~client.close
              THEN ClientSends("ADJUST", n) ELSE UNCHANGED toServer
    /\ UNCHANGED <<loop, s, child_terminated, pipe, child>>

Client == \/ ClientOpens \/ ClientEof \/ ClientClose \/ ClientLeaves \/ ClientReceives
          \/ \E kind \in {"exec", "subsystem"} : ClientRequests(kind)
          \/ \E n \in 1 .. MaxPacket : ClientData(n)

Next == Server \/ Child \/ Client

Spec == Init /\ [][Next]_vars

(* select() wakes sshd when there is something to do, the child reads what *)
(* is there and ends at end of file, and the client, while it is connected *)
(* and has not the last word, reads its socket and answers CLOSE.          *)
FairSpec == /\ Spec
            /\ WF_vars(Server)
            /\ WF_vars(ChildRead) /\ WF_vars(ChildDone)
            /\ WF_vars(ClientReceives)
            /\ WF_vars(ClientClose /\ ("CLOSE" \in client.seen \/ client.stage = "refused"))

-----------------------------------------------------------------------------
(* The bytes that the messages of type m in q carry, or the window they    *)
(* grant: one element of the set for each.                                 *)
Units(q, m) == UNION {{i} \X (1 .. q[i][2]) : i \in {j \in 1 .. Len(q) : q[j][1] = m}}
Bytes(q, m) == Cardinality(Units(q, m))

TypeOK ==
    /\ pc \in {"dispatch", "select", "post", "exit"}
    /\ rset \subseteq {"conn", "rfd", "efd"} /\ wset \subseteq {"conn", "wfd"}
    /\ s.c.type \in {"none", "larval", "open"}
    /\ s.c.istate \in {"open", "drain", "closed"} /\ s.c.ostate \in {"open", "drain", "closed"}
    /\ s.c.local_window \in 0 .. WindowMax /\ s.c.local_consumed \in 0 .. WindowMax
    /\ s.c.remote_window \in 0 .. ClientWindow
    /\ s.c.input \in Nat /\ s.c.output \in Nat /\ s.c.extended \in Nat
    /\ Len(toClient) <= SockSize
    /\ pipe.in \in 0 .. InPipe /\ pipe.out \in 0 .. OutPipe /\ pipe.err \in 0 .. OutPipe

Pending == toClient \o s.out

(* What RFC 4254 asks of the sender, over both state machines of nchan.c,  *)
(* the exit message, window adjustments and stderr: no data after EOF,     *)
(* nothing at all after CLOSE, and each of them, and the exit status, once.*)
WireDiscipline ==
    LET At(m, i) == Pending[i][1] = m
        Before(m, i) == m \in client.seen \/ \E j \in 1 .. i - 1 : At(m, j)
    IN  pc # "exit" => \A i \in 1 .. Len(Pending) :
            /\ ~Before("CLOSE", i)
            /\ Pending[i][1] \in {"DATA", "EXT", "EOF"} => ~Before("EOF", i)
            /\ At("STATUS", i) => ~Before("STATUS", i)

(* The two ends agree about both windows, so neither can overrun the other *)
(* nor wait for room that is there; all of the window is either granted or *)
(* accounted for by bytes that the child has not taken.  No buffer, window *)
(* or pipe leaves its bounds.                                              *)
WindowsAgree ==
    LET Sent(m) == Bytes(incoming, m) + Bytes(toServer, m)
    IN  TypeOK /\ (s.c.type = "open" /\ client.stage # "gone" =>
            /\ client.win + Sent("DATA") + Bytes(Pending, "ADJUST") = s.c.local_window
            /\ ~client.close =>
                 s.c.remote_window + Sent("ADJUST") + Bytes(Pending, "DATA")
                     + Bytes(Pending, "EXT") = ClientWindow
            /\ s.c.ostate # "closed" =>
                 s.c.local_window + s.c.local_consumed + s.c.output = WindowMax)

(* A child whose input ends has been given every byte the client sent,     *)
(* although EOF or CLOSE may arrive while the pipe is full.                *)
InputComplete ==
    child.state = "running" /\ child.stdin /\ ~s.c.wfd /\ pc # "exit"
        => child.got + pipe.in = client.sent

(* A client that is sent CLOSE before it sends its own has everything the  *)
(* child wrote and its exit status: the child's death overtakes nothing    *)
(* that is still in the pipes, the buffers or held back by the window.     *)
OutputComplete ==
    "CLOSE" \in client.seen /\ ~client.early =>
        /\ client.got = child.wrote
        /\ client.kind = "exec" => client.errs = child.errs
        /\ {"EOF", "STATUS"} \subseteq client.seen

(* A client that keeps to the protocol is never disconnected: no packet is *)
(* for a channel that is already freed, and no child dies after a channel  *)
(* that session_exit_message still needs.                                  *)
NeverDisconnected == ~s.over

(* Whatever ends first, the transfer, the channel, the child or the        *)
(* connection, the child ends and channel and session are released.        *)
SessionEnds ==
    client.eof \/ client.close \/ client.stage = "gone" \/ child.state = "zombie"
        ~> ~s.used /\ s.c.type = "none" /\ child.state # "running"
=============================================================================

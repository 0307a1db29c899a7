------------------------------ MODULE SftpLoop ------------------------------
(***************************************************************************)
(* The main loop of sftp-server: one turn computes what to select() for,   *)
(* reads at most one buffer of input, writes the output queue and          *)
(* processes at most one request.  What a request does is the business of  *)
(* Inbox and HandleTable; here it has a size and an answer.                *)
(*                                                                         *)
(* Lengths are counted in units of the model, and a unit is a pair: the    *)
(* number of a message and the position in it.  The first unit of a        *)
(* request is its header: length and type.                                 *)
(***************************************************************************)
EXTENDS Integers, Sequences

CONSTANTS Requests,     \* kinds and sizes of requests the client sends; kinds:
                        \*   init, known, unknown (no such type), toolong
                        \*   (its length is), short (its content is longer)
          Answers,      \* lengths of answers
          SFTP_MAX_MSG_LENGTH,
          BufSize,      \* sizeof buf: what one read() takes
          MaxSize,      \* SSHBUF_SIZE_MAX: what a queue may hold
          PipeSize,     \* what the socket to or from the client holds
          MaxReqs       \* bound on the requests of the client

Kinds == {"init", "known", "unknown", "toolong", "short"}

(* SSHBUF_SIZE_MAX is 128 MB, the longest message 256 KB, buf 16 KB. *)
ASSUME SizesAssumption ==
    /\ BufSize \in Nat \ {0} /\ PipeSize \in Nat \ {0} /\ MaxSize \in Nat
    /\ SFTP_MAX_MSG_LENGTH \in Nat
    /\ Requests \subseteq [kind : Kinds, size : 1 .. SFTP_MAX_MSG_LENGTH]
    /\ Answers \subseteq 1 .. SFTP_MAX_MSG_LENGTH
    /\ SFTP_MAX_MSG_LENGTH + BufSize <= MaxSize

VARIABLES pc, rset, wset,   \* where the loop is, and what select() returned
          olen,             \* how much this turn's write() has still to write
          iqueue, oqueue,   \* the two sshbufs, sequences of units
          init_done,
          done,             \* number of requests processed
          reqs,             \* the requests sent so far
          cbuf,             \* what the client has not yet written of the last
          inpipe, outpipe,  \* units on their way
          closed,           \* has the client closed its side?
          replies           \* history: the requests answered, as the client sees it

server == <<pc, rset, wset, olen, iqueue, oqueue, init_done, done>>
client == <<reqs, cbuf, closed, replies>>
pipes == <<inpipe, outpipe>>
vars == <<server, client, pipes>>

Units(k, n) == [j \in 1 .. n |-> <<k, j>>]
Upto(q, n) == SubSeq(q, 1, n)
After(q, n) == SubSeq(q, n + 1, Len(q))

sshbuf_check_reserve(q, n) == Len(q) + n <= MaxSize

Init ==
    /\ pc = "select" /\ rset = FALSE /\ wset = FALSE /\ olen = 0
    /\ iqueue = << >> /\ oqueue = << >>
    /\ init_done = FALSE /\ done = 0
    /\ reqs = << >> /\ cbuf = << >> /\ closed = FALSE /\ replies = << >>
    /\ inpipe = << >> /\ outpipe = << >>

-----------------------------------------------------------------------------
(* The client, at the other end of sshd, which closes the channel when the *)
(* server exits.                                                           *)

Fatal == {"toolong", "short"}     \* requests that end the session

(* What follows a fatal request is never processed and is left out. *)
Send(r) ==
    /\ Len(reqs) < MaxReqs /\ ~closed /\ cbuf = << >> /\ pc # "exit"
    /\ \A k \in 1 .. Len(reqs) : reqs[k].kind \notin Fatal
    /\ reqs' = Append(reqs, r)
    /\ cbuf' = Units(Len(reqs) + 1, r.size)
    /\ UNCHANGED <<server, closed, replies, pipes>>

Transmit(n) ==
    /\ n \in 1 .. Len(cbuf) /\ Len(inpipe) + n <= PipeSize /\ pc # "exit"
    /\ inpipe' = inpipe \o Upto(cbuf, n)
    /\ cbuf' = After(cbuf, n)
    /\ UNCHANGED <<server, reqs, closed, replies, outpipe>>

Elements(q) == {q[i] : i \in 1 .. Len(q)}
Expected == {k \in 1 .. Len(reqs) : reqs[k].kind \in {"init", "known"}}

(* The client takes a unit; a request is answered with its last one, which *)
(* has position 0.                                                         *)
TakeReply ==
    /\ outpipe # << >> /\ ~closed
    /\ outpipe' = Tail(outpipe)
    /\ replies' = IF outpipe[1][2] = 0 THEN Append(replies, outpipe[1][1]) ELSE replies
    /\ UNCHANGED <<server, reqs, cbuf, closed, inpipe>>

(* The client leaves; of what it has not written the first n units arrive. *)
Close(n) ==
    /\ ~closed /\ pc # "exit"
    /\ n \in 0 .. Len(cbuf)
    /\ closed' = TRUE
    /\ cbuf' = Upto(cbuf, n)
    /\ UNCHANGED <<server, reqs, replies, pipes>>

-----------------------------------------------------------------------------
(* The server. *)

(* sftp_server_cleanup_exit or fatal: what is still queued is dropped. *)
Exit == pc' = "exit" /\ UNCHANGED <<rset, wset, olen, iqueue, oqueue, init_done, done>>

(* Slip: room for the input is not checked. *)
Readable_NoReserve == sshbuf_check_reserve(oqueue, SFTP_MAX_MSG_LENGTH)

(* Is there room to read, and for the worst answer to what is read? *)
Readable ==
    /\ sshbuf_check_reserve(iqueue, BufSize)
    /\ sshbuf_check_reserve(oqueue, SFTP_MAX_MSG_LENGTH)

Select ==
    LET r == Readable /\ (inpipe # << >> \/ (closed /\ cbuf = << >>))
        w == oqueue # << >> /\ (Len(outpipe) < PipeSize \/ closed)
    IN  /\ pc = "select"
        /\ r \/ w
        /\ rset' = r /\ wset' = w
        /\ olen' = Len(oqueue)
        /\ pc' = IF r THEN "read" ELSE "write"
        /\ UNCHANGED <<iqueue, oqueue, init_done, done, client, pipes>>

Read ==
    /\ pc = "read"
    /\ IF inpipe = << >>
       THEN Exit /\ UNCHANGED inpipe
       ELSE LET n == IF Len(inpipe) < BufSize THEN Len(inpipe) ELSE BufSize
            IN  /\ iqueue' = iqueue \o Upto(inpipe, n)
                /\ inpipe' = After(inpipe, n)
                /\ pc' = IF wset THEN "write" ELSE "process"
                /\ UNCHANGED <<rset, wset, olen, oqueue, init_done, done>>
    /\ UNCHANGED <<client, outpipe>>

(* Slip: all of the queue is consumed, whatever write() has written. *)
Write_DropsRest(n) ==
    /\ pc = "write"
    /\ n \in 1 .. olen /\ Len(outpipe) + n <= PipeSize
    /\ outpipe' = outpipe \o Upto(oqueue, n)
    /\ oqueue' = After(oqueue, olen)
    /\ olen' = 0
    /\ pc' = "process"
    /\ UNCHANGED <<rset, wset, iqueue, init_done, done, client, inpipe>>

(* The descriptor is in blocking mode: write() returns when all is written *)
(* or, after the client has left, when sshd has closed the other end.      *)
Write(n) ==
    /\ pc = "write"
    /\ \/ closed /\ Exit /\ UNCHANGED outpipe
       \/ /\ n \in 1 .. olen /\ Len(outpipe) + n <= PipeSize
          /\ outpipe' = outpipe \o Upto(oqueue, n)
          /\ oqueue' = After(oqueue, n)
          /\ olen' = olen - n
          /\ pc' = IF n = olen THEN "process" ELSE "write"
          /\ UNCHANGED <<rset, wset, iqueue, init_done, done>>
    /\ UNCHANGED <<client, inpipe>>

Reply(k, n) == [j \in 1 .. n |-> <<k, n - j>>]

(* Slip: what the handler did not consume of the packet is left behind. *)
Discard_Forgotten(size) == After(iqueue, IF size > 1 THEN size - 1 ELSE size)

(* The rest of the packet goes with it. *)
Discard(size) == After(iqueue, size)

(* A handler is called with a complete request and appends its answer. *)
Handle(k) ==
    /\ iqueue' = Discard(reqs[k].size)
    /\ done' = done + 1
    /\ init_done' = (init_done \/ reqs[k].kind = "init")
    /\ IF reqs[k].kind = "unknown"
       THEN UNCHANGED oqueue
       ELSE \E n \in Answers : oqueue' = oqueue \o Reply(k, n)
    /\ pc' = "select"
    /\ UNCHANGED <<rset, wset, olen>>

(* Before INIT only INIT is processed.  A handler that reads past the end  *)
(* of its packet is found out afterwards.                                  *)
Refused(k) == (~init_done /\ reqs[k].kind # "init") \/ reqs[k].kind = "short"

NothingToDo == pc' = "select" /\ UNCHANGED <<rset, wset, olen, iqueue, oqueue, init_done, done>>

(* Slip: a request is only looked for after a read. *)
Process_AfterRead ==
    /\ pc = "process"
    /\ IF \/ ~rset
          \/ ~sshbuf_check_reserve(oqueue, SFTP_MAX_MSG_LENGTH)
          \/ iqueue = << >>
       THEN NothingToDo
       ELSE LET k == iqueue[1][1]
            IN  IF reqs[k].kind = "toolong" THEN Exit
                ELSE IF Len(iqueue) < reqs[k].size THEN NothingToDo
                ELSE IF Refused(k) THEN Exit
                ELSE Handle(k)
    /\ UNCHANGED <<client, pipes>>

Process ==
    /\ pc = "process"
    /\ IF \/ ~sshbuf_check_reserve(oqueue, SFTP_MAX_MSG_LENGTH)
          \/ iqueue = << >>
       THEN NothingToDo
       ELSE LET k == iqueue[1][1]
            IN  IF reqs[k].kind = "toolong" THEN Exit
                ELSE IF Len(iqueue) < reqs[k].size THEN NothingToDo
                ELSE IF Refused(k) THEN Exit
                ELSE Handle(k)
    /\ UNCHANGED <<client, pipes>>

Server == Select \/ Read \/ (\E n \in 1 .. PipeSize : Write(n)) \/ Process

Next == \/ \E r \in Requests : Send(r)
        \/ \E n \in 1 .. PipeSize : Transmit(n)
        \/ TakeReply
        \/ \E n \in 0 .. Len(cbuf) : Close(n)
        \/ Server

Spec == Init /\ [][Next]_vars

(* The server runs when select() lets it; sshd moves bytes in both         *)
(* directions, its side of the sockets being in non-blocking mode.         *)
FairSpec == /\ Spec
            /\ WF_vars(Server)
            /\ WF_vars(\E n \in 1 .. PipeSize : Transmit(n))
            /\ WF_vars(TakeReply)

-----------------------------------------------------------------------------
TypeOK ==
    /\ pc \in {"select", "read", "write", "process", "exit"}
    /\ <<rset, wset, init_done, closed>> \in BOOLEAN \X BOOLEAN \X BOOLEAN \X BOOLEAN
    /\ olen \in 0 .. Len(oqueue)
    /\ done \in 0 .. Len(reqs)
    /\ (pc = "read" => rset) /\ (pc = "write" => wset /\ olen > 0)
    /\ pc = "process" => rset \/ wset
    /\ Len(inpipe) <= PipeSize /\ Len(outpipe) <= PipeSize

(* sshbuf_put and send_msg never fail for want of space, which would end   *)
(* the session: what sshbuf_check_reserve grants at one point of the loop  *)
(* is still there when it is used at another.  No step of the loop is      *)
(* taken on a descriptor select() did not report.                          *)
QueuesFit == TypeOK /\ Len(iqueue) <= MaxSize /\ Len(oqueue) <= MaxSize

(* However the input was cut into reads, and whatever of its packet a      *)
(* handler did not look at, the input queue starts with the header of the  *)
(* first request that is not processed.                                    *)
Framed == iqueue # << >> => iqueue[1] = <<done + 1, 1>>

(* The requests whose answers end in q. *)
Answered(q) == {q[i][1] : i \in {j \in 1 .. Len(q) : q[j][2] = 0}}

(* Every request with a handler is answered once and in order; an answer   *)
(* is with the client, on its way or in the output queue, and of one that  *)
(* is not yet with the client all that follows is there, unit by unit.     *)
OneAnswerEach ==
    LET out == outpipe \o oqueue
    IN  /\ \A i, j \in 1 .. Len(replies) : i < j => replies[i] < replies[j]
        /\ \A i \in 1 .. Len(replies), j \in 1 .. Len(out) : replies[i] < out[j][1]
        /\ \A i, j \in 1 .. Len(out) : i < j =>
              \/ out[i][1] < out[j][1]
              \/ out[i][1] = out[j][1] /\ out[i][2] > out[j][2]
        /\ \A i \in 1 .. Len(out) : out[i][2] > 0 =>
              i < Len(out) /\ out[i + 1] = <<out[i][1], out[i][2] - 1>>
        /\ Elements(replies) \cup Answered(out) = {k \in Expected : k <= done}

(* A client that starts with INIT and sends requests the server knows, any *)
(* number of them at a time, gets an answer to each unless it leaves:      *)
(* although a turn of the loop handles one request only, and select() may  *)
(* find nothing more to read, no request is left lying in the input queue. *)
(* (A request of a type the server does not know is not answered, and what *)
(* was read together with it waits for the next input.)                    *)
EveryRequestAnswered ==
    \A k \in 1 .. MaxReqs :
        /\ k <= Len(reqs)
        /\ \A j \in 1 .. k : reqs[j].kind = (IF j = 1 THEN "init" ELSE "known")
        ~> k \in Elements(replies) \/ closed
=============================================================================

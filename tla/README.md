# LocalEGA-inbox in TLA+

LocalEGA-inbox is an OpenSSH server with a changed `sftp-server`: users drop
files into an inbox, and every upload, removal and renaming is announced to a
RabbitMQ broker, from where an ingestion pipeline takes it. The repository is
OpenSSH and rabbitmq-c, vendored, plus `mq-notify.c`, `mq-config.c`,
`mq-checksum.c` and the calls to them in `sftp-server.c` and `sshd.c`.

This directory holds TLA+ modules for the parts that carry the program's own
logic, TLC configurations that check them on small instances, and proofs that
TLAPS checks. Paths below are relative to the repository's `src/`:
S is `openssh/sftp-server.c`, N is `mq-notify.c`, C is `mq-config.c`; files of
OpenSSH are named without `openssh/`, those of rabbitmq-c start with `amqp_`.

## The system

| Part | State | Operations | Talks to |
|---|---|---|---|
| Main loop (S 1678-1744, 1430-1503) | `iqueue`, `oqueue`, `init_done` | a turn of the loop: select, read, write, process one request | the client, through sshd's pipes; the request handlers |
| Request handlers (S 702-1426) | none of their own | OPEN, WRITE, CLOSE, REMOVE, RENAME, ... | the kernel's file system, the handle table, the checksum, notifications |
| Handle table (S 276-462) | array `handles`, its length, a free list threaded through it | `handle_new`, `handle_unused`, `handle_close` | called by the handlers |
| Upload checksum (`mq-checksum.c`) | SHA-256 context in the handle | init at OPEN, add at WRITE, final at CLOSE | called by the handlers |
| Notifications (N) | `mq_options`: connection object, `connection_opened` | `mq_send_upload/remove/rename`, `mq_open_connection`, `mq_clean` | rabbitmq-c, and through it the broker |
| Configuration (C) | `mq_options`: one buffer and pointers into it | `load_mq_config` | `mq.conf`, the resolver |
| AMQP client (`amqp_connection.c`, `amqp_socket.c`, `amqp_api.c`) | decoder state, buffers, queue of frames, two heartbeat times | login, publish, channel and connection close, waiting for a frame | the broker; called by notifications |
| Session channel (`channels.c`, `nchan.c`, `session.c`, `serverloop.c`) | per channel: input and output state, flags, three buffers, two windows, descriptors; per session: channel and child | a turn of `server_loop2`: dispatch, select, collect children, read and write descriptors | the client's packets, the child's pipes, SIGCHLD |
| Key re-exchange (`packet.c`, `kex.c`, `kexc25519*.c`) | keys in use and next keys, `rekeying`, `done`, `KEX_INIT_SENT`, queue of outgoing packets | send, read, KEXINIT, NEWKEYS | every packet of the connection |
| Authentication (`monitor.c`, `monitor_wrap.c`, `auth2*.c`, `auth-pam.c`) | network child: attempts, failures, conversation; monitor: table of permitted requests, PAM context | requests of the child to the monitor, PAM in a process of its own | the client, PAM, the session that starts after it |
| sshd start-up and accept loop (`sshd.c`) | listening sockets, start-up pipes | accept, fork | starts a process per connection |

One process serves one session and is sequential: a request is handled to its
end, the announcement included, before the next is looked at. Concurrency is
between sessions of the same user, which share the inbox directory and the
broker, between each process and the kernel, the client and the broker, and
inside sshd between the processes a connection consists of: network child,
monitor, PAM, and later the session's child.

What is hard here:

* *several steps, one of which fails or the process dies in between*: a file
  system call and its announcement are separate; RENAME is `link` and `unlink`;
* *messages that are neither confirmed nor repeated*: what may a consumer of
  the queue conclude from what it receives?
* *state that outlives its use*: a handle slot is reused with the checksum of
  its former file, options point into a buffer that is freed and replaced;
* *long sequences of requests*: the free list takes any order, a checksum is
  put together over many writes, framing depends on every request before;
* *a loop that waits in select() while work is queued*, and queues at their
  limits;
* *two sessions on one path*;
* *everything ends at its own time*: the client's EOF and CLOSE, the child's
  output and its death, the window and the pipes, and each order must lose
  nothing and release everything;
* *both ends start the same thing at once* (key exchange), with data in flight;
* *processes that wait for each other's answers*, along a table of what is
  permitted next;
* *reads and writes cut at any byte*, deadlines, heartbeats and a peer that says
  nothing.

`PROJECT.json` lists these hazards one by one, each at its line of code, with
the properties that would catch it going wrong.

## Modules

`HandleAlloc` is what the handle table promises: a handle names one resource
from the reply that grants it to its own CLOSE. `HandleTable` is the code: the
array, `num_handles` (an unsigned int that wraps), `first_unused_handle` and
`next_unused`. `openfds` is the kernel's set of open descriptors; `free` is a
history variable that lists the free slots in order, so that the threaded list
can be described without recursion. A directory stream is represented by its
descriptor.

`NotifyContract` is what a consumer may rely on: for each session a consecutive
run of its operations, each once. `MqNotify` is the code. `at[s]` is where the
process is inside `mq_send_*` or `mq_clean`, `link[s]` the state of the AMQP
connection as rabbitmq-c distinguishes it (`closed`, `tcp`, `up`, `down`, and
`mute`: publishing still succeeds locally but nobody listens). `mq_send` covers
the three `mq_send_*` functions, which differ in the message only;
`open_socket`, `login`, `open_channel` are the three calls of
`mq_open_connection` that can fail. A message is its position in `hist[s]`. The
constant `Unreliable` switches failures on: refused connections and logins,
broken connections, processes that die.

`Inbox` extends `MqNotify` with the handlers and the file system: `dir` maps
paths to inodes, `inode` holds bytes, `handles[s][h]` a slot with flags, name
and checksum. The checksum is the sequence of the bytes added, that is,
SHA-256 is taken to be injective. A handler is one action per system call where
another session can come in between (`process_rename`, `rename_link`,
`rename_unlink`, `rename_undo`, `rename_stat`, `rename_rename`;
`process_close`, `handle_close`) and one action otherwise. `view` is what a
consumer that believes every message knows of each path. `Inbox` takes any free
slot for a new handle, which is `HandleAlloc`; which free inode a new file gets
(`NewInode`) makes no difference to anything and is left to `CHOOSE`. `Messages`
are all that the handlers announce; `Uploads` says of the constants that clients
upload and that nothing but a write fails.

`SftpLoop` is the main loop and `process()`. Lengths are small numbers, and
every unit of input and output says which message it belongs to, so that
framing errors show. The client and sshd are at the other end of two bounded
pipes.

`MqConfig` is the loading of `mq.conf`. A pointer is represented by the size of
the buffer it points into, since no two buffers have the same size.

`AmqpLink` is the connection below `MqNotify`: `amqp_handle_input` as a decoder
of bytes that `recv` cuts anywhere (sizes scaled down: a header of 2 bytes for
7), `amqp_send_frame_inner` with a socket that fills up in the middle of a
frame, `amqp_try_recv` and `wait_frame_inner` with their deadlines and
heartbeats, the queue of frames, `amqp_login_inner`, `simple_rpc_inner` and the
calls of `mq-notify.c`. `c.at` is the call the process is in. Time is counted
in ticks that pass only while the process waits. The broker, external, keeps
to the protocol; it may refuse a login or a message, fall silent, send
heartbeats and close. `pend` is a history variable: the frames sent and not yet
decoded. `MqNotify` describes the configuration that `conf/entrypoint.sh` writes
(`heartbeat = 0`); `AmqpLink` both.

`SessionChannel` is one session channel of sshd: `s` holds the channel, the
session and the packets to be written, and each function of `nchan.c`,
`channels.c` and `session.c` is an operator on it. `Dispatch`, `Prepare`,
`Select`, `AfterSelect` are the stages of a turn of `server_loop2`; between
them the client, the child and the SIGCHLD handler act. Bytes are counted, not
kept. The child is any program that reads and writes its pipes
(`do_exec_no_pty` is compiled with `USE_PIPES`, `session.c` 386); sftp-server
is one. The client keeps to RFC 4254 and waits for the answer to its request
before it sends EOF.

`Rekey` is key re-exchange between a server and a client that both run
`packet.c` and `kex.c`: the memory of a peer is a record, a key is the pair of
KEXINIT cookies it was derived from. Whether a limit is reached (`due`) is a
free choice at every packet sent or read, up to `MaxRounds`.

`Privsep` is authentication under `conf/sshd_config`: the network child `net`,
the monitor `mon` and PAM `pam`, connected by queues. An operator named after a
function runs up to the next blocking read. The user's account (known or not,
usable or not), the client's choice of service, methods, keys, signatures and
answers, PAM's prompts and verdict (PAM_MAXTRIES turns keyboard-interactive off
in both processes) and whether `sshpam_init_ctx` gets its handle, sockets and
process are free. `net.valid` and `mon.valid` are separate: the child also tests
the service (`auth2.c` 278).

The modules named after another with `Proofs` at the end (`HandleTableProofs`,
`MqConfigProofs`, `InboxProofs`, which has those about `MqNotify` too,
`SftpLoopProofs`, `PrivsepProofs`, `RekeyProofs`, `SessionChannelProofs`,
`AmqpLinkProofs`) hold the proofs; the `MC` modules hold the sets that
configurations need. `MCInboxView` adds to `MCInbox` that its configuration
satisfies `Uploads`, so that the hypothesis of two theorems is evaluated.

Definitions named like a function of the source model that function. A
definition with a suffix after an underscore, introduced as a *slip*, is a
plausible mistake in the definition after it, kept to show that the properties
notice.

## Runs

All configurations finish in less than three minutes on two cores.

| Run | What it shows | Bounds |
|---|---|---|
| `handle_table` | the free list is exact, descriptors have one owner, the table stays below the number of descriptors, and it implements `HandleAlloc` | 4 descriptors, 2 names, interchangeable: every order of a list of 4. `INT_MAX` is 5, above the descriptors as in reality |
| `inbox_view` | the consumer ends up knowing exactly the files, sizes and checksums (`ViewIsInbox`), `DigestIsPrefix` | 1 session, 7 requests: two whole uploads and a renaming; one slot, so that it is reused; one short write |
| `inbox_faults` | `RenameAllOrNothing`: a RENAME whose process does not die on the way moves the name and announces it (`mq_send` is called), or does neither; `NothingQueued`, `CleanExitIsComplete`, and that the session implements `NotifyContract` | 1 session, 4 requests of any kind and any client, one failed system call, all network failures, processes that die |
| `inbox_sessions` | a session with `-R` changes nothing; every announcement arrives | 2 sessions, 3 requests each, any client, shared paths, no failures, fair |
| `sftp_loop` | `Framed`, `OneAnswerEach`, neither queue overflows, every known request is answered | 4 requests of all kinds, cut anywhere, enough to fill the input queue; client leaves at any time; fair |
| `config_load` | no overflow, no dangling option, doubling ends | files of up to 3 lines; buffers of 1 to 32 bytes; fair |
| `session_channel` | `WireDiscipline`, `WindowsAgree`, `InputComplete`, `OutputComplete`, `NeverDisconnected`, `SessionEnds` | one channel, 2 bytes among client, stdout and stderr; windows, pipes and socket of 1 or 2, so that each is full at some point, and a read that takes less than the pipe holds; fair |
| `rekey` | `NoError` (with `KexOnly`: nothing but the exchange between KEXINIT and NEWKEYS), `OrderKept`, `KeysFresh`, `ExchangesEnd` | 3 packets each way, 3 exchanges after the first: one started by each side and one that crosses; fair |
| `privsep` | `FitTogether`, `BothDecide`, `GrantedIsEarned`, `TriesBounded`, `EveryStepSettles` | 5 requests, MaxAuthTries 3: the limit is reached and passed by conversations that are left; 2 prompts; both kinds of service, all failures of `sshpam_init_ctx`; fair |
| `amqp_link` | `StreamKept`, `WholeFrames`, `NoGap`, `CloseConfirms`, `SilenceEnds`, `CallsEnd` | heartbeat 0 and 1, 2 messages, 3 connections, a socket shorter than a message's frames, up to 2 heartbeats in the client's queue, which is when a later login finds one there; fair |
| `inbox_readers`, `inbox_race` | violations, see Findings | |

The type invariant of a module is a conjunct of the property about its limits
(`DigestIsPrefix`, `QueuesFit`, `WindowsAgree`, `NoError`, `FitTogether`,
`StreamKept`); those of `HandleTable`, `MqNotify` and `Inbox` are proved. `config_load` checks `TypeOK` by itself:
there it is the claim that `copy2buffer` stays inside its buffer.

Deadlock checking is off where the system may stop: the bounds on requests run
out, sessions end, the configuration is loaded. It is on in `handle_table`.

`ViewIsInbox` and `DigestIsPrefix` need clients that follow rules
(`Disciplined`): a path belongs to one session, a file is uploaded in order from
its start, and a handle is closed when all of the file was written by it.
OpenSSH's own `sftp put` does so. Without these rules the checksum is that of
the bytes in the order of the requests, which no consumer can relate to the
file; that is how the code is and no line of it claims more. The request set of
`inbox_view` leaves out setstat, fsetstat and hardlink: with setstat or hardlink
TLC finds `ViewIsInbox` violated (see below).

`RenameAllOrNothing` is stated for a session alone with at most one failing
call, since the clean-up of the spare link is itself a call that may fail; with
two sessions it is false for the reason `inbox_race` shows. It exempts a process
that dies between `link()` and `unlink()` and leaves both names: dying there is
the case of `NothingQueued`, which bounds what stays unannounced. "Announces"
means that `mq_send` was called; whether the message arrives is the matter of
`ImplementsContract`.

### Fairness

* `Inbox!FairSpec`: weak fairness of a process that is inside a handler
  (`Proceed`), and of a broker that reads its connections (`Consume`). Nothing
  is asked of clients. The run with this specification has no failures: a lost
  message is never sent again, and the code does not pretend it is.
* `SftpLoop!FairSpec`: weak fairness of the server, which runs when `select`
  lets it, and of sshd moving bytes in each direction, its ends of the pipes
  being in non-blocking mode.
* `SessionChannel!FairSpec`: weak fairness of sshd, which `select` wakes; of a
  child that reads its input and ends when it ends (`internal-sftp` does); of a
  client that, while connected, reads and answers CLOSE with CLOSE. Nothing
  makes the client send, close or leave.
* `Rekey!FairSpec`: both peers keep reading, as their loops do.
* `Privsep!FairSpec`: the three processes run and PAM comes to a verdict. Neither
  the client nor the grace alarm is relied on.
* `AmqpLink!FairSpec`: the process runs, time passes, and a broker that has sent
  connection.close closes in the end. Nothing else is asked of the broker:
  `CallsEnd` is conditional on one that keeps reading, `SilenceEnds` is about
  one that does nothing from some time on.
* `MqConfig!FairSpec`: the process runs. It waits for nobody but the resolver,
  which answers or times out.

## Proofs

TLAPS checks these for every value of the constants. Each follows the same
argument: an inductive invariant `Inv` (checked by TLC on the instances first),
one lemma per action, and what `Inv` implies.

`HandleTableProofs`, from `FdsAssumption` (finitely many descriptors, not more
than `INT_MAX`: the kernel's own limit is lower): `TypeCorrect`,
`FreeListIsExact`, `DescriptorsHaveOneOwner`, `TableIsBounded`, and
`Implementation` (the table implements `HandleAlloc`). The inductive invariant
is the conjunction of the four properties and `Counted`: the free slots and the
open descriptors together are as many as the array is long. `Counted` is what
makes `Bounded` inductive: the array grows only when the free list is empty, so
then there is a descriptor for every slot, and the new one is not among them.

`InboxProofs`, about `MqNotify` and from no assumption: `MqTypeCorrect`, `NothingIsQueued`,
`CleanExitsAreComplete`, `MqImplementation` (`MqNotify` implements
`NotifyContract`). A step belongs to one session, so the invariant is one
formula per session: `LinkInv` ties the program counter to the state of the
connection, with the fact everything rests on, that a connection once opened is
not opened again; `RunInv` says that what the broker has and what is on the wire
is one run of consecutive positions; `QueueInv` and `CleanInv` strengthen the
two properties. The lemmas are stated for `MqStep`, a step that says nothing of
the file system, so that the proofs about the dropbox cite them too.

`InboxProofs`, about the dropbox and from `InboxAssumption` (what the sets have to do with each other)
and `Messages \subseteq Msgs`:

* `InboxTypeCorrect`, and `InboxImplementsContract`: every step of `Inbox` is a
  step of mq-notify.c or leaves its variables alone, so the theorems about
  `MqNotify` hold of the handlers' use of it.
* `ReadOnlySessions`: what a session with `-R` has open it cannot write.
* `DigestsOfUploads` and `ConsumerSeesInbox`, for clients that upload
  (`Uploads`): any number of sessions, each with paths of its own. The
  invariant, `Orderly`, says that no file belongs to two sessions (`Separate`)
  and for each session that its open handles name its files and hold the digest
  of their beginning (`Upkeep`) and that the messages still to be read lead the
  consumer from what it believes to the truth (`Faithful`, `Chain`): a path
  being written, or the new name between `link` and `unlink`, is exempt until
  its message is sent. Since `view` lags behind by any number of messages, the
  intermediate views are asserted to exist rather than computed.
* `RenamesOfOneSession`, for one session and `MaxFaults <= 1`, any client. `Alone`
  relates the names recorded when the RENAME began to those the file has now.

`SftpLoopProofs`, from `SizesAssumption` (a queue takes the longest message and
one read besides): `LoopQueuesFit`, `LoopFramed`, `LoopOneAnswerEach`. `Room`
says that what `sshbuf_check_reserve` granted before `select()` is still there
when the read comes; `InputFramed` is about the whole input, queue, pipe and
what the client has yet to write: where a request begins, all of it follows and
then the next; `NotAhead` keeps answers behind the requests processed.
`OneAnswerEach` is stated unit by unit for this proof.

`PrivsepProofs`, from `TriesAssumption`: `PrivsepFitsTogether`,
`PrivsepBothDecide`, `PrivsepGrantedIsEarned`, `PrivsepTriesBounded`, for any
number of requests, attempts and prompts, any service and any failure of
`sshpam_init_ctx`. The invariant follows the child:
`Where` says for each answer it can be waiting for what is on the way, what the
monitor permits and where monitor and PAM are. The monitor's table of permitted
requests and the child's program are thereby shown to fit; `Verdict`, `Tries` and
`Outcome` then carry what was proved, counted and granted. `Excused` is the
three exceptions of `FitTogether`, and `LoopOrStranded` the monitor that has
taken a conversation for successful while the child has not.

`RekeyProofs`, from `BoundAssumption` alone, that is, for any number of packets
and exchanges: `RekeyNoError`, `RekeyOrderKept`, `RekeyKeysFresh`. A peer is in
one of four phases (`Idle`, `Begun`, `Agreed`, `Switched`) of the exchange its
key is numbered after. Every message of an exchange has a rank, a phase
determines the last rank sent (`Sent`) and read (`Seen`), and the wire from one
peer to the other holds exactly the messages between `Seen` of the one and
`Sent` of the other, in order, with the channels' packets in their place
(`OnWire`). Pairs of phases are not listed: the packet that comes first is one
that the phase expects because of its rank (lemma `Comes`). That the keys are
fresh follows from the order in which phases are passed (`Passes`).

`MqConfigProofs`, from `ConfigAssumption` (strings take at least a byte, the
first buffer is not empty): `ConfigTypeCorrect` (the buffer never overflows)
and `NothingEverDangles`. The delicate point is `exchange` and `routing_key`,
which are not reset when the file is read again and do point into a freed
buffer for a while: `Origin` says that this happens only if a line of the file
sets them, and `Copied` that by then the line has been read again.

`SessionChannelProofs`, from `SizeAssumption`, that is, for any window, pipe and
packet sizes and any number of bytes: `WireDisciplineHolds`,
`WindowsAgreeHolds`, `InputCompleteHolds`, `OutputCompleteHolds`,
`NeverDisconnectedHolds`. None of the five invariants is inductive: what a
channel owes is spread over the pipes, the buffers, the packets not yet written,
the socket, and the counters of client and child, and whether a message may
still come depends on the states of `nchan.c` at both ends. So `K` relates
sshd's memory, the packets on the way from the client, the messages on the way
to it, the client, the child and the pipes: `Spoken` and `Orderly` say which
messages can follow which, given the flags of the channel; `Windows` that each
window is what was granted less what is used, counting adjustments on the way;
`InputKept` and `OutputKept` that the bytes of each direction add up;
`Complete` what a channel that is done has delivered. `J` splits the
messages into those written to the socket and those not, and `Inv` adds what
holds at each stage of the loop's turn. The proof follows the program: small
changes to the memory first, then the functions of channels.c, nchan.c and
session.c, each for a caller that satisfies `K`, then the actions. The bytes in
a queue of messages are counted as the size of a set (`Units`), which needs no
recursion.

`AmqpLinkProofs`, from `HeartbeatAssumption` and `SockCapAssumption` (the socket
takes the handshake), for any number of messages, connections and heartbeats:
`WholeFramesHold`, `NoGapHolds`. The invariant `I` relates the client's memory,
the bytes in flight and the broker. `Outgoing` and `Wire` say that what a call has
still to send completes what is in flight, unless a frame was cut off; that
gives `WholeFrames`. For `NoGap`, `Flow` looks at the two as one stream: which
frame may follow which (`Successor`), which one is last at each place of the
client (`LastIs`), that the channel is opened at most once in a connection, and
that the first frame is what the broker expects with the messages it has
(`Starts`). `Timing` says that without heartbeats no call gives up in the middle
of a frame and keeps the socket, which is where gaps come from. Nothing in `I` is
about the bytes that the client reads: whatever the decoder makes of them, a call
gets some frame and fails or goes on, and either preserves `I`. So the theorems
hold too of a login that finds the decoder as an earlier connection left it.

Only model-checked:

* the liveness properties, which are out of the prover's reach, and the two
  violations;
* `StreamKept` and `CloseConfirms` of `AmqpLink`, for up to three connections of a
  session. Both depend on what the client reads. What the decoder and the queue
  hold when a second connection begins is whatever the first left, so an
  invariant for any number of connections has to describe a decoder out of step
  with its stream (see the findings below); such a description has not been
  found.

## Findings

* `inbox_readers` (S 445). `handle_close` means to announce only handles that
  are "not Read-Only" and tests `!(h.flags & O_RDONLY)`; `O_RDONLY` is 0. A
  handle opened with READ and APPEND is announced as an upload with the checksum
  of no bytes, by a session with `-R` too.
* `inbox_race` (S 1219, 1245). "Race-free rename of regular files": another
  session can put a file at the old name between `link` and `unlink`, and the
  `unlink` then removes that file's only name.

Noticed while modelling, without a run of their own:

* `conf/entrypoint.sh` writes `connection_attempts` and `retry_delay` into
  `mq.conf`, and offers host, vhost, username and password "per values"; the
  code reads none of these (C 140-152). One failed connection drops a message,
  as `MqNotify`'s `open_socket` has it.
* SETSTAT and FSETSTAT truncate files and hardlink adds names without an
  announcement, so that what was announced is no longer true.
* posix-rename between two names of one file changes nothing and is announced.
* After a login the broker has refused, the socket stays open and every later
  attempt of the session fails (`SOCKET_INUSE`); `MqNotify` has this behaviour.
* A request of unknown type is not answered (S 1488), so the output descriptor
  does not become ready, and a complete request behind it waits in the input
  queue until more input arrives. `EveryRequestAnswered` therefore speaks of
  requests that `process()` knows, sent to a client that goes on.
* `exchange` and `routing_key` are never initialised (C 105-111), although
  `valid_options` takes null for missing (C 63); `entrypoint.sh` writes both.
* On a file system without hard links, and for directories, RENAME looks at the
  new name with `stat` and then renames: another session can create it in
  between (S 1235).
* Messages of two sessions about one path travel on two connections and may
  reach the broker in the other order (S 1133).
* End of file is acted on as soon as it is read: requests in the input queue are
  not executed and answers in the output queue not sent (S 1710).
* `load_mq_config` tests `errno` although `fopen` succeeded (C 189); its result
  is not looked at (sshd.c 1692), nor is a last line without `=` and newline
  provided for (C 261), which gives `strlen` a null pointer.
* A host name that does not resolve leaves a session that announces nothing,
  although `load_mq_config` succeeds (C 162).

About the AMQP connection (`amqp_link`):

* With `heartbeat = 0`, publishing and the RPCs after the login have no deadline:
  a broker that stops reading holds the session. `SilenceEnds` excepts them.
* With heartbeats, `NoGap` and `CloseConfirms` do not hold and are stated
  without: a publish that gives up for a missing heartbeat keeps the socket, and
  a later one may succeed; a channel.close that `amqp_try_recv` puts into the
  queue is not seen by `mq_clean`, which then returns 0 although a message was
  refused. The client sends heartbeats only while it waits for an answer, and
  `next_recv_heartbeat` stays in the past after a failure, so that the next
  login fails at once.
* A second login uses the connection object of the first, with what the decoder,
  the socket buffer and the queue still hold. With three connections such a
  login never succeeds. With four and heartbeats it can, on answers that earlier
  connections left in the queue; the invariants still hold there. After
  BAD_AMQP_DATA the decoder is not reset, and what it does on a third connection
  is undefined (`crashed`).
* Before the first frame 8 bytes are read and 7 copied. That is right only
  because the 8th, the high byte of a class, is 0 and the page it should go to
  was cleared.
* After a refused login, `mq_clean` sends channel.close and waits until the
  broker closes the connection.

About sshd:

* EOF that arrives before the request that starts the child leaves the child's
  input open; OpenSSH's clients wait for the answer.
* Once both directions of a channel are closed, stderr is no longer read: a
  command that writes more than a pipe of it then blocks until sshd leaves.
* Output thrown away by `chan_shutdown_write` is not given back to the client's
  window; `WindowsAgree` counts it only until then.
* The server sends EXT_INFO in every re-exchange; a client that does not expect
  it answers UNIMPLEMENTED, which is ignored. The branch that starts an exchange
  while the queue is flushed is never taken, since `kex->done` is 0 there.
* Three sequences end the connection before MaxAuthTries, since the monitor
  refuses a request of the child; `FitTogether` names them as its exceptions.
  After `sshpam_init_ctx` has given no context (PAM has refused the account, or
  `sshpam_init`, `socketpair` or `fork` failed), MONITOR_REQ_PAM_INIT_CTX,
  permitted once, is permitted again only by FREE_CTX, and the next
  keyboard-interactive attempt is refused. So is another request in place of the
  acknowledgement of an information request without prompts. And a client that
  names another service than ssh-connection is unknown to the child and known
  to the monitor: after a successful conversation with PAM the child counts a
  failure, while the monitor waits for PAM_ACCOUNT and refuses anything else.

## Not modelled

The source is about 115,000 lines, nearly all of it OpenSSH and rabbitmq-c; the
models stand for some 7,800 of them: the inbox's own files, and of the two
libraries the code that decides what happens to a session, its bytes and its
messages. The rest has no state that outlives a call (ciphers, key formats,
codecs, portability shims), belongs to features the inbox's configuration turns
off (forwarding, terminals, other authentication), or runs once at start-up.

* Of sshd: start-up, options, the accept loop with MaxStartups and the chroot;
  cryptography and key formats; the first key exchange and the version exchange;
  terminals, forwarding, several channels on one connection, the rate of
  keep-alives; passwords, host-based and GSSAPI authentication, lists of several
  methods. In a re-exchange, guesses (`first_kex_follows`) and a change of
  `ext-info-c` between exchanges, neither of which `kex.c` makes.
  `SessionChannel`, `Rekey` and `Privsep` are not composed: a channel
  sees packets in order, which `Rekey` shows of the packet layer.
* `ssh-keygen`, which the entry point runs to make host keys.
* READ, STAT, READDIR, REALPATH, READLINK, statvfs: no effect on files, handles
  (beyond byte counters for the log) or messages. SYMLINK, and attributes other
  than the size: they announce nothing, and links need path resolution.
* The tree of directories: paths are flat names. A handler treats a path as an
  opaque string.
* rabbitmq-c's TLS socket, memory pools, negotiation of frame sizes, splitting of
  bodies, table encoding and the generated method codecs, a broker that does not
  keep to the protocol; the JSON text, SHA-256.
* Running out of memory: `malloc` failures end the process (`fatal`) or are not
  checked. `die` covers the former.
* PAM and NSS modules for CentralEGA, which live in other repositories, and the
  container image.

## Plan

Done: handle table with abstract specification and proofs; notifications with
contract and proofs; inbox with file system and consumer, and proofs;
main loop with proofs; configuration with proofs; session channel with proofs;
key re-exchange with proofs; authentication with privilege separation, and
proofs; the AMQP connection, with proofs about what it sends.

Left:

1. `AmqpLink`: `StreamKept` and `CloseConfirms` for any number of connections,
   which need a description of what the decoder and the queue keep of the
   connections before.
2. Two sessions that share a path: `ConsumerSeesInbox` asks for paths of their
   own. Messages of two connections can overtake each other, so a weaker form
   that orders them has to be found first.

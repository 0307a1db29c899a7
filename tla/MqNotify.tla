------------------------------ MODULE MqNotify ------------------------------
(***************************************************************************)
(* Notifications of sftp-server processes to the message broker:           *)
(* mq-notify.c on top of rabbitmq-c.  Every session is a process with an   *)
(* AMQP connection of its own, opened by the first notification and never  *)
(* reopened.  mq_send_upload, mq_send_remove and mq_send_rename differ in  *)
(* the message only and are the one operation mq_send here.                *)
(*                                                                         *)
(* at[s] is where the process is inside these functions; it blocks there   *)
(* until the broker answers.  link[s] is the AMQP connection:              *)
(*   closed  sockfd is -1                                                  *)
(*   tcp     a socket is open, without a channel on it                     *)
(*   up      channel 1 is open and the broker reads it                     *)
(*   mute    publishing still succeeds locally and the broker ignores it:  *)
(*           it has closed the channel, or the peer is gone unnoticed      *)
(*   down    sending fails                                                 *)
(* Messages are named by their position in hist[s], the history of the     *)
(* operations the session had to announce.                                 *)
(***************************************************************************)
EXTENDS Integers, Sequences

CONSTANTS Sessions, Msgs,
          Unreliable,         \* may processes and connections fail?
          MaxOps              \* bound on the operations of one session

VARIABLES at, ready, opened, link, wire, got, hist, attempts, rc

mqvars == <<at, ready, opened, link, wire, got, hist, attempts, rc>>

Steps == {"open_socket", "login", "open_channel", "publish"}

MqInit ==
    /\ at = [s \in Sessions |-> "new"]
    /\ ready = [s \in Sessions |-> FALSE]     \* mq_options->socket and ->ip
    /\ opened = [s \in Sessions |-> FALSE]    \* mq_options->connection_opened
    /\ link = [s \in Sessions |-> "closed"]
    /\ wire = [s \in Sessions |-> << >>]      \* published, not yet received
    /\ got = [s \in Sessions |-> << >>]       \* received by the broker
    /\ hist = [s \in Sessions |-> << >>]
    /\ attempts = [s \in Sessions |-> 0]      \* history: sockets opened for
                                              \* the current message
    /\ rc = [s \in Sessions |-> "none"]       \* how the process ended

-----------------------------------------------------------------------------
(* The process starts and reads mq.conf.  Without an address for the broker *)
(* readconfig returns before mq_init, and the session runs without it.      *)
load_mq_config(s, resolved) ==
    /\ at[s] = "new"
    /\ Unreliable \/ resolved
    /\ at' = [at EXCEPT ![s] = "idle"]
    /\ ready' = [ready EXCEPT ![s] = resolved]
    /\ UNCHANGED <<opened, link, wire, got, hist, attempts, rc>>

(* The operation described by m has succeeded and is to be announced. *)
mq_send(s, m) ==
    /\ at[s] = "idle"
    /\ hist' = [hist EXCEPT ![s] = Append(@, m)]
    /\ attempts' = [attempts EXCEPT ![s] = 0]
    /\ at' = [at EXCEPT ![s] = CASE opened[s] -> "publish"
                                 [] ~opened[s] /\ ready[s] -> "open_socket"
                                 [] OTHER -> "idle"]
    /\ UNCHANGED <<ready, opened, link, wire, got, rc>>

(* amqp_socket_open: refused with SOCKET_INUSE when a socket is left over *)
(* from an earlier attempt.  mq_send gives up when it fails.              *)
open_socket(s) ==
    /\ at[s] = "open_socket"
    /\ attempts' = [attempts EXCEPT ![s] = @ + 1]
    /\ \/ /\ link[s] = "closed"
          /\ link' = [link EXCEPT ![s] = "tcp"]
          /\ at' = [at EXCEPT ![s] = "login"]
       \/ /\ Unreliable \/ link[s] # "closed"
          /\ at' = [at EXCEPT ![s] = "idle"]
          /\ UNCHANGED link
    /\ UNCHANGED <<ready, opened, wire, got, hist, rc>>

(* amqp_login: I/O errors and the handshake timeout close the socket, a    *)
(* refusal by the broker leaves it open.                                   *)
login(s) ==
    /\ at[s] = "login"
    /\ \/ /\ at' = [at EXCEPT ![s] = "open_channel"]
          /\ UNCHANGED link
       \/ /\ Unreliable
          /\ at' = [at EXCEPT ![s] = "idle"]
          /\ link' \in {[link EXCEPT ![s] = "closed"], link}
    /\ UNCHANGED <<ready, opened, wire, got, hist, attempts, rc>>

(* Slip: the message that opened the connection is forgotten. *)
open_channel_ReturnsEarly(s) ==
    /\ at[s] = "open_channel"
    /\ opened' = [opened EXCEPT ![s] = TRUE]
    /\ link' = [link EXCEPT ![s] = "up"]
    /\ at' = [at EXCEPT ![s] = "idle"]
    /\ UNCHANGED <<ready, wire, got, hist, attempts, rc>>

open_channel(s) ==
    /\ at[s] = "open_channel"
    /\ \/ /\ opened' = [opened EXCEPT ![s] = TRUE]
          /\ link' = [link EXCEPT ![s] = "up"]
          /\ at' = [at EXCEPT ![s] = "publish"]
       \/ /\ Unreliable
          /\ at' = [at EXCEPT ![s] = "idle"]
          /\ UNCHANGED <<opened, link>>
    /\ UNCHANGED <<ready, wire, got, hist, attempts, rc>>

(* Slip: after a failed publish the connection is opened again for the next *)
(* message, without sending the failed one again.                           *)
do_send_message_Reconnects(s) ==
    /\ at[s] = "publish"
    /\ at' = [at EXCEPT ![s] = "idle"]
    /\ wire' = IF link[s] = "up"
               THEN [wire EXCEPT ![s] = Append(@, Len(hist[s]))]
               ELSE wire
    /\ opened' = [opened EXCEPT ![s] = link[s] # "down"]
    /\ link' = [link EXCEPT ![s] = IF @ = "down" THEN "closed" ELSE @]
    /\ UNCHANGED <<ready, got, hist, attempts, rc>>

(* do_send_message.  Nobody looks at its result. *)
do_send_message(s) ==
    /\ at[s] = "publish"
    /\ at' = [at EXCEPT ![s] = "idle"]
    /\ wire' = IF link[s] = "up"
               THEN [wire EXCEPT ![s] = Append(@, Len(hist[s]))]
               ELSE wire
    /\ UNCHANGED <<ready, opened, link, got, hist, attempts, rc>>

(* The client has closed its side: sftp_server_cleanup_exit calls mq_clean *)
mq_clean(s) ==
    /\ at[s] = "idle"
    /\ at' = [at EXCEPT ![s] = "clean"]
    /\ UNCHANGED <<ready, opened, link, wire, got, hist, attempts, rc>>

(* Slip: the socket is closed without closing the channel first. *)
mq_clean_return_NoHandshake(s) ==
    /\ at[s] = "clean"
    /\ at' = [at EXCEPT ![s] = "exited"]
    /\ rc' = [rc EXCEPT ![s] = IF ready[s] /\ link[s] # "up" THEN "failed"
                               ELSE "ok"]
    /\ opened' = [opened EXCEPT ![s] = FALSE]
    /\ UNCHANGED <<ready, link, wire, got, hist, attempts>>

(* amqp_channel_close and amqp_connection_close: the broker answers the    *)
(* close of a channel after everything that was published on it.  Without  *)
(* a connection object there is nothing to close.                          *)
mq_clean_return(s) ==
    /\ at[s] = "clean"
    /\ at' = [at EXCEPT ![s] = "exited"]
    /\ \/ /\ ~ready[s]
          /\ rc' = [rc EXCEPT ![s] = "ok"]
          /\ UNCHANGED opened
       \/ /\ link[s] = "up"
          /\ wire[s] = << >>
          /\ rc' = [rc EXCEPT ![s] = "ok"]
          /\ opened' = [opened EXCEPT ![s] = FALSE]
       \/ /\ ready[s]
          /\ link[s] # "up"
          /\ rc' = [rc EXCEPT ![s] = "failed"]
          /\ UNCHANGED opened
    /\ UNCHANGED <<ready, link, wire, got, hist, attempts>>

(* The process ends at any point: fatal(), a signal, the machine. *)
die(s) ==
    /\ Unreliable
    /\ at[s] \notin {"new", "exited"}
    /\ at' = [at EXCEPT ![s] = "exited"]
    /\ rc' = [rc EXCEPT ![s] = "died"]
    /\ UNCHANGED <<ready, opened, link, wire, got, hist, attempts>>

(* The broker takes the next message of the session's connection. *)
Receive(s) ==
    /\ wire[s] # << >>
    /\ got' = [got EXCEPT ![s] = Append(@, Head(wire[s]))]
    /\ wire' = [wire EXCEPT ![s] = Tail(@)]
    /\ UNCHANGED <<at, ready, opened, link, hist, attempts, rc>>

(* The connection fails; what is in flight is lost.  It never comes back. *)
Break(s, how) ==
    /\ Unreliable
    /\ <<link[s], how>> \in {<<"up", "mute">>, <<"up", "down">>, <<"mute", "down">>}
    /\ link' = [link EXCEPT ![s] = how]
    /\ wire' = [wire EXCEPT ![s] = << >>]
    /\ UNCHANGED <<at, ready, opened, got, hist, attempts, rc>>

Connect(s) == open_socket(s) \/ login(s) \/ open_channel(s)
Leave(s) == mq_clean(s) \/ mq_clean_return(s)

MqNext ==
    \E s \in Sessions :
        \/ \E resolved \in BOOLEAN : load_mq_config(s, resolved)
        \/ Len(hist[s]) < MaxOps /\ \E m \in Msgs : mq_send(s, m)
        \/ Connect(s)
        \/ do_send_message(s)
        \/ Leave(s)
        \/ die(s)
        \/ Receive(s)
        \/ \E how \in {"mute", "down"} : Break(s, how)

MqSpec == MqInit /\ [][MqNext]_mqvars

-----------------------------------------------------------------------------
MqTypeOK ==
    /\ at \in [Sessions -> Steps \cup {"new", "idle", "clean", "exited"}]
    /\ ready \in [Sessions -> BOOLEAN]
    /\ opened \in [Sessions -> BOOLEAN]
    /\ link \in [Sessions -> {"closed", "tcp", "up", "mute", "down"}]
    /\ wire \in [Sessions -> Seq(Nat \ {0})]
    /\ got \in [Sessions -> Seq(Nat \ {0})]
    /\ hist \in [Sessions -> Seq(Msgs)]
    /\ attempts \in [Sessions -> {0, 1}]
    /\ rc \in [Sessions -> {"none", "ok", "failed", "died"}]

(* What went out on the session's connection, received or in flight. *)
NothingSent(s) == got[s] = << >> /\ wire[s] = << >>
LastSent(s) == IF wire[s] # << >> THEN wire[s][Len(wire[s])]
                                  ELSE got[s][Len(got[s])]

(* While the connection is up, nothing is queued in the process: between   *)
(* calls of mq_send_* every operation is on the wire, and a process that   *)
(* dies takes at most the message it was publishing with it.               *)
NothingQueued ==
    \A s \in Sessions :
        link[s] = "up" =>
            /\ ~NothingSent(s) => LastSent(s) >= Len(hist[s]) - 1
            /\ at[s] \notin {"publish", "exited"} =>
                   ~NothingSent(s) /\ LastSent(s) = Len(hist[s])

(* When mq_clean returns 0 for a session that has a connection, the broker *)
(* has received every message since the first one that went out: the       *)
(* channel is closed behind them, although nothing is ever confirmed.      *)
CleanExitIsComplete ==
    \A s \in Sessions :
        rc[s] = "ok" /\ ready[s] =>
            /\ got[s] # << >>
            /\ got[s][Len(got[s])] = Len(hist[s])

Contract == INSTANCE NotifyContract

(* Across connection failures, refused logins and crashes, the messages of *)
(* a session arrive at most once, in order and without a gap: mq-notify.c  *)
(* never reopens a connection once something went out on it.               *)
ImplementsContract == Contract!Spec
=============================================================================

----------------------------- MODULE MCSftpLoop -----------------------------
(* SftpLoop for TLC: requests of one unit, and of the greatest length. *)
EXTENDS SftpLoop

AllRequests ==
    [kind : {"init", "toolong"}, size : {1}] \cup [kind : {"known"}, size : {1, 3}]
    \cup [kind : {"unknown", "short"}, size : {3}]
=============================================================================

----------------------------- MODULE HandleAlloc -----------------------------
(***************************************************************************)
(* What the handle table of sftp-server.c promises its client: a handle    *)
(* names one open resource (a file descriptor or a directory stream) from  *)
(* the reply that grants it to the CLOSE that ends it.  Nothing is said    *)
(* here of slots, free lists or growth.                                    *)
(***************************************************************************)
CONSTANTS Ids,      \* the numbers handles may have
          Fds,      \* the descriptors the kernel may hand out
          Names     \* the path names a client opens

VARIABLE live       \* the open handles, a set of records

Grants == [id : Ids, use : {"FILE", "DIR"}, fd : Fds, name : Names]

Init == live = {}

(* A new handle shares neither its number nor its resource with a live one. *)
Open(g) ==
    /\ \A h \in live : h.id # g.id /\ h.fd # g.fd
    /\ live' = live \cup {g}

Close(g) ==
    /\ g \in live
    /\ live' = live \ {g}

Next == \/ \E g \in Grants : Open(g)
        \/ \E g \in live : Close(g)

Spec == Init /\ [][Next]_live
=============================================================================

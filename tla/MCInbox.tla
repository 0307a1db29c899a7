------------------------------ MODULE MCInbox ------------------------------
(* Inbox for TLC: the sets that a configuration file cannot write. *)
EXTENDS Inbox

Upload1 == {"WRITE", "CREAT", "TRUNC"}
UploadNew == {"WRITE", "CREAT", "EXCL"}
Read == {"READ"}

PutModes == {Upload1, UploadNew, Read}
AllModes == {Upload1, Read, {"WRITE"}, {"READ", "WRITE", "APPEND"}, {"READ", "APPEND"}}
ReadModes == {Read, {"READ", "APPEND"}, {"READ", "CREAT"}, {"READ", "TRUNC"}, {"WRITE"}}
SomeModes == {Upload1, {"READ", "APPEND"}, {"READ", "TRUNC"}}

OneByte == {<<1>>, <<2>>}
SameByte == {<<1>>}
TwoBytes == {<<1>>, <<2, 1>>}

SplitOwner == [p \in Paths |-> IF p = "c" THEN "s2" ELSE "s1"]

(* The messages of at most two writes of at most two bytes, as TLC enumerates *)
(* them.                                                                   *)
FewMsgs == [op : {"upload"}, path : Paths, size : 0 .. MaxLen,
            digest : UNION {[1 .. n -> {1, 2}] : n \in 0 .. 4}]
           \cup [op : {"remove"}, path : Paths]
           \cup [op : {"rename"}, path : Paths, old : Paths]
=============================================================================

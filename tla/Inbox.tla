-------------------------------- MODULE Inbox --------------------------------
(***************************************************************************)
(* The dropbox: sftp-server processes (sessions) that share the files of   *)
(* an inbox and announce changes to the broker.  The request handlers of   *)
(* sftp-server.c that change files, handles or messages are actions, one   *)
(* per system call where another session can come in between; the          *)
(* announcement that ends a handler is an action of MqNotify.              *)
(*                                                                         *)
(* The kernel's file system is one flat directory: dir maps a path to an   *)
(* inode, inode holds what is in it.  A session picks any free handle slot *)
(* (HandleAlloc; HandleTable implements it).  Requests that only read, and *)
(* requests that fail without an effect, leave the state as it is.         *)
(***************************************************************************)
EXTENDS MqNotify

CONSTANTS Paths, Inodes,
          Slots,            \* handle numbers; their number bounds open files
          OpenModes,        \* the pflags OPEN requests carry
          Data,             \* what a WRITE request carries: byte sequences
          MaxLen,           \* bound on the length of a file
          Ops,              \* the requests clients send
          MaxReqs,          \* bound on the requests of one session
          ReadOnly,         \* the sessions started as sftp-server -R
          LinkSupported,    \* does the file system have hard links?
          Faulty, MaxFaults,\* system calls that may fail, and how often
          Disciplined,      \* do clients follow the rules below?
          Owner,            \* path -> the session that uses it, if disciplined
          InitFiles         \* paths of files uploaded before

ASSUME InboxAssumption ==
    /\ 0 \notin Inodes
    /\ InitFiles \subseteq Paths /\ ReadOnly \subseteq Sessions
    /\ \E f \in [InitFiles -> Inodes] : \A p, q \in InitFiles : f[p] = f[q] => p = q
    /\ \A b \in Data : b \in Seq(Nat)
    /\ MaxLen \in Nat /\ MaxReqs \in Nat /\ MaxFaults \in Nat

VARIABLES dir,      \* path -> inode or NoInode
          inode,    \* inode -> its kind and its bytes
          handles,  \* session -> slot -> Handle
          todo,     \* session -> the rest of the request in progress
          reqs,     \* session -> number of requests so far
          faults,   \* number of failed system calls so far
          view      \* what the consumer of the messages believes of each path

fsvars == <<dir, inode>>
vars == <<mqvars, dir, inode, handles, todo, reqs, faults, view>>

-----------------------------------------------------------------------------
(* The file system, as the kernel implements it. *)

NoInode == 0
EmptyFile == [kind |-> "reg", data |-> << >>]
Kind(p) == IF dir[p] = NoInode THEN "none" ELSE inode[dir[p]].kind
NamesOf(i) == {p \in Paths : dir[p] = i}
Held(i) == \E s \in Sessions, h \in Slots :
               handles[s][h].use = "FILE" /\ handles[s][h].ino = i
FreeInodes == {i \in Inodes : NamesOf(i) = {} /\ ~Held(i)}
NewInode == CHOOSE i \in FreeInodes : TRUE

(* The bytes d after b is written at offset off; a gap reads as zeros. *)
WriteAt(d, off, b) ==
    IF b = << >> THEN d
    ELSE [k \in 1 .. IF Len(d) > off + Len(b) THEN Len(d) ELSE off + Len(b) |->
            IF k \in off + 1 .. off + Len(b) THEN b[k - off]
            ELSE IF k <= Len(d) THEN d[k] ELSE 0]

Truncate(d, n) == [k \in 1 .. n |-> IF k <= Len(d) THEN d[k] ELSE 0]

(* rename(2) succeeds, and its effect. *)
Renameable(old, new) ==
    /\ dir[old] # NoInode
    /\ Kind(new) \in {"none", Kind(old)}

Renamed(old, new) ==
    IF dir[old] = dir[new] THEN dir
    ELSE [dir EXCEPT ![new] = dir[old], ![old] = NoInode]

(* A system call fails although nothing in the model makes it fail. *)
Fails(call) ==
    /\ call \in Faulty
    /\ faults < MaxFaults
    /\ faults' = faults + 1

-----------------------------------------------------------------------------
(* Handles and flags. *)

O_RDONLY == {}              \* the value 0: no bit
O_WRONLY == {"WRONLY"}
O_RDWR   == {"RDWR"}
O_ACCMODE == {"WRONLY", "RDWR"}

flags_from_portable(pflags) ==
    (CASE {"READ", "WRITE"} \subseteq pflags -> O_RDWR
       [] "WRITE" \in pflags /\ "READ" \notin pflags -> O_WRONLY
       [] OTHER -> O_RDONLY)
    \cup (pflags \cap {"APPEND", "CREAT", "TRUNC", "EXCL"})

(* A checksum is represented by the bytes that went into it. *)
checksum_init == << >>
checksum_add(md, b) == md \o b

Unused(md) == [use |-> "UNUSED", ino |-> NoInode, flags |-> {}, name |-> "none",
               md |-> md]

IsOpen(s, h) == handles[s][h].use = "FILE"
NoHandles == [h \in Slots |-> Unused(<< >>)]
Idle == [step |-> "idle"]

InitInode == CHOOSE f \in [InitFiles -> Inodes] :
                 \A p, q \in InitFiles : f[p] = f[q] => p = q

Init ==
    /\ MqInit
    /\ dir = [p \in Paths |-> IF p \in InitFiles THEN InitInode[p] ELSE NoInode]
    /\ inode = [i \in Inodes |-> EmptyFile]
    /\ handles = [s \in Sessions |-> NoHandles]
    /\ todo = [s \in Sessions |-> Idle]
    /\ reqs = [s \in Sessions |-> 0]
    /\ faults = 0
    /\ view = [p \in Paths |-> IF p \in InitFiles THEN {<< << >>, 0 >>} ELSE {}]

-----------------------------------------------------------------------------
(* Requests. *)

DoesWrite == {"write", "setstat", "fsetstat", "remove", "mkdir", "rmdir",
              "rename", "posix_rename", "hardlink"}

request_permitted(s, op) == ~(s \in ReadOnly /\ op \in DoesWrite)

(* A disciplined client keeps to its own paths, and to one use of a path   *)
(* at a time.                                                              *)
Polite(s, paths) ==
    Disciplined =>
        \A p \in paths :
            /\ Owner[p] = s
            /\ \A h \in Slots : IsOpen(s, h) => handles[s][h].name # p

(* The session takes the next request off its queue. *)
Request(s, op, paths) ==
    /\ op \in Ops
    /\ at[s] = "idle"
    /\ todo[s] = Idle
    /\ reqs[s] < MaxReqs
    /\ reqs' = [reqs EXCEPT ![s] = @ + 1]
    /\ request_permitted(s, op)
    /\ Polite(s, paths)

(* The handler goes on with the request after other sessions had a turn. *)
Continue(s, step) ==
    /\ at[s] = "idle"
    /\ todo[s].step = step
    /\ UNCHANGED reqs

(* The handler returns, with a message to send first or without. *)
Return(s) == todo' = [todo EXCEPT ![s] = Idle]
Announce(s, m) == Return(s) /\ mq_send(s, m)
ReturnSilently(s) == Return(s) /\ UNCHANGED mqvars
GoOn(s, next) == todo' = [todo EXCEPT ![s] = next] /\ UNCHANGED mqvars

(* Slip: oldpath and newpath swapped. *)
Rename_Swapped(old, new) == [op |-> "rename", path |-> old, old |-> new]

Upload(h, size) == [op |-> "upload", path |-> h.name, digest |-> h.md, size |-> size]
Remove(p) == [op |-> "remove", path |-> p]
Rename(old, new) == [op |-> "rename", path |-> new, old |-> old]

Messages ==
    [op : {"upload"}, path : Paths, digest : Seq(Nat), size : Nat]
        \cup [op : {"remove"}, path : Paths]
        \cup [op : {"rename"}, path : Paths, old : Paths]

(* open(2) succeeds. *)
Opens(p, flags) ==
    CASE Kind(p) = "none" -> "CREAT" \in flags /\ FreeInodes # {}
      [] Kind(p) = "reg"  -> ~({"CREAT", "EXCL"} \subseteq flags)
      [] Kind(p) = "dir"  -> flags \cap (O_ACCMODE \cup {"CREAT", "TRUNC"}) = {}

(* Slip: the check looks at the access mode only. *)
RefusesToOpen_AccessModeOnly(s, flags) == s \in ReadOnly /\ flags \cap O_ACCMODE # {}

(* The readonly check of the handler itself. *)
RefusesToOpen(s, flags) ==
    s \in ReadOnly /\ flags \cap (O_ACCMODE \cup {"CREAT", "TRUNC"}) # {}

(* Slip: no checksum_init; the slot's former checksum goes on. *)
handle_new_StaleDigest(s, h, i, flags, p) ==
    [use |-> "FILE", ino |-> i, flags |-> flags, name |-> p, md |-> handles[s][h].md]

handle_new(s, h, i, flags, p) ==
    [use |-> "FILE", ino |-> i, flags |-> flags, name |-> p, md |-> checksum_init]

process_open(s, p, pflags) ==
    LET flags == flags_from_portable(pflags)
        i == IF dir[p] = NoInode THEN NewInode ELSE dir[p]
    IN  /\ Request(s, "open", {p})
        /\ ~RefusesToOpen(s, flags)
        /\ Opens(p, flags)
        /\ dir' = [dir EXCEPT ![p] = i]
        /\ inode' = IF dir[p] = NoInode \/ "TRUNC" \in flags
                    THEN [inode EXCEPT ![i] = EmptyFile]
                    ELSE inode
        /\ \E h \in Slots :
              /\ ~IsOpen(s, h)
              /\ handles' = [handles EXCEPT ![s][h] =
                                 handle_new(s, h, i, flags, p)]
        /\ UNCHANGED <<mqvars, todo, faults, view>>

(* A short write reports a failure and is left out of the checksum. *)
process_write(s, h, off, b) ==
    LET hd == handles[s][h]
        d == inode[hd.ino].data
        pos == IF "APPEND" \in hd.flags THEN Len(d) ELSE off
    IN  /\ Request(s, "write", {})
        /\ IsOpen(s, h)
        /\ hd.flags \cap O_ACCMODE # {}
        /\ Disciplined => off = Len(hd.md)
        /\ pos + Len(b) <= MaxLen
        /\ \E n \in 0 .. Len(b) :
              /\ inode' = [inode EXCEPT ![hd.ino].data =
                               WriteAt(@, pos, SubSeq(b, 1, n))]
              /\ IF n = Len(b)
                 THEN /\ handles' = [handles EXCEPT ![s][h].md = checksum_add(@, b)]
                      /\ UNCHANGED faults
                 ELSE /\ Fails("write")
                      /\ UNCHANGED handles
        /\ UNCHANGED <<mqvars, dir, todo, view>>

(* handle_close: fstat() first ... *)
process_close(s, h) ==
    LET hd == handles[s][h]
        size == Len(inode[hd.ino].data)
    IN  /\ Request(s, "close", {})
        /\ IsOpen(s, h)
        /\ Disciplined => Len(hd.md) = size \/ hd.flags = O_RDONLY
        /\ GoOn(s, [step |-> "close", h |-> h, size |-> size])
        /\ UNCHANGED <<fsvars, handles, faults, view>>

(* ... then close(), the announcement and the release of the slot, which   *)
(* only this process sees.                                                 *)
handle_close(s) ==
    LET h == todo[s].h
        hd == handles[s][h]
    IN  /\ Continue(s, "close")
        /\ handles' = [handles EXCEPT ![s][h] = Unused(hd.md)]
        /\ \/ /\ IF /\ hd.flags \cap {"CREAT", "TRUNC", "APPEND"} # {}
                    /\ ~(hd.flags \cap O_RDONLY # {})
                 THEN Announce(s, Upload(hd, todo[s].size))
                 ELSE ReturnSilently(s)
              /\ UNCHANGED faults
           \/ Fails("close") /\ ReturnSilently(s)
        /\ UNCHANGED <<fsvars, view>>

process_remove(s, p) ==
    /\ Request(s, "remove", {p})
    /\ Kind(p) = "reg"
    /\ dir' = [dir EXCEPT ![p] = NoInode]
    /\ Announce(s, Remove(p))
    /\ UNCHANGED <<inode, handles, faults, view>>

process_mkdir(s, p) ==
    /\ Request(s, "mkdir", {p})
    /\ Kind(p) = "none" /\ FreeInodes # {}
    /\ dir' = [dir EXCEPT ![p] = NewInode]
    /\ inode' = [inode EXCEPT ![NewInode] = [kind |-> "dir", data |-> << >>]]
    /\ UNCHANGED <<mqvars, handles, todo, faults, view>>

process_rmdir(s, p) ==
    /\ Request(s, "rmdir", {p})
    /\ Kind(p) = "dir"
    /\ dir' = [dir EXCEPT ![p] = NoInode]
    /\ UNCHANGED <<mqvars, inode, handles, todo, faults, view>>

(* truncate(): the only attribute that changes what a file holds. *)
process_setstat(s, p, n) ==
    /\ Request(s, "setstat", {p})
    /\ Kind(p) = "reg"
    /\ inode' = [inode EXCEPT ![dir[p]].data = Truncate(@, n)]
    /\ UNCHANGED <<mqvars, dir, handles, todo, faults, view>>

process_fsetstat(s, h, n) ==
    /\ Request(s, "fsetstat", {})
    /\ IsOpen(s, h)
    /\ handles[s][h].flags \cap O_ACCMODE # {}
    /\ inode' = [inode EXCEPT ![handles[s][h].ino].data = Truncate(@, n)]
    /\ UNCHANGED <<mqvars, dir, handles, todo, faults, view>>

process_hardlink(s, old, new) ==
    /\ Request(s, "hardlink", {old, new})
    /\ LinkSupported /\ Kind(old) = "reg" /\ Kind(new) = "none"
    /\ dir' = [dir EXCEPT ![new] = dir[old]]
    /\ UNCHANGED <<mqvars, inode, handles, todo, faults, view>>

process_posix_rename(s, old, new) ==
    /\ Request(s, "posix_rename", {old, new})
    /\ Renameable(old, new)
    /\ dir' = Renamed(old, new)
    /\ Announce(s, Rename(old, new))
    /\ UNCHANGED <<inode, handles, faults, view>>

(* RENAME, one step per system call.  A regular file is linked to its new  *)
(* name and unlinked from the old one; other files, and file systems       *)
(* without links, get stat() and rename().  names is history.              *)
process_rename(s, old, new) ==          \* lstat(oldpath)
    /\ Request(s, "rename", {old, new})
    /\ dir[old] # NoInode
    /\ GoOn(s, [step |-> IF Kind(old) = "reg" THEN "link" ELSE "stat",
                old |-> old, new |-> new,
                ino |-> dir[old], names |-> NamesOf(dir[old])])
    /\ UNCHANGED <<fsvars, handles, faults, view>>

rename_link(s) ==                       \* link(oldpath, newpath)
    LET r == todo[s]
    IN  /\ Continue(s, "link")
        /\ IF dir[r.old] = NoInode \/ dir[r.new] # NoInode
           THEN UNCHANGED dir /\ ReturnSilently(s)
           ELSE IF LinkSupported /\ Kind(r.old) = "reg"
           THEN /\ dir' = [dir EXCEPT ![r.new] = dir[r.old]]
                /\ GoOn(s, [r EXCEPT !.step = "unlink"])
           ELSE UNCHANGED dir /\ GoOn(s, [r EXCEPT !.step = "stat"])
        /\ UNCHANGED <<inode, handles, faults, view>>

rename_unlink(s) ==                     \* unlink(oldpath)
    LET r == todo[s]
    IN  /\ Continue(s, "unlink")
        /\ \/ /\ Kind(r.old) = "reg"
              /\ dir' = [dir EXCEPT ![r.old] = NoInode]
              /\ Announce(s, Rename(r.old, r.new))
              /\ UNCHANGED faults
           \/ /\ (Kind(r.old) # "reg" /\ UNCHANGED faults) \/ Fails("unlink")
              /\ GoOn(s, [r EXCEPT !.step = "undo"])
              /\ UNCHANGED dir
        /\ UNCHANGED <<inode, handles, view>>

(* Slip: the spare link is left behind. *)
rename_undo_KeepsLink(s) ==
    /\ Continue(s, "undo")
    /\ ReturnSilently(s)
    /\ UNCHANGED <<fsvars, handles, faults, view>>

rename_undo(s) ==                       \* unlink(newpath): clean spare link
    LET r == todo[s]
    IN  /\ Continue(s, "undo")
        /\ \/ /\ dir' = IF Kind(r.new) = "reg"
                        THEN [dir EXCEPT ![r.new] = NoInode] ELSE dir
              /\ UNCHANGED faults
           \/ Fails("unlink") /\ UNCHANGED dir
        /\ ReturnSilently(s)
        /\ UNCHANGED <<inode, handles, view>>

rename_stat(s) ==                       \* stat(newpath)
    LET r == todo[s]
    IN  /\ Continue(s, "stat")
        /\ IF dir[r.new] # NoInode
           THEN ReturnSilently(s)
           ELSE GoOn(s, [r EXCEPT !.step = "rename"])
        /\ UNCHANGED <<fsvars, handles, faults, view>>

rename_rename(s) ==                     \* rename(oldpath, newpath)
    LET r == todo[s]
    IN  /\ Continue(s, "rename")
        /\ IF Renameable(r.old, r.new)
           THEN dir' = Renamed(r.old, r.new) /\ Announce(s, Rename(r.old, r.new))
           ELSE UNCHANGED dir /\ ReturnSilently(s)
        /\ UNCHANGED <<inode, handles, faults, view>>

-----------------------------------------------------------------------------
(* The process around the handlers. *)

Start(s, resolved) ==
    /\ load_mq_config(s, resolved)
    /\ UNCHANGED <<fsvars, handles, todo, reqs, faults, view>>

(* The handler is inside mq_send_*. *)
Publish(s) ==
    /\ Connect(s) \/ do_send_message(s)
    /\ UNCHANGED <<fsvars, handles, todo, reqs, faults, view>>

(* End of input: the process cleans up, and handles still open get no      *)
(* announcement.                                                           *)
Exit(s) ==
    /\ todo[s] = Idle
    /\ Disciplined => \A h \in Slots : ~IsOpen(s, h)
    /\ mq_clean(s)
    /\ UNCHANGED <<fsvars, handles, todo, reqs, faults, view>>

Exited(s) ==
    /\ mq_clean_return(s)
    /\ handles' = [handles EXCEPT ![s] = NoHandles]
    /\ UNCHANGED <<fsvars, todo, reqs, faults, view>>

Die(s) ==
    /\ die(s)
    /\ handles' = [handles EXCEPT ![s] = NoHandles]
    /\ todo' = [todo EXCEPT ![s] = Idle]
    /\ UNCHANGED <<fsvars, reqs, faults, view>>

LinkBreaks(s) ==
    /\ \E how \in {"mute", "down"} : Break(s, how)
    /\ UNCHANGED <<fsvars, handles, todo, reqs, faults, view>>

(* The consumer believes every message it gets. *)
Believe(v, m) ==
    CASE m.op = "upload" -> [v EXCEPT ![m.path] = {<<m.digest, m.size>>}]
      [] m.op = "remove" -> [v EXCEPT ![m.path] = {}]
      [] m.op = "rename" /\ m.old = m.path -> v
      [] OTHER -> [v EXCEPT ![m.path] = v[m.old], ![m.old] = {}]

Consume(s) ==
    /\ Receive(s)
    /\ view' = Believe(view, hist[s][Head(wire[s])])
    /\ UNCHANGED <<fsvars, handles, todo, reqs, faults>>

Handlers(s) ==
    \/ \E p \in Paths, pflags \in OpenModes : process_open(s, p, pflags)
    \/ \E h \in Slots, off \in 0 .. MaxLen, b \in Data : process_write(s, h, off, b)
    \/ \E h \in Slots : process_close(s, h)
    \/ \E p \in Paths : process_remove(s, p)
    \/ \E p \in Paths : process_mkdir(s, p)
    \/ \E p \in Paths : process_rmdir(s, p)
    \/ \E p \in Paths, n \in 0 .. MaxLen : process_setstat(s, p, n)
    \/ \E h \in Slots, n \in 0 .. MaxLen : process_fsetstat(s, h, n)
    \/ \E old, new \in Paths : process_hardlink(s, old, new)
    \/ \E old, new \in Paths : process_posix_rename(s, old, new)
    \/ \E old, new \in Paths : process_rename(s, old, new)

Proceed(s) ==
    \/ handle_close(s)
    \/ rename_link(s)
    \/ rename_unlink(s)
    \/ rename_undo(s)
    \/ rename_stat(s)
    \/ rename_rename(s)
    \/ Publish(s)
    \/ Exited(s)

Next ==
    \E s \in Sessions :
        \/ \E resolved \in BOOLEAN : Start(s, resolved)
        \/ Handlers(s)
        \/ Proceed(s)
        \/ Exit(s)
        \/ Die(s)
        \/ LinkBreaks(s)
        \/ Consume(s)

Spec == Init /\ [][Next]_vars

(* A process that is inside a handler goes on, and a broker that is up     *)
(* reads its connections.  Clients owe nothing.                            *)
FairSpec == Spec /\ \A s \in Sessions : WF_vars(Proceed(s)) /\ WF_vars(Consume(s))

-----------------------------------------------------------------------------
RenameSteps == {"link", "unlink", "undo", "stat", "rename"}

TypeOK ==
    /\ MqTypeOK
    /\ dir \in [Paths -> Inodes \cup {NoInode}]
    /\ \A i \in Inodes : inode[i].kind \in {"reg", "dir"} /\ Len(inode[i].data) <= MaxLen
    /\ \A s \in Sessions, h \in Slots :
          LET hd == handles[s][h]
          IN  IF IsOpen(s, h)
              THEN hd.ino \in Inodes /\ hd.name \in Paths
              ELSE hd = Unused(hd.md)
    /\ \A s \in Sessions : todo[s].step \in RenameSteps \cup {"idle", "close"}
    /\ reqs \in [Sessions -> 0 .. MaxReqs] /\ faults \in 0 .. MaxFaults

(* No request is in progress and no file open; every message has arrived. *)
Quiescent ==
    \A s \in Sessions :
        /\ at[s] \in {"new", "idle", "exited"}
        /\ todo[s] = Idle
        /\ \A h \in Slots : ~IsOpen(s, h)
        /\ Len(got[s]) = Len(hist[s])

(* What a consumer should believe of a path. *)
Truth(p) == IF Kind(p) = "reg"
            THEN {<<inode[dir[p]].data, Len(inode[dir[p]].data)>>}
            ELSE {}

(* Clients that upload: a file that is written is created or emptied first *)
(* and written from the start, and nothing but a write fails.              *)
Uploads ==
    /\ Disciplined /\ ~Unreliable
    /\ \A p \in Paths : Owner[p] \in Sessions
    /\ Ops \cap {"hardlink", "setstat", "fsetstat"} = {}
    /\ Faulty \subseteq {"write"}
    /\ \A m \in OpenModes :
          IF "WRITE" \in m
          THEN "APPEND" \notin m /\ ("TRUNC" \in m \/ {"CREAT", "EXCL"} \subseteq m)
          ELSE m \cap {"CREAT", "TRUNC", "APPEND"} = {}

(* When clients upload a path at a time, in order and from the start, and  *)
(* nothing is lost, the messages tell a consumer exactly which files the   *)
(* inbox holds, with the size and the checksum of all their bytes: across  *)
(* reuse of handle slots, replaced and renamed files, short writes that    *)
(* are tried again, and both forms of rename.                              *)
ViewIsInbox == Quiescent => \A p \in Paths : view[p] = Truth(p)

(* While a disciplined client uploads, the checksum of the handle is that  *)
(* of the beginning of the file: what was acknowledged to the client       *)
(* (process_write adds full writes only), nothing of an earlier user of    *)
(* the slot, and no byte another session put there.  A slot that is not in *)
(* use holds nothing but that digest.                                      *)
DigestIsPrefix ==
    TypeOK /\ \A s \in Sessions, h \in Slots :
        LET hd == handles[s][h]
        IN  IsOpen(s, h) /\ hd.flags \cap O_ACCMODE # {} =>
                /\ Len(hd.md) <= Len(inode[hd.ino].data)
                /\ hd.md = SubSeq(inode[hd.ino].data, 1, Len(hd.md))

(* A session alone in the inbox in which at most one system call fails: a  *)
(* RENAME that process_rename gets to the end of either moves the name of  *)
(* the file and announces it, or leaves every name of the file as it was   *)
(* and announces nothing.  To announce is to call mq_send, whether or not  *)
(* the message arrives.  A process that dies between link() and unlink()   *)
(* leaves both names and is not spoken of here.                            *)
RenameAllOrNothing ==
    [][\A s \in Sessions :
          LET r == todo[s]
          IN  r.step \in RenameSteps /\ todo'[s] = Idle /\ at'[s] # "exited" =>
                {p \in Paths : dir'[p] = r.ino} =
                    IF hist'[s] # hist[s] THEN (r.names \ {r.old}) \cup {r.new}
                                          ELSE r.names]_vars

(* A session started with -R never changes a file or a name, whatever the  *)
(* others do to the files it has open: what request_permitted lets through *)
(* and process_open refuses by itself together leave no way in.            *)
ReadOnlyUntouched ==
    [][\A s \in ReadOnly :
          reqs'[s] # reqs[s] \/ todo'[s] # todo[s] => UNCHANGED fsvars]_vars

(* Every operation that has to be announced reaches the broker, if         *)
(* processes and connections do not fail.                                  *)
EventuallyAnnounced ==
    \A s \in Sessions : \A n \in 1 .. MaxReqs :
        Len(hist[s]) >= n ~> Len(got[s]) >= n

(* handle_close: "not Read-Only".  Closing a handle that was opened for    *)
(* reading announces no upload.                                            *)
ReadersAnnounceNothing ==
    [][\A s \in Sessions, h \in Slots :
          /\ IsOpen(s, h) /\ handles[s][h].flags \cap O_ACCMODE = {}
          /\ todo[s].step = "close" /\ todo[s].h = h
          => hist'[s] = hist[s]]_vars

(* process_rename: "Race-free rename of regular files".  While clients     *)
(* only rename, every file keeps a name.                                   *)
RenameLosesNoFile == \A p \in InitFiles : NamesOf(InitInode[p]) # {}
=============================================================================

----------------------------- MODULE HandleTable -----------------------------
(***************************************************************************)
(* The handle table of one sftp-server process: the array "handles", its   *)
(* length and the list of free slots threaded through next_unused.  The    *)
(* OPEN, OPENDIR and CLOSE requests are the only ones that change it.       *)
(*                                                                         *)
(* A directory stream is represented by the descriptor it owns, so fd      *)
(* stands for the fields fd and dirp.  The fields flags, bytes_* and md    *)
(* play no part in allocation; Inbox models flags and md.                  *)
(***************************************************************************)
EXTENDS Integers, Sequences, FiniteSets

CONSTANTS Fds,       \* the descriptors the process may have open at once
          Names,     \* path names in requests
          INT_MAX    \* the largest C int

(* The kernel's limit on open descriptors (fs.nr_open) is below 2^31. *)
ASSUME FdsAssumption ==
    /\ IsFiniteSet(Fds)
    /\ INT_MAX \in Nat
    /\ Cardinality(Fds) <= INT_MAX

UINT_MAX == 2 * INT_MAX + 1

HANDLE_UNUSED == "UNUSED"
HANDLE_DIR    == "DIR"
HANDLE_FILE   == "FILE"

VARIABLES handles,              \* slot -> Handle
          num_handles,          \* u_int: the length of the array
          first_unused_handle,  \* head of the free list, -1 when empty
          openfds,              \* kernel: the descriptors that are open
          free                  \* history: the free slots, last freed first

vars == <<handles, num_handles, first_unused_handle, openfds, free>>

Slots == 0 .. num_handles - 1

Handle == [use : {HANDLE_UNUSED, HANDLE_DIR, HANDLE_FILE},
           fd : Fds, name : Names, next_unused : Int]

handle_is_ok(i, type) == i \in Slots /\ handles[i].use = type

Init == /\ handles = [i \in {} |-> i]
        /\ num_handles = 0
        /\ first_unused_handle = -1
        /\ openfds = {}
        /\ free = << >>

-----------------------------------------------------------------------------
(* Slip: the free list is not advanced past the slot that is taken. *)
TakeFree_NotPopped(use, name, fd) ==
    /\ handles' = [handles EXCEPT ![first_unused_handle].use = use,
                                  ![first_unused_handle].fd = fd,
                                  ![first_unused_handle].name = name]
    /\ UNCHANGED <<first_unused_handle, num_handles, free>>

(* Take the head of the free list. *)
TakeFree(use, name, fd) ==
    LET i == first_unused_handle
    IN  /\ first_unused_handle' = handles[i].next_unused
        /\ handles' = [handles EXCEPT ![i].use = use,
                                      ![i].fd = fd,
                                      ![i].name = name]
        /\ num_handles' = num_handles
        /\ free' = Tail(free)

(* xreallocarray, handle_unused on the new slot, which handle_new then takes. *)
Grow(use, name, fd) ==
    /\ num_handles' = num_handles + 1
    /\ handles' = [i \in 0 .. num_handles |->
                     IF i = num_handles
                     THEN [use |-> use, fd |-> fd, name |-> name,
                           next_unused |-> first_unused_handle]
                     ELSE handles[i]]
    /\ UNCHANGED <<first_unused_handle, free>>

(* num_handles + 1 <= num_handles: the u_int has wrapped. *)
Overflows == (num_handles + 1) % (UINT_MAX + 1) <= num_handles

(* Slip: the array grows although free slots are left. *)
handle_new_AlwaysGrows(use, name, fd) ==
    /\ Grow(use, name, fd)
    /\ openfds' = openfds \cup {fd}

(* The kernel has opened fd.  When no slot can be had the caller closes it *)
(* again; otherwise the client gets the handle.                            *)
handle_new(use, name, fd) ==
    IF first_unused_handle # -1
    THEN TakeFree(use, name, fd) /\ openfds' = openfds \cup {fd}
    ELSE IF Overflows
    THEN UNCHANGED vars
    ELSE Grow(use, name, fd) /\ openfds' = openfds \cup {fd}

process_open(name, fd) ==
    /\ fd \notin openfds
    /\ handle_new(HANDLE_FILE, name, fd)

process_opendir(name, fd) ==
    /\ fd \notin openfds
    /\ handle_new(HANDLE_DIR, name, fd)

(* Slip: the freed slot is not linked to the rest of the list. *)
handle_unused_LosesTail(i) ==
    /\ handles' = [handles EXCEPT ![i].use = HANDLE_UNUSED,
                                  ![i].next_unused = -1]
    /\ first_unused_handle' = i
    /\ free' = <<i>> \o free
    /\ UNCHANGED num_handles

handle_unused(i) ==
    /\ handles' = [handles EXCEPT ![i].use = HANDLE_UNUSED,
                                  ![i].next_unused = first_unused_handle]
    /\ first_unused_handle' = i
    /\ free' = <<i>> \o free
    /\ UNCHANGED num_handles

(* Slip: an early return when close() fails keeps the slot in use. *)
process_close_EarlyReturn(i) ==
    IF handle_is_ok(i, HANDLE_FILE) \/ handle_is_ok(i, HANDLE_DIR)
    THEN /\ openfds' = openfds \ {handles[i].fd}
         /\ handle_unused(i) \/ UNCHANGED <<handles, num_handles,
                                            first_unused_handle, free>>
    ELSE UNCHANGED vars

(* close() and closedir() release the descriptor even when they report an  *)
(* error, and the slot is freed whatever they return.  A number that is no *)
(* live handle is answered with ENOENT.                                    *)
process_close(i) ==
    IF handle_is_ok(i, HANDLE_FILE) \/ handle_is_ok(i, HANDLE_DIR)
    THEN /\ openfds' = openfds \ {handles[i].fd}
         /\ handle_unused(i)
    ELSE UNCHANGED vars

(* A client may send any number as a handle, INT_MAX included. *)
Next == \/ \E name \in Names, fd \in Fds : process_open(name, fd)
        \/ \E name \in Names, fd \in Fds : process_opendir(name, fd)
        \/ \E i \in -1 .. INT_MAX : process_close(i)

Spec == Init /\ [][Next]_vars

-----------------------------------------------------------------------------
Used == {i \in Slots : handles[i].use # HANDLE_UNUSED}

TypeOK ==
    /\ num_handles \in Nat
    /\ handles \in [Slots -> Handle]
    /\ first_unused_handle \in Slots \cup {-1}
    /\ openfds \in SUBSET Fds
    /\ free \in Seq(Slots)

(* The list that starts at first_unused_handle and follows next_unused     *)
(* (handle_unused, handle_new) passes through every unused slot exactly    *)
(* once, through no live one, and ends at -1: a cycle or a lost tail would *)
(* hand the same slot to two clients, or leak slots.                       *)
FreeListExact ==
    /\ {free[k] : k \in 1 .. Len(free)} = Slots \ Used
    /\ \A k, l \in 1 .. Len(free) : free[k] = free[l] => k = l
    /\ first_unused_handle = IF free = << >> THEN -1 ELSE free[1]
    /\ \A k \in 1 .. Len(free) :
          handles[free[k]].next_unused =
              IF k = Len(free) THEN -1 ELSE free[k + 1]

(* Every open descriptor belongs to exactly one live handle: process_open, *)
(* process_opendir and handle_close neither leak a descriptor nor let two  *)
(* handles share one.                                                      *)
OneOwner ==
    /\ openfds = {handles[i].fd : i \in Used}
    /\ \A i, j \in Used : handles[i].fd = handles[j].fd => i = j

(* However long a session opens and closes, the array is never longer than *)
(* the number of descriptors that can be open at once.  So the u_int never *)
(* wraps, and the conversions of a slot to int in handle_new and           *)
(* handle_to_string are exact.                                             *)
Bounded == num_handles <= Cardinality(Fds) /\ ~Overflows

(* The promise of HandleAlloc, read off the table.  A handle's number is   *)
(* below the number of descriptors that can be open at once.               *)
Live == {[id |-> i, use |-> handles[i].use, fd |-> handles[i].fd,
          name |-> handles[i].name] : i \in Used}

Promise == INSTANCE HandleAlloc WITH live <- Live,
                                 Ids <- 0 .. Cardinality(Fds) - 1

(* A handle keeps naming the resource it was granted for until its own     *)
(* CLOSE, and handle_new never grants a live one.                          *)
ImplementsHandleAlloc == Promise!Spec
=============================================================================

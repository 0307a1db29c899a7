------------------------------ MODULE MqConfig ------------------------------
(***************************************************************************)
(* Loading mq.conf (mq-config.c).  All strings go into one buffer of       *)
(* mq_options; when it is too small it is freed, a buffer twice the size   *)
(* is allocated and the file is read again from the start.                 *)
(*                                                                         *)
(* No two buffers have the same size, so a pointer is represented by the   *)
(* size of the buffer it points into.  What a string says does not matter, *)
(* its length does.                                                        *)
(***************************************************************************)
EXTENDS Integers, Sequences

CONSTANTS Files,      \* what mq.conf may hold: sequences of lines
          FirstSize,  \* 100 bytes
          Lengths     \* of the strings that do not come from a line

NULL == 0
GARBAGE == -1         \* what malloc left there; taken to be no live buffer

(* The destinations of copy2buffer. *)
DsnParts == <<"host", "vhost", "username", "password">>
Pointers == {"cfgfile", "exchange", "routing_key", "dsn", "cacert",
             "host", "vhost", "username", "password", "ip"}

(* The keys whose values are copied, and where to. *)
Dest == [exchange |-> "exchange", routing_key |-> "routing_key",
         connection |-> "dsn", cacert |-> "cacert"]

(* A string ends with a NUL, so it takes a byte at least. *)
ASSUME ConfigAssumption ==
    /\ Files \subseteq Seq([key : STRING, len : Nat \ {0}])
    /\ FirstSize \in Nat \ {0}
    /\ Lengths \in [{"cfgfile", "host", "vhost", "username", "password", "ip"} -> Nat \ {0}]

VARIABLES file,     \* the lines of mq.conf
          url_ok,   \* does its connection string parse?
          pc,
          i,        \* next line, or next part of the connection string
          size, left,   \* of the buffer, and what is left of it
          ptr,      \* mq_options: pointer -> NULL, GARBAGE or a buffer
          inits     \* calls of mq_init

input == <<file, url_ok>>
vars == <<input, pc, i, size, left, ptr, inits>>

Init ==
    /\ file \in Files /\ url_ok \in BOOLEAN
    /\ pc = "fopen" /\ i = 1
    /\ size = FirstSize /\ left = 0
    /\ ptr = [p \in Pointers |-> GARBAGE]
    /\ inits = 0

-----------------------------------------------------------------------------
(* An unreadable file, or EACCES left in errno by an earlier call. *)
fopen ==
    /\ pc = "fopen"
    /\ pc' \in {"alloc", "failed"}
    /\ UNCHANGED <<input, i, size, left, ptr, inits>>

alloc ==
    /\ pc = "alloc"
    /\ left' = size
    /\ pc' = "defaults"
    /\ UNCHANGED <<input, i, size, ptr, inits>>

(* Slip: the terminating NUL is not counted. *)
Fits_OffByOne(n) == n <= left + 1

Fits(n) == n <= left

(* Slip: the buffer keeps its size. *)
Retry_SameSize == pc' = "alloc" /\ i' = 1 /\ UNCHANGED <<size, left, ptr>>

(* Slip: the file is not rewound. *)
Retry_NoRewind == /\ pc' = "alloc" /\ size' = 2 * size /\ UNCHANGED <<i, left, ptr>>

(* readconfig has returned -1: rewind and double. *)
Retry == /\ pc' = "alloc"
         /\ i' = 1
         /\ size' = 2 * size
         /\ UNCHANGED <<left, ptr>>

(* Copy a string of n bytes and set p, or give up on this buffer. *)
copy2buffer(n, p, at, j) ==
    IF Fits(n)
    THEN /\ left' = left - n
         /\ ptr' = [ptr EXCEPT ![p] = size]
         /\ pc' = at /\ i' = j
         /\ UNCHANGED size
    ELSE Retry

(* Defaults; exchange and routing_key have none.  When the buffer is too   *)
(* small for the name of the file, the defaults have been set already.     *)
Reset == [p \in Pointers |->
            IF p \in {"cfgfile", "exchange", "routing_key"} THEN ptr[p] ELSE NULL]

defaults ==
    /\ pc = "defaults"
    /\ IF Fits(Lengths["cfgfile"])
       THEN /\ left' = left - Lengths["cfgfile"]
            /\ ptr' = [Reset EXCEPT !["cfgfile"] = size]
            /\ pc' = "lines"
            /\ UNCHANGED <<i, size>>
       ELSE /\ pc' = "alloc" /\ size' = 2 * size
            /\ ptr' = Reset
            /\ UNCHANGED <<i, left>>
    /\ UNCHANGED <<input, inits>>

(* One line; keys without a string, and unknown ones, copy nothing. *)
line ==
    /\ pc = "lines"
    /\ IF i > Len(file)
       THEN pc' = "dsn" /\ i' = 1 /\ UNCHANGED <<size, left, ptr>>
       ELSE IF file[i].key \in DOMAIN Dest
       THEN copy2buffer(file[i].len, Dest[file[i].key], "lines", i + 1)
       ELSE i' = i + 1 /\ UNCHANGED <<pc, size, left, ptr>>
    /\ UNCHANGED <<input, inits>>

(* No connection string, or one that does not parse, is no reason to fail: *)
(* only negative results are.                                              *)
dsn_parse ==
    /\ pc = "dsn"
    /\ IF ptr["dsn"] = NULL \/ ~url_ok
       THEN pc' = "loaded" /\ UNCHANGED <<i, size, left, ptr>>
       ELSE IF i > Len(DsnParts)
       THEN pc' = "ip" /\ UNCHANGED <<i, size, left, ptr>>
       ELSE copy2buffer(Lengths[DsnParts[i]], DsnParts[i], "dsn", i + 1)
    /\ UNCHANGED <<input, inits>>

convert_host_to_ip ==
    /\ pc = "ip"
    /\ \/ copy2buffer(Lengths["ip"], "ip", "init", i)
       \/ pc' = "loaded" /\ UNCHANGED <<i, size, left, ptr>>    \* no such host
    /\ UNCHANGED <<input, inits>>

mq_init ==
    /\ pc = "init"
    /\ inits' = inits + 1
    /\ pc' = "loaded"
    /\ UNCHANGED <<input, i, size, left, ptr>>

Next == fopen \/ alloc \/ defaults \/ line \/ dsn_parse \/ convert_host_to_ip \/ mq_init

Spec == Init /\ [][Next]_vars

(* load_mq_config runs to its end: nothing in it waits for anyone but the  *)
(* resolver, which answers or times out.                                   *)
FairSpec == Spec /\ WF_vars(Next)

-----------------------------------------------------------------------------
Keys == {file[k].key : k \in 1 .. Len(file)}

TypeOK ==
    /\ pc \in {"fopen", "alloc", "defaults", "lines", "dsn", "ip", "init",
               "loaded", "failed"}
    /\ file \in Files
    /\ i \in Nat \ {0}
    /\ size \in Nat \ {0} /\ left \in 0 .. size
    /\ ptr \in [Pointers -> Int]
    /\ inits \in {0, 1}

(* However often the buffer was replaced, no option points into a buffer   *)
(* that was freed, and every option that the file sets points into the     *)
(* current one.                                                            *)
NothingDangles ==
    pc = "loaded" =>
        /\ \A p \in Pointers : ptr[p] \in {NULL, GARBAGE, size}
        /\ \A k \in Keys \cap DOMAIN Dest : ptr[Dest[k]] = size
        /\ inits = 1 => \A p \in {"host", "vhost", "username", "password", "ip"} : ptr[p] = size

(* Doubling ends: the file is loaded or found unreadable. *)
Terminates == <>(pc \in {"loaded", "failed"})
=============================================================================

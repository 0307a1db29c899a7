--------------------------- MODULE MqConfigProofs ---------------------------
(***************************************************************************)
(* Proofs about loading mq.conf, for every file and all lengths: the       *)
(* buffer never overflows, and no option is left pointing into a buffer    *)
(* that was freed.                                                         *)
(***************************************************************************)
EXTENDS MqConfig, SequenceTheorems, TLAPS

Reading == {"lines", "dsn", "ip", "init", "loaded"}
Parsed == {"dsn", "ip", "init", "loaded"}
Address == {"host", "vhost", "username", "password"}

(* exchange and routing_key have no default: before the file is read again *)
(* they may point into a freed buffer, but then a line of the file sets    *)
(* them.                                                                   *)
Origin ==
    \A p \in {"exchange", "routing_key"} :
        ptr[p] = GARBAGE \/ \E k \in 1 .. Len(file) : file[k].key = p

(* The other pointers are reset for every buffer. *)
Fresh ==
    pc \in Reading =>
        \A p \in Pointers \ {"exchange", "routing_key"} : ptr[p] \in {NULL, size}

Set(k) == file[k].key \in DOMAIN Dest => ptr[Dest[file[k].key]] = size

(* The lines read so far have been copied to the current buffer. *)
Copied ==
    /\ pc = "lines" => \A k \in 1 .. Len(file) : k < i => Set(k)
    /\ pc \in Parsed => \A k \in 1 .. Len(file) : Set(k)

(* So have the parts of the connection string, and the address. *)
Located ==
    /\ pc = "dsn" => \A k \in 1 .. Len(DsnParts) : k < i => ptr[DsnParts[k]] = size
    /\ pc \in {"ip", "init"} => \A p \in Address : ptr[p] = size
    /\ pc = "init" => ptr["ip"] = size
    /\ inits = 0 \/ (pc = "loaded" /\ \A p \in Address \cup {"ip"} : ptr[p] = size)

(* Before the file is read, it is at its first line. *)
Rewound == pc \in {"fopen", "alloc", "defaults"} => i = 1

Inv == TypeOK /\ Origin /\ Fresh /\ Copied /\ Located /\ Rewound

(* What a key sets is a pointer, and the two without default set their     *)
(* namesakes.                                                              *)
LEMMA DestFacts ==
    /\ DOMAIN Dest = {"exchange", "routing_key", "connection", "cacert"}
    /\ \A k \in DOMAIN Dest : Dest[k] \in Pointers
    /\ Dest["exchange"] = "exchange" /\ Dest["routing_key"] = "routing_key"
    /\ \A k \in DOMAIN Dest \ {"exchange", "routing_key"} :
          Dest[k] \notin {"exchange", "routing_key"}
  BY DEF Dest, Pointers

(* The parts of a connection string are the four parts of the address. *)
LEMMA PartFacts ==
    /\ Len(DsnParts) = 4
    /\ \A k \in 1 .. 4 : DsnParts[k] \in Address
    /\ \A p \in Address : \E k \in 1 .. 4 : DsnParts[k] = p
  <1>1. Len(DsnParts) = 4
    BY DEF DsnParts
  <1>2. /\ DsnParts[1] = "host" /\ DsnParts[2] = "vhost"
        /\ DsnParts[3] = "username" /\ DsnParts[4] = "password"
    BY DEF DsnParts
  <1>3. \A k \in 1 .. 4 : k = 1 \/ k = 2 \/ k = 3 \/ k = 4
    OBVIOUS
  <1> QED BY <1>1, <1>2, <1>3 DEF Address

LEMMA LengthFacts ==
    \A p \in Address \cup {"cfgfile", "ip"} : p \in Pointers /\ Lengths[p] \in Nat \ {0}
  BY ConfigAssumption DEF Address, Pointers

LEMMA InitInv == Init => Inv
  <1> SUFFICES ASSUME Init PROVE Inv
    OBVIOUS
  <1>1. TypeOK
    BY ConfigAssumption DEF Init, TypeOK, GARBAGE
  <1>2. Origin
    BY DEF Init, Origin, Pointers
  <1>3. Fresh /\ Copied /\ Located /\ Rewound
    BY DEF Init, Fresh, Copied, Located, Rewound, Reading, Parsed
  <1> QED BY <1>1, <1>2, <1>3 DEF Inv

(* The steps that copy nothing. *)
LEMMA Skip ==
    ASSUME Inv, fopen \/ alloc \/ mq_init
    PROVE  Inv'
  BY DEF fopen, alloc, mq_init, input, Inv, TypeOK, Origin, Fresh, Copied, Located, Rewound,
         Reading, Parsed, Set

(* Giving up on a buffer loses nothing that still matters: only what a     *)
(* line sets again may point into it.                                      *)
LEMMA Retried ==
    ASSUME Inv, inits = 0, Retry, UNCHANGED <<input, inits>>
    PROVE  Inv'
  BY DEF Retry, input, Inv, TypeOK, Origin, Fresh, Copied, Located, Rewound, Reading, Parsed

(* A pointer that is set keeps what is known of the others. *)
LEMMA Stored ==
    ASSUME Inv, NEW n \in Nat \ {0}, NEW p \in Pointers, Fits(n),
           ptr' = [ptr EXCEPT ![p] = size], left' = left - n,
           UNCHANGED <<input, inits, size>>
    PROVE  /\ left' \in 0 .. size /\ ptr' \in [Pointers -> Int]
           /\ ptr'[p] = size
           /\ \A q \in Pointers : ptr'[q] = ptr[q] \/ ptr'[q] = size
           /\ \A q \in Pointers : ptr[q] = size => ptr'[q] = size
           /\ \A q \in Pointers \ {p} : ptr'[q] = ptr[q]
  BY DEF Fits, Inv, TypeOK

LEMMA DefaultsInv == Inv /\ defaults => Inv'
  <1> SUFFICES ASSUME Inv, defaults PROVE Inv'
    OBVIOUS
  <1> USE DEF input
  <1>1. Reset \in [Pointers -> Int]
    BY DEF Reset, Inv, TypeOK, NULL
  <1>2. i = 1 /\ inits = 0
    BY DEF defaults, Inv, Rewound, Located
  <1>3. CASE Fits(Lengths["cfgfile"])
    <2>1. /\ left' = left - Lengths["cfgfile"]
          /\ ptr' = [Reset EXCEPT !["cfgfile"] = size]
          /\ pc' = "lines"
          /\ UNCHANGED <<i, size, file, url_ok, inits>>
      BY <1>3 DEF defaults
    <2>2. TypeOK'
      BY <1>1, <1>3, <2>1, LengthFacts DEF Fits, Inv, TypeOK
    <2>3. /\ \A p \in Pointers \ {"exchange", "routing_key"} : ptr'[p] \in {NULL, size}
          /\ \A p \in {"exchange", "routing_key"} : ptr'[p] = ptr[p]
      BY <2>1 DEF Reset, Pointers
    <2>4. Origin' /\ Fresh'
      BY <2>1, <2>3 DEF Inv, Origin, Fresh
    <2>5. Copied' /\ Located' /\ Rewound'
      BY <1>2, <2>1 DEF Copied, Located, Rewound, Parsed
    <2> QED BY <2>2, <2>4, <2>5 DEF Inv
  <1>4. CASE ~Fits(Lengths["cfgfile"])
    <2>1. /\ pc' = "alloc" /\ size' = 2 * size /\ ptr' = Reset
          /\ UNCHANGED <<i, left, file, url_ok, inits>>
      BY <1>4 DEF defaults
    <2>2. TypeOK'
      BY <1>1, <2>1 DEF Inv, TypeOK
    <2>3. \A p \in {"exchange", "routing_key"} : ptr'[p] = ptr[p]
      BY <2>1 DEF Reset, Pointers
    <2>4. Origin'
      BY <2>1, <2>3 DEF Inv, Origin
    <2>5. Fresh' /\ Copied' /\ Located' /\ Rewound'
      BY <1>2, <2>1 DEF Fresh, Copied, Located, Rewound, Reading, Parsed
    <2> QED BY <2>2, <2>4, <2>5 DEF Inv
  <1> QED BY <1>3, <1>4

LEMMA LineInv == Inv /\ line => Inv'
  <1> SUFFICES ASSUME Inv, line PROVE Inv'
    OBVIOUS
  <1> USE DEF input
  <1>1. /\ pc = "lines" /\ inits = 0 /\ i \in Nat \ {0}
        /\ UNCHANGED <<file, url_ok, inits>>
    BY DEF line, Inv, TypeOK, Located
  <1>2. CASE i > Len(file)
    <2>1. pc' = "dsn" /\ i' = 1 /\ UNCHANGED <<size, left, ptr>>
      BY <1>2 DEF line
    <2>2. \A k \in 1 .. Len(file) : k < i
      BY <1>1, <1>2, ConfigAssumption DEF Inv, TypeOK
    <2> QED BY <1>1, <2>1, <2>2
            DEF Inv, TypeOK, Origin, Fresh, Copied, Located, Rewound, Reading, Parsed, Set
  <1>3. CASE ~(i > Len(file)) /\ file[i].key \in DOMAIN Dest
    <2>1. copy2buffer(file[i].len, Dest[file[i].key], "lines", i + 1)
      BY <1>3 DEF line
    <2>2. i \in 1 .. Len(file) /\ file[i].len \in Nat \ {0}
      <3>1. file \in Seq([key : STRING, len : Nat \ {0}])
        BY ConfigAssumption DEF Inv, TypeOK
      <3>2. i \in 1 .. Len(file)
        BY <1>1, <1>3, <3>1
      <3>3. file[i] \in [key : STRING, len : Nat \ {0}]
        BY <3>1, <3>2, ElementOfSeq
      <3> QED BY <3>2, <3>3
    <2>3. Dest[file[i].key] \in Pointers
      BY <1>3, DestFacts
    <2>4. CASE Fits(file[i].len)
      <3>1. /\ left' = left - file[i].len
            /\ ptr' = [ptr EXCEPT ![Dest[file[i].key]] = size]
            /\ pc' = "lines" /\ i' = i + 1 /\ UNCHANGED size
        BY <2>1, <2>4 DEF copy2buffer
      <3>2. /\ left' \in 0 .. size /\ ptr' \in [Pointers -> Int]
            /\ ptr'[Dest[file[i].key]] = size
            /\ \A q \in Pointers : ptr'[q] = ptr[q] \/ ptr'[q] = size
            /\ \A q \in Pointers : ptr[q] = size => ptr'[q] = size
            /\ \A q \in Pointers \ {Dest[file[i].key]} : ptr'[q] = ptr[q]
        BY <1>1, <2>2, <2>3, <2>4, <3>1, Stored
      <3>3. TypeOK'
        BY <1>1, <3>1, <3>2 DEF Inv, TypeOK
      <3>4. Origin'
        <4>1. SUFFICES ASSUME NEW p \in {"exchange", "routing_key"}
                       PROVE  ptr'[p] = GARBAGE \/ \E k \in 1 .. Len(file) : file[k].key = p
          BY <1>1 DEF Origin
        <4>2. CASE p = Dest[file[i].key]
          BY <1>3, <2>2, <4>2, DestFacts
        <4>3. CASE p # Dest[file[i].key]
          BY <3>2, <4>3 DEF Inv, Origin, Pointers
        <4> QED BY <4>2, <4>3
      <3>5. Fresh'
        BY <1>1, <3>1, <3>2 DEF Inv, Fresh, Reading
      <3>6. Copied'
        <4>1. SUFFICES ASSUME NEW k \in 1 .. Len(file), k < i + 1, file[k].key \in DOMAIN Dest
                       PROVE  ptr'[Dest[file[k].key]] = size
          BY <1>1, <3>1 DEF Copied, Set, Parsed
        <4>2. CASE k = i
          BY <3>2, <4>2
        <4>3. CASE k < i
          BY <1>1, <3>2, <4>1, <4>3, DestFacts DEF Inv, Copied, Set
        <4> QED BY <1>1, <4>1, <4>2, <4>3
      <3>7. Located' /\ Rewound'
        BY <1>1, <3>1 DEF Located, Rewound
      <3> QED BY <3>3, <3>4, <3>5, <3>6, <3>7 DEF Inv
    <2>5. CASE ~Fits(file[i].len)
      BY <1>1, <2>1, <2>5, Retried DEF copy2buffer
    <2> QED BY <2>4, <2>5
  <1>4. CASE ~(i > Len(file)) /\ file[i].key \notin DOMAIN Dest
    <2>1. i' = i + 1 /\ UNCHANGED <<pc, size, left, ptr>>
      BY <1>4 DEF line
    <2>2. \A k \in 1 .. Len(file) : k < i + 1 => k < i \/ k = i
      BY <1>1
    <2>3. Copied'
      BY <1>1, <1>4, <2>1, <2>2 DEF Inv, Copied, Set, Parsed
    <2>4. TypeOK' /\ Origin' /\ Fresh' /\ Located' /\ Rewound'
      BY <1>1, <2>1 DEF Inv, TypeOK, Origin, Fresh, Located, Rewound, Reading
    <2> QED BY <2>3, <2>4 DEF Inv
  <1> QED BY <1>2, <1>3, <1>4

(* A part of the address is stored: nothing a line sets is disturbed. *)
LEMMA AddressStored ==
    ASSUME Inv, NEW n \in Nat \ {0}, NEW p \in Address \cup {"ip"}, Fits(n),
           ptr' = [ptr EXCEPT ![p] = size], left' = left - n,
           pc \in {"dsn", "ip"}, pc' \in Parsed, i' \in Nat \ {0},
           UNCHANGED <<input, inits, size>>
    PROVE  /\ TypeOK' /\ Origin' /\ Fresh' /\ Copied' /\ Rewound'
           /\ ptr'[p] = size
           /\ \A q \in Pointers : ptr[q] = size => ptr'[q] = size
  <1>1. p \in Pointers /\ p \notin {"exchange", "routing_key"}
    BY DEF Address, Pointers
  <1>2. /\ left' \in 0 .. size /\ ptr' \in [Pointers -> Int]
        /\ ptr'[p] = size
        /\ \A q \in Pointers : ptr'[q] = ptr[q] \/ ptr'[q] = size
        /\ \A q \in Pointers : ptr[q] = size => ptr'[q] = size
        /\ \A q \in Pointers \ {p} : ptr'[q] = ptr[q]
    BY <1>1, Stored
  <1>3. TypeOK'
    BY <1>2 DEF Inv, TypeOK, input, Parsed
  <1>4. Origin'
    BY <1>1, <1>2 DEF Inv, Origin, input, Pointers
  <1>5. Fresh'
    BY <1>2 DEF Inv, Fresh, Reading, Parsed
  <1>6. Copied'
    BY <1>2, DestFacts DEF Inv, Copied, Set, Parsed, input
  <1>7. Rewound'
    BY DEF Rewound, Parsed
  <1> QED BY <1>2, <1>3, <1>4, <1>5, <1>6, <1>7

LEMMA DsnInv == Inv /\ dsn_parse => Inv'
  <1> SUFFICES ASSUME Inv, dsn_parse PROVE Inv'
    OBVIOUS
  <1> USE DEF input
  <1>1. /\ pc = "dsn" /\ inits = 0 /\ i \in Nat \ {0}
        /\ UNCHANGED <<file, url_ok, inits>>
    BY DEF dsn_parse, Inv, TypeOK, Located
  <1>2. CASE ptr["dsn"] = NULL \/ ~url_ok
    <2>1. pc' = "loaded" /\ UNCHANGED <<i, size, left, ptr>>
      BY <1>2 DEF dsn_parse
    <2> QED BY <1>1, <2>1
            DEF Inv, TypeOK, Origin, Fresh, Copied, Located, Rewound, Reading, Parsed, Set
  <1>3. CASE ~(ptr["dsn"] = NULL \/ ~url_ok) /\ i > Len(DsnParts)
    <2>1. pc' = "ip" /\ UNCHANGED <<i, size, left, ptr>>
      BY <1>3 DEF dsn_parse
    <2>2. \A p \in Address : ptr[p] = size
      BY <1>1, <1>3, PartFacts DEF Inv, Located
    <2> QED BY <1>1, <2>1, <2>2
            DEF Inv, TypeOK, Origin, Fresh, Copied, Located, Rewound, Reading, Parsed, Set
  <1>4. CASE ~(ptr["dsn"] = NULL \/ ~url_ok) /\ ~(i > Len(DsnParts))
    <2>1. copy2buffer(Lengths[DsnParts[i]], DsnParts[i], "dsn", i + 1)
      BY <1>4 DEF dsn_parse
    <2>2. i \in 1 .. 4 /\ DsnParts[i] \in Address
      BY <1>1, <1>4, PartFacts
    <2>3. Lengths[DsnParts[i]] \in Nat \ {0} /\ i + 1 \in Nat \ {0}
      BY <2>2, LengthFacts
    <2>4. CASE Fits(Lengths[DsnParts[i]])
      <3>1. /\ left' = left - Lengths[DsnParts[i]]
            /\ ptr' = [ptr EXCEPT ![DsnParts[i]] = size]
            /\ pc' = "dsn" /\ i' = i + 1 /\ UNCHANGED size
        BY <2>1, <2>4 DEF copy2buffer
      <3>2. /\ TypeOK' /\ Origin' /\ Fresh' /\ Copied' /\ Rewound'
            /\ ptr'[DsnParts[i]] = size
            /\ \A q \in Pointers : ptr[q] = size => ptr'[q] = size
        BY <1>1, <2>2, <2>3, <2>4, <3>1, AddressStored DEF Parsed
      <3>3. \A k \in 1 .. 4 : k < i + 1 => ptr'[DsnParts[k]] = size
        <4>1. SUFFICES ASSUME NEW k \in 1 .. 4, k < i \/ k = i
                       PROVE  ptr'[DsnParts[k]] = size
          BY <2>2
        <4>2. CASE k < i
          BY <1>1, <3>2, <4>2, PartFacts, LengthFacts DEF Inv, Located
        <4> QED BY <3>2, <4>1, <4>2
      <3>4. Located'
        BY <1>1, <3>1, <3>3, PartFacts DEF Located
      <3> QED BY <3>2, <3>4 DEF Inv
    <2>5. CASE ~Fits(Lengths[DsnParts[i]])
      BY <1>1, <2>1, <2>5, Retried DEF copy2buffer
    <2> QED BY <2>4, <2>5
  <1> QED BY <1>2, <1>3, <1>4

LEMMA HostInv == Inv /\ convert_host_to_ip => Inv'
  <1> SUFFICES ASSUME Inv, convert_host_to_ip PROVE Inv'
    OBVIOUS
  <1> USE DEF input
  <1>1. /\ pc = "ip" /\ inits = 0 /\ i \in Nat \ {0}
        /\ UNCHANGED <<file, url_ok, inits>>
    BY DEF convert_host_to_ip, Inv, TypeOK, Located
  <1>2. CASE pc' = "loaded" /\ UNCHANGED <<i, size, left, ptr>>
    BY <1>1, <1>2
       DEF Inv, TypeOK, Origin, Fresh, Copied, Located, Rewound, Reading, Parsed, Set
  <1>3. CASE copy2buffer(Lengths["ip"], "ip", "init", i)
    <2>1. Lengths["ip"] \in Nat \ {0}
      BY LengthFacts
    <2>2. CASE Fits(Lengths["ip"])
      <3>1. /\ left' = left - Lengths["ip"]
            /\ ptr' = [ptr EXCEPT !["ip"] = size]
            /\ pc' = "init" /\ i' = i /\ UNCHANGED size
        BY <1>3, <2>2 DEF copy2buffer
      <3>2. /\ TypeOK' /\ Origin' /\ Fresh' /\ Copied' /\ Rewound'
            /\ ptr'["ip"] = size
            /\ \A q \in Pointers : ptr[q] = size => ptr'[q] = size
        BY <1>1, <2>1, <2>2, <3>1, AddressStored DEF Parsed
      <3>3. Located'
        BY <1>1, <3>1, <3>2, LengthFacts DEF Inv, Located
      <3> QED BY <3>2, <3>3 DEF Inv
    <2>3. CASE ~Fits(Lengths["ip"])
      BY <1>1, <1>3, <2>3, Retried DEF copy2buffer
    <2> QED BY <2>2, <2>3
  <1> QED BY <1>2, <1>3 DEF convert_host_to_ip

LEMMA StutterInv == Inv /\ UNCHANGED vars => Inv'
  BY DEF vars, input, Inv, TypeOK, Origin, Fresh, Copied, Located, Rewound, Reading, Parsed, Set

(* The strengthening used below holds in every reachable state of          *)
(* load_mq_config.                                                         *)
THEOREM ConfigInvHolds == Spec => []Inv
  <1>1. Inv /\ [Next]_vars => Inv'
    BY Skip, DefaultsInv, LineInv, DsnInv, HostInv, StutterInv DEF Next
  <1> QED BY <1>1, InitInv, PTL DEF Spec

(* copy2buffer never writes past the end of the buffer, whatever the file  *)
(* and the lengths of its values.                                          *)
THEOREM ConfigTypeCorrect == Spec => []TypeOK
  <1>1. Inv => TypeOK
    BY DEF Inv
  <1> QED BY <1>1, ConfigInvHolds, PTL

(* After load_mq_config no option points into a buffer that readconfig's   *)
(* retries have freed.                                                     *)
THEOREM NothingEverDangles == Spec => []NothingDangles
  <1>1. Inv => NothingDangles
    <2> SUFFICES ASSUME Inv, pc = "loaded" PROVE NothingDangles
      BY DEF NothingDangles
    <2>1. \A k \in 1 .. Len(file) : Set(k)
      BY DEF Inv, Copied, Parsed
    <2>2. \A p \in {"exchange", "routing_key"} : ptr[p] = GARBAGE \/ ptr[p] = size
      BY <2>1, DestFacts DEF Inv, Origin, Set
    <2>3. \A p \in Pointers : ptr[p] \in {NULL, GARBAGE, size}
      BY <2>2 DEF Inv, Fresh, Reading
    <2>4. \A k \in Keys \cap DOMAIN Dest : ptr[Dest[k]] = size
      BY <2>1 DEF Keys, Set
    <2>5. inits = 1 => \A p \in {"host", "vhost", "username", "password", "ip"} : ptr[p] = size
      BY DEF Inv, Located, Address
    <2> QED BY <2>3, <2>4, <2>5 DEF NothingDangles
  <1> QED BY <1>1, ConfigInvHolds, PTL
=============================================================================

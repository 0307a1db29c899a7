----------------------------- MODULE MCMqConfig -----------------------------
(* MqConfig for TLC: files of up to three lines, in any order. *)
EXTENDS MqConfig

SomeKeys == {"exchange", "routing_key", "connection", "cacert", "heartbeat", "host"}
Line == [key : SomeKeys, len : {1, 4}]
ShortFiles == UNION {[1 .. n -> Line] : n \in 0 .. 3}
SomeLengths == [p \in {"cfgfile", "ip", "host", "vhost", "username", "password"} |->
                  IF p \in {"cfgfile", "host"} THEN 2 ELSE 1]
=============================================================================

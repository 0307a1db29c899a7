--------------------------- MODULE NotifyContract ---------------------------
(***************************************************************************)
(* What a consumer of the broker's queue may rely on, whatever fails.  For *)
(* each session the messages that arrive are a consecutive run of that     *)
(* session's notifiable operations, each at most once and in the order the *)
(* operations were performed: some may be missing before the run starts    *)
(* and after it stops, none inside it.                                     *)
(***************************************************************************)
EXTENDS Naturals, Sequences

CONSTANTS Sessions, Msgs

VARIABLES hist,   \* session -> its notifiable operations, as messages
          got     \* session -> positions in hist of the messages received

Init == /\ hist = [s \in Sessions |-> << >>]
        /\ got = [s \in Sessions |-> << >>]

(* The session performs an operation described by m. *)
Perform(s, m) ==
    /\ hist' = [hist EXCEPT ![s] = Append(@, m)]
    /\ UNCHANGED got

(* The k-th operation of the session is announced to the consumer. *)
Receive(s, k) ==
    /\ got[s] # << >> => k = got[s][Len(got[s])] + 1
    /\ got' = [got EXCEPT ![s] = Append(@, k)]
    /\ UNCHANGED hist

Next == \E s \in Sessions :
            \/ \E m \in Msgs : Perform(s, m)
            \/ \E k \in 1 .. Len(hist[s]) : Receive(s, k)

Spec == Init /\ [][Next]_<<hist, got>>
=============================================================================

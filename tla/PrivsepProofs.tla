---------------------------- MODULE PrivsepProofs ----------------------------
(***************************************************************************)
(* Proofs about authentication with privilege separation, for every limit  *)
(* on attempts, any number of requests of the client and any number of     *)
(* questions of PAM.                                                       *)
(*                                                                         *)
(* The inductive invariant follows the child: for each request it can be   *)
(* waiting for it says what is on the way, what the monitor permits and in *)
(* which state the monitor and PAM are.                                    *)
(***************************************************************************)
EXTENDS Privsep, SequenceTheorems, TLAPS

(* The memory of each process is a record with the fields Init gives it. *)
IsNet(n) == n = [f \in {"pc", "attempt", "service", "valid", "enabled", "kbdint", "nreq", "info_response",
                        "failures", "method", "key", "sig", "after", "success", "surprised", "out"} |-> n[f]]
IsMon(m) == m = [f \in {"state", "permit", "ctxt", "authok", "pam_done", "account_status", "valid",
                        "attempt", "key_blob", "handle", "enabled", "denied", "refused", "out"} |-> m[f]]
IsPam(p) == p = [f \in {"state", "in", "out", "asked", "right"} |-> p[f]]
IsClient(c) == c = [f \in {"requests", "proof", "abandoned", "bad"} |-> c[f]]

Types ==
    /\ IsNet(net) /\ IsMon(mon) /\ IsPam(pam) /\ IsClient(client)
    /\ user \in [valid : BOOLEAN, account : BOOLEAN]
    /\ client.requests \in 0 .. MaxRequests /\ client.bad \in Nat
    /\ net.attempt = client.requests
    /\ net.failures \in 0 .. MaxAuthTries /\ net.nreq \in 0 .. 1 /\ net.method \in Methods
    /\ net.service \in Services \cup {"none"}
    /\ net.key \in {"none", "own", "other"} /\ net.sig \in {"none", "right", "wrong"}
    /\ mon.permit \subseteq Requests /\ mon.account_status \in {-1, 0, 1}
    /\ mon.pam_done \in {-1, 0, 1}
    /\ pam.asked \in Nat

-----------------------------------------------------------------------------
(* Parts of the states below. *)

Asking(r, v) == net.out = << <<r, v>> >> /\ mon.out = << >>
Told(r, v) == net.out = << >> /\ mon.out = << <<r, v>> >>
Quiet == net.out = << >> /\ mon.out = << >>

(* The child has no device open. *)
NoDevice == ~net.kbdint /\ ~net.info_response
NoContext == ~mon.ctxt /\ pam = NoPam

(* What the client is credited with is what it sent. *)
Credentials == net.key = "own" /\ net.sig = "right" => client.proof

(* Every wrong credential has been counted as a failure. *)
Counted == client.bad <= net.failures

(* Before the first request for authentication has been dealt with. *)
Start == /\ mon.state = "loop" /\ NoDevice /\ NoContext /\ client.bad = 0
         /\ mon.enabled /\ net.enabled

(* The child knows the users the monitor knows, for one service. *)
Known(n) == n.valid <=> user.valid /\ n.service = "ssh-connection"

(* The monitor is ready for any method.  The child learns that             *)
(* keyboard-interactive has been turned off from the answer to QUERY.      *)
Ready ==
    /\ mon.attempt = 1 /\ mon.valid = user.valid /\ Known(net) /\ net.attempt >= 1
    /\ {"ACCOUNT", "KEYALLOWED", "KEYVERIFY"} \subseteq mon.permit
    /\ "INIT_CTX" \in mon.permit \/ mon.ctxt \/ mon.denied
    /\ mon.ctxt => {"FREE_CTX", "QUERY"} \subseteq mon.permit
    /\ mon.enabled => net.enabled
    /\ net.pc # "QUERY" /\ net.enabled => mon.enabled

(* The client has abandoned a conversation that was over, or succeeded in  *)
(* one for a service the child knows no users of.                          *)
Unheeded(n) == n.service # "ssh-connection" /\ mon.account_status = 1
Stranded(n) == client.abandoned \/ Unheeded(n)

(* The exceptions of FitTogether. *)
Excused(n) ==
    \/ client.abandoned
    \/ n.method = "keyboard-interactive" /\ (mon.denied \/ Unheeded(n))

(* Either nothing is owed, or the monitor expects PAM_ACCOUNT, which the   *)
(* child will not send, and takes no other request any more.               *)
LoopOrStranded ==
    \/ mon.state = "loop" /\ Counted
    \/ mon.state = "account" /\ Stranded(net)

Conversation == mon.ctxt /\ mon.state = "loop" /\ net.method = "keyboard-interactive"

(* The messages of PAM. *)
Prompt == Message("prompt", FALSE)
Success == Message("success", FALSE)
Refusals == [type : {"expired", "error", "maxtries"}, text : BOOLEAN]

(* PAM is to say something, or has said it. *)
Talking ==
    /\ Counted /\ mon.pam_done = 0
    /\ \/ /\ pam.state = "run" /\ pam.in = << >> /\ pam.out = << >>
          /\ pam.right /\ pam.asked > 0 => client.proof /\ user.valid
       \/ /\ pam.state = "asked" /\ pam.in = << >> /\ pam.out = << Prompt >> /\ pam.asked >= 1
          /\ pam.right /\ pam.asked > 1 => client.proof
       \/ /\ pam.state = "asked" /\ pam.in = << "right" >> /\ pam.out = << >> /\ pam.asked >= 1
          /\ pam.right => client.proof
       \/ /\ pam.state = "asked" /\ pam.in = << "wrong" >> /\ pam.out = << >> /\ pam.asked >= 1
       \/ /\ pam.state = "ended" /\ pam.in = << >> /\ pam.out = << Success >>
          /\ client.proof /\ user.valid /\ user.account
       \/ /\ pam.state = "ended" /\ pam.in = << >>
          /\ \E msg \in Refusals : pam.out = << msg >>

(* PAM waits for an answer, or has ended. *)
PamSilent == pam.in = << >> /\ pam.out = << >> /\ pam.state \in {"none", "asked", "ended"}

(* PAM waits for the answer to a question the child has seen. *)
Prompted ==
    /\ PamSilent /\ pam.state = "asked" /\ pam.asked >= 1
    /\ mon.pam_done = 0 /\ ~mon.authok /\ "RESPOND" \in mon.permit
    /\ Counted
    /\ pam.right /\ pam.asked > 1 => client.proof

(* The conversation is over, with success or with a text. *)
Over ==
    /\ PamSilent /\ pam.state = "ended"
    /\ "RESPOND" \in mon.permit /\ mon.authok
    /\ \/ mon.pam_done = 1 /\ client.proof /\ user.valid /\ Counted /\ mon.account_status = 1
       \/ mon.pam_done = -1

-----------------------------------------------------------------------------
(* What holds where the child is. *)

AtKex == /\ Start /\ Quiet /\ mon.permit = {"SIGN"}
         /\ net.attempt = 0 /\ mon.attempt = 0

AtSign == /\ Start /\ net.attempt = 0 /\ mon.attempt = 0
          /\ \/ Asking("SIGN", "empty") /\ mon.permit = {"SIGN"}
             \/ Told("SIGN", "empty") /\ mon.permit = {"PWNAM"}

AtPwnam == /\ Start /\ net.attempt = 1 /\ Credentials
           /\ \/ Asking("PWNAM", "empty") /\ mon.permit = {"PWNAM"} /\ mon.attempt = 0
              \/ /\ Told("PWNAM", user.valid) /\ mon.attempt = 1 /\ mon.valid = user.valid
                 /\ mon.permit = {"AUTHSERV", "BANNER", "PAM_START"}

AtBanner == /\ Start /\ net.attempt = 1 /\ Credentials
            /\ mon.attempt = 1 /\ mon.valid = user.valid /\ Known(net)
            /\ \/ /\ net.out = << <<"PAM_START", "empty">>, <<"AUTHSERV", "empty">>, <<"BANNER", "empty">> >>
                  /\ mon.out = << >> /\ mon.permit = {"AUTHSERV", "BANNER", "PAM_START"}
               \/ /\ net.out = << <<"AUTHSERV", "empty">>, <<"BANNER", "empty">> >>
                  /\ mon.out = << >> /\ mon.permit = {"AUTHSERV", "BANNER", "ACCOUNT", "INIT_CTX"}
               \/ /\ Asking("BANNER", "empty")
                  /\ mon.permit = {"BANNER", "ACCOUNT", "INIT_CTX"} \cup MON_AUTH
               \/ /\ Told("BANNER", "empty")
                  /\ mon.permit = {"ACCOUNT", "INIT_CTX"} \cup MON_AUTH

AtIdle == /\ Quiet
          /\ \/ Start /\ net.attempt = 0 /\ mon.attempt = 0 /\ mon.permit = {"PWNAM"}
             \/ Ready /\ NoDevice /\ NoContext /\ LoopOrStranded /\ Counted
             \/ /\ Ready /\ net.kbdint /\ net.info_response /\ Conversation
                /\ \/ net.nreq = 1 /\ Prompted
                   \/ net.nreq = 0 /\ Over

AtKeyAllowed == /\ Ready /\ NoDevice /\ NoContext /\ net.method = "publickey" /\ Credentials
                /\ \/ Asking("KEYALLOWED", net.key) /\ LoopOrStranded /\ net.valid
                   \/ /\ Told("KEYALLOWED", TRUE) /\ mon.state = "loop" /\ Counted
                      /\ mon.key_blob = "own" /\ net.key = "own" /\ user.valid
                   \/ Told("KEYALLOWED", FALSE) /\ mon.state = "loop" /\ Counted

AtKeyVerify == /\ Ready /\ NoDevice /\ NoContext /\ net.method = "publickey" /\ Credentials
               /\ net.key = "own" /\ user.valid /\ Counted
               /\ \/ /\ Asking("KEYVERIFY", <<net.key, net.sig>>)
                     /\ mon.state = "loop" /\ mon.key_blob = "own"
                  \/ Told("KEYVERIFY", TRUE) /\ mon.state = "account" /\ client.proof
                  \/ Told("KEYVERIFY", FALSE) /\ mon.state = "loop"

AtInitCtx == /\ Ready /\ NoDevice /\ net.method = "keyboard-interactive"
             /\ \/ Asking("INIT_CTX", "empty") /\ NoContext /\ LoopOrStranded /\ mon.enabled
                \/ Told("INIT_CTX", TRUE) /\ Conversation /\ Talking
                \/ Told("INIT_CTX", FALSE) /\ NoContext /\ mon.state = "loop" /\ Counted

AtQuery == /\ Ready /\ net.kbdint /\ Conversation /\ Counted
           /\ \/ Asking("QUERY", "empty") /\ Talking
              \/ \E reached \in BOOLEAN :
                   /\ reached <=> ~mon.enabled
                   /\ \/ Told("QUERY", <<0, 1, reached>>) /\ Prompted
                      \/ Told("QUERY", <<0, 0, reached>>) /\ Over
                      \/ /\ Told("QUERY", <<-1, 0, reached>>)
                         /\ PamSilent /\ mon.pam_done = -1 /\ ~mon.authok

AtRespond == /\ Ready /\ net.kbdint /\ Conversation
             /\ \/ /\ Asking("RESPOND", "right") /\ Prompted
                   /\ pam.right => client.proof
                \/ /\ Asking("RESPOND", "wrong") /\ PamSilent /\ pam.state = "asked" /\ pam.asked >= 1
                   /\ mon.pam_done = 0 /\ "RESPOND" \in mon.permit /\ Counted
                \/ Asking("RESPOND", "nothing") /\ Over
                \/ Told("RESPOND", 1) /\ Talking
                \/ /\ Told("RESPOND", 0) /\ PamSilent /\ mon.authok /\ client.proof /\ user.valid /\ Counted
                   /\ mon.account_status = 1
                \/ Told("RESPOND", -1) /\ PamSilent /\ ~mon.authok

AtFreeCtx == /\ Ready /\ NoDevice
             /\ \/ /\ Asking("FREE_CTX", "empty") /\ mon.ctxt /\ mon.state = "loop" /\ PamSilent
                   /\ \/ /\ net.after = "ok" /\ mon.authok
                         /\ client.proof /\ user.valid /\ Counted
                      \/ /\ net.after = "failed" /\ (~mon.authok \/ Stranded(net))
                         /\ net.method = "keyboard-interactive"
                      \/ /\ net.after = "method" /\ net.attempt > 1 /\ Credentials
                         /\ \/ ~mon.authok /\ Counted
                            \/ mon.authok /\ client.abandoned
                \/ /\ Told("FREE_CTX", "empty") /\ NoContext
                   /\ \/ /\ net.after = "ok" /\ mon.state = "account"
                         /\ client.proof /\ user.valid /\ Counted
                      \/ /\ net.after = "failed"
                         /\ mon.state = "loop" \/ (mon.state = "account" /\ Stranded(net))
                         /\ net.method = "keyboard-interactive"
                      \/ /\ net.after = "method" /\ net.attempt > 1 /\ Credentials
                         /\ LoopOrStranded

AtAccount == /\ Ready /\ NoContext /\ client.proof /\ user.valid /\ Counted
             /\ \/ Asking("ACCOUNT", "empty") /\ mon.state = "account"
                \/ Told("ACCOUNT", TRUE) /\ mon.state = "keystate" /\ user.account
                \/ Told("ACCOUNT", FALSE) /\ mon.state = "loop"

AtExit == /\ PamSilent
          /\ \/ mon.state = "exit" /\ net.out = << >>
             \/ ~net.success /\ Quiet /\ mon.state \in {"loop", "account"}
             \/ net.success /\ net.out = << <<"KEYEXPORT", "empty">> >> /\ mon.out = << >>
                  /\ mon.state = "keystate"
             \/ net.success /\ Quiet /\ mon.state \in {"wait", "post"}

Where ==
    \/ net.pc = "kex" /\ AtKex
    \/ net.pc = "SIGN" /\ AtSign
    \/ net.pc = "PWNAM" /\ AtPwnam
    \/ net.pc = "BANNER" /\ AtBanner
    \/ net.pc = "idle" /\ AtIdle
    \/ net.pc = "KEYALLOWED" /\ AtKeyAllowed
    \/ net.pc = "KEYVERIFY" /\ AtKeyVerify
    \/ net.pc = "INIT_CTX" /\ AtInitCtx
    \/ net.pc = "QUERY" /\ AtQuery
    \/ net.pc = "RESPOND" /\ AtRespond
    \/ net.pc = "FREE_CTX" /\ AtFreeCtx
    \/ net.pc = "ACCOUNT" /\ AtAccount
    \/ net.pc = "exit" /\ AtExit

(* An account that is found usable is. *)
Verdict == mon.account_status = 1 => user.account

(* Of the wrong credentials at most one is not yet counted, and then the   *)
(* child has not given up.                                                 *)
Tries == /\ client.bad <= MaxAuthTries
         /\ net.pc # "exit" => net.failures < MaxAuthTries /\ client.bad <= net.failures + 1

Outcome == /\ net.success => net.pc = "exit" /\ user.valid /\ user.account /\ client.proof
           /\ ~net.surprised
           /\ mon.refused => mon.state = "exit" /\ Excused(net)
           /\ mon.out = << >> \/ mon.out = << mon.out[1] >>

Inv == Types /\ Where /\ Verdict /\ Tries /\ Outcome

-----------------------------------------------------------------------------
(* Lemmas about the operators of the child. *)

LEMMA Singletons ==
    ASSUME NEW x
    PROVE  /\ Append(<< >>, x) = << x >> /\ << x >> # << >>
           /\ Head(<< x >>) = x /\ Tail(<< x >>) = << >>
  OBVIOUS

LEMMA Append2 ==
    ASSUME NEW x, NEW y
    PROVE  Append(<< x >>, y) = << x, y >>
  <1> DEFINE s == << x >>
             S == {x, y}
             t == Append(s, y)
  <1>1. s \in Seq(S) /\ y \in S /\ Len(s) = 1 /\ s[1] = x
    OBVIOUS
  <1> HIDE DEF s, S
  <1>2. t \in Seq(S) /\ Len(t) = 2 /\ t[2] = y /\ t[1] = x
    <2>1. /\ t \in Seq(S) /\ Len(t) = Len(s) + 1 /\ t[Len(s) + 1] = y
          /\ \A i \in 1 .. Len(s) : t[i] = s[i]
      <3>1. s \in Seq(S) /\ y \in S
        BY <1>1
      <3> QED
        BY <3>1, AppendProperties
    <2> HIDE DEF t
    <2> QED
      BY <1>1, <2>1
  <1>3. << x, y >> \in Seq(S) /\ Len(<< x, y >>) = 2
    BY DEF S
  <1> HIDE DEF t
  <1>4. t = << x, y >>
    BY <1>2, <1>3, SeqEqual
  <1> QED
    BY <1>4 DEF t, s

LEMMA Append3 ==
    ASSUME NEW x, NEW y, NEW z
    PROVE  Append(<< x, y >>, z) = << x, y, z >>
  <1> DEFINE s == << x, y >>
             S == {x, y, z}
             t == Append(s, z)
  <1>1. s \in Seq(S) /\ z \in S /\ Len(s) = 2 /\ s[1] = x /\ s[2] = y
    OBVIOUS
  <1> HIDE DEF s, S
  <1>2. t \in Seq(S) /\ Len(t) = 3 /\ t[3] = z /\ t[1] = x /\ t[2] = y
    <2>1. /\ t \in Seq(S) /\ Len(t) = Len(s) + 1 /\ t[Len(s) + 1] = z
          /\ \A i \in 1 .. Len(s) : t[i] = s[i]
      <3>1. s \in Seq(S) /\ z \in S
        BY <1>1
      <3> QED
        BY <3>1, AppendProperties
    <2> HIDE DEF t
    <2> QED
      BY <1>1, <2>1
  <1>3. << x, y, z >> \in Seq(S) /\ Len(<< x, y, z >>) = 3
    BY DEF S
  <1> HIDE DEF t
  <1>4. t = << x, y, z >>
    BY <1>2, <1>3, SeqEqual
  <1> QED
    BY <1>4 DEF t, s

LEMMA Triples ==
    ASSUME NEW x, NEW y, NEW z
    PROVE  /\ Head(<< x, y >>) = x /\ Tail(<< x, y >>) = << y >> /\ << x, y >> # << >>
           /\ Head(<< x, y, z >>) = x /\ Tail(<< x, y, z >>) = << y, z >> /\ << x, y, z >> # << >>
  OBVIOUS

LEMMA Lengths ==
    ASSUME NEW x, NEW y, NEW z
    PROVE  Len(<< >>) = 0 /\ Len(<< x >>) = 1 /\ Len(<< x, y >>) = 2 /\ Len(<< x, y, z >>) = 3
  OBVIOUS

LEMMA AtMost ==
    ASSUME NEW l
    PROVE  /\ l = 0 => l <= 1
           /\ l = 1 => l <= 1
           /\ l = 2 => l <= 3
           /\ l = 3 => l <= 3
  OBVIOUS

(* What the operators below leave alone. *)
Kept(n, u) ==
    /\ IsNet(n) /\ IsNet(u)
    /\ u.attempt = n.attempt /\ u.service = n.service /\ u.valid = n.valid /\ u.enabled = n.enabled
    /\ u.nreq = n.nreq /\ u.method = n.method
    /\ u.key = n.key /\ u.sig = n.sig /\ u.success = n.success /\ u.surprised = n.surprised

LEMMA AskFacts ==
    ASSUME NEW n, IsNet(n), n.out = << >>, NEW r, NEW v
    PROVE  LET u == Ask(n, r, v) IN
           /\ Kept(n, u)
           /\ u.kbdint = n.kbdint /\ u.info_response = n.info_response
           /\ u.failures = n.failures /\ u.after = n.after
           /\ u.pc = r /\ u.out = << <<r, v>> >>
  <1>1. Append(n.out, <<r, v>>) = << <<r, v>> >>
    BY Singletons
  <1> QED
    BY <1>1 DEF Ask, mm_request_send, IsNet, Kept

LEMMA FailedFacts ==
    ASSUME NEW n, IsNet(n)
    PROVE  LET u == userauth_finish(n, FALSE)
               f == n.failures + (IF n.attempt > 1 \/ n.method # "none" THEN 1 ELSE 0)
           IN  /\ Kept(n, u)
               /\ u.kbdint = n.kbdint /\ u.info_response = n.info_response
               /\ u.after = n.after /\ u.out = n.out
               /\ u.failures = f
               /\ u.pc = (IF f >= MaxAuthTries THEN "exit" ELSE "idle")
  BY DEF userauth_finish, IsNet, Kept

LEMMA SucceededFacts ==
    ASSUME NEW n, IsNet(n), n.out = << >>
    PROVE  LET u == userauth_finish(n, TRUE) IN
           /\ Kept(n, u) /\ u.failures = n.failures
           /\ u.pc = "ACCOUNT" /\ u.out = << <<"ACCOUNT", "empty">> >>
  BY AskFacts DEF userauth_finish

-----------------------------------------------------------------------------
(* How the child gets from one request to the next. *)

(* The child, with memory n, is about to ask or to wait. *)
Active(n) ==
    /\ IsNet(n) /\ n.out = << >> /\ Known(n) /\ (n.enabled <=> mon.enabled)
    /\ n.service \in Services \cup {"none"}
    /\ n.attempt = client.requests /\ n.attempt >= 1
    /\ n.failures \in 0 .. MaxAuthTries /\ n.failures < MaxAuthTries
    /\ n.nreq \in 0 .. 1 /\ n.method \in Methods
    /\ n.key \in {"none", "own", "other"} /\ n.sig \in {"none", "right", "wrong"}
    /\ ~n.success /\ ~n.surprised

(* The monitor has answered all it was asked and is ready for any method. *)
Settled ==
    /\ IsMon(mon) /\ IsPam(pam) /\ IsClient(client)
    /\ user \in [valid : BOOLEAN, account : BOOLEAN]
    /\ client.requests \in 0 .. MaxRequests /\ client.bad \in Nat
    /\ mon.permit \subseteq Requests /\ mon.account_status \in {-1, 0, 1}
    /\ mon.pam_done \in {-1, 0, 1} /\ pam.asked \in Nat
    /\ mon.out = << >> /\ ~mon.refused
    /\ mon.attempt = 1 /\ mon.valid = user.valid
    /\ {"ACCOUNT", "KEYALLOWED", "KEYVERIFY"} \subseteq mon.permit
    /\ "INIT_CTX" \in mon.permit \/ mon.ctxt \/ mon.denied
    /\ mon.ctxt => {"FREE_CTX", "QUERY"} \subseteq mon.permit
    /\ Verdict

(* What any step of the child to a new request preserves. *)
LEMMA ActiveNext ==
    ASSUME NEW n, Active(n)', Settled', Kept(n, net'),
           net'.failures \in 0 .. MaxAuthTries,
           net'.pc # "exit" => net'.failures < MaxAuthTries,
           client'.bad <= MaxAuthTries, net'.pc # "exit" => client'.bad <= net'.failures + 1
    PROVE  Types' /\ Ready' /\ Verdict' /\ Tries' /\ Outcome'
  <1>1. Types'
    BY DEF Active, Settled, Kept, Types
  <1>2. Ready'
    BY DEF Active, Settled, Kept, Ready, Known
  <1>3. Verdict' /\ Tries'
    BY DEF Settled, Verdict, Tries
  <1>4. Outcome'
    BY DEF Active, Settled, Kept, Outcome
  <1> QED
    BY <1>1, <1>2, <1>3, <1>4

(* userauth_finish after a failure. *)
LEMMA Fail ==
    ASSUME NEW n, Active(n)', Settled', ~n.kbdint, ~n.info_response, NoContext',
           net' = userauth_finish(n, FALSE),
           mon'.state = "loop" \/ (mon'.state = "account" /\ Stranded(n)'),
           client'.bad <= n.failures + (IF n.attempt > 1 \/ n.method # "none" THEN 1 ELSE 0)
    PROVE  Inv'
  <1> DEFINE f == n.failures + (IF n.attempt > 1 \/ n.method # "none" THEN 1 ELSE 0)
  <1>1. IsNet(n) /\ n.out = << >>
    BY DEF Active
  <1>2. /\ Kept(n, net') /\ net'.kbdint = n.kbdint /\ net'.info_response = n.info_response
        /\ net'.out = << >> /\ net'.failures = f
        /\ net'.pc = (IF f >= MaxAuthTries THEN "exit" ELSE "idle")
    BY <1>1, FailedFacts
  <1>3. f \in 0 .. MaxAuthTries /\ client'.bad <= f /\ client'.bad \in Nat
    BY TriesAssumption DEF Active, Settled
  <1> HIDE DEF f
  <1>4. Types' /\ Ready' /\ Verdict' /\ Tries' /\ Outcome'
    <2> DEFINE b == client'.bad
               g == net'.failures
    <2>1. g = f /\ b \in Nat /\ b <= f /\ MaxAuthTries \in Nat
      BY <1>2, <1>3, TriesAssumption
    <2>2. net'.pc # "exit" => ~(f >= MaxAuthTries)
      BY <1>2
    <2> HIDE DEF b, g
    <2>3. g \in 0 .. MaxAuthTries /\ b <= MaxAuthTries /\ b <= g + 1
      BY <1>3, <2>1
    <2>4. ~(f >= MaxAuthTries) => g < MaxAuthTries
      BY <1>3, <2>1
    <2> QED
      BY <1>2, <2>2, <2>3, <2>4, ActiveNext DEF b, g
  <1>5. Quiet' /\ NoDevice' /\ Counted'
    BY <1>2, <1>3 DEF Settled, Quiet, NoDevice, Counted
  <1>6. LoopOrStranded'
    BY <1>2, <1>5 DEF LoopOrStranded, Stranded, Unheeded, Kept
  <1>7. PamSilent'
    BY DEF NoContext, NoPam, PamSilent
  <1>8. ~net'.success
    BY <1>2 DEF Active, Kept
  <1>9. CASE f >= MaxAuthTries
    <2>1. net'.pc = "exit" /\ AtExit'
      BY <1>2, <1>5, <1>7, <1>8, <1>9 DEF AtExit
    <2> QED
      BY <1>4, <2>1 DEF Inv, Where
  <1>10. CASE ~(f >= MaxAuthTries)
    <2>1. net'.pc = "idle" /\ AtIdle'
      BY <1>2, <1>4, <1>5, <1>6, <1>10 DEF AtIdle
    <2> QED
      BY <1>4, <2>1 DEF Inv, Where
  <1> QED
    BY <1>9, <1>10

(* authmethod_lookup and the method's first request. *)
LEMMA Try ==
    ASSUME NEW n, Active(n)', Settled', ~n.kbdint, ~n.info_response, NoContext',
           net' = TryMethod(n),
           n.key = "own" /\ n.sig = "right" => client'.proof,
           client'.bad <= n.failures + 1,
           \/ mon'.state = "loop" /\ client'.bad <= n.failures
           \/ mon'.state = "account" /\ Stranded(n)' /\ n.attempt > 1
    PROVE  Inv'
  <1>1. IsNet(n) /\ n.out = << >> /\ n.failures \in 0 .. MaxAuthTries /\ n.failures < MaxAuthTries
        /\ n.method \in Methods /\ client'.bad \in Nat /\ n.attempt \in Nat
    BY DEF Active, Settled
  <1>2. CASE \/ n.method = "none" \/ (n.method = "publickey" /\ ~n.valid)
             \/ n.method = "keyboard-interactive" /\ ~n.enabled
    <2>1. net' = userauth_finish(n, FALSE)
      BY <1>1, <1>2, TriesAssumption DEF TryMethod, authmethod_lookup, userauth_pubkey
    <2>2. client'.bad <= n.failures + (IF n.attempt > 1 \/ n.method # "none" THEN 1 ELSE 0)
      BY <1>1
    <2> QED
      BY <2>1, <2>2, Fail
  <1>3. CASE n.method = "publickey" /\ n.valid
    <2>1. net' = Ask(n, "KEYALLOWED", n.key)
      BY <1>1, <1>3, TriesAssumption DEF TryMethod, authmethod_lookup, userauth_pubkey
    <2>2. /\ Kept(n, net') /\ net'.kbdint = n.kbdint /\ net'.info_response = n.info_response
          /\ net'.failures = n.failures
          /\ net'.pc = "KEYALLOWED" /\ net'.out = << <<"KEYALLOWED", n.key>> >>
      BY <1>1, <2>1, AskFacts
    <2>3. Types' /\ Ready' /\ Verdict' /\ Tries' /\ Outcome'
      BY <1>1, <2>2, TriesAssumption, ActiveNext
    <2>4. NoDevice' /\ net'.method = "publickey" /\ Credentials' /\ net'.valid
      BY <1>3, <2>2 DEF Kept, NoDevice, Credentials
    <2>5. Asking("KEYALLOWED", net.key)'
      BY <2>2 DEF Kept, Asking, Settled
    <2>6. LoopOrStranded'
      BY <2>2 DEF LoopOrStranded, Counted, Stranded, Unheeded, Kept
    <2>7. AtKeyAllowed'
      BY <2>3, <2>4, <2>5, <2>6 DEF AtKeyAllowed
    <2> QED
      BY <2>2, <2>3, <2>7 DEF Inv, Where
  <1>4. CASE n.method = "keyboard-interactive" /\ n.enabled
    <2>1. net' = Ask(n, "INIT_CTX", "empty")
      <3>1. ~(n.failures >= MaxAuthTries)
        BY <1>1, TriesAssumption
      <3>2. authmethod_lookup(n) /\ n.method # "publickey"
        BY <1>4 DEF authmethod_lookup
      <3>3. TryMethod(n) = userauth_kbdint(n)
        BY <1>1, <1>4, <3>1, <3>2 DEF TryMethod
      <3> QED
        BY <3>3 DEF userauth_kbdint
    <2>2. /\ Kept(n, net') /\ net'.kbdint = n.kbdint /\ net'.info_response = n.info_response
          /\ net'.failures = n.failures
          /\ net'.pc = "INIT_CTX" /\ net'.out = << <<"INIT_CTX", "empty">> >>
      BY <1>1, <2>1, AskFacts
    <2>3. Types' /\ Ready' /\ Verdict' /\ Tries' /\ Outcome'
      BY <1>1, <2>2, TriesAssumption, ActiveNext
    <2>4. NoDevice' /\ net'.method = "keyboard-interactive" /\ Asking("INIT_CTX", "empty")'
      BY <1>4, <2>2 DEF Kept, NoDevice, Asking, Settled
    <2>5. LoopOrStranded' /\ mon'.enabled
      BY <1>4, <2>2 DEF LoopOrStranded, Counted, Stranded, Unheeded, Kept, Active
    <2>6. AtInitCtx'
      BY <2>3, <2>4, <2>5 DEF AtInitCtx
    <2> QED
      BY <2>2, <2>3, <2>6 DEF Inv, Where
  <1> QED
    BY <1>1, <1>2, <1>3, <1>4 DEF Methods

(* userauth_finish after success. *)
LEMMA Succeed ==
    ASSUME NEW n, Active(n)', Settled', NoContext', net' = userauth_finish(n, TRUE),
           mon'.state = "account", client'.proof, user'.valid, client'.bad <= n.failures
    PROVE  Inv'
  <1>1. IsNet(n) /\ n.out = << >> /\ n.failures \in 0 .. MaxAuthTries /\ n.failures < MaxAuthTries
        /\ client'.bad \in Nat
    BY DEF Active, Settled
  <1>2. client'.bad <= n.failures + 1 /\ client'.bad <= MaxAuthTries
    BY <1>1, TriesAssumption
  <1>3. /\ Kept(n, net') /\ net'.failures = n.failures
        /\ net'.pc = "ACCOUNT" /\ net'.out = << <<"ACCOUNT", "empty">> >>
    BY <1>1, SucceededFacts
  <1>4. Types' /\ Ready' /\ Verdict' /\ Tries' /\ Outcome'
    BY <1>1, <1>2, <1>3, ActiveNext
  <1>5. Asking("ACCOUNT", "empty")' /\ Counted'
    BY <1>3 DEF Asking, Settled, Counted
  <1>6. AtAccount'
    BY <1>4, <1>5 DEF AtAccount
  <1> QED
    BY <1>3, <1>4, <1>6 DEF Inv, Where

(* auth2_challenge_stop with the device open. *)
LEMMA StopFacts ==
    ASSUME NEW n, IsNet(n), n.out = << >>, n.kbdint, NEW k
    PROVE  LET u == auth2_challenge_stop(n, k) IN
           /\ Kept(n, u) /\ ~u.kbdint /\ ~u.info_response
           /\ u.failures = n.failures /\ u.after = k
           /\ u.pc = "FREE_CTX" /\ u.out = << <<"FREE_CTX", "empty">> >>
  <1> DEFINE w == [[n EXCEPT !.info_response = FALSE] EXCEPT !.kbdint = FALSE, !.after = k]
  <1>1. Kept(n, w) /\ w.out = << >> /\ ~w.kbdint /\ ~w.info_response /\ w.failures = n.failures
        /\ w.after = k
    BY DEF IsNet, Kept
  <1>2. auth2_challenge_stop(n, k) = Ask(w, "FREE_CTX", "empty")
    BY DEF auth2_challenge_stop
  <1> HIDE DEF w
  <1>3. IsNet(w)
    BY <1>1 DEF Kept
  <1> DEFINE u == Ask(w, "FREE_CTX", "empty")
  <1>4. /\ Kept(w, u) /\ u.kbdint = w.kbdint /\ u.info_response = w.info_response
        /\ u.failures = w.failures /\ u.after = w.after
        /\ u.pc = "FREE_CTX" /\ u.out = << <<"FREE_CTX", "empty">> >>
    BY <1>1, <1>3, AskFacts
  <1> HIDE DEF u
  <1>5. Kept(n, u)
    BY <1>1, <1>4 DEF Kept
  <1> QED
    BY <1>1, <1>2, <1>4, <1>5 DEF u

LEMMA Stop ==
    ASSUME NEW n, Active(n)', Settled', n.kbdint, NEW k, net' = auth2_challenge_stop(n, k),
           mon'.ctxt, mon'.state = "loop", PamSilent', client'.bad <= n.failures + 1,
           \/ /\ k = "ok" /\ mon'.authok /\ client'.proof /\ user'.valid
              /\ client'.bad <= n.failures
           \/ k = "failed" /\ (~mon'.authok \/ Stranded(n)') /\ n.method = "keyboard-interactive"
           \/ /\ k = "method" /\ n.attempt > 1
              /\ n.key = "own" /\ n.sig = "right" => client'.proof
              /\ (~mon'.authok /\ client'.bad <= n.failures) \/ (mon'.authok /\ client'.abandoned)
    PROVE  Inv'
  <1>1. IsNet(n) /\ n.out = << >> /\ n.failures \in 0 .. MaxAuthTries /\ n.failures < MaxAuthTries
        /\ client'.bad \in Nat
    BY DEF Active, Settled
  <1>2. /\ Kept(n, net') /\ ~net'.kbdint /\ ~net'.info_response
        /\ net'.failures = n.failures /\ net'.after = k
        /\ net'.pc = "FREE_CTX" /\ net'.out = << <<"FREE_CTX", "empty">> >>
    BY <1>1, StopFacts
  <1>3. client'.bad <= MaxAuthTries
    BY <1>1, TriesAssumption
  <1>4. Types' /\ Ready' /\ Verdict' /\ Tries' /\ Outcome'
    BY <1>1, <1>2, <1>3, ActiveNext
  <1>5. NoDevice' /\ Asking("FREE_CTX", "empty")'
    BY <1>2 DEF NoDevice, Asking, Settled
  <1>6. \/ /\ net'.after = "ok" /\ mon'.authok /\ client'.proof /\ user'.valid /\ Counted'
        \/ net'.after = "failed" /\ (~mon'.authok \/ Stranded(net)') /\ net'.method = "keyboard-interactive"
        \/ /\ net'.after = "method" /\ net'.attempt > 1 /\ Credentials'
           /\ (~mon'.authok /\ Counted') \/ (mon'.authok /\ client'.abandoned)
    BY <1>2 DEF Kept, Counted, Credentials, Stranded, Unheeded
  <1>7. AtFreeCtx'
    BY <1>4, <1>5, <1>6 DEF AtFreeCtx
  <1> QED
    BY <1>2, <1>4, <1>7 DEF Inv, Where

(* ... and without. *)
LEMMA StopNothing ==
    ASSUME NEW n, IsNet(n), ~n.kbdint
    PROVE  \E u : /\ auth2_challenge_stop(n, "method") = TryMethod(u)
                  /\ Kept(n, u) /\ ~u.kbdint /\ ~u.info_response
                  /\ u.failures = n.failures /\ u.out = n.out
  <1> DEFINE u == [n EXCEPT !.info_response = FALSE]
  <1>1. Kept(n, u) /\ ~u.kbdint /\ ~u.info_response /\ u.failures = n.failures /\ u.out = n.out
    BY DEF IsNet, Kept
  <1>2. auth2_challenge_stop(n, "method") = TryMethod(u)
    BY DEF auth2_challenge_stop, Continue
  <1> QED
    BY <1>1, <1>2

-----------------------------------------------------------------------------
(* The child reads an answer. *)

MonKept ==
    /\ IsMon(mon')
    /\ mon'.state = mon.state /\ mon'.permit = mon.permit /\ mon'.ctxt = mon.ctxt
    /\ mon'.authok = mon.authok /\ mon'.pam_done = mon.pam_done
    /\ mon'.account_status = mon.account_status /\ mon'.valid = mon.valid
    /\ mon'.attempt = mon.attempt /\ mon'.key_blob = mon.key_blob /\ mon'.handle = mon.handle
    /\ mon'.enabled = mon.enabled /\ mon'.denied = mon.denied /\ mon'.refused = mon.refused

LEMMA NetGets ==
    ASSUME Inv, NetReads, NEW v, mon.out = << <<net.pc, v>> >>
    PROVE  /\ net' = Received(net, net.pc, v)
           /\ MonKept /\ mon'.out = << >>
           /\ IsClient(client') /\ client'.requests = client.requests
           /\ client'.proof = client.proof /\ client'.abandoned = client.abandoned
           /\ client'.bad = IF \/ net.pc = "KEYVERIFY" /\ v = FALSE
                               \/ net.pc = "QUERY" /\ mon.pam_done = -1
                            THEN client.bad + 1 ELSE client.bad
           /\ user' = user /\ pam' = pam
  <1> DEFINE a == <<net.pc, v>>
  <1>1. IsMon(mon) /\ IsClient(client)
    BY DEF Inv, Types
  <1>2. Head(mon.out) = a /\ Tail(mon.out) = << >>
    BY Singletons
  <1>3. a[1] = net.pc /\ a[2] = v /\ (a = <<"KEYVERIFY", FALSE>> <=> net.pc = "KEYVERIFY" /\ v = FALSE)
    OBVIOUS
  <1> HIDE DEF a
  <1>4. /\ net' = Received(net, a[1], a[2])
        /\ client' = [client EXCEPT !.bad = IF \/ a = <<"KEYVERIFY", FALSE>>
                                               \/ a[1] = "QUERY" /\ mon.pam_done = -1
                                            THEN @ + 1 ELSE @]
        /\ mon' = [mon EXCEPT !.out = << >>]
        /\ user' = user /\ pam' = pam
    BY <1>2 DEF NetReads
  <1>5. net' = Received(net, net.pc, v)
    BY <1>3, <1>4
  <1>6. MonKept /\ mon'.out = << >>
    BY <1>1, <1>4 DEF IsMon, MonKept
  <1>7. IsClient(client') /\ client'.requests = client.requests
        /\ client'.proof = client.proof /\ client'.abandoned = client.abandoned
    BY <1>1, <1>4 DEF IsClient
  <1>8. client'.bad = IF \/ net.pc = "KEYVERIFY" /\ v = FALSE
                         \/ net.pc = "QUERY" /\ mon.pam_done = -1
                      THEN client.bad + 1 ELSE client.bad
    BY <1>1, <1>3, <1>4 DEF IsClient
  <1> QED
    BY <1>4, <1>5, <1>6, <1>7, <1>8

(* The child's memory, and the monitor's, before the next request. *)
LEMMA NetReady ==
    ASSUME Inv, Ready, net.pc # "exit", mon.state # "exit", net.out = << >>, NEW n, n = net,
           MonKept, mon'.out = << >>, UNCHANGED <<user, pam>>,
           IsClient(client'), client'.requests = client.requests, client'.bad \in Nat
    PROVE  (net.pc # "QUERY" => Active(n)') /\ Settled'
  <1>1. ASSUME net.pc # "QUERY" PROVE Active(n)'
    <2>1. Known(n)' /\ (n.enabled <=> mon'.enabled)
      BY <1>1 DEF Ready, Known, MonKept
    <2> QED
      BY <2>1 DEF Inv, Types, Ready, Tries, Outcome, Active
  <1>2. Settled'
    BY DEF Inv, Types, Ready, Verdict, Outcome, Settled, MonKept
  <1> QED
    BY <1>1, <1>2

LEMMA ReceivedCases ==
    ASSUME NEW n, NEW v
    PROVE  /\ n.pc = "SIGN" => Received(n, n.pc, v) = [n EXCEPT !.pc = "idle"]
           /\ n.pc = "PWNAM" => Received(n, n.pc, v) = mm_getpwnamallow(n, v)
           /\ n.pc = "BANNER" => Received(n, n.pc, v) = auth2_challenge_stop(n, "method")
           /\ n.pc = "KEYALLOWED" => Received(n, n.pc, v) = mm_key_allowed(n, v)
           /\ n.pc = "KEYVERIFY" => Received(n, n.pc, v) = userauth_finish(n, v)
           /\ n.pc = "INIT_CTX" => Received(n, n.pc, v) = mm_sshpam_init_ctx(n, v)
           /\ n.pc = "QUERY" => Received(n, n.pc, v) = mm_sshpam_query(n, v[1], v[2], v[3])
           /\ n.pc = "RESPOND" => Received(n, n.pc, v) = mm_sshpam_respond(n, v)
           /\ n.pc = "FREE_CTX" => Received(n, n.pc, v) = Continue(n, n.after)
           /\ n.pc = "ACCOUNT" => Received(n, n.pc, v) = mm_do_pam_account(n, v)
  BY DEF Received

LEMMA NetGetsSign == ASSUME Inv, NetReads, net.pc = "SIGN" PROVE Inv'
  <1>1. AtSign
    BY DEF Inv, Where
  <1>2. mon.out = << <<net.pc, "empty">> >> /\ net.out = << >> /\ mon.permit = {"PWNAM"}
    BY <1>1 DEF AtSign, Asking, Told, NetReads
  <1>3. /\ net' = Received(net, net.pc, "empty")
        /\ MonKept /\ mon'.out = << >>
        /\ IsClient(client') /\ client'.requests = client.requests /\ client'.bad = client.bad
        /\ client'.proof = client.proof /\ client'.abandoned = client.abandoned
        /\ user' = user /\ pam' = pam
    BY <1>2, NetGets
  <1>4. net' = [net EXCEPT !.pc = "idle"]
    BY <1>3, ReceivedCases
  <1>5. /\ Kept(net, net') /\ net'.kbdint = net.kbdint /\ net'.info_response = net.info_response
        /\ net'.failures = net.failures /\ net'.pc = "idle" /\ net'.out = << >>
    BY <1>2, <1>4 DEF Inv, Types, IsNet, Kept
  <1>6. Types'
    BY <1>3, <1>5 DEF Inv, Types, Kept, MonKept
  <1>7. Start'
    BY <1>1, <1>3, <1>5 DEF AtSign, Start, NoDevice, NoContext, MonKept, Kept
  <1>8. AtIdle'
    BY <1>1, <1>2, <1>3, <1>5, <1>7 DEF AtSign, AtIdle, Quiet, Kept, MonKept
  <1>9. Verdict' /\ Tries' /\ Outcome'
    BY <1>3, <1>5 DEF Inv, Verdict, Tries, Outcome, Excused, Unheeded, Kept, MonKept
  <1> QED
    BY <1>5, <1>6, <1>8, <1>9 DEF Inv, Where

LEMMA NetGetsPwnam == ASSUME Inv, NetReads, net.pc = "PWNAM" PROVE Inv'
  <1>1. AtPwnam
    BY DEF Inv, Where
  <1>2. /\ mon.out = << <<net.pc, user.valid>> >> /\ net.out = << >> /\ mon.attempt = 1
        /\ mon.valid = user.valid /\ mon.permit = {"AUTHSERV", "BANNER", "PAM_START"}
    BY <1>1 DEF AtPwnam, Asking, Told, NetReads
  <1>3. /\ net' = Received(net, net.pc, user.valid)
        /\ MonKept /\ mon'.out = << >>
        /\ IsClient(client') /\ client'.requests = client.requests /\ client'.bad = client.bad
        /\ client'.proof = client.proof /\ client'.abandoned = client.abandoned
        /\ user' = user /\ pam' = pam
    BY <1>2, NetGets
  <1>4. net' = mm_getpwnamallow(net, user.valid)
    BY <1>3, ReceivedCases
  <1>5. Append(Append(Append(<< >>, <<"PAM_START", "empty">>), <<"AUTHSERV", "empty">>), <<"BANNER", "empty">>)
          = << <<"PAM_START", "empty">>, <<"AUTHSERV", "empty">>, <<"BANNER", "empty">> >>
    <2> DEFINE x == <<"PAM_START", "empty">>
               y == <<"AUTHSERV", "empty">>
               z == <<"BANNER", "empty">>
    <2> HIDE DEF x, y, z
    <2>1. Append(<< >>, x) = << x >>
      BY Singletons
    <2>2. Append(<< x >>, y) = << x, y >>
      BY Append2
    <2>3. Append(<< x, y >>, z) = << x, y, z >>
      BY Append3
    <2>4. Append(Append(Append(<< >>, x), y), z) = << x, y, z >>
      BY <2>1, <2>2, <2>3
    <2> QED
      BY <2>4 DEF x, y, z
  <1>6. /\ IsNet(net') /\ (net'.valid <=> user.valid /\ net.service = "ssh-connection") /\ net'.pc = "BANNER"
        /\ net'.service = net.service /\ net'.enabled = net.enabled
        /\ net'.out = << <<"PAM_START", "empty">>, <<"AUTHSERV", "empty">>, <<"BANNER", "empty">> >>
        /\ net'.attempt = net.attempt /\ net'.nreq = net.nreq /\ net'.method = net.method
        /\ net'.key = net.key /\ net'.sig = net.sig /\ net'.success = net.success
        /\ net'.surprised = net.surprised /\ net'.kbdint = net.kbdint
        /\ net'.info_response = net.info_response /\ net'.failures = net.failures
    BY <1>2, <1>4, <1>5 DEF Inv, Types, IsNet, mm_getpwnamallow, mm_request_send, Ask
  <1>7. Types'
    BY <1>3, <1>6 DEF Inv, Types, MonKept
  <1>8. Start' /\ Credentials'
    <2>1. Start /\ Credentials
      BY <1>1 DEF AtPwnam
    <2>2. NoDevice' /\ NoContext'
      BY <1>3, <1>6, <2>1 DEF Start, NoDevice, NoContext, MonKept
    <2>3. Start'
      BY <1>3, <1>6, <2>1, <2>2 DEF Start, MonKept
    <2>4. Credentials'
      BY <1>3, <1>6, <2>1 DEF Credentials
    <2> QED
      BY <2>3, <2>4
  <1>9. AtBanner'
    BY <1>1, <1>2, <1>3, <1>6, <1>8 DEF AtPwnam, AtBanner, MonKept, Known
  <1>10. Verdict' /\ Tries' /\ Outcome'
    BY <1>3, <1>6 DEF Inv, Verdict, Tries, Outcome, Excused, Unheeded, MonKept
  <1> QED
    BY <1>6, <1>7, <1>9, <1>10 DEF Inv, Where

LEMMA NetGetsBanner == ASSUME Inv, NetReads, net.pc = "BANNER" PROVE Inv'
  <1>1. AtBanner
    BY DEF Inv, Where
  <1>2. /\ mon.out = << <<net.pc, "empty">> >> /\ net.out = << >>
        /\ mon.permit = {"ACCOUNT", "INIT_CTX"} \cup MON_AUTH
    BY <1>1 DEF AtBanner, Asking, Told, NetReads
  <1>3. /\ net' = Received(net, net.pc, "empty")
        /\ MonKept /\ mon'.out = << >>
        /\ IsClient(client') /\ client'.requests = client.requests /\ client'.bad = client.bad
        /\ client'.proof = client.proof /\ client'.abandoned = client.abandoned
        /\ user' = user /\ pam' = pam
    BY <1>2, NetGets
  <1>4. net' = auth2_challenge_stop(net, "method")
    BY <1>3, ReceivedCases
  <1>5. /\ IsNet(net) /\ ~net.kbdint /\ mon.state = "loop" /\ NoContext /\ client.bad = 0
        /\ mon.enabled /\ net.enabled
    BY <1>1 DEF Inv, Types, AtBanner, Start, NoDevice
  <1>6. PICK u : /\ net' = TryMethod(u) /\ Kept(net, u) /\ ~u.kbdint /\ ~u.info_response
                 /\ u.failures = net.failures /\ u.out = << >>
    BY <1>2, <1>4, <1>5, StopNothing
  <1>7. Ready
    BY <1>1, <1>2, <1>5 DEF AtBanner, Ready, MON_AUTH, MON_AUTHDECIDE, NoContext
  <1>8. Active(u)'
    <2>1. Known(u)' /\ (u.enabled <=> mon'.enabled)
      BY <1>3, <1>5, <1>6, <1>7 DEF Ready, Known, Kept, MonKept
    <2> QED
      BY <1>3, <1>6, <1>7, <2>1 DEF Inv, Types, Ready, Tries, Outcome, Active, Kept
  <1>9. Settled'
    BY <1>2, <1>3, <1>5, <1>7, NetReady DEF Inv, Types
  <1>10. NoContext'
    BY <1>3, <1>5 DEF NoContext, MonKept
  <1>11. u.key = "own" /\ u.sig = "right" => client'.proof
    BY <1>1, <1>3, <1>6 DEF AtBanner, Credentials, Kept
  <1>12. client'.bad <= u.failures /\ client'.bad <= u.failures + 1
    BY <1>3, <1>5, <1>6 DEF Inv, Types
  <1>13. mon'.state = "loop"
    BY <1>3, <1>5 DEF MonKept
  <1> QED
    BY <1>6, <1>8, <1>9, <1>10, <1>11, <1>12, <1>13, Try

LEMMA NetGetsKeyAllowed == ASSUME Inv, NetReads, net.pc = "KEYALLOWED" PROVE Inv'
  <1>1. AtKeyAllowed
    BY DEF Inv, Where
  <1>2. /\ net.out = << >> /\ mon.state = "loop" /\ Counted /\ Ready /\ NoDevice /\ NoContext
        /\ net.method = "publickey" /\ Credentials
    BY <1>1 DEF AtKeyAllowed, Asking, Told, NetReads
  <1>3. \/ mon.out = << <<net.pc, TRUE>> >> /\ mon.key_blob = "own" /\ net.key = "own" /\ user.valid
        \/ mon.out = << <<net.pc, FALSE>> >>
    BY <1>1 DEF AtKeyAllowed, Asking, Told, NetReads
  <1>4. PICK n : n = net
    OBVIOUS
  <1>5. /\ MonKept /\ mon'.out = << >>
        /\ IsClient(client') /\ client'.requests = client.requests /\ client'.bad = client.bad
        /\ client'.proof = client.proof /\ client'.abandoned = client.abandoned
        /\ user' = user /\ pam' = pam
    BY <1>3, NetGets
  <1>6. Active(n)' /\ Settled' /\ NoContext' /\ IsNet(n) /\ n.out = << >>
        /\ client'.bad <= n.failures /\ n.failures \in 0 .. MaxAuthTries /\ n.failures < MaxAuthTries
        /\ client'.bad \in Nat /\ mon'.state = "loop"
    <2>1. Active(n)' /\ Settled'
      BY <1>2, <1>4, <1>5, NetReady DEF Inv, Types
    <2>2. NoContext' /\ mon'.state = "loop"
      BY <1>2, <1>5 DEF NoContext, MonKept
    <2> QED
      BY <1>2, <1>4, <1>5, <2>1, <2>2 DEF Active, Counted, Settled
  <1>7. client'.bad <= n.failures + 1 /\ client'.bad <= MaxAuthTries
    BY <1>6, TriesAssumption
  <1>8. CASE mon.out = << <<net.pc, FALSE>> >>
    <2>1. net' = mm_key_allowed(n, FALSE)
      BY <1>4, <1>8, NetGets, ReceivedCases
    <2>2. net' = userauth_finish(n, FALSE)
      BY <2>1 DEF mm_key_allowed
    <2>3. client'.bad <= n.failures + (IF n.attempt > 1 \/ n.method # "none" THEN 1 ELSE 0)
      BY <1>2, <1>4, <1>7
    <2> QED
      BY <1>2, <1>4, <1>6, <2>2, <2>3, Fail DEF NoDevice
  <1>9. CASE mon.out = << <<net.pc, TRUE>> >> /\ mon.key_blob = "own" /\ net.key = "own" /\ user.valid
    <2>1. net' = mm_key_allowed(n, TRUE)
      <3>1. net' = Received(net, net.pc, TRUE)
        BY <1>9, NetGets, Zenon
      <3>2. Received(net, net.pc, TRUE) = mm_key_allowed(net, TRUE)
        BY ReceivedCases, Zenon
      <3> QED
        BY <1>4, <3>1, <3>2, Zenon
    <2>2. CASE n.sig = "none"
      <3>1. net' = [n EXCEPT !.pc = "idle"]
        BY <2>1, <2>2 DEF mm_key_allowed
      <3>2. /\ Kept(n, net') /\ net'.kbdint = n.kbdint /\ net'.info_response = n.info_response
            /\ net'.failures = n.failures /\ net'.pc = "idle" /\ net'.out = << >>
        BY <1>6, <3>1 DEF IsNet, Kept
      <3>3. Types' /\ Ready' /\ Verdict' /\ Tries' /\ Outcome'
        BY <1>6, <1>7, <3>2, ActiveNext
      <3>4. Quiet' /\ NoDevice' /\ Counted' /\ LoopOrStranded'
        BY <1>2, <1>4, <1>5, <1>6, <3>2 DEF Quiet, NoDevice, Counted, LoopOrStranded
      <3>5. AtIdle'
        BY <1>6, <3>3, <3>4 DEF AtIdle
      <3> QED
        BY <3>2, <3>3, <3>5 DEF Inv, Where
    <2>3. CASE n.sig # "none"
      <3>1. net' = Ask(n, "KEYVERIFY", <<n.key, n.sig>>)
        BY <2>1, <2>3 DEF mm_key_allowed
      <3>2. /\ Kept(n, net') /\ net'.kbdint = n.kbdint /\ net'.info_response = n.info_response
            /\ net'.failures = n.failures /\ net'.pc = "KEYVERIFY"
            /\ net'.out = << <<"KEYVERIFY", <<n.key, n.sig>>>> >>
        BY <1>6, <3>1, AskFacts
      <3>3. Types' /\ Ready' /\ Verdict' /\ Tries' /\ Outcome'
        BY <1>6, <1>7, <3>2, ActiveNext
      <3>4. NoDevice' /\ Counted' /\ Credentials'
        BY <1>2, <1>4, <1>5, <1>6, <3>2 DEF NoDevice, Counted, Credentials, Kept
      <3>5. Asking("KEYVERIFY", <<net.key, net.sig>>)'
        BY <1>5, <3>2 DEF Asking, Kept
      <3>6. net'.method = "publickey" /\ net'.key = "own" /\ user'.valid /\ mon'.key_blob = "own"
        BY <1>2, <1>4, <1>5, <1>9, <3>2 DEF Kept, MonKept
      <3>7. AtKeyVerify'
        BY <1>6, <3>3, <3>4, <3>5, <3>6 DEF AtKeyVerify
      <3> QED
        BY <3>2, <3>3, <3>7 DEF Inv, Where
    <2> QED
      BY <2>2, <2>3
  <1> QED
    BY <1>3, <1>8, <1>9

LEMMA NetGetsKeyVerify == ASSUME Inv, NetReads, net.pc = "KEYVERIFY" PROVE Inv'
  <1>1. AtKeyVerify
    BY DEF Inv, Where
  <1>2. /\ net.out = << >> /\ mon.state # "exit" /\ Counted /\ Ready /\ NoDevice /\ NoContext
        /\ net.method = "publickey" /\ user.valid
    BY <1>1 DEF AtKeyVerify, Asking, Told, NetReads
  <1>3. \/ mon.out = << <<net.pc, TRUE>> >> /\ mon.state = "account" /\ client.proof
        \/ mon.out = << <<net.pc, FALSE>> >> /\ mon.state = "loop"
    BY <1>1 DEF AtKeyVerify, Asking, Told, NetReads
  <1>4. PICK n : n = net
    OBVIOUS
  <1>5. /\ MonKept /\ mon'.out = << >>
        /\ IsClient(client') /\ client'.requests = client.requests
        /\ client'.proof = client.proof /\ client'.abandoned = client.abandoned
        /\ user' = user /\ pam' = pam
    BY <1>3, NetGets
  <1>6. /\ mon.out = << <<net.pc, TRUE>> >> => client'.bad = client.bad
        /\ mon.out = << <<net.pc, FALSE>> >> => client'.bad = client.bad + 1
    BY NetGets
  <1>7. client'.bad \in Nat /\ client.bad \in Nat /\ n.failures \in Nat
    <2>1. client.bad \in Nat /\ n.failures \in Nat
      BY <1>4 DEF Inv, Types
    <2>2. client'.bad = client.bad \/ client'.bad = client.bad + 1
      BY <1>3, <1>6, Zenon
    <2> QED
      BY <2>1, <2>2
  <1>8. Active(n)' /\ Settled'
    BY <1>2, <1>4, <1>5, <1>7, NetReady
  <1>9. NoContext'
    BY <1>2, <1>5 DEF NoContext, MonKept
  <1>10. CASE mon.out = << <<net.pc, TRUE>> >> /\ mon.state = "account" /\ client.proof
    <2>1. net' = userauth_finish(n, TRUE)
      <3>1. net' = Received(net, net.pc, TRUE)
        BY <1>10, NetGets, Zenon
      <3>2. Received(net, net.pc, TRUE) = userauth_finish(net, TRUE)
        BY ReceivedCases, Zenon
      <3> QED
        BY <1>4, <3>1, <3>2, Zenon
    <2>2. mon'.state = "account" /\ client'.proof /\ user'.valid /\ client'.bad <= n.failures
      BY <1>2, <1>4, <1>5, <1>6, <1>10 DEF Counted, MonKept
    <2> QED
      BY <1>8, <1>9, <2>1, <2>2, Succeed
  <1>11. CASE mon.out = << <<net.pc, FALSE>> >> /\ mon.state = "loop"
    <2>1. net' = userauth_finish(n, FALSE)
      <3>1. net' = Received(net, net.pc, FALSE)
        BY <1>11, NetGets, Zenon
      <3>2. Received(net, net.pc, FALSE) = userauth_finish(net, FALSE)
        BY ReceivedCases, Zenon
      <3> QED
        BY <1>4, <3>1, <3>2, Zenon
    <2>2. client'.bad <= n.failures + 1
      BY <1>2, <1>4, <1>6, <1>7, <1>11 DEF Counted
    <2>3. client'.bad <= n.failures + (IF n.attempt > 1 \/ n.method # "none" THEN 1 ELSE 0)
      BY <1>2, <1>4, <2>2
    <2>4. mon'.state = "loop" /\ ~n.kbdint /\ ~n.info_response
      BY <1>2, <1>4, <1>5, <1>11 DEF MonKept, NoDevice
    <2> QED
      BY <1>8, <1>9, <2>1, <2>3, <2>4, Fail
  <1> QED
    BY <1>3, <1>10, <1>11

LEMMA NetGetsInitCtx == ASSUME Inv, NetReads, net.pc = "INIT_CTX" PROVE Inv'
  <1>1. AtInitCtx
    BY DEF Inv, Where
  <1>2. net.out = << >> /\ Ready /\ NoDevice /\ net.method = "keyboard-interactive"
        /\ mon.state = "loop" /\ Counted
    BY <1>1 DEF AtInitCtx, Asking, Told, NetReads, Conversation, Talking
  <1>3. \/ mon.out = << <<net.pc, TRUE>> >> /\ Conversation /\ Talking
        \/ mon.out = << <<net.pc, FALSE>> >> /\ NoContext
    BY <1>1 DEF AtInitCtx, Asking, Told, NetReads
  <1>4. PICK n : n = net
    OBVIOUS
  <1>5. /\ MonKept /\ mon'.out = << >>
        /\ IsClient(client') /\ client'.requests = client.requests /\ client'.bad = client.bad
        /\ client'.proof = client.proof /\ client'.abandoned = client.abandoned
        /\ user' = user /\ pam' = pam
    BY <1>3, NetGets
  <1>6. Active(n)' /\ Settled'
    BY <1>2, <1>4, <1>5, NetReady DEF Inv, Types
  <1>7. IsNet(n) /\ n.out = << >> /\ client'.bad <= n.failures /\ n.failures \in 0 .. MaxAuthTries
        /\ n.failures < MaxAuthTries /\ client'.bad \in Nat
    BY <1>2, <1>4, <1>5, <1>6 DEF Active, Counted, Settled
  <1>8. client'.bad <= n.failures + 1 /\ client'.bad <= MaxAuthTries
    BY <1>7, TriesAssumption
  <1>9. CASE mon.out = << <<net.pc, FALSE>> >> /\ NoContext
    <2>1. net' = userauth_finish(n, FALSE)
      <3>1. net' = Received(net, net.pc, FALSE)
        BY <1>9, NetGets, Zenon
      <3>2. Received(net, net.pc, FALSE) = mm_sshpam_init_ctx(net, FALSE)
        BY ReceivedCases, Zenon
      <3>3. mm_sshpam_init_ctx(net, FALSE) = userauth_finish(net, FALSE)
        BY DEF mm_sshpam_init_ctx
      <3> QED
        BY <1>4, <3>1, <3>2, <3>3, Zenon
    <2>2. client'.bad <= n.failures + (IF n.attempt > 1 \/ n.method # "none" THEN 1 ELSE 0)
      BY <1>2, <1>4, <1>8
    <2>3. ~n.kbdint /\ ~n.info_response /\ mon'.state = "loop" /\ NoContext'
      BY <1>2, <1>4, <1>5, <1>9 DEF NoDevice, NoContext, MonKept
    <2> QED
      BY <1>6, <2>1, <2>2, <2>3, Fail
  <1>10. CASE mon.out = << <<net.pc, TRUE>> >> /\ Conversation /\ Talking
    <2> DEFINE w == [n EXCEPT !.kbdint = TRUE]
    <2>1. net' = Ask(w, "QUERY", "empty")
      <3>1. net' = Received(net, net.pc, TRUE)
        BY <1>10, NetGets, Zenon
      <3>2. Received(net, net.pc, TRUE) = mm_sshpam_init_ctx(net, TRUE)
        BY ReceivedCases, Zenon
      <3>3. mm_sshpam_init_ctx(n, TRUE) = Ask(w, "QUERY", "empty")
        BY DEF mm_sshpam_init_ctx
      <3> QED
        BY <1>4, <3>1, <3>2, <3>3, Zenon
    <2>2. Kept(n, w) /\ w.kbdint = TRUE /\ w.failures = n.failures /\ w.out = << >>
      BY <1>7 DEF IsNet, Kept
    <2> HIDE DEF w
    <2>3. /\ Kept(w, net') /\ net'.kbdint = w.kbdint /\ net'.failures = w.failures
          /\ net'.pc = "QUERY" /\ net'.out = << <<"QUERY", "empty">> >>
      BY <2>1, <2>2, AskFacts DEF Kept
    <2>4. Kept(n, net') /\ net'.failures = n.failures /\ net'.kbdint
      BY <2>2, <2>3 DEF Kept
    <2>5. Types' /\ Ready' /\ Verdict' /\ Tries' /\ Outcome'
      BY <1>6, <1>7, <1>8, <2>3, <2>4, ActiveNext
    <2>6. Conversation' /\ Counted' /\ Asking("QUERY", "empty")'
      BY <1>4, <1>5, <1>7, <1>10, <2>3, <2>4 DEF Conversation, Counted, Asking, Kept, MonKept
    <2>7. Talking'
      BY <1>5, <1>10, <2>6 DEF Talking, MonKept
    <2>8. AtQuery'
      BY <2>4, <2>5, <2>6, <2>7 DEF AtQuery
    <2> QED
      BY <2>3, <2>5, <2>8 DEF Inv, Where
  <1> QED
    BY <1>3, <1>9, <1>10

LEMMA NetGetsQuery == ASSUME Inv, NetReads, net.pc = "QUERY" PROVE Inv'
  <1>1. AtQuery
    BY DEF Inv, Where
  <1>2. net.out = << >> /\ Ready /\ net.kbdint /\ Conversation /\ Counted
    BY <1>1 DEF AtQuery, Asking, Told, NetReads
  <1>3. PICK reached \in BOOLEAN :
          /\ reached <=> ~mon.enabled
          /\ \/ mon.out = << <<net.pc, <<0, 1, reached>>>> >> /\ Prompted
             \/ mon.out = << <<net.pc, <<0, 0, reached>>>> >> /\ Over
             \/ /\ mon.out = << <<net.pc, <<-1, 0, reached>>>> >>
                /\ PamSilent /\ mon.pam_done = -1 /\ ~mon.authok
    BY <1>1 DEF AtQuery, Asking, Told, NetReads
  <1>4. PICK n : n = Turned(net, reached)
    OBVIOUS
  <1>5. /\ MonKept /\ mon'.out = << >>
        /\ IsClient(client') /\ client'.requests = client.requests
        /\ client'.bad = (IF mon.pam_done = -1 THEN client.bad + 1 ELSE client.bad)
        /\ client'.proof = client.proof /\ client'.abandoned = client.abandoned
        /\ user' = user /\ pam' = pam
    BY <1>3, NetGets
  <1>n. /\ IsNet(n) /\ (n.enabled <=> net.enabled /\ ~reached) /\ n.out = net.out
        /\ n.attempt = net.attempt /\ n.service = net.service /\ n.valid = net.valid /\ n.nreq = net.nreq
        /\ n.method = net.method /\ n.key = net.key /\ n.sig = net.sig /\ n.success = net.success
        /\ n.surprised = net.surprised /\ n.kbdint = net.kbdint /\ n.failures = net.failures
    BY <1>4 DEF Turned, IsNet, Inv, Types
  <1>6. client'.bad \in Nat /\ client.bad \in Nat /\ n.failures \in Nat /\ mon.state = "loop"
        /\ client'.bad <= n.failures + 1 /\ (mon.pam_done # -1 => client'.bad <= n.failures)
    BY <1>2, <1>n, <1>5 DEF Inv, Types, Conversation, Counted
  <1>7. Active(n)' /\ Settled'
    <2>1. Settled'
      BY <1>2, <1>5, <1>6, NetReady
    <2>2. Known(n)' /\ (n.enabled <=> mon'.enabled)
      BY <1>2, <1>3, <1>5, <1>n DEF Ready, Known, MonKept
    <2>3. Active(n)'
      BY <1>2, <1>5, <1>n, <2>2 DEF Inv, Types, Ready, Tries, Outcome, Active
    <2> QED
      BY <2>1, <2>3
  <1>8. IsNet(n) /\ n.out = << >> /\ n.failures \in 0 .. MaxAuthTries /\ n.failures < MaxAuthTries
        /\ client'.bad <= MaxAuthTries
    BY <1>6, <1>7, TriesAssumption DEF Active
  <1>9. mon'.ctxt /\ mon'.state = "loop" /\ n.method = "keyboard-interactive" /\ n.kbdint
    BY <1>2, <1>n, <1>5 DEF Conversation, MonKept
  <1>10. CASE /\ mon.out = << <<net.pc, <<-1, 0, reached>>>> >>
              /\ PamSilent /\ mon.pam_done = -1 /\ ~mon.authok
    <2>1. net' = auth2_challenge_stop(n, "failed")
      <3>1. net' = mm_sshpam_query(net, -1, 0, reached)
        <4> DEFINE v == <<-1, 0, reached>>
        <4>1. v[1] = -1 /\ v[2] = 0 /\ v[3] = reached
          OBVIOUS
        <4> HIDE DEF v
        <4>2. mon.out = << <<net.pc, v>> >>
          BY <1>10 DEF v
        <4>3. net' = Received(net, net.pc, v)
          BY <4>2, NetGets, Zenon
        <4>4. Received(net, net.pc, v) = mm_sshpam_query(net, v[1], v[2], v[3])
          BY ReceivedCases, ZenonT(60)
        <4> QED
          BY <4>1, <4>3, <4>4
      <3> QED
        BY <1>4, <3>1 DEF mm_sshpam_query
    <2>2. PamSilent' /\ ~mon'.authok
      BY <1>5, <1>10 DEF PamSilent, MonKept
    <2> QED
      BY <1>6, <1>7, <1>9, <2>1, <2>2, Stop
  <1>11. ASSUME NEW num \in {0, 1}, mon.out = << <<net.pc, <<0, num, reached>>>> >>,
                num = 1 => Prompted, num = 0 => Over
         PROVE  Inv'
    <2>1. net' = [n EXCEPT !.pc = "idle", !.nreq = num, !.info_response = TRUE]
      <3>1. net' = mm_sshpam_query(net, 0, num, reached)
        <4> DEFINE v == <<0, num, reached>>
        <4>1. v[1] = 0 /\ v[2] = num /\ v[3] = reached
          OBVIOUS
        <4> HIDE DEF v
        <4>2. mon.out = << <<net.pc, v>> >>
          BY <1>11 DEF v
        <4>3. net' = Received(net, net.pc, v)
          BY <4>2, NetGets, Zenon
        <4>4. Received(net, net.pc, v) = mm_sshpam_query(net, v[1], v[2], v[3])
          BY ReceivedCases, ZenonT(60)
        <4> QED
          BY <4>1, <4>3, <4>4
      <3> QED
        BY <1>4, <3>1 DEF mm_sshpam_query
    <2>2. /\ IsNet(net') /\ net'.pc = "idle" /\ net'.nreq = num /\ net'.info_response /\ net'.kbdint
          /\ net'.out = << >> /\ net'.attempt = n.attempt /\ net'.valid = n.valid
          /\ net'.service = n.service /\ net'.enabled = n.enabled
          /\ net'.method = n.method /\ net'.key = n.key /\ net'.sig = n.sig
          /\ net'.success = n.success /\ net'.surprised = n.surprised /\ net'.failures = n.failures
      BY <1>8, <1>9, <2>1 DEF IsNet
    <2>3. Types'
      BY <1>7, <2>2 DEF Active, Settled, Types
    <2>4. Ready' /\ Verdict' /\ Tries' /\ Outcome'
      BY <1>6, <1>7, <1>8, <2>2 DEF Active, Settled, Ready, Known, Verdict, Tries, Outcome
    <2>5. Quiet' /\ Conversation'
      BY <1>5, <1>9, <2>2 DEF Quiet, Conversation
    <2>6. num = 1 => Prompted'
      BY <1>5, <1>6, <1>11, <2>2 DEF Prompted, PamSilent, MonKept, Counted
    <2>7. num = 0 => Over'
      BY <1>5, <1>6, <1>11, <2>2 DEF Over, PamSilent, MonKept, Counted
    <2>8. AtIdle'
      BY <2>2, <2>4, <2>5, <2>6, <2>7 DEF AtIdle
    <2> QED
      BY <2>2, <2>3, <2>4, <2>8 DEF Inv, Where
  <1> QED
    BY <1>3, <1>10, <1>11

LEMMA NetGetsRespond == ASSUME Inv, NetReads, net.pc = "RESPOND" PROVE Inv'
  <1>1. AtRespond
    BY DEF Inv, Where
  <1>2. net.out = << >> /\ Ready /\ net.kbdint /\ Conversation
    BY <1>1 DEF AtRespond, Asking, Told, NetReads
  <1>3. \/ mon.out = << <<net.pc, 1>> >> /\ Talking
        \/ /\ mon.out = << <<net.pc, 0>> >> /\ PamSilent /\ mon.authok /\ client.proof /\ user.valid
           /\ Counted /\ mon.account_status = 1
        \/ mon.out = << <<net.pc, -1>> >> /\ PamSilent /\ ~mon.authok
    BY <1>1 DEF AtRespond, Asking, Told, NetReads
  <1>4. PICK n : n = net
    OBVIOUS
  <1>5. /\ MonKept /\ mon'.out = << >>
        /\ IsClient(client') /\ client'.requests = client.requests /\ client'.bad = client.bad
        /\ client'.proof = client.proof /\ client'.abandoned = client.abandoned
        /\ user' = user /\ pam' = pam
    BY <1>3, NetGets
  <1>6. client'.bad \in Nat /\ client'.bad <= n.failures + 1 /\ mon.state = "loop"
        /\ client'.bad <= MaxAuthTries
    BY <1>2, <1>4, <1>5 DEF Inv, Types, Conversation, Tries
  <1>7. Active(n)' /\ Settled'
    BY <1>2, <1>4, <1>5, <1>6, NetReady
  <1>8. IsNet(n) /\ n.out = << >> /\ n.failures \in 0 .. MaxAuthTries /\ n.failures < MaxAuthTries
    BY <1>7 DEF Active
  <1>9. mon'.ctxt /\ mon'.state = "loop" /\ n.method = "keyboard-interactive" /\ n.kbdint
    BY <1>2, <1>4, <1>5 DEF Conversation, MonKept
  <1>10. CASE mon.out = << <<net.pc, -1>> >> /\ PamSilent /\ ~mon.authok
    <2>1. net' = auth2_challenge_stop(n, "failed")
      <3>1. net' = mm_sshpam_respond(n, -1)
        <4>1. net' = Received(net, net.pc, -1)
          BY <1>10, NetGets, Zenon
        <4>2. Received(net, net.pc, -1) = mm_sshpam_respond(net, -1)
          BY ReceivedCases, Zenon
        <4> QED
          BY <1>4, <4>1, <4>2, Zenon
      <3> QED
        BY <3>1 DEF mm_sshpam_respond
    <2>2. PamSilent' /\ ~mon'.authok
      BY <1>5, <1>10 DEF PamSilent, MonKept
    <2> QED
      BY <1>6, <1>7, <1>9, <2>1, <2>2, Stop
  <1>11. CASE /\ mon.out = << <<net.pc, 0>> >> /\ PamSilent /\ mon.authok /\ client.proof /\ user.valid
              /\ Counted /\ mon.account_status = 1
    <2>1. net' = auth2_challenge_stop(n, IF n.valid THEN "ok" ELSE "failed")
      <3>1. net' = mm_sshpam_respond(n, 0)
        <4>1. net' = Received(net, net.pc, 0)
          BY <1>11, NetGets, Zenon
        <4>2. Received(net, net.pc, 0) = mm_sshpam_respond(net, 0)
          BY ReceivedCases, Zenon
        <4> QED
          BY <1>4, <4>1, <4>2, Zenon
      <3> QED
        BY <3>1 DEF mm_sshpam_respond
    <2>2. PamSilent' /\ mon'.authok /\ client'.proof /\ user'.valid /\ client'.bad <= n.failures
      BY <1>4, <1>5, <1>11 DEF PamSilent, MonKept, Counted
    <2>3. CASE n.valid
      <3>1. net' = auth2_challenge_stop(n, "ok")
        BY <2>1, <2>3
      <3> QED
        BY <1>6, <1>7, <1>9, <2>2, <3>1, Stop
    <2>4. CASE ~n.valid
      <3>1. net' = auth2_challenge_stop(n, "failed")
        BY <2>1, <2>4
      <3>2. Stranded(n)'
        BY <1>5, <1>7, <1>11, <2>4 DEF Active, Known, Stranded, Unheeded, MonKept
      <3> QED
        BY <1>6, <1>7, <1>9, <2>2, <3>1, <3>2, Stop
    <2> QED
      BY <2>3, <2>4
  <1>12. CASE mon.out = << <<net.pc, 1>> >> /\ Talking
    <2>1. net' = Ask(n, "QUERY", "empty")
      <3>1. net' = mm_sshpam_respond(n, 1)
        <4>1. net' = Received(net, net.pc, 1)
          BY <1>12, NetGets, Zenon
        <4>2. Received(net, net.pc, 1) = mm_sshpam_respond(net, 1)
          BY ReceivedCases, Zenon
        <4> QED
          BY <1>4, <4>1, <4>2, Zenon
      <3> QED
        BY <3>1 DEF mm_sshpam_respond
    <2>2. /\ Kept(n, net') /\ net'.kbdint = n.kbdint /\ net'.failures = n.failures
          /\ net'.pc = "QUERY" /\ net'.out = << <<"QUERY", "empty">> >>
      BY <1>8, <2>1, AskFacts
    <2>3. Types' /\ Ready' /\ Verdict' /\ Tries' /\ Outcome'
      BY <1>6, <1>7, <1>8, <2>2, ActiveNext
    <2>4. Conversation' /\ Counted' /\ Asking("QUERY", "empty")'
      BY <1>4, <1>5, <1>9, <1>12, <2>2 DEF Talking, Conversation, Counted, Asking, Kept
    <2>5. Talking'
      BY <1>5, <1>12, <2>4 DEF Talking, MonKept
    <2>6. AtQuery'
      BY <1>9, <2>2, <2>3, <2>4, <2>5 DEF AtQuery
    <2> QED
      BY <2>2, <2>3, <2>6 DEF Inv, Where
  <1> QED
    BY <1>3, <1>10, <1>11, <1>12

LEMMA NetGetsFreeCtx == ASSUME Inv, NetReads, net.pc = "FREE_CTX" PROVE Inv'
  <1>1. AtFreeCtx
    BY DEF Inv, Where
  <1>2. net.out = << >> /\ Ready /\ NoDevice /\ NoContext /\ mon.out = << <<net.pc, "empty">> >>
    BY <1>1 DEF AtFreeCtx, Asking, Told, NetReads
  <1>3. \/ /\ net.after = "ok" /\ mon.state = "account"
           /\ client.proof /\ user.valid /\ Counted
        \/ /\ net.after = "failed" /\ (mon.state = "loop" \/ (mon.state = "account" /\ Stranded(net)))
           /\ net.method = "keyboard-interactive"
        \/ /\ net.after = "method" /\ net.attempt > 1 /\ Credentials
           /\ LoopOrStranded
    BY <1>1 DEF AtFreeCtx, Asking, Told, NetReads
  <1>4. PICK n : n = net
    OBVIOUS
  <1>5. /\ MonKept /\ mon'.out = << >>
        /\ IsClient(client') /\ client'.requests = client.requests /\ client'.bad = client.bad
        /\ client'.proof = client.proof /\ client'.abandoned = client.abandoned
        /\ user' = user /\ pam' = pam
    BY <1>2, NetGets
  <1>6. net' = Continue(n, n.after)
    BY <1>2, <1>4, NetGets, ReceivedCases
  <1>7. client'.bad \in Nat /\ client'.bad <= n.failures + 1 /\ mon.state # "exit"
    BY <1>3, <1>4, <1>5 DEF Inv, Types, Tries, LoopOrStranded
  <1>8. Active(n)' /\ Settled'
    BY <1>2, <1>4, <1>5, <1>7, NetReady
  <1>9. ~n.kbdint /\ ~n.info_response /\ NoContext'
    BY <1>2, <1>4, <1>5 DEF NoDevice, NoContext, MonKept
  <1>10. CASE net.after = "ok" /\ mon.state = "account" /\ client.proof /\ user.valid /\ Counted
    <2>1. net' = userauth_finish(n, TRUE)
      BY <1>4, <1>6, <1>10 DEF Continue
    <2>2. mon'.state = "account" /\ client'.proof /\ user'.valid /\ client'.bad <= n.failures
      BY <1>4, <1>5, <1>10 DEF MonKept, Counted
    <2> QED
      BY <1>8, <1>9, <2>1, <2>2, Succeed
  <1>11. CASE /\ net.after = "failed" /\ (mon.state = "loop" \/ (mon.state = "account" /\ Stranded(net)))
              /\ net.method = "keyboard-interactive"
    <2>1. net' = userauth_finish(n, FALSE)
      BY <1>4, <1>6, <1>11 DEF Continue
    <2>2. mon'.state = "loop" \/ (mon'.state = "account" /\ Stranded(n)')
      BY <1>4, <1>5, <1>11 DEF MonKept, Stranded, Unheeded
    <2>3. client'.bad <= n.failures + (IF n.attempt > 1 \/ n.method # "none" THEN 1 ELSE 0)
      BY <1>4, <1>7, <1>11
    <2> QED
      BY <1>8, <1>9, <2>1, <2>2, <2>3, Fail
  <1>12. CASE net.after = "method" /\ net.attempt > 1 /\ Credentials /\ LoopOrStranded
    <2>1. net' = TryMethod(n)
      BY <1>4, <1>6, <1>12 DEF Continue
    <2>2. n.key = "own" /\ n.sig = "right" => client'.proof
      BY <1>4, <1>5, <1>12 DEF Credentials
    <2>3. \/ mon'.state = "loop" /\ client'.bad <= n.failures
          \/ mon'.state = "account" /\ Stranded(n)' /\ n.attempt > 1
      BY <1>4, <1>5, <1>12 DEF LoopOrStranded, Counted, MonKept, Stranded, Unheeded
    <2> QED
      BY <1>7, <1>8, <1>9, <2>1, <2>2, <2>3, Try
  <1> QED
    BY <1>3, <1>10, <1>11, <1>12

LEMMA NetGetsAccount == ASSUME Inv, NetReads, net.pc = "ACCOUNT" PROVE Inv'
  <1>1. AtAccount
    BY DEF Inv, Where
  <1>2. net.out = << >> /\ NoContext /\ client.proof /\ user.valid
    BY <1>1 DEF AtAccount, Asking, Told, NetReads
  <1>3. \/ mon.out = << <<net.pc, TRUE>> >> /\ mon.state = "keystate" /\ user.account
        \/ mon.out = << <<net.pc, FALSE>> >> /\ mon.state = "loop"
    BY <1>1 DEF AtAccount, Asking, Told, NetReads
  <1>4. /\ MonKept /\ mon'.out = << >>
        /\ IsClient(client') /\ client'.requests = client.requests /\ client'.bad = client.bad
        /\ client'.proof = client.proof /\ client'.abandoned = client.abandoned
        /\ user' = user /\ pam' = pam
    BY <1>3, NetGets
  <1>5. PamSilent'
    BY <1>2, <1>4 DEF NoContext, NoPam, PamSilent
  <1>6. CASE mon.out = << <<net.pc, TRUE>> >> /\ mon.state = "keystate" /\ user.account
    <2>1. net' = [mm_request_send(net, "KEYEXPORT", "empty") EXCEPT !.success = TRUE, !.pc = "exit"]
      <3>1. net' = Received(net, net.pc, TRUE)
        BY <1>6, NetGets, Zenon
      <3>2. Received(net, net.pc, TRUE) = mm_do_pam_account(net, TRUE)
        BY ReceivedCases, Zenon
      <3> QED
        BY <3>1, <3>2 DEF mm_do_pam_account
    <2>2. Append(net.out, <<"KEYEXPORT", "empty">>) = << <<"KEYEXPORT", "empty">> >>
      BY <1>2, Singletons
    <2>3. /\ IsNet(net') /\ net'.pc = "exit" /\ net'.success /\ net'.out = << <<"KEYEXPORT", "empty">> >>
          /\ net'.attempt = net.attempt /\ net'.nreq = net.nreq /\ net'.method = net.method
          /\ net'.key = net.key /\ net'.sig = net.sig /\ net'.service = net.service
          /\ net'.surprised = net.surprised /\ net'.failures = net.failures
      BY <2>1, <2>2 DEF Inv, Types, IsNet, mm_request_send
    <2>4. Types'
      BY <1>4, <2>3 DEF Inv, Types, MonKept
    <2>5. Verdict' /\ Tries'
      BY <1>4, <2>3 DEF Inv, Verdict, Tries, MonKept
    <2>6. Outcome'
      BY <1>2, <1>4, <1>6, <2>3 DEF Inv, Outcome, MonKept
    <2>7. AtExit'
      BY <1>4, <1>5, <1>6, <2>3 DEF AtExit, MonKept
    <2> QED
      BY <2>3, <2>4, <2>5, <2>6, <2>7 DEF Inv, Where
  <1>7. CASE mon.out = << <<net.pc, FALSE>> >> /\ mon.state = "loop"
    <2>1. net' = [net EXCEPT !.pc = "exit"]
      <3>1. net' = Received(net, net.pc, FALSE)
        BY <1>7, NetGets, Zenon
      <3>2. Received(net, net.pc, FALSE) = mm_do_pam_account(net, FALSE)
        BY ReceivedCases, Zenon
      <3> QED
        BY <3>1, <3>2 DEF mm_do_pam_account
    <2>2. Kept(net, net') /\ net'.pc = "exit" /\ net'.out = << >> /\ net'.failures = net.failures
      BY <1>2, <2>1 DEF Inv, Types, IsNet, Kept
    <2>3. Types'
      BY <1>4, <2>2 DEF Inv, Types, MonKept, Kept
    <2>4. Verdict' /\ Tries' /\ Outcome'
      BY <1>4, <2>2 DEF Inv, Verdict, Tries, Outcome, Excused, Unheeded, MonKept, Kept
    <2>5. ~net'.success
      BY <2>2 DEF Inv, Outcome, Kept
    <2>6. AtExit'
      BY <1>4, <1>5, <1>7, <2>2, <2>5 DEF AtExit, MonKept, Quiet
    <2> QED
      BY <2>2, <2>3, <2>4, <2>6 DEF Inv, Where
  <1> QED
    BY <1>3, <1>6, <1>7

LEMMA NetReadsStep == ASSUME Inv, NetReads PROVE Inv'
  <1>1. net.pc \in Requests
    BY DEF NetReads
  <1>2. net.pc \in {"SIGN", "PWNAM", "BANNER", "KEYALLOWED", "KEYVERIFY", "INIT_CTX", "QUERY",
                    "RESPOND", "FREE_CTX", "ACCOUNT"}
    BY <1>1 DEF Inv, Where, Requests
  <1> QED
    BY <1>2, NetGetsSign, NetGetsPwnam, NetGetsBanner, NetGetsKeyAllowed, NetGetsKeyVerify,
       NetGetsInitCtx, NetGetsQuery, NetGetsRespond, NetGetsFreeCtx, NetGetsAccount

-----------------------------------------------------------------------------
(* The monitor reads a request. *)

NetKept ==
    /\ Kept(net, net')
    /\ net'.pc = net.pc /\ net'.kbdint = net.kbdint /\ net'.info_response = net.info_response
    /\ net'.failures = net.failures /\ net'.after = net.after

(* What the monitor makes of a request in its main loop. *)
Takes(r, v, rest) ==
    /\ mon' = monitor_child_preauth(mon, r, v) /\ pam' = PamAfter(mon', r, v)
    /\ net' = AfterStep([net EXCEPT !.out = rest], mon')
    /\ user' = user /\ client' = client

LEMMA MonGets ==
    ASSUME Inv, MonitorReads, NEW r, NEW v, NEW rest,
           Head(net.out) = <<r, v>>, Tail(net.out) = rest
    PROVE  /\ mon.state = "loop" => \E x : (r # "INIT_CTX" => x = v) /\ Takes(r, x, rest)
           /\ mon.state # "loop" => mon' = MonitorExpects(mon, r) /\ pam' = pam
           /\ mon.state \in {"loop", "account", "keystate"}
           /\ user' = user /\ client' = client
           /\ r = "QUERY" /\ mon.state = "loop" /\ "QUERY" \in mon.permit /\ mon.ctxt => pam.out # << >>
           /\ net' = AfterStep([net EXCEPT !.out = rest], mon')
  <1> DEFINE q == <<r, v>>
  <1>1. Head(net.out) = q /\ q[1] = r /\ q[2] = v
    OBVIOUS
  <1> HIDE DEF q
  <1>2. PICK got \in Contexts :
           /\ mon' = IF mon.state = "loop" THEN monitor_child_preauth(mon, q[1], Input(q, got))
                     ELSE MonitorExpects(mon, q[1])
           /\ net' = AfterStep([net EXCEPT !.out = Tail(net.out)], mon')
           /\ pam' = IF mon.state = "loop" THEN PamAfter(mon', q[1], Input(q, got)) ELSE pam
           /\ ~(q[1] = "QUERY" /\ mon.state = "loop" /\ "QUERY" \in mon.permit
                  /\ mon.ctxt /\ pam.out = << >>)
           /\ mon.state \in {"loop", "account", "keystate"}
           /\ user' = user /\ client' = client
    BY <1>1 DEF MonitorReads
  <1>3. r # "INIT_CTX" => Input(q, got) = v
    BY <1>1 DEF Input
  <1> QED
    BY <1>1, <1>2, <1>3 DEF Takes

(* Only sshpam_init_ctx depends on more than the request. *)
LEMMA MonTakes ==
    ASSUME Inv, MonitorReads, NEW r, NEW v, Head(net.out) = <<r, v>>, mon.state = "loop",
           r # "INIT_CTX"
    PROVE  Takes(r, v, Tail(net.out))
  <1>1. PICK rest : rest = Tail(net.out)
    OBVIOUS
  <1>2. \E x : (r # "INIT_CTX" => x = v) /\ Takes(r, x, rest)
    BY <1>1, MonGets
  <1> QED
    BY <1>1, <1>2

LEMMA MonAnswers ==
    ASSUME Inv, NEW rest, net' = AfterStep([net EXCEPT !.out = rest], mon'), mon'.state # "exit"
    PROVE  NetKept /\ net'.out = rest
  <1>1. net' = [net EXCEPT !.out = rest]
    BY DEF AfterStep
  <1> QED
    BY <1>1 DEF Inv, Types, IsNet, NetKept, Kept

LEMMA MonNext ==
    ASSUME Inv, NetKept, IsMon(mon'), IsPam(pam'), user' = user, client' = client,
           mon'.permit \subseteq Requests, mon'.account_status \in {-1, 0, 1},
           mon'.pam_done \in {-1, 0, 1}, pam'.asked \in Nat, ~mon'.refused,
           mon'.out = << >> \/ mon'.out = << mon'.out[1] >>, Verdict'
    PROVE  Types' /\ Verdict' /\ Tries' /\ Outcome'
  <1>1. Types'
    BY DEF Inv, Types, NetKept, Kept
  <1>2. Tries'
    BY DEF Inv, Tries, NetKept, Kept
  <1>3. Outcome'
    BY DEF Inv, Outcome, NetKept, Kept
  <1> QED
    BY <1>1, <1>2, <1>3

(* The monitor and the child have gone. *)
LEMMA GoneNext ==
    ASSUME Inv, IsNet(net'), net'.pc = "exit", net'.out = << >>,
           net'.attempt = net.attempt, net'.nreq = net.nreq, net'.method = net.method,
           net'.service = net.service, net'.key = net.key, net'.sig = net.sig, net'.success = net.success,
           net'.surprised = net.surprised, net'.failures = net.failures,
           IsMon(mon'), mon'.state = "exit", mon'.permit = mon.permit,
           mon'.account_status = mon.account_status, mon'.pam_done = mon.pam_done,
           mon'.out = << >> \/ mon'.out = << mon'.out[1] >>,
           mon'.denied = mon.denied, mon'.refused => mon.refused \/ Excused(net),
           pam' = NoPam, user' = user, client' = client
    PROVE  Inv'
  <1>1. IsPam(NoPam) /\ NoPam.asked = 0 /\ NoPam.in = << >> /\ NoPam.out = << >> /\ NoPam.state = "none"
    BY DEF NoPam, IsPam
  <1>2. Types'
    BY <1>1 DEF Inv, Types
  <1>3. AtExit'
    BY <1>1 DEF AtExit, PamSilent
  <1>4. Verdict' /\ Tries'
    BY DEF Inv, Verdict, Tries
  <1>5. Outcome'
    BY DEF Inv, Outcome, Excused, Unheeded
  <1> QED
    BY <1>2, <1>3, <1>4, <1>5 DEF Inv, Where

(* A request the monitor does not take. *)
LEMMA FatalStep ==
    ASSUME Inv, NEW rest, net' = AfterStep([net EXCEPT !.out = rest], mon'), rest = << >>,
           mon' = Fatal(mon), mon.out = << >>, Excused(net),
           pam' = NoPam, user' = user, client' = client
    PROVE  Inv'
  <1>1. IsMon(mon) /\ IsNet(net)
    BY DEF Inv, Types
  <1>2. /\ IsMon(mon') /\ mon'.state = "exit" /\ mon'.permit = mon.permit
        /\ mon'.account_status = mon.account_status /\ mon'.pam_done = mon.pam_done
        /\ mon'.denied = mon.denied /\ mon'.out = << >>
    BY <1>1 DEF Fatal, IsMon
  <1>3. net' = [[net EXCEPT !.out = rest] EXCEPT !.pc = "exit"]
    BY <1>2 DEF AfterStep
  <1>4. /\ IsNet(net') /\ net'.pc = "exit" /\ net'.out = << >>
        /\ net'.attempt = net.attempt /\ net'.nreq = net.nreq /\ net'.method = net.method
        /\ net'.service = net.service
        /\ net'.key = net.key /\ net'.sig = net.sig /\ net'.success = net.success
        /\ net'.surprised = net.surprised /\ net'.failures = net.failures
    BY <1>1, <1>3 DEF IsNet
  <1> QED
    BY <1>2, <1>4, GoneNext

LEMMA HandlesCases ==
    ASSUME NEW m, NEW v
    PROVE  /\ MonitorHandles(m, "SIGN", v) = mm_answer_sign(m)
           /\ MonitorHandles(m, "PWNAM", v) = mm_answer_pwnamallow(m)
           /\ MonitorHandles(m, "BANNER", v) = mm_answer_auth2_read_banner(m)
           /\ MonitorHandles(m, "AUTHSERV", v) = mm_answer_authserv(m)
           /\ MonitorHandles(m, "PAM_START", v) = mm_answer_pam_start(m)
           /\ MonitorHandles(m, "INIT_CTX", v) = mm_answer_pam_init_ctx(m, v)
           /\ MonitorHandles(m, "QUERY", v) = mm_answer_pam_query(m)
           /\ MonitorHandles(m, "RESPOND", v) = mm_answer_pam_respond(m, v)
           /\ MonitorHandles(m, "FREE_CTX", v) = mm_answer_pam_free_ctx(m)
           /\ MonitorHandles(m, "KEYALLOWED", v) = mm_answer_keyallowed(m, v)
           /\ MonitorHandles(m, "KEYVERIFY", v) = mm_answer_keyverify(m, v[1], v[2])
  BY DEF MonitorHandles

SameMon(u, w) ==
    /\ IsMon(w) /\ w.ctxt = u.ctxt /\ w.authok = u.authok /\ w.pam_done = u.pam_done
    /\ w.account_status = u.account_status /\ w.valid = u.valid /\ w.attempt = u.attempt
    /\ w.key_blob = u.key_blob /\ w.handle = u.handle /\ w.enabled = u.enabled /\ w.denied = u.denied
    /\ w.refused = u.refused /\ w.out = u.out

Still(r, S) == IF r \in MON_ONCE THEN S \ {r} ELSE S

(* A permitted request is handled, and one that may be sent once is not    *)
(* permitted any more.                                                     *)
LEMMA Handled ==
    ASSUME NEW m, NEW r, NEW v, NEW u, r \in m.permit, u = MonitorHandles(m, r, v),
           IsMon(u), u.state = "loop"
    PROVE  LET w == monitor_child_preauth(m, r, v) IN
           /\ ~MonitorReturns(m, r, v) => SameMon(u, w) /\ w.state = "loop"
           /\ MonitorReturns(m, r, v) /\ r \in MON_AUTHDECIDE => SameMon(u, w) /\ w.state = "account"
           /\ ~MonitorReturns(m, r, v) \/ r \in MON_AUTHDECIDE =>
                w.permit = Still(r, u.permit)
  <1> DEFINE x == [u EXCEPT !.permit = IF r \in MON_ONCE THEN @ \ {r} ELSE @]
  <1>1. monitor_read(m, r, v) = x
    BY DEF monitor_read
  <1>2. SameMon(u, x) /\ x.state = "loop"
        /\ x.permit = Still(r, u.permit)
    BY DEF SameMon, IsMon, Still
  <1> HIDE DEF x
  <1>3. CASE ~MonitorReturns(m, r, v)
    <2>1. monitor_child_preauth(m, r, v) = x
      BY <1>1, <1>3 DEF monitor_child_preauth
    <2> QED
      BY <1>2, <1>3, <2>1
  <1>4. CASE MonitorReturns(m, r, v) /\ r \in MON_AUTHDECIDE
    <2> DEFINE w == [x EXCEPT !.state = "account"]
    <2>1. monitor_child_preauth(m, r, v) = w
      BY <1>1, <1>2, <1>4 DEF monitor_child_preauth
    <2>2. SameMon(u, w) /\ w.state = "account" /\ w.permit = x.permit
      BY <1>2 DEF SameMon, IsMon
    <2> QED
      BY <1>2, <1>4, <2>1, <2>2
  <1> QED
    BY <1>3, <1>4

LEMMA ReturnsCases ==
    ASSUME NEW m, NEW v
    PROVE  /\ \A r \in Requests \ {"FREE_CTX", "KEYVERIFY", "ACCOUNT"} : ~MonitorReturns(m, r, v)
           /\ MonitorReturns(m, "FREE_CTX", v) <=> m.authok
           /\ MonitorReturns(m, "KEYVERIFY", v) <=> v[2] = "right"
  BY DEF MonitorReturns, Requests

-----------------------------------------------------------------------------
(* One request after the other. *)

LEMMA MonReading ==
    ASSUME MonitorReads
    PROVE  net.out # << >> /\ mon.state \in {"loop", "account", "keystate"}
  BY DEF MonitorReads

LEMMA MonLoop ==
    ASSUME Inv, NEW r, NEW v, NEW rest, NEW u, r \in Requests,
           Takes(r, v, rest), mon.state = "loop", r \in mon.permit,
           u = MonitorHandles(mon, r, v), IsMon(u), u.state = "loop",
           ~MonitorReturns(mon, r, v) \/ r \in MON_AUTHDECIDE
    PROVE  /\ SameMon(u, mon')
           /\ ~MonitorReturns(mon, r, v) => mon'.state = "loop"
           /\ MonitorReturns(mon, r, v) => mon'.state = "account"
           /\ mon'.permit = Still(r, u.permit)
           /\ NetKept /\ net'.out = rest /\ user' = user /\ client' = client
           /\ pam' = PamAfter(mon', r, v)
  <1>1. /\ mon' = monitor_child_preauth(mon, r, v) /\ pam' = PamAfter(mon', r, v)
        /\ user' = user /\ client' = client
        /\ net' = AfterStep([net EXCEPT !.out = rest], mon')
    BY DEF Takes
  <1> DEFINE w == monitor_child_preauth(mon, r, v)
  <1>2. /\ ~MonitorReturns(mon, r, v) => SameMon(u, w) /\ w.state = "loop"
        /\ MonitorReturns(mon, r, v) /\ r \in MON_AUTHDECIDE => SameMon(u, w) /\ w.state = "account"
        /\ ~MonitorReturns(mon, r, v) \/ r \in MON_AUTHDECIDE =>
             w.permit = Still(r, u.permit)
    BY Handled
  <1>3. mon'.state # "exit"
    BY <1>1, <1>2
  <1>4. NetKept /\ net'.out = rest
    BY <1>1, <1>3, MonAnswers
  <1> QED
    BY <1>1, <1>2, <1>4

(* Requests that do not concern PAM and cannot authenticate. *)
Plain == {"SIGN", "PWNAM", "PAM_START", "AUTHSERV", "BANNER", "KEYALLOWED"}

Sound(u) ==
    /\ IsMon(u) /\ u.state = "loop" /\ u.permit \subseteq Requests
    /\ u.account_status = mon.account_status /\ u.pam_done = mon.pam_done /\ u.refused = mon.refused
    /\ u.enabled = mon.enabled /\ u.denied = mon.denied
    /\ u.out = << >> \/ u.out = << u.out[1] >>

LEMMA MonPlain ==
    ASSUME Inv, MonitorReads, NEW r, NEW v, NEW u,
           r \in Plain,
           Head(net.out) = <<r, v>>, mon.state = "loop", r \in mon.permit,
           u = MonitorHandles(mon, r, v), Sound(u)
    PROVE  /\ SameMon(u, mon') /\ mon'.state = "loop"
           /\ mon'.permit = Still(r, u.permit)
           /\ NetKept /\ net'.out = Tail(net.out) /\ user' = user /\ client' = client /\ pam' = pam
           /\ Types' /\ Verdict' /\ Tries' /\ Outcome'
  <1>1. r \in Requests /\ ~MonitorReturns(mon, r, v) /\ r # "INIT_CTX"
    BY ReturnsCases DEF Requests, Plain
  <1>t. Takes(r, v, Tail(net.out))
    BY <1>1, MonTakes
  <1>2. /\ SameMon(u, mon') /\ mon'.state = "loop"
        /\ mon'.permit = Still(r, u.permit)
        /\ NetKept /\ net'.out = Tail(net.out) /\ user' = user /\ client' = client
        /\ pam' = PamAfter(mon', r, v)
    BY <1>1, <1>t, MonLoop DEF Sound
  <1>3. pam' = pam
    BY <1>2 DEF PamAfter, Plain
  <1>4. mon'.out = << >> \/ mon'.out = << mon'.out[1] >>
    BY <1>2 DEF SameMon, Sound
  <1>5. /\ IsMon(mon') /\ IsPam(pam') /\ pam'.asked \in Nat /\ ~mon'.refused
        /\ mon'.permit \subseteq Requests /\ mon'.account_status \in {-1, 0, 1}
        /\ mon'.pam_done \in {-1, 0, 1} /\ mon'.account_status = mon.account_status
    BY <1>2, <1>3 DEF SameMon, Sound, Inv, Types, Outcome, Still
  <1>6. Verdict'
    BY <1>2, <1>5 DEF Inv, Verdict
  <1> QED
    BY <1>2, <1>3, <1>4, <1>5, <1>6, MonNext

LEMMA MonSign == ASSUME Inv, MonitorReads, net.pc = "SIGN" PROVE Inv'
  <1>1. AtSign
    BY DEF Inv, Where
  <1>2. /\ Start /\ net.attempt = 0 /\ mon.attempt = 0 /\ mon.permit = {"SIGN"}
        /\ net.out = << <<"SIGN", "empty">> >> /\ mon.out = << >>
    BY <1>1, MonReading DEF AtSign, Asking, Told
  <1>u. PICK u : u = mm_answer_sign(mon)
    OBVIOUS
  <1>3. Append(mon.out, <<"SIGN", "empty">>) = << <<"SIGN", "empty">> >>
    BY <1>2, Singletons
  <1>4. /\ IsMon(u) /\ u.state = "loop" /\ u.permit = {"SIGN", "PWNAM"} /\ u.ctxt = mon.ctxt
        /\ u.account_status = mon.account_status /\ u.pam_done = mon.pam_done
        /\ u.enabled = mon.enabled /\ u.denied = mon.denied
        /\ u.refused = mon.refused /\ u.attempt = mon.attempt /\ u.out = << <<"SIGN", "empty">> >>
    BY <1>2, <1>3, <1>u DEF mm_answer_sign, Permit, Answer, IsMon, Inv, Types, Start
  <1>5. u = MonitorHandles(mon, "SIGN", "empty")
    BY <1>u, HandlesCases
  <1>6. /\ SameMon(u, mon') /\ mon'.state = "loop" /\ mon'.permit = Still("SIGN", u.permit)
        /\ NetKept /\ net'.out = << >> /\ user' = user /\ client' = client /\ pam' = pam
        /\ Types' /\ Verdict' /\ Tries' /\ Outcome'
    <2>1. Head(net.out) = <<"SIGN", "empty">> /\ Tail(net.out) = << >>
      BY <1>2, Singletons
    <2>2. mon.state = "loop" /\ "SIGN" \in mon.permit /\ "SIGN" \in Plain /\ Sound(u)
      BY <1>2, <1>4 DEF Start, Requests, Plain, Sound
    <2>3. /\ SameMon(u, mon') /\ mon'.state = "loop" /\ mon'.permit = Still("SIGN", u.permit)
          /\ NetKept /\ net'.out = Tail(net.out) /\ user' = user /\ client' = client /\ pam' = pam
          /\ Types' /\ Verdict' /\ Tries' /\ Outcome'
      BY <1>5, <2>1, <2>2, MonPlain
    <2> QED
      BY <2>1, <2>3
  <1>7. net'.pc = "SIGN" /\ AtSign'
    BY <1>2, <1>4, <1>6 DEF AtSign, Still, MON_ONCE, Start, NoDevice, NoContext, SameMon, NetKept, Kept, Told
  <1> QED
    BY <1>6, <1>7 DEF Inv, Where

LEMMA MonPwnam == ASSUME Inv, MonitorReads, net.pc = "PWNAM" PROVE Inv'
  <1>1. AtPwnam
    BY DEF Inv, Where
  <1>2. /\ Start /\ net.attempt = 1 /\ mon.attempt = 0 /\ mon.permit = {"PWNAM"} /\ Credentials
        /\ net.out = << <<"PWNAM", "empty">> >> /\ mon.out = << >>
    BY <1>1, MonReading DEF AtPwnam, Asking, Told
  <1>u. PICK u : u = mm_answer_pwnamallow(mon)
    OBVIOUS
  <1>3. Append(mon.out, <<"PWNAM", user.valid>>) = << <<"PWNAM", user.valid>> >>
    BY <1>2, Singletons
  <1>4. /\ IsMon(u) /\ u.state = "loop" /\ u.ctxt = mon.ctxt
        /\ u.permit = {"PWNAM", "AUTHSERV", "BANNER", "PAM_START"}
        /\ u.account_status = mon.account_status /\ u.pam_done = mon.pam_done
        /\ u.enabled = mon.enabled /\ u.denied = mon.denied
        /\ u.refused = mon.refused /\ u.attempt = 1 /\ u.valid = user.valid
        /\ u.out = << <<"PWNAM", user.valid>> >>
    BY <1>2, <1>3, <1>u DEF mm_answer_pwnamallow, Permit, Answer, IsMon, Inv, Types, Start
  <1>5. u = MonitorHandles(mon, "PWNAM", "empty")
    BY <1>u, HandlesCases
  <1>6. /\ SameMon(u, mon') /\ mon'.state = "loop" /\ mon'.permit = Still("PWNAM", u.permit)
        /\ NetKept /\ net'.out = << >> /\ user' = user /\ client' = client /\ pam' = pam
        /\ Types' /\ Verdict' /\ Tries' /\ Outcome'
    <2>1. Head(net.out) = <<"PWNAM", "empty">> /\ Tail(net.out) = << >>
      BY <1>2, Singletons
    <2>2. mon.state = "loop" /\ "PWNAM" \in mon.permit /\ "PWNAM" \in Plain /\ Sound(u)
      BY <1>2, <1>4 DEF Start, Requests, Plain, Sound
    <2>3. /\ SameMon(u, mon') /\ mon'.state = "loop" /\ mon'.permit = Still("PWNAM", u.permit)
          /\ NetKept /\ net'.out = Tail(net.out) /\ user' = user /\ client' = client /\ pam' = pam
          /\ Types' /\ Verdict' /\ Tries' /\ Outcome'
      BY <1>5, <2>1, <2>2, MonPlain
    <2> QED
      BY <2>1, <2>3
  <1>7. net'.pc = "PWNAM" /\ AtPwnam'
    BY <1>2, <1>4, <1>6 DEF AtPwnam, Still, MON_ONCE, Start, NoDevice, NoContext, SameMon, NetKept, Kept, Told, Credentials
  <1> QED
    BY <1>6, <1>7 DEF Inv, Where

LEMMA MonBanner == ASSUME Inv, MonitorReads, net.pc = "BANNER" PROVE Inv'
  <1> DEFINE M1 == <<"PAM_START", "empty">>
             M2 == <<"AUTHSERV", "empty">>
             M3 == <<"BANNER", "empty">>
  <1>1. AtBanner
    BY DEF Inv, Where
  <1>2. /\ Start /\ net.attempt = 1 /\ Credentials
        /\ mon.attempt = 1 /\ mon.valid = user.valid /\ Known(net)
        /\ mon.out = << >> /\ mon.enabled
    BY <1>1, MonReading DEF AtBanner, Asking, Told, Start
  <1>3. \/ net.out = << M1, M2, M3 >> /\ mon.permit = {"AUTHSERV", "BANNER", "PAM_START"}
        \/ net.out = << M2, M3 >> /\ mon.permit = {"AUTHSERV", "BANNER", "ACCOUNT", "INIT_CTX"}
        \/ net.out = << M3 >> /\ mon.permit = {"BANNER", "ACCOUNT", "INIT_CTX"} \cup MON_AUTH
    BY <1>1, MonReading DEF AtBanner, Asking, Told
  <1>4. mon.state = "loop" /\ IsMon(mon)
    BY <1>2 DEF Start, Inv, Types
  <1> DEFINE Same(u) == u.ctxt = mon.ctxt /\ u.attempt = mon.attempt /\ u.valid = mon.valid /\ u.enabled = mon.enabled
             Common == /\ Start /\ net.attempt = 1 /\ Credentials
                       /\ mon.attempt = 1 /\ mon.valid = user.valid /\ Known(net)
  <1>5. ASSUME NEW u, Same(u), SameMon(u, mon'), mon'.state = "loop", NetKept, user' = user,
               client' = client, pam' = pam
        PROVE  Common'
    BY <1>2, <1>5 DEF Start, NoDevice, NoContext, SameMon, NetKept, Kept, Credentials, Known
  <1>6. CASE net.out = << M1, M2, M3 >> /\ mon.permit = {"AUTHSERV", "BANNER", "PAM_START"}
    <2>1. PICK u : u = mm_answer_pam_start(mon)
      OBVIOUS
    <2>2. /\ Sound(u) /\ Same(u) /\ u.out = << >>
          /\ u.permit = {"AUTHSERV", "BANNER", "PAM_START", "ACCOUNT", "INIT_CTX"}
      BY <1>2, <1>4, <1>6, <2>1 DEF mm_answer_pam_start, Permit, IsMon, Sound, Requests
    <2>3. /\ Head(net.out) = <<"PAM_START", "empty">> /\ Tail(net.out) = << M2, M3 >>
          /\ "PAM_START" \in Plain /\ "PAM_START" \in mon.permit
          /\ u = MonitorHandles(mon, "PAM_START", "empty")
      BY <1>6, <2>1, Triples, HandlesCases DEF Plain
    <2>4. /\ SameMon(u, mon') /\ mon'.state = "loop" /\ mon'.permit = Still("PAM_START", u.permit)
          /\ NetKept /\ net'.out = Tail(net.out) /\ user' = user /\ client' = client /\ pam' = pam
          /\ Types' /\ Verdict' /\ Tries' /\ Outcome'
      BY <1>4, <2>2, <2>3, MonPlain, ZenonT(60)
    <2>5. net'.out = << M2, M3 >> /\ mon'.out = << >> /\ net'.pc = "BANNER"
          /\ mon'.permit = {"AUTHSERV", "BANNER", "ACCOUNT", "INIT_CTX"}
      BY <2>2, <2>3, <2>4 DEF Still, MON_ONCE, SameMon, NetKept
    <2>6. Common'
      BY <1>5, <2>2, <2>4
    <2>7. AtBanner'
      BY <2>5, <2>6 DEF AtBanner
    <2> QED
      BY <2>4, <2>5, <2>7 DEF Inv, Where
  <1>7. CASE net.out = << M2, M3 >> /\ mon.permit = {"AUTHSERV", "BANNER", "ACCOUNT", "INIT_CTX"}
    <2>1. PICK u : u = mm_answer_authserv(mon)
      OBVIOUS
    <2>2. /\ Sound(u) /\ Same(u) /\ u.out = << >>
          /\ u.permit = {"AUTHSERV", "BANNER", "ACCOUNT", "INIT_CTX"} \cup MON_AUTH
      BY <1>2, <1>4, <1>7, <2>1
      DEF mm_answer_authserv, Permit, IsMon, Sound, Requests, MON_AUTH, MON_AUTHDECIDE
    <2>3. /\ Head(net.out) = <<"AUTHSERV", "empty">> /\ Tail(net.out) = << M3 >>
          /\ "AUTHSERV" \in Plain /\ "AUTHSERV" \in mon.permit
          /\ u = MonitorHandles(mon, "AUTHSERV", "empty")
      BY <1>7, <2>1, Triples, HandlesCases DEF Plain
    <2>4. /\ SameMon(u, mon') /\ mon'.state = "loop" /\ mon'.permit = Still("AUTHSERV", u.permit)
          /\ NetKept /\ net'.out = Tail(net.out) /\ user' = user /\ client' = client /\ pam' = pam
          /\ Types' /\ Verdict' /\ Tries' /\ Outcome'
      BY <1>4, <2>2, <2>3, MonPlain
    <2>5. net'.out = << M3 >> /\ mon'.out = << >> /\ net'.pc = "BANNER"
          /\ mon'.permit = {"BANNER", "ACCOUNT", "INIT_CTX"} \cup MON_AUTH
      BY <2>2, <2>3, <2>4 DEF Still, MON_ONCE, SameMon, NetKept, MON_AUTH, MON_AUTHDECIDE
    <2>6. Common'
      BY <1>5, <2>2, <2>4
    <2>7. AtBanner'
      BY <2>5, <2>6 DEF AtBanner, Asking
    <2> QED
      BY <2>4, <2>5, <2>7 DEF Inv, Where
  <1>8. CASE net.out = << M3 >> /\ mon.permit = {"BANNER", "ACCOUNT", "INIT_CTX"} \cup MON_AUTH
    <2>1. PICK u : u = mm_answer_auth2_read_banner(mon)
      OBVIOUS
    <2>2. Append(mon.out, M3) = << M3 >>
      BY <1>2, Singletons
    <2>3. /\ Sound(u) /\ Same(u) /\ u.out = << M3 >>
          /\ u.permit = {"BANNER", "ACCOUNT", "INIT_CTX"} \cup MON_AUTH
      <3>1. /\ IsMon(u) /\ u.state = mon.state /\ u.permit = mon.permit
            /\ u.account_status = mon.account_status /\ u.pam_done = mon.pam_done
            /\ u.refused = mon.refused /\ u.denied = mon.denied /\ Same(u) /\ u.out = << M3 >>
        BY <1>4, <2>1, <2>2 DEF mm_answer_auth2_read_banner, Answer, IsMon
      <3>2. u.permit \subseteq Requests
        BY <3>1 DEF Inv, Types
      <3> QED
        BY <1>4, <1>8, <3>1, <3>2 DEF Sound
    <2>4. /\ Head(net.out) = <<"BANNER", "empty">> /\ Tail(net.out) = << >>
          /\ "BANNER" \in Plain /\ "BANNER" \in mon.permit
          /\ u = MonitorHandles(mon, "BANNER", "empty")
      BY <1>8, <2>1, Singletons, HandlesCases DEF Plain
    <2>5. /\ SameMon(u, mon') /\ mon'.state = "loop" /\ mon'.permit = Still("BANNER", u.permit)
          /\ NetKept /\ net'.out = Tail(net.out) /\ user' = user /\ client' = client /\ pam' = pam
          /\ Types' /\ Verdict' /\ Tries' /\ Outcome'
      BY <1>4, <2>3, <2>4, MonPlain
    <2>6. net'.out = << >> /\ mon'.out = << M3 >> /\ net'.pc = "BANNER"
          /\ mon'.permit = {"ACCOUNT", "INIT_CTX"} \cup MON_AUTH
      BY <2>3, <2>4, <2>5 DEF Still, MON_ONCE, SameMon, NetKept, MON_AUTH, MON_AUTHDECIDE
    <2>7. Common'
      BY <1>5, <2>3, <2>5
    <2>8. AtBanner'
      BY <2>6, <2>7 DEF AtBanner, Told
    <2> QED
      BY <2>5, <2>6, <2>8 DEF Inv, Where
  <1> QED
    BY <1>3, <1>6, <1>7, <1>8

(* The monitor takes its last conversation for a success: it expects       *)
(* PAM_ACCOUNT and takes nothing else.  A child that knows no users sends  *)
(* INIT_CTX, if anything.                                                  *)
LEMMA MonStranded ==
    ASSUME Inv, MonitorReads, NEW r, NEW v, Head(net.out) = <<r, v>>, Tail(net.out) = << >>,
           r # "ACCOUNT", mon.state = "account", Excused(net), mon.out = << >>, pam = NoPam
    PROVE  Inv'
  <1> DEFINE rest == << >>
  <1>1. /\ mon' = MonitorExpects(mon, r) /\ pam' = pam /\ user' = user /\ client' = client
        /\ net' = AfterStep([net EXCEPT !.out = rest], mon')
    BY MonGets
  <1>2. mon' = Fatal(mon)
    BY <1>1 DEF MonitorExpects
  <1> QED
    BY <1>1, <1>2, FatalStep

LEMMA MonKeyAllowed == ASSUME Inv, MonitorReads, net.pc = "KEYALLOWED" PROVE Inv'
  <1>1. AtKeyAllowed
    BY DEF Inv, Where
  <1>2. /\ Ready /\ NoDevice /\ NoContext /\ net.method = "publickey" /\ Credentials
        /\ net.out = << <<"KEYALLOWED", net.key>> >> /\ mon.out = << >> /\ LoopOrStranded
        /\ net.valid
    BY <1>1, MonReading DEF AtKeyAllowed, Asking, Told
  <1>3. Head(net.out) = <<"KEYALLOWED", net.key>> /\ Tail(net.out) = << >>
    BY <1>2, Singletons
  <1>4. CASE mon.state = "account" /\ Stranded(net)
    <2>1. Excused(net)
      BY <1>2, <1>4 DEF Ready, Known, Stranded, Unheeded, Excused
    <2> QED
      BY <1>2, <1>3, <1>4, <2>1, MonStranded DEF NoContext
  <1>5. CASE mon.state = "loop" /\ Counted
    <2>1. PICK u : u = mm_answer_keyallowed(mon, net.key)
      OBVIOUS
    <2> DEFINE allowed == mon.valid /\ net.key = "own"
    <2>2. Append(mon.out, <<"KEYALLOWED", allowed>>) = << <<"KEYALLOWED", allowed>> >>
      BY <1>2, Singletons, Zenon
    <2> HIDE DEF allowed
    <2>3. u = Answer([mon EXCEPT !.key_blob = IF allowed THEN net.key ELSE "none"], "KEYALLOWED", allowed)
      BY <2>1 DEF mm_answer_keyallowed, allowed
    <2>4. /\ IsMon(u) /\ u.state = mon.state /\ u.permit = mon.permit
          /\ u.account_status = mon.account_status /\ u.pam_done = mon.pam_done /\ u.refused = mon.refused
          /\ u.ctxt = mon.ctxt /\ u.attempt = mon.attempt /\ u.valid = mon.valid
          /\ u.enabled = mon.enabled /\ u.denied = mon.denied
          /\ u.key_blob = (IF allowed THEN net.key ELSE "none")
          /\ u.out = << <<"KEYALLOWED", allowed>> >>
      BY <2>2, <2>3 DEF Answer, IsMon, Inv, Types
    <2>5. Sound(u)
      BY <1>5, <2>4 DEF Sound, Inv, Types
    <2>6. "KEYALLOWED" \in Plain /\ "KEYALLOWED" \in mon.permit
          /\ u = MonitorHandles(mon, "KEYALLOWED", net.key)
      BY <1>2, <2>1, HandlesCases DEF Plain, Ready
    <2>7. /\ SameMon(u, mon') /\ mon'.state = "loop" /\ mon'.permit = Still("KEYALLOWED", u.permit)
          /\ NetKept /\ net'.out = Tail(net.out) /\ user' = user /\ client' = client /\ pam' = pam
          /\ Types' /\ Verdict' /\ Tries' /\ Outcome'
      BY <1>3, <1>5, <2>5, <2>6, MonPlain
    <2>8. /\ mon'.permit = mon.permit /\ net'.pc = "KEYALLOWED" /\ net'.out = << >>
          /\ net'.method = "publickey" /\ mon'.out = << <<"KEYALLOWED", allowed>> >>
      BY <1>2, <1>3, <2>4, <2>7 DEF Still, MON_ONCE, SameMon, NetKept, Kept
    <2>9. Ready' /\ NoDevice' /\ NoContext' /\ Credentials' /\ Counted'
      BY <1>2, <1>5, <2>4, <2>7, <2>8
      DEF Ready, Known, NoDevice, NoContext, Credentials, Counted, SameMon, NetKept, Kept
    <2>10. CASE allowed
      <3>1. allowed = TRUE
        BY <2>10 DEF allowed
      <3>2. Told("KEYALLOWED", TRUE)'
        BY <2>8, <3>1 DEF Told
      <3>3. mon'.key_blob = "own" /\ net'.key = "own" /\ user'.valid
        BY <1>2, <2>4, <2>7, <2>10 DEF Ready, SameMon, NetKept, Kept, allowed
      <3> QED
        BY <2>7, <2>8, <2>9, <3>2, <3>3 DEF AtKeyAllowed, Inv, Where
    <2>11. CASE ~allowed
      <3>1. allowed = FALSE
        BY <2>11 DEF allowed
      <3>2. Told("KEYALLOWED", FALSE)'
        BY <2>8, <3>1 DEF Told
      <3> QED
        BY <2>7, <2>8, <2>9, <3>2 DEF AtKeyAllowed, Inv, Where
    <2> QED
      BY <2>10, <2>11
  <1> QED
    BY <1>2, <1>4, <1>5 DEF LoopOrStranded

(* Requests that concern PAM or can authenticate. *)
Fine(u) ==
    /\ IsMon(u) /\ u.state = "loop" /\ u.permit \subseteq Requests
    /\ u.account_status \in {-1, 0, 1} /\ u.pam_done \in {-1, 0, 1} /\ ~u.refused
    /\ u.account_status = 1 => user.account
    /\ u.out = << u.out[1] >>

LEMMA MonOther ==
    ASSUME Inv, NEW r, NEW v, NEW u, r \in Requests,
           Takes(r, v, Tail(net.out)), mon.state = "loop", r \in mon.permit,
           u = MonitorHandles(mon, r, v), Fine(u),
           ~MonitorReturns(mon, r, v) \/ r \in MON_AUTHDECIDE
    PROVE  /\ SameMon(u, mon') /\ mon'.permit = Still(r, u.permit)
           /\ ~MonitorReturns(mon, r, v) => mon'.state = "loop"
           /\ MonitorReturns(mon, r, v) => mon'.state = "account"
           /\ NetKept /\ net'.out = Tail(net.out) /\ user' = user /\ client' = client
           /\ pam' = PamAfter(mon', r, v)
           /\ Types' /\ Verdict' /\ Tries' /\ Outcome'
  <1>1. /\ SameMon(u, mon') /\ mon'.permit = Still(r, u.permit)
        /\ ~MonitorReturns(mon, r, v) => mon'.state = "loop"
        /\ MonitorReturns(mon, r, v) => mon'.state = "account"
        /\ NetKept /\ net'.out = Tail(net.out) /\ user' = user /\ client' = client
        /\ pam' = PamAfter(mon', r, v)
    BY MonLoop DEF Fine
  <1>2. mon'.state # "exit"
    BY <1>1
  <1>3. IsPam(pam') /\ pam'.asked \in Nat
    <2>1. IsPam(NoPam) /\ NoPam.asked = 0
      BY DEF NoPam, IsPam
    <2> DEFINE p1 == [NoPam EXCEPT !.state = "run"]
               p2 == [pam EXCEPT !.out = Tail(@)]
               p3 == [pam EXCEPT !.in = Append(@, v)]
    <2>2. pam' \in {NoPam, p1, p2, p3, pam}
      BY <1>1, <1>2 DEF PamAfter
    <2>3. IsPam(pam) /\ pam.asked \in Nat
      BY DEF Inv, Types
    <2>4. IsPam(p1) /\ p1.asked = 0
      BY <2>1 DEF IsPam
    <2>5. IsPam(p2) /\ p2.asked = pam.asked
      BY <2>3 DEF IsPam
    <2>6. IsPam(p3) /\ p3.asked = pam.asked
      BY <2>3 DEF IsPam
    <2> HIDE DEF p1, p2, p3
    <2> QED
      BY <2>1, <2>2, <2>3, <2>4, <2>5, <2>6
  <1>4. /\ IsMon(mon') /\ ~mon'.refused
        /\ mon'.permit \subseteq Requests /\ mon'.account_status \in {-1, 0, 1}
        /\ mon'.pam_done \in {-1, 0, 1}
        /\ mon'.out = << mon'.out[1] >>
    BY <1>1 DEF SameMon, Fine, Still
  <1>5. Verdict'
    BY <1>1 DEF SameMon, Fine, Verdict
  <1> QED
    BY <1>1, <1>3, <1>4, <1>5, MonNext

LEMMA MonKeyVerify == ASSUME Inv, MonitorReads, net.pc = "KEYVERIFY" PROVE Inv'
  <1> DEFINE v == <<net.key, net.sig>>
             right == net.sig = "right"
  <1>1. AtKeyVerify
    BY DEF Inv, Where
  <1>2. /\ Ready /\ NoDevice /\ NoContext /\ net.method = "publickey" /\ Credentials
        /\ net.key = "own" /\ user.valid /\ Counted
        /\ net.out = << <<"KEYVERIFY", v>> >> /\ mon.out = << >>
        /\ mon.state = "loop" /\ mon.key_blob = "own"
    BY <1>1, MonReading DEF AtKeyVerify, Asking, Told
  <1>3. v[1] = net.key /\ v[2] = net.sig
    OBVIOUS
  <1> HIDE DEF v
  <1>4. Head(net.out) = <<"KEYVERIFY", v>> /\ Tail(net.out) = << >>
    BY <1>2, Singletons
  <1>5. PICK u : u = mm_answer_keyverify(mon, net.key, net.sig)
    OBVIOUS
  <1>6. Append(mon.out, <<"KEYVERIFY", right>>) = << <<"KEYVERIFY", right>> >>
    BY <1>2, Singletons, Zenon
  <1>7. u = Answer([mon EXCEPT !.key_blob = "none"], "KEYVERIFY", right)
    BY <1>2, <1>5 DEF mm_answer_keyverify
  <1>8. right = TRUE \/ right = FALSE
    OBVIOUS
  <1>9. MonitorReturns(mon, "KEYVERIFY", v) <=> right
    BY <1>3, ReturnsCases
  <1>10. right => client.proof
    BY <1>2 DEF Credentials
  <1> HIDE DEF right
  <1>11. /\ IsMon(u) /\ u.state = mon.state /\ u.permit = mon.permit
         /\ u.account_status = mon.account_status /\ u.pam_done = mon.pam_done /\ u.refused = mon.refused
         /\ u.ctxt = mon.ctxt /\ u.attempt = mon.attempt /\ u.valid = mon.valid
         /\ u.enabled = mon.enabled /\ u.denied = mon.denied
         /\ u.out = << <<"KEYVERIFY", right>> >>
    BY <1>6, <1>7 DEF Answer, IsMon, Inv, Types
  <1>12. Fine(u)
    BY <1>2, <1>11 DEF Fine, Inv, Types, Verdict, Outcome
  <1>13. /\ "KEYVERIFY" \in Requests /\ "KEYVERIFY" \in mon.permit /\ "KEYVERIFY" \in MON_AUTHDECIDE
         /\ u = MonitorHandles(mon, "KEYVERIFY", v)
    BY <1>2, <1>3, <1>5, HandlesCases DEF Requests, MON_AUTHDECIDE, Ready
  <1>14. /\ SameMon(u, mon') /\ mon'.permit = Still("KEYVERIFY", u.permit)
         /\ ~right => mon'.state = "loop"
         /\ right => mon'.state = "account"
         /\ NetKept /\ net'.out = Tail(net.out) /\ user' = user /\ client' = client
         /\ pam' = PamAfter(mon', "KEYVERIFY", v)
         /\ Types' /\ Verdict' /\ Tries' /\ Outcome'
    <2>1. Takes("KEYVERIFY", v, Tail(net.out))
      BY <1>2, <1>4, MonTakes
    <2> QED
      BY <1>2, <1>9, <1>12, <1>13, <2>1, MonOther
  <1>15. pam' = pam
    BY <1>14 DEF PamAfter
  <1>16. /\ mon'.permit = mon.permit /\ net'.pc = "KEYVERIFY" /\ net'.out = << >>
         /\ net'.method = "publickey" /\ net'.key = "own" /\ mon'.out = << <<"KEYVERIFY", right>> >>
    BY <1>2, <1>4, <1>11, <1>14 DEF Still, MON_ONCE, SameMon, NetKept, Kept
  <1>17. Ready' /\ NoDevice' /\ NoContext' /\ Credentials' /\ Counted'
    <2>1. Ready'
      BY <1>2, <1>11, <1>14, <1>16, ZenonT(60) DEF Ready, Known, SameMon, NetKept, Kept
    <2>2. NoDevice' /\ NoContext'
      BY <1>2, <1>11, <1>14, <1>15 DEF NoDevice, NoContext, SameMon, NetKept, Kept
    <2>3. Credentials' /\ Counted'
      BY <1>2, <1>14, <1>16 DEF Credentials, Counted, NetKept, Kept
    <2> QED
      BY <2>1, <2>2, <2>3
  <1>18. CASE right = TRUE
    <2>1. Told("KEYVERIFY", TRUE)' /\ mon'.state = "account" /\ client'.proof /\ user'.valid
      BY <1>2, <1>10, <1>14, <1>16, <1>18 DEF Told
    <2> QED
      BY <1>14, <1>16, <1>17, <2>1 DEF AtKeyVerify, Inv, Where
  <1>19. CASE right = FALSE
    <2>1. Told("KEYVERIFY", FALSE)' /\ mon'.state = "loop" /\ user'.valid
      BY <1>2, <1>14, <1>16, <1>19 DEF Told
    <2> QED
      BY <1>14, <1>16, <1>17, <2>1 DEF AtKeyVerify, Inv, Where
  <1> QED
    BY <1>8, <1>18, <1>19

LEMMA MonInitCtx == ASSUME Inv, MonitorReads, net.pc = "INIT_CTX" PROVE Inv'
  <1>1. AtInitCtx
    BY DEF Inv, Where
  <1>2. /\ Ready /\ NoDevice /\ NoContext /\ net.method = "keyboard-interactive"
        /\ net.out = << <<"INIT_CTX", "empty">> >> /\ mon.out = << >> /\ LoopOrStranded
        /\ mon.enabled
    BY <1>1, MonReading DEF AtInitCtx, Asking, Told
  <1>3. Head(net.out) = <<"INIT_CTX", "empty">> /\ Tail(net.out) = << >>
    BY <1>2, Singletons
  <1>4. CASE mon.state = "account" /\ Stranded(net)
    <2>1. Excused(net)
      BY <1>2, <1>4 DEF Stranded, Excused
    <2> QED
      BY <1>2, <1>3, <1>4, <2>1, MonStranded DEF NoContext
  <1>5. CASE mon.state = "loop" /\ Counted /\ "INIT_CTX" \notin mon.permit
    <2> DEFINE rest == << >>
    <2>1. Excused(net)
      BY <1>2, <1>5 DEF Ready, NoContext, Excused
    <2>2. PICK got :
             /\ mon' = monitor_child_preauth(mon, "INIT_CTX", got)
             /\ pam' = PamAfter(mon', "INIT_CTX", got) /\ user' = user /\ client' = client
             /\ net' = AfterStep([net EXCEPT !.out = rest], mon')
      BY <1>3, <1>5, MonGets DEF Takes
    <2>3. mon' = Fatal(mon) /\ Fatal(mon).state = "exit"
      BY <1>5, <2>2 DEF monitor_child_preauth, monitor_read, Fatal, Inv, Types, IsMon
    <2>4. mon'.state = "exit" /\ ~mon'.ctxt
      BY <1>2, <2>3 DEF Fatal, NoContext, Inv, Types, IsMon
    <2>5. pam' = NoPam
      BY <2>2, <2>4 DEF PamAfter
    <2> QED
      BY <1>2, <2>1, <2>2, <2>3, <2>5, FatalStep
  <1>6. CASE mon.state = "loop" /\ Counted /\ "INIT_CTX" \in mon.permit
    <2> DEFINE rest == Tail(net.out)
    <2>t. PICK got : Takes("INIT_CTX", got, rest)
      BY <1>3, <1>6, MonGets
    <2>1. PICK u : u = mm_answer_pam_init_ctx(mon, got)
      OBVIOUS
    <2>2. /\ u = MonitorHandles(mon, "INIT_CTX", got) /\ "INIT_CTX" \in Requests
          /\ ~MonitorReturns(mon, "INIT_CTX", got)
      BY <2>1, HandlesCases, ReturnsCases DEF Requests
    <2>c. PICK c : c = sshpam_init_ctx(mon, got)
      OBVIOUS
    <2>3. CASE c # "ctxt"
      <3>1. Append(mon.out, <<"INIT_CTX", FALSE>>) = << <<"INIT_CTX", FALSE>> >>
        BY <1>2, Singletons, Zenon
      <3>2. u = Answer([mon EXCEPT !.authok = FALSE, !.denied = TRUE, !.handle = @ /\ c # "no_handle"],
                       "INIT_CTX", FALSE)
        BY <1>2, <2>1, <2>3, <2>c DEF mm_answer_pam_init_ctx, NoContext
      <3>3. /\ IsMon(u) /\ u.state = mon.state /\ u.permit = mon.permit
            /\ u.enabled = mon.enabled /\ u.denied
            /\ u.account_status = mon.account_status /\ u.pam_done = mon.pam_done /\ u.refused = mon.refused
            /\ u.ctxt = mon.ctxt /\ u.attempt = mon.attempt /\ u.valid = mon.valid
            /\ u.out = << <<"INIT_CTX", FALSE>> >>
        BY <3>1, <3>2 DEF Answer, IsMon, Inv, Types
      <3>4. Fine(u)
        <4>1. PICK x : x = <<"INIT_CTX", FALSE>>
          OBVIOUS
        <4>2. u.out = << x >>
          BY <3>3, <4>1, Zenon
        <4>3. u.out = << u.out[1] >>
          BY <4>2
        <4>4. u.permit \subseteq Requests /\ mon.account_status \in {-1, 0, 1}
          BY <3>3 DEF Inv, Types, Requests
        <4>5. ~mon.refused /\ Verdict /\ mon.pam_done \in {-1, 0, 1}
          BY <1>6 DEF Inv, Types, Outcome
        <4> QED
          BY <1>6, <3>3, <4>3, <4>4, <4>5 DEF Fine, Verdict
      <3>5. /\ SameMon(u, mon') /\ mon'.permit = Still("INIT_CTX", u.permit) /\ mon'.state = "loop"
            /\ NetKept /\ net'.out = Tail(net.out) /\ user' = user /\ client' = client
            /\ pam' = PamAfter(mon', "INIT_CTX", got)
            /\ Types' /\ Verdict' /\ Tries' /\ Outcome'
        BY <1>6, <2>2, <2>t, <3>4, MonOther
      <3>6. ~mon.ctxt /\ ~mon'.ctxt /\ pam' = pam
        BY <1>2, <3>3, <3>5 DEF PamAfter, SameMon, NoContext
      <3>7. /\ mon'.permit = mon.permit \ {"INIT_CTX"} /\ net'.pc = "INIT_CTX" /\ net'.out = << >>
            /\ net'.method = "keyboard-interactive" /\ mon'.out = << <<"INIT_CTX", FALSE>> >>
        BY <1>2, <1>3, <3>3, <3>5 DEF Still, MON_ONCE, SameMon, NetKept, Kept
      <3>8. Ready' /\ NoDevice' /\ NoContext' /\ Counted' /\ Told("INIT_CTX", FALSE)'
        BY <1>2, <1>6, <3>3, <3>5, <3>6, <3>7
        DEF Ready, Known, NoDevice, NoContext, Counted, SameMon, NetKept, Kept, Told
      <3> QED
        BY <3>5, <3>7, <3>8 DEF AtInitCtx, Inv, Where
    <2>4. CASE c = "ctxt"
      <3>1. Append(mon.out, <<"INIT_CTX", TRUE>>) = << <<"INIT_CTX", TRUE>> >>
        BY <1>2, Singletons, Zenon
      <3>2. u = Permit(Answer([mon EXCEPT !.ctxt = TRUE, !.authok = FALSE, !.pam_done = 0],
                              "INIT_CTX", TRUE), {"FREE_CTX", "QUERY"})
        BY <1>2, <2>1, <2>4, <2>c DEF mm_answer_pam_init_ctx, NoContext
      <3>3. /\ IsMon(u) /\ u.state = mon.state /\ u.permit = mon.permit \cup {"FREE_CTX", "QUERY"}
            /\ u.account_status = mon.account_status /\ u.pam_done = 0 /\ u.refused = mon.refused
            /\ u.enabled = mon.enabled /\ u.denied = mon.denied
            /\ u.ctxt /\ u.attempt = mon.attempt /\ u.valid = mon.valid
            /\ u.out = << <<"INIT_CTX", TRUE>> >>
        BY <3>1, <3>2 DEF Answer, Permit, IsMon, Inv, Types
      <3>4. Fine(u)
        <4>1. PICK x : x = <<"INIT_CTX", TRUE>>
          OBVIOUS
        <4>2. u.out = << x >>
          BY <3>3, <4>1, Zenon
        <4>3. u.out = << u.out[1] >>
          BY <4>2
        <4>4. u.permit \subseteq Requests /\ mon.account_status \in {-1, 0, 1}
          BY <3>3 DEF Inv, Types, Requests
        <4>5. ~mon.refused /\ Verdict /\ mon.pam_done \in {-1, 0, 1}
          BY <1>6 DEF Inv, Types, Outcome
        <4> QED
          BY <1>6, <3>3, <4>3, <4>4, <4>5 DEF Fine, Verdict
      <3>5. /\ SameMon(u, mon') /\ mon'.permit = Still("INIT_CTX", u.permit) /\ mon'.state = "loop"
            /\ NetKept /\ net'.out = Tail(net.out) /\ user' = user /\ client' = client
            /\ pam' = PamAfter(mon', "INIT_CTX", got)
            /\ Types' /\ Verdict' /\ Tries' /\ Outcome'
        BY <1>6, <2>2, <2>t, <3>4, MonOther
      <3>6. ~mon.ctxt /\ mon'.ctxt /\ pam' = [NoPam EXCEPT !.state = "run"]
        BY <1>2, <3>3, <3>5 DEF PamAfter, SameMon, NoContext
      <3>7. pam'.state = "run" /\ pam'.in = << >> /\ pam'.out = << >> /\ pam'.asked = 0
        BY <3>6 DEF NoPam
      <3>8. /\ mon'.permit = (mon.permit \cup {"FREE_CTX", "QUERY"}) \ {"INIT_CTX"}
            /\ net'.pc = "INIT_CTX" /\ net'.out = << >>
            /\ net'.method = "keyboard-interactive" /\ mon'.out = << <<"INIT_CTX", TRUE>> >>
        BY <1>2, <1>3, <3>3, <3>5 DEF Still, MON_ONCE, SameMon, NetKept, Kept
      <3>9. Ready' /\ NoDevice' /\ Counted' /\ Told("INIT_CTX", TRUE)'
        BY <1>2, <1>6, <3>3, <3>5, <3>6, <3>8
        DEF Ready, Known, NoDevice, Counted, SameMon, NetKept, Kept, Told
      <3>10. Conversation'
        BY <3>5, <3>6, <3>8 DEF Conversation
      <3>11. Talking'
        BY <3>3, <3>5, <3>7, <3>9 DEF Talking, SameMon
      <3> QED
        BY <3>5, <3>8, <3>9, <3>10, <3>11 DEF AtInitCtx, Inv, Where
    <2> QED
      BY <2>3, <2>4
  <1> QED
    BY <1>2, <1>4, <1>5, <1>6 DEF LoopOrStranded

(* mm_answer_pam_query, when PAM has said msg. *)
StatusAfter(msg) ==
    CASE msg.type = "success" -> 1 [] msg.type = "expired" -> 0 [] OTHER -> mon.account_status

Says(msg, ret, num, done) == sshpam_query(msg) = [ret |-> ret, num |-> num, done |-> done]

(* The answer, with the flag that keyboard-interactive is off. *)
QueryTold(ret, num) ==
    \E reached \in BOOLEAN :
      /\ reached <=> ~mon.enabled
      /\ Told("QUERY", <<ret, num, reached>>)

Queried(u, ret, num, done, status, reached) ==
    /\ IsMon(u) /\ u.state = mon.state /\ u.permit = mon.permit \cup {"RESPOND"}
    /\ u.ctxt = mon.ctxt /\ u.attempt = mon.attempt /\ u.valid = mon.valid
    /\ u.refused = mon.refused /\ u.denied = mon.denied /\ u.pam_done = done
    /\ u.authok <=> (ret = 0 /\ num = 0)
    /\ u.account_status = status
    /\ u.enabled => mon.enabled
    /\ reached <=> ~u.enabled
    /\ u.out = << <<"QUERY", <<ret, num, reached>> >> >>

LEMMA QueryFacts ==
    ASSUME NEW msg, NEW ret, NEW num, NEW done, NEW status, NEW u, NEW reached,
           IsMon(mon), mon.out = << >>, mon.ctxt, pam.out = << msg >>,
           msg.type = "success" => mon.valid,
           Says(msg, ret, num, done),
           status = StatusAfter(msg), reached = ~Noted(mon, msg).enabled,
           u = mm_answer_pam_query(mon)
    PROVE  Queried(u, ret, num, done, status, reached)
  <1> DEFINE q == sshpam_query(msg)
             w == Noted(mon, msg)
  <1>1. Head(pam.out) = msg
    BY Singletons
  <1>2. q.ret = ret /\ q.num = num /\ q.done = done
    BY DEF Says
  <1>3. u = Permit(Answer(w, "QUERY", <<q.ret, q.num, ~w.enabled>>), {"RESPOND"})
    BY <1>1 DEF mm_answer_pam_query
  <1>4. /\ IsMon(w) /\ w.state = mon.state /\ w.permit = mon.permit
        /\ w.ctxt = mon.ctxt /\ w.attempt = mon.attempt /\ w.valid = mon.valid
        /\ w.refused = mon.refused /\ w.denied = mon.denied /\ w.pam_done = done
        /\ w.authok <=> (ret = 0 /\ num = 0)
        /\ w.account_status = status /\ w.out = << >>
        /\ w.enabled => mon.enabled
    BY <1>2 DEF IsMon, Noted, StatusAfter
  <1> HIDE DEF w, q
  <1>5. Append(w.out, <<"QUERY", <<ret, num, reached>> >>) = << <<"QUERY", <<ret, num, reached>> >> >>
    BY <1>4, Singletons
  <1>6. u = Permit(Answer(w, "QUERY", <<ret, num, reached>>), {"RESPOND"})
    BY <1>2, <1>3 DEF w
  <1>7. reached <=> ~w.enabled
    BY DEF w
  <1>8. u = [w EXCEPT !.out = << <<"QUERY", <<ret, num, reached>> >> >>,
                      !.permit = w.permit \cup {"RESPOND"}]
    BY <1>4, <1>5, <1>6 DEF Permit, Answer, IsMon
  <1>9. IsMon(u)
    BY <1>4, <1>8 DEF IsMon
  <1> QED
    BY <1>4, <1>7, <1>8, <1>9, ZenonT(60) DEF IsMon, Queried

LEMMA MonQuery == ASSUME Inv, MonitorReads, net.pc = "QUERY" PROVE Inv'
  <1>1. AtQuery
    BY DEF Inv, Where
  <1>2. /\ Ready /\ net.kbdint /\ Conversation /\ Counted /\ Talking
        /\ net.out = << <<"QUERY", "empty">> >> /\ mon.out = << >>
    BY <1>1, MonReading DEF AtQuery, Asking, Told
  <1>3. Head(net.out) = <<"QUERY", "empty">> /\ Tail(net.out) = << >>
    BY <1>2, Singletons
  <1>4. mon.state = "loop" /\ mon.ctxt /\ "QUERY" \in mon.permit /\ net.method = "keyboard-interactive"
        /\ IsMon(mon) /\ IsPam(pam)
    BY <1>2 DEF Conversation, Ready, Inv, Types
  <1>5. pam.out # << >>
    BY <1>3, <1>4, MonGets
  <1>6. /\ "QUERY" \in Requests /\ ~MonitorReturns(mon, "QUERY", "empty")
        /\ mm_answer_pam_query(mon) = MonitorHandles(mon, "QUERY", "empty")
    BY HandlesCases, ReturnsCases DEF Requests
  <1>t. Takes("QUERY", "empty", Tail(net.out))
    BY <1>3, <1>4, MonTakes
  <1>7. ASSUME NEW msg, NEW ret, NEW num, NEW done, NEW status, pam.out = << msg >>,
               msg.type = "success" => user.valid,
               Says(msg, ret, num, done),
               status = StatusAfter(msg),
               done \in {-1, 0, 1}, status \in {-1, 0, 1},
               status = 1 => user.account
        PROVE  /\ Types' /\ Verdict' /\ Tries' /\ Outcome' /\ Ready' /\ Conversation' /\ Counted'
               /\ net'.pc = "QUERY" /\ net'.kbdint /\ user' = user /\ client' = client
               /\ QueryTold(ret, num)' /\ mon'.account_status = status
               /\ mon'.pam_done = done /\ (mon'.authok <=> (ret = 0 /\ num = 0))
               /\ "RESPOND" \in mon'.permit
               /\ pam'.out = << >> /\ pam'.in = pam.in /\ pam'.state = pam.state
               /\ pam'.asked = pam.asked /\ pam'.right = pam.right
    <2>1. PICK u : u = mm_answer_pam_query(mon)
      OBVIOUS
    <2>2. msg.type = "success" => mon.valid
      BY <1>2, <1>7 DEF Ready
    <2>r. PICK reached \in BOOLEAN : reached = ~Noted(mon, msg).enabled
      OBVIOUS
    <2>3. /\ IsMon(u) /\ u.state = mon.state /\ u.permit = mon.permit \cup {"RESPOND"}
          /\ u.ctxt = mon.ctxt /\ u.attempt = mon.attempt /\ u.valid = mon.valid
          /\ u.refused = mon.refused /\ u.denied = mon.denied /\ u.pam_done = done
          /\ u.authok <=> (ret = 0 /\ num = 0)
          /\ u.account_status = status
          /\ u.enabled => mon.enabled
          /\ reached <=> ~u.enabled
          /\ u.out = << <<"QUERY", <<ret, num, reached>> >> >>
      <3>1. Queried(u, ret, num, done, status, reached)
        BY <1>2, <1>4, <1>7, <2>1, <2>2, <2>r, QueryFacts
      <3> QED
        BY <3>1 DEF Queried
    <2>4. Fine(u)
      <3>1. u.permit \subseteq Requests /\ ~u.refused
        BY <1>4, <2>3 DEF Inv, Types, Outcome, Requests
      <3>2. u.out = << u.out[1] >>
        BY <2>3
      <3> QED
        BY <1>4, <1>7, <2>3, <3>1, <3>2 DEF Fine
    <2>5. /\ SameMon(u, mon') /\ mon'.permit = Still("QUERY", u.permit) /\ mon'.state = "loop"
          /\ NetKept /\ net'.out = Tail(net.out) /\ user' = user /\ client' = client
          /\ pam' = PamAfter(mon', "QUERY", "empty")
          /\ Types' /\ Verdict' /\ Tries' /\ Outcome'
      BY <1>t, <1>4, <1>6, <2>1, <2>4, MonOther
    <2>6. pam' = [pam EXCEPT !.out = Tail(@)]
      BY <2>5 DEF PamAfter
    <2>7. Tail(pam.out) = << >>
      BY <1>7, Singletons
    <2>8. /\ pam'.out = << >> /\ pam'.in = pam.in /\ pam'.state = pam.state
          /\ pam'.asked = pam.asked /\ pam'.right = pam.right
      BY <1>4, <2>6, <2>7 DEF IsPam
    <2>9. mon'.permit = mon.permit \cup {"RESPOND"}
      BY <2>3, <2>5 DEF Still, MON_ONCE
    <2>10. Ready' /\ Conversation' /\ Counted' /\ net'.pc = "QUERY" /\ net'.kbdint
      <3>1. /\ mon'.ctxt /\ mon'.attempt = mon.attempt /\ mon'.valid = mon.valid
            /\ mon'.denied = mon.denied /\ (mon'.enabled => mon.enabled)
            /\ net'.pc = "QUERY" /\ net'.kbdint /\ net'.valid = net.valid
            /\ net'.service = net.service /\ net'.enabled = net.enabled
            /\ net'.attempt = net.attempt /\ net'.method = net.method /\ net'.failures = net.failures
        BY <1>2, <1>4, <2>3, <2>5 DEF SameMon, NetKept, Kept
      <3>2. Ready'
        BY <1>2, <2>5, <2>9, <1>4, <3>1 DEF Ready, Known
      <3> QED
        BY <1>2, <1>4, <2>5, <3>1, <3>2 DEF Conversation, Counted
    <2>11. /\ mon'.out = << <<"QUERY", <<ret, num, reached>> >> >> /\ mon'.pam_done = done
           /\ mon'.account_status = status
           /\ (mon'.authok <=> (ret = 0 /\ num = 0)) /\ (reached <=> ~mon'.enabled)
      BY <2>3, <2>5 DEF SameMon
    <2>12. QueryTold(ret, num)'
      BY <1>3, <2>5, <2>11 DEF QueryTold, Told
    <2> QED
      BY <2>5, <2>8, <2>9, <2>10, <2>11, <2>12
  <1>8. mon.account_status \in {-1, 0, 1} /\ Verdict
    BY DEF Inv, Types
  <1>9. CASE /\ pam.state = "asked" /\ pam.in = << >> /\ pam.out = << Prompt >> /\ pam.asked >= 1
             /\ pam.right /\ pam.asked > 1 => client.proof
    <2>1. Prompt.type = "prompt" /\ sshpam_query(Prompt) = [ret |-> 0, num |-> 1, done |-> 0]
      BY DEF sshpam_query, Prompt, Message
    <2>2. /\ Types' /\ Verdict' /\ Tries' /\ Outcome' /\ Ready' /\ Conversation' /\ Counted'
          /\ net'.pc = "QUERY" /\ net'.kbdint /\ user' = user /\ client' = client
          /\ QueryTold(0, 1)'
          /\ mon'.pam_done = 0 /\ ~mon'.authok
          /\ "RESPOND" \in mon'.permit
          /\ pam'.out = << >> /\ pam'.in = pam.in /\ pam'.state = pam.state
          /\ pam'.asked = pam.asked /\ pam'.right = pam.right
      <3>1. PICK msg, ret, num, done, status :
              msg = Prompt /\ ret = 0 /\ num = 1 /\ done = 0 /\ status = mon.account_status
        OBVIOUS
      <3> QED
        BY <1>7, <1>8, <1>9, <2>1, <3>1 DEF Verdict, Says, StatusAfter
    <2>3. PamSilent'
      BY <1>9, <2>2 DEF PamSilent
    <2>4. Prompted'
      BY <1>9, <2>2, <2>3 DEF Prompted
    <2>5. AtQuery'
      BY <2>2, <2>4 DEF AtQuery, QueryTold
    <2> QED
      BY <2>2, <2>5 DEF Inv, Where
  <1>10. CASE /\ pam.state = "ended" /\ pam.in = << >> /\ pam.out = << Success >>
              /\ client.proof /\ user.valid /\ user.account
    <2>1. Success.type = "success" /\ sshpam_query(Success) = [ret |-> 0, num |-> 0, done |-> 1]
      BY DEF sshpam_query, Success, Message
    <2>2. /\ Types' /\ Verdict' /\ Tries' /\ Outcome' /\ Ready' /\ Conversation' /\ Counted'
          /\ net'.pc = "QUERY" /\ net'.kbdint /\ user' = user /\ client' = client
          /\ QueryTold(0, 0)'
          /\ mon'.pam_done = 1 /\ mon'.authok
          /\ "RESPOND" \in mon'.permit
          /\ pam'.out = << >> /\ pam'.in = pam.in /\ pam'.state = pam.state
          /\ pam'.asked = pam.asked /\ pam'.right = pam.right
          /\ mon'.account_status = 1
      <3>1. PICK msg, ret, num, done, status :
              msg = Success /\ ret = 0 /\ num = 0 /\ done = 1 /\ status = 1
        OBVIOUS
      <3> QED
        BY <1>7, <1>8, <1>10, <2>1, <3>1 DEF Verdict, Says, StatusAfter
    <2>3. PamSilent'
      BY <1>10, <2>2 DEF PamSilent
    <2>4. Over'
      BY <1>10, <2>2, <2>3 DEF Over
    <2>5. AtQuery'
      BY <2>2, <2>4 DEF AtQuery, QueryTold
    <2> QED
      BY <2>2, <2>5 DEF Inv, Where
  <1>11. CASE /\ pam.state = "ended" /\ pam.in = << >>
              /\ \E msg \in Refusals : pam.out = << msg >>
    <2>1. PICK msg \in Refusals : pam.out = << msg >>
      BY <1>11
    <2>2. msg.type \in {"expired", "error", "maxtries"} /\ msg.text \in BOOLEAN
      BY <2>1 DEF Refusals
    <2>3. PICK status : status = StatusAfter(msg)
      OBVIOUS
    <2>4. status \in {-1, 0, 1} /\ (status = 1 => user.account) /\ msg.type # "success"
      BY <1>8, <2>2, <2>3 DEF StatusAfter, Verdict
    <2>5. CASE msg.text
      <3>1. sshpam_query(msg) = [ret |-> 0, num |-> 0, done |-> -1]
        BY <2>2, <2>5 DEF sshpam_query
      <3>2. /\ Types' /\ Verdict' /\ Tries' /\ Outcome' /\ Ready' /\ Conversation' /\ Counted'
            /\ net'.pc = "QUERY" /\ net'.kbdint /\ user' = user /\ client' = client
            /\ QueryTold(0, 0)'
            /\ mon'.pam_done = -1 /\ mon'.authok
            /\ "RESPOND" \in mon'.permit
            /\ pam'.out = << >> /\ pam'.in = pam.in /\ pam'.state = pam.state
            /\ pam'.asked = pam.asked /\ pam'.right = pam.right
        <4>1. PICK ret, num, done : ret = 0 /\ num = 0 /\ done = -1
          OBVIOUS
        <4> QED
          BY <1>7, <2>1, <2>3, <2>4, <3>1, <4>1 DEF Says
      <3>3. PamSilent'
        BY <1>11, <3>2 DEF PamSilent
      <3>4. Over'
        BY <1>11, <3>2, <3>3 DEF Over
      <3>5. AtQuery'
        BY <3>2, <3>4 DEF AtQuery, QueryTold
      <3> QED
        BY <3>2, <3>5 DEF Inv, Where
    <2>6. CASE ~msg.text
      <3>1. sshpam_query(msg) = [ret |-> -1, num |-> 0, done |-> -1]
        BY <2>2, <2>6 DEF sshpam_query
      <3>2. /\ Types' /\ Verdict' /\ Tries' /\ Outcome' /\ Ready' /\ Conversation' /\ Counted'
            /\ net'.pc = "QUERY" /\ net'.kbdint /\ user' = user /\ client' = client
            /\ QueryTold(-1, 0)'
            /\ mon'.pam_done = -1 /\ ~mon'.authok
            /\ "RESPOND" \in mon'.permit
            /\ pam'.out = << >> /\ pam'.in = pam.in /\ pam'.state = pam.state
            /\ pam'.asked = pam.asked /\ pam'.right = pam.right
        <4>1. PICK ret, num, done : ret = -1 /\ num = 0 /\ done = -1
          OBVIOUS
        <4> QED
          BY <1>7, <2>1, <2>3, <2>4, <3>1, <4>1 DEF Says
      <3>3. PamSilent'
        BY <1>11, <3>2 DEF PamSilent
      <3>4. AtQuery'
        BY <3>2, <3>3 DEF AtQuery, QueryTold
      <3> QED
        BY <3>2, <3>4 DEF Inv, Where
    <2> QED
      BY <2>5, <2>6
  <1> QED
    BY <1>2, <1>5, <1>9, <1>10, <1>11 DEF Talking

(* mm_answer_pam_respond. *)
Responded(u, res) ==
    /\ IsMon(u) /\ u.state = mon.state /\ u.permit = mon.permit
    /\ u.ctxt = mon.ctxt /\ u.attempt = mon.attempt /\ u.valid = mon.valid
    /\ u.refused = mon.refused /\ u.pam_done = mon.pam_done
    /\ u.account_status = mon.account_status
    /\ u.enabled = mon.enabled /\ u.denied = mon.denied
    /\ u.authok <=> res = 0
    /\ u.out = << <<"RESPOND", res>> >>

LEMMA RespondFacts ==
    ASSUME NEW answer, NEW res, NEW u, IsMon(mon), mon.out = << >>, mon.ctxt,
           res = sshpam_respond(mon, answer), u = mm_answer_pam_respond(mon, answer)
    PROVE  Responded(u, res)
  <1> DEFINE w == [mon EXCEPT !.authok = (res = 0)]
  <1>1. u = Answer(w, "RESPOND", res)
    BY DEF mm_answer_pam_respond
  <1>2. /\ IsMon(w) /\ w.state = mon.state /\ w.permit = mon.permit
        /\ w.ctxt = mon.ctxt /\ w.attempt = mon.attempt /\ w.valid = mon.valid
        /\ w.refused = mon.refused /\ w.pam_done = mon.pam_done
        /\ w.account_status = mon.account_status
        /\ w.enabled = mon.enabled /\ w.denied = mon.denied
        /\ w.authok <=> res = 0
        /\ w.out = << >>
    BY DEF IsMon
  <1> HIDE DEF w
  <1>3. Append(w.out, <<"RESPOND", res>>) = << <<"RESPOND", res>> >>
    BY <1>2, Singletons
  <1> QED
    BY <1>1, <1>2, <1>3 DEF Answer, IsMon, Responded

LEMMA MonRespond == ASSUME Inv, MonitorReads, net.pc = "RESPOND" PROVE Inv'
  <1>1. AtRespond
    BY DEF Inv, Where
  <1>2. Ready /\ net.kbdint /\ Conversation /\ mon.out = << >> /\ "RESPOND" \in mon.permit /\ PamSilent
    BY <1>1, MonReading DEF AtRespond, Asking, Told, Prompted, Over
  <1>3. \/ /\ net.out = << <<"RESPOND", "right">> >> /\ Prompted /\ (pam.right => client.proof)
        \/ /\ net.out = << <<"RESPOND", "wrong">> >> /\ pam.state = "asked" /\ pam.asked >= 1
           /\ mon.pam_done = 0 /\ Counted
        \/ net.out = << <<"RESPOND", "nothing">> >> /\ Over
    BY <1>1, MonReading DEF AtRespond, Asking, Told
  <1>4. mon.state = "loop" /\ mon.ctxt /\ net.method = "keyboard-interactive"
        /\ IsMon(mon) /\ IsPam(pam)
    BY <1>2 DEF Conversation, Inv, Types
  <1>5. "RESPOND" \in Requests
    BY DEF Requests
  <1>6. ASSUME NEW answer, NEW res, net.out = << <<"RESPOND", answer>> >>,
               res = sshpam_respond(mon, answer)
        PROVE  /\ Types' /\ Verdict' /\ Tries' /\ Outcome' /\ Ready' /\ Conversation'
               /\ net'.pc = "RESPOND" /\ net'.kbdint /\ user' = user /\ client' = client
               /\ net'.failures = net.failures
               /\ net'.out = << >> /\ mon'.out = << <<"RESPOND", res>> >>
               /\ mon'.pam_done = mon.pam_done /\ (mon'.authok <=> res = 0)
               /\ mon'.account_status = mon.account_status
               /\ pam' = PamAfter(mon', "RESPOND", answer) /\ mon'.state # "exit"
    <2>1. PICK u : u = mm_answer_pam_respond(mon, answer)
      OBVIOUS
    <2>2. Responded(u, res)
      BY <1>2, <1>4, <1>6, <2>1, RespondFacts
    <2>3. /\ ~MonitorReturns(mon, "RESPOND", answer)
          /\ u = MonitorHandles(mon, "RESPOND", answer)
      BY <1>5, <2>1, HandlesCases, ReturnsCases
    <2>4. Head(net.out) = <<"RESPOND", answer>> /\ Tail(net.out) = << >>
      BY <1>6, Singletons
    <2>5. Fine(u)
      <3>1. /\ mon.permit \subseteq Requests /\ ~mon.refused /\ Verdict
            /\ mon.account_status \in {-1, 0, 1} /\ mon.pam_done \in {-1, 0, 1}
        BY <1>4 DEF Inv, Types, Outcome
      <3>2. u.out = << u.out[1] >>
        BY <2>2 DEF Responded
      <3> QED
        BY <1>4, <2>2, <3>1, <3>2 DEF Fine, Responded, Verdict
    <2>6. /\ SameMon(u, mon') /\ mon'.permit = Still("RESPOND", u.permit) /\ mon'.state = "loop"
          /\ NetKept /\ net'.out = Tail(net.out) /\ user' = user /\ client' = client
          /\ pam' = PamAfter(mon', "RESPOND", answer)
          /\ Types' /\ Verdict' /\ Tries' /\ Outcome'
      <3>1. Takes("RESPOND", answer, Tail(net.out))
        BY <1>4, <2>4, MonTakes
      <3> QED
        BY <1>2, <1>4, <1>5, <2>3, <2>5, <3>1, MonOther
    <2>7. mon'.permit = mon.permit \ {"RESPOND"}
      BY <2>2, <2>6 DEF Still, MON_ONCE, Responded
    <2>8. /\ mon'.ctxt /\ mon'.attempt = mon.attempt /\ mon'.valid = mon.valid
          /\ mon'.account_status = mon.account_status
          /\ mon'.enabled = mon.enabled /\ mon'.denied = mon.denied
          /\ net'.service = net.service /\ net'.enabled = net.enabled
          /\ mon'.out = << <<"RESPOND", res>> >> /\ mon'.pam_done = mon.pam_done
          /\ (mon'.authok <=> res = 0)
          /\ net'.pc = "RESPOND" /\ net'.kbdint /\ net'.valid = net.valid
          /\ net'.attempt = net.attempt /\ net'.method = net.method /\ net'.failures = net.failures
      BY <1>2, <1>4, <2>2, <2>6 DEF SameMon, NetKept, Kept, Responded
    <2>9. Ready'
      BY <1>2, <1>4, <2>6, <2>7, <2>8 DEF Ready, Known
    <2> QED
      BY <1>4, <2>4, <2>6, <2>8, <2>9 DEF Conversation
  <1>7. CASE /\ net.out = << <<"RESPOND", "right">> >> /\ Prompted /\ (pam.right => client.proof)
    <2>1. PICK answer, res : answer = "right" /\ res = 1
      OBVIOUS
    <2>2. res = sshpam_respond(mon, answer)
      BY <1>7, <2>1 DEF sshpam_respond, Prompted
    <2>3. /\ Types' /\ Verdict' /\ Tries' /\ Outcome' /\ Ready' /\ Conversation'
          /\ net'.pc = "RESPOND" /\ net'.kbdint /\ user' = user /\ client' = client
          /\ net'.failures = net.failures
          /\ net'.out = << >> /\ mon'.out = << <<"RESPOND", 1>> >>
          /\ mon'.pam_done = mon.pam_done
          /\ pam' = PamAfter(mon', "RESPOND", "right") /\ mon'.state # "exit"
      BY <1>6, <1>7, <2>1, <2>2
    <2>4. pam' = [pam EXCEPT !.in = Append(@, "right")]
      BY <1>7, <2>3 DEF PamAfter, Prompted
    <2>5. Append(pam.in, "right") = << "right" >>
      BY <1>2, Singletons DEF PamSilent
    <2>6. /\ pam'.state = "asked" /\ pam'.in = << "right" >> /\ pam'.out = << >> /\ pam'.asked >= 1
          /\ pam'.right = pam.right
      BY <1>4, <1>7, <2>4, <2>5 DEF IsPam, Prompted, PamSilent
    <2>7. Talking'
      BY <1>7, <2>3, <2>6 DEF Talking, Prompted, Counted
    <2>8. AtRespond'
      BY <2>3, <2>7 DEF AtRespond, Told
    <2> QED
      BY <2>3, <2>8 DEF Inv, Where
  <1>8. CASE /\ net.out = << <<"RESPOND", "wrong">> >> /\ pam.state = "asked" /\ pam.asked >= 1
             /\ mon.pam_done = 0 /\ Counted
    <2>1. PICK answer, res : answer = "wrong" /\ res = 1
      OBVIOUS
    <2>2. res = sshpam_respond(mon, answer)
      BY <1>8, <2>1 DEF sshpam_respond
    <2>3. /\ Types' /\ Verdict' /\ Tries' /\ Outcome' /\ Ready' /\ Conversation'
          /\ net'.pc = "RESPOND" /\ net'.kbdint /\ user' = user /\ client' = client
          /\ net'.failures = net.failures
          /\ net'.out = << >> /\ mon'.out = << <<"RESPOND", 1>> >>
          /\ mon'.pam_done = mon.pam_done
          /\ pam' = PamAfter(mon', "RESPOND", "wrong") /\ mon'.state # "exit"
      BY <1>6, <1>8, <2>1, <2>2
    <2>4. pam' = [pam EXCEPT !.in = Append(@, "wrong")]
      BY <1>8, <2>3 DEF PamAfter
    <2>5. Append(pam.in, "wrong") = << "wrong" >>
      BY <1>2, Singletons DEF PamSilent
    <2>6. /\ pam'.state = "asked" /\ pam'.in = << "wrong" >> /\ pam'.out = << >> /\ pam'.asked >= 1
          /\ pam'.right = pam.right
      BY <1>2, <1>4, <1>8, <2>4, <2>5 DEF IsPam, PamSilent
    <2>7. Talking'
      BY <1>8, <2>3, <2>6 DEF Talking, Counted
    <2>8. AtRespond'
      BY <2>3, <2>7 DEF AtRespond, Told
    <2> QED
      BY <2>3, <2>8 DEF Inv, Where
  <1>9. CASE net.out = << <<"RESPOND", "nothing">> >> /\ Over
    <2>1. PICK answer, res : answer = "nothing" /\ res = (IF mon.pam_done = 1 THEN 0 ELSE -1)
      OBVIOUS
    <2>2. res = sshpam_respond(mon, answer) /\ mon.pam_done # 0
      BY <1>9, <2>1 DEF sshpam_respond, Over
    <2>3. /\ Types' /\ Verdict' /\ Tries' /\ Outcome' /\ Ready' /\ Conversation'
          /\ net'.pc = "RESPOND" /\ net'.kbdint /\ user' = user /\ client' = client
          /\ net'.failures = net.failures
          /\ net'.out = << >> /\ mon'.out = << <<"RESPOND", res>> >>
          /\ mon'.pam_done = mon.pam_done /\ (mon'.authok <=> res = 0)
          /\ mon'.account_status = mon.account_status
          /\ pam' = PamAfter(mon', "RESPOND", "nothing") /\ mon'.state # "exit"
      BY <1>6, <1>9, <2>1, <2>2
    <2>4. pam' = pam
      BY <2>2, <2>3 DEF PamAfter
    <2>5. PamSilent'
      BY <1>2, <2>4 DEF PamSilent
    <2>6. CASE mon.pam_done = 1
      <3>1. /\ Told("RESPOND", 0)' /\ mon'.authok /\ client'.proof /\ user'.valid /\ Counted'
            /\ mon'.account_status = 1
        BY <1>9, <2>1, <2>3, <2>6 DEF Told, Over, Counted
      <3>2. AtRespond'
        BY <2>3, <2>5, <3>1 DEF AtRespond
      <3> QED
        BY <2>3, <3>2 DEF Inv, Where
    <2>7. CASE mon.pam_done # 1
      <3>1. Told("RESPOND", -1)' /\ ~mon'.authok
        BY <2>1, <2>3, <2>7 DEF Told
      <3>2. AtRespond'
        BY <2>3, <2>5, <3>1 DEF AtRespond
      <3> QED
        BY <2>3, <3>2 DEF Inv, Where
    <2> QED
      BY <2>6, <2>7
  <1> QED
    BY <1>3, <1>7, <1>8, <1>9

LEMMA MonFreeCtx == ASSUME Inv, MonitorReads, net.pc = "FREE_CTX" PROVE Inv'
  <1>1. AtFreeCtx
    BY DEF Inv, Where
  <1>2. /\ Ready /\ NoDevice /\ mon.ctxt /\ mon.state = "loop" /\ PamSilent
        /\ net.out = << <<"FREE_CTX", "empty">> >> /\ mon.out = << >>
    BY <1>1, MonReading DEF AtFreeCtx, Asking, Told
  <1>3. \/ /\ net.after = "ok" /\ mon.authok
           /\ client.proof /\ user.valid /\ Counted
        \/ /\ net.after = "failed" /\ (~mon.authok \/ Stranded(net))
           /\ net.method = "keyboard-interactive"
        \/ /\ net.after = "method" /\ net.attempt > 1 /\ Credentials
           /\ \/ ~mon.authok /\ Counted
              \/ mon.authok /\ client.abandoned
    BY <1>1, MonReading DEF AtFreeCtx, Asking, Told
  <1>4. Head(net.out) = <<"FREE_CTX", "empty">> /\ Tail(net.out) = << >>
    BY <1>2, Singletons
  <1>5. PICK u : u = mm_answer_pam_free_ctx(mon)
    OBVIOUS
  <1>6. Append(mon.out, <<"FREE_CTX", "empty">>) = << <<"FREE_CTX", "empty">> >>
    BY <1>2, Singletons
  <1>7. /\ IsMon(u) /\ u.state = "loop" /\ u.permit = mon.permit \cup {"INIT_CTX"} /\ ~u.ctxt
        /\ u.account_status = mon.account_status /\ u.pam_done = mon.pam_done /\ u.refused = mon.refused
        /\ u.enabled = mon.enabled /\ u.denied = mon.denied
        /\ u.attempt = mon.attempt /\ u.valid = mon.valid /\ u.out = << <<"FREE_CTX", "empty">> >>
    BY <1>2, <1>5, <1>6 DEF mm_answer_pam_free_ctx, Permit, Answer, IsMon, Inv, Types
  <1>8. Fine(u)
    <2>1. u.permit \subseteq Requests /\ ~mon.refused /\ Verdict
          /\ mon.account_status \in {-1, 0, 1} /\ mon.pam_done \in {-1, 0, 1}
      BY <1>2, <1>7 DEF Inv, Types, Outcome, Requests
    <2>2. u.out = << u.out[1] >>
      BY <1>7
    <2> QED
      BY <1>7, <2>1, <2>2 DEF Fine, Verdict
  <1>9. /\ "FREE_CTX" \in Requests /\ "FREE_CTX" \in mon.permit /\ "FREE_CTX" \in MON_AUTHDECIDE
        /\ u = MonitorHandles(mon, "FREE_CTX", "empty")
        /\ MonitorReturns(mon, "FREE_CTX", "empty") <=> mon.authok
    BY <1>2, <1>5, HandlesCases, ReturnsCases DEF Requests, MON_AUTHDECIDE, Ready
  <1>10. /\ SameMon(u, mon') /\ mon'.permit = Still("FREE_CTX", u.permit)
         /\ ~mon.authok => mon'.state = "loop"
         /\ mon.authok => mon'.state = "account"
         /\ NetKept /\ net'.out = Tail(net.out) /\ user' = user /\ client' = client
         /\ pam' = PamAfter(mon', "FREE_CTX", "empty")
         /\ Types' /\ Verdict' /\ Tries' /\ Outcome'
    <2>1. Takes("FREE_CTX", "empty", Tail(net.out))
      BY <1>2, <1>4, MonTakes
    <2> QED
      BY <1>2, <1>8, <1>9, <2>1, MonOther
  <1>11. pam' = NoPam
    BY <1>10 DEF PamAfter
  <1>12. mon'.permit = (mon.permit \cup {"INIT_CTX"}) \ {"FREE_CTX"}
    BY <1>7, <1>10 DEF Still, MON_ONCE
  <1>13. /\ net'.pc = "FREE_CTX" /\ net'.out = << >> /\ net'.after = net.after
         /\ net'.attempt = net.attempt /\ net'.method = net.method
         /\ mon'.out = << <<"FREE_CTX", "empty">> >>
    BY <1>4, <1>7, <1>10 DEF SameMon, NetKept, Kept
  <1>14. Ready' /\ NoDevice' /\ NoContext'
    BY <1>2, <1>7, <1>10, <1>11, <1>12
    DEF Ready, Known, NoDevice, NoContext, SameMon, NetKept, Kept
  <1>15. Told("FREE_CTX", "empty")' /\ (Counted => Counted') /\ (Credentials => Credentials')
    BY <1>10, <1>13 DEF Told, Counted, Credentials, NetKept, Kept
  <1>s. Stranded(net) => Stranded(net)'
    BY <1>7, <1>10 DEF Stranded, Unheeded, SameMon, NetKept, Kept
  <1>16. \/ /\ net'.after = "ok" /\ mon'.state = "account"
            /\ client'.proof /\ user'.valid /\ Counted'
         \/ /\ net'.after = "failed" /\ (mon'.state = "loop" \/ (mon'.state = "account" /\ Stranded(net)'))
            /\ net'.method = "keyboard-interactive"
         \/ /\ net'.after = "method" /\ net'.attempt > 1 /\ Credentials'
            /\ LoopOrStranded'
    <2>1. client.abandoned => Stranded(net)
      BY DEF Stranded
    <2> QED
      BY <1>3, <1>10, <1>13, <1>15, <1>s, <2>1 DEF LoopOrStranded
  <1>17. AtFreeCtx'
    BY <1>14, <1>15, <1>16 DEF AtFreeCtx
  <1> QED
    BY <1>10, <1>13, <1>17 DEF Inv, Where

LEMMA MonAccount == ASSUME Inv, MonitorReads, net.pc = "ACCOUNT" PROVE Inv'
  <1> DEFINE rest == << >>
             status == AccountStatus(mon)
             ok == status = 1
  <1>1. AtAccount
    BY DEF Inv, Where
  <1>2. /\ Ready /\ NoContext /\ client.proof /\ user.valid /\ Counted /\ mon.state = "account"
        /\ net.out = << <<"ACCOUNT", "empty">> >> /\ mon.out = << >>
    BY <1>1, MonReading DEF AtAccount, Asking, Told
  <1>3. Head(net.out) = <<"ACCOUNT", "empty">> /\ Tail(net.out) = rest
    BY <1>2, Singletons
  <1>4. /\ mon' = MonitorExpects(mon, "ACCOUNT") /\ pam' = pam /\ user' = user /\ client' = client
        /\ net' = AfterStep([net EXCEPT !.out = rest], mon')
    BY <1>2, <1>3, MonGets
  <1>5. status \in {0, 1} /\ (status = 1 => user.account)
    BY DEF AccountStatus, Inv, Types, Verdict
  <1>6. PICK u : u = mm_answer_pam_account(mon)
    OBVIOUS
  <1>7. u = Answer([mon EXCEPT !.account_status = status], "ACCOUNT", ok)
    BY <1>6 DEF mm_answer_pam_account
  <1>8. Append(mon.out, <<"ACCOUNT", ok>>) = << <<"ACCOUNT", ok>> >>
    BY <1>2, Singletons, Zenon
  <1>9. mon.valid
    BY <1>2 DEF Ready
  <1>10. /\ ~ok => mon' = [u EXCEPT !.state = "loop"]
         /\ ok => mon' = [u EXCEPT !.state = "keystate"]
    BY <1>2, <1>4, <1>6, <1>9 DEF MonitorExpects
  <1>11. ok \in BOOLEAN /\ (ok => user.account)
    BY <1>5
  <1> HIDE DEF ok, status
  <1>12. /\ IsMon(u) /\ u.permit = mon.permit /\ u.ctxt = mon.ctxt
         /\ u.account_status = status /\ u.pam_done = mon.pam_done /\ u.refused = mon.refused
         /\ u.enabled = mon.enabled /\ u.denied = mon.denied
         /\ u.attempt = mon.attempt /\ u.valid = mon.valid /\ u.out = << <<"ACCOUNT", ok>> >>
    BY <1>7, <1>8 DEF Answer, IsMon, Inv, Types
  <1>13. /\ IsMon(mon') /\ mon'.permit = mon.permit /\ mon'.ctxt = mon.ctxt
         /\ mon'.account_status = status /\ mon'.pam_done = mon.pam_done /\ mon'.refused = mon.refused
         /\ mon'.enabled = mon.enabled /\ mon'.denied = mon.denied
         /\ mon'.attempt = mon.attempt /\ mon'.valid = mon.valid /\ mon'.out = << <<"ACCOUNT", ok>> >>
         /\ ~ok => mon'.state = "loop"
         /\ ok => mon'.state = "keystate"
    <2>1. CASE ok
      <3>1. mon' = [u EXCEPT !.state = "keystate"]
        BY <1>10, <2>1
      <3> QED
        BY <1>12, <2>1, <3>1 DEF IsMon
    <2>2. CASE ~ok
      <3>1. mon' = [u EXCEPT !.state = "loop"]
        BY <1>10, <2>2
      <3> QED
        BY <1>12, <2>2, <3>1 DEF IsMon
    <2> QED
      BY <2>1, <2>2
  <1>14. NetKept /\ net'.out = << >>
    BY <1>4, <1>13, MonAnswers
  <1>15. Types' /\ Verdict' /\ Tries' /\ Outcome'
    <2>1. /\ IsPam(pam') /\ mon'.permit \subseteq Requests /\ mon'.account_status \in {-1, 0, 1}
          /\ mon'.pam_done \in {-1, 0, 1} /\ pam'.asked \in Nat
      BY <1>4, <1>5, <1>13 DEF Inv, Types
    <2>2. ~mon'.refused
      BY <1>2, <1>13 DEF Inv, Outcome
    <2>3. mon'.out = << mon'.out[1] >>
      BY <1>13
    <2>4. Verdict'
      BY <1>4, <1>5, <1>13 DEF Verdict
    <2> QED
      BY <1>4, <1>13, <1>14, <2>1, <2>2, <2>3, <2>4, MonNext
  <1>16. Ready' /\ NoContext' /\ client'.proof /\ user'.valid /\ Counted' /\ net'.pc = "ACCOUNT"
    <2>1. Ready'
      BY <1>2, <1>4, <1>13, <1>14 DEF Ready, Known, NetKept, Kept
    <2> QED
      BY <1>2, <1>4, <1>13, <1>14, <2>1 DEF NoContext, Counted, NetKept, Kept
  <1>17. CASE ok = TRUE
    <2>1. Told("ACCOUNT", TRUE)' /\ mon'.state = "keystate" /\ user'.account
      BY <1>4, <1>11, <1>13, <1>14, <1>17 DEF Told
    <2>2. AtAccount'
      BY <1>16, <2>1 DEF AtAccount
    <2> QED
      BY <1>15, <1>16, <2>2 DEF Inv, Where
  <1>18. CASE ok = FALSE
    <2>1. Told("ACCOUNT", FALSE)' /\ mon'.state = "loop"
      BY <1>13, <1>14, <1>18 DEF Told
    <2>2. AtAccount'
      BY <1>16, <2>1 DEF AtAccount
    <2> QED
      BY <1>15, <1>16, <2>2 DEF Inv, Where
  <1> QED
    BY <1>11, <1>17, <1>18

(* mm_get_keystate. *)
LEMMA MonKeyState == ASSUME Inv, MonitorReads, net.pc = "exit" PROVE Inv'
  <1> DEFINE rest == << >>
  <1>1. AtExit
    BY DEF Inv, Where
  <1>2. /\ net.success /\ net.out = << <<"KEYEXPORT", "empty">> >> /\ mon.out = << >>
        /\ mon.state = "keystate" /\ PamSilent
    BY <1>1, MonReading DEF AtExit, Quiet
  <1>3. Head(net.out) = <<"KEYEXPORT", "empty">> /\ Tail(net.out) = rest
    BY <1>2, Singletons
  <1>4. /\ mon' = MonitorExpects(mon, "KEYEXPORT") /\ pam' = pam /\ user' = user /\ client' = client
        /\ net' = AfterStep([net EXCEPT !.out = rest], mon')
    BY <1>2, <1>3, MonGets
  <1>5. mon' = [mon EXCEPT !.state = "wait"]
    BY <1>2, <1>4 DEF MonitorExpects
  <1>6. /\ IsMon(mon') /\ mon'.permit = mon.permit /\ mon'.state = "wait"
        /\ mon'.account_status = mon.account_status /\ mon'.pam_done = mon.pam_done
        /\ mon'.refused = mon.refused /\ mon'.out = << >>
    BY <1>2, <1>5 DEF IsMon, Inv, Types
  <1>7. NetKept /\ net'.out = << >>
    BY <1>4, <1>6, MonAnswers
  <1>8. Types' /\ Verdict' /\ Tries' /\ Outcome'
    <2>1. /\ IsPam(pam') /\ mon'.permit \subseteq Requests /\ mon'.account_status \in {-1, 0, 1}
          /\ mon'.pam_done \in {-1, 0, 1} /\ pam'.asked \in Nat
      BY <1>4, <1>6 DEF Inv, Types
    <2>2. ~mon'.refused
      BY <1>2, <1>6 DEF Inv, Outcome
    <2>3. Verdict'
      BY <1>4, <1>6 DEF Inv, Verdict
    <2> QED
      BY <1>4, <1>6, <1>7, <2>1, <2>2, <2>3, MonNext
  <1>9. net'.pc = "exit" /\ AtExit'
    BY <1>2, <1>4, <1>6, <1>7 DEF AtExit, PamSilent, Quiet, NetKept, Kept
  <1> QED
    BY <1>8, <1>9 DEF Inv, Where

LEMMA MonitorReadsStep == ASSUME Inv, MonitorReads PROVE Inv'
  <1>1. net.pc # "kex" /\ net.pc # "idle"
    BY MonReading DEF Inv, Where, AtKex, AtIdle, Quiet
  <1>2. net.pc \in {"SIGN", "PWNAM", "BANNER", "KEYALLOWED", "KEYVERIFY", "INIT_CTX", "QUERY",
                    "RESPOND", "FREE_CTX", "ACCOUNT", "exit"}
    BY <1>1 DEF Inv, Where
  <1> QED
    BY <1>2, MonSign, MonPwnam, MonBanner, MonKeyAllowed, MonKeyVerify, MonInitCtx, MonQuery,
       MonRespond, MonFreeCtx, MonAccount, MonKeyState

-----------------------------------------------------------------------------
(* What the client and the alarm do. *)

LEMMA KexStep == ASSUME Inv, Kex PROVE Inv'
  <1>1. /\ net.pc = "kex" /\ net' = Ask(net, "SIGN", "empty")
        /\ user' = user /\ client' = client /\ mon' = mon /\ pam' = pam
    BY DEF Kex
  <1>2. AtKex /\ IsNet(net) /\ net.out = << >>
    BY <1>1 DEF Inv, Where, AtKex, Quiet, Types
  <1>3. /\ Kept(net, net') /\ net'.kbdint = net.kbdint /\ net'.info_response = net.info_response
        /\ net'.failures = net.failures /\ net'.pc = "SIGN" /\ net'.out = << <<"SIGN", "empty">> >>
    BY <1>1, <1>2, AskFacts
  <1>4. Types'
    BY <1>1, <1>3 DEF Inv, Types, Kept
  <1>5. Verdict' /\ Tries' /\ Outcome'
    BY <1>1, <1>3 DEF Inv, Verdict, Tries, Outcome, Excused, Unheeded, Kept
  <1>6. AtSign'
    BY <1>1, <1>2, <1>3 DEF AtKex, AtSign, Asking, Start, NoDevice, NoContext, Quiet, Kept
  <1> QED
    BY <1>3, <1>4, <1>5, <1>6 DEF Inv, Where

LEMMA UserauthRequestStep == ASSUME Inv, UserauthRequest PROVE Inv'
  <1>1. /\ net.pc = "idle" /\ client.requests < MaxRequests
        /\ user' = user /\ mon' = mon /\ pam' = pam
    BY DEF UserauthRequest
  <1>2. PICK service \in Services, m \in Methods, key \in {"own", "other"}, sig \in {"none", "right", "wrong"} :
          /\ net' = input_userauth_request(net, service, m, key, sig)
          /\ client' = [client EXCEPT
                          !.requests = @ + 1,
                          !.proof = (key = "own" /\ sig = "right"),
                          !.abandoned = @ \/ (net.info_response /\ net.nreq = 0)]
    BY ZenonT(90) DEF UserauthRequest
  <1>3. /\ IsClient(client') /\ client'.requests = client.requests + 1 /\ client'.bad = client.bad
        /\ client'.proof <=> (key = "own" /\ sig = "right")
        /\ client'.abandoned <=> (client.abandoned \/ (net.info_response /\ net.nreq = 0))
    BY <1>2 DEF Inv, Types, IsClient
  <1>4. PICK n : n = [net EXCEPT !.attempt = @ + 1, !.method = m, !.key = key, !.sig = sig]
    OBVIOUS
  <1>5. /\ IsNet(n) /\ n.pc = net.pc /\ n.attempt = net.attempt + 1 /\ n.method = m
        /\ n.service = net.service /\ n.enabled = net.enabled
        /\ n.key = key /\ n.sig = sig /\ n.valid = net.valid /\ n.kbdint = net.kbdint
        /\ n.info_response = net.info_response /\ n.nreq = net.nreq /\ n.failures = net.failures
        /\ n.success = net.success /\ n.surprised = net.surprised /\ n.out = net.out
    BY <1>4 DEF Inv, Types, IsNet
  <1>6. AtIdle /\ Quiet
    BY <1>1 DEF Inv, Where, AtIdle
  <1>7. /\ net.attempt = client.requests /\ client.requests \in 0 .. MaxRequests
        /\ client'.requests \in 0 .. MaxRequests /\ client'.bad \in Nat /\ n.attempt \in Nat
        /\ n.attempt = client'.requests
    BY <1>1, <1>3, <1>5, TriesAssumption DEF Inv, Types
  <1>8. /\ net.failures < MaxAuthTries /\ client.bad <= net.failures + 1 /\ ~net.success
        /\ ~net.surprised
    BY <1>1 DEF Inv, Tries, Outcome
  <1>9. CASE Start /\ net.attempt = 0 /\ mon.attempt = 0 /\ mon.permit = {"PWNAM"}
    <2> DEFINE w == [n EXCEPT !.service = service]
    <2>1. net' = Ask(w, "PWNAM", "empty")
      BY <1>2, <1>4, <1>9 DEF input_userauth_request
    <2>w. /\ IsNet(w) /\ w.attempt = n.attempt /\ w.service = service /\ w.enabled = n.enabled
          /\ w.nreq = n.nreq /\ w.method = n.method /\ w.key = n.key /\ w.sig = n.sig
          /\ w.success = n.success /\ w.surprised = n.surprised /\ w.kbdint = n.kbdint
          /\ w.info_response = n.info_response /\ w.failures = n.failures /\ w.out = n.out
      BY <1>5 DEF IsNet
    <2> HIDE DEF w
    <2>2. /\ Kept(w, net') /\ net'.kbdint = w.kbdint /\ net'.info_response = w.info_response
          /\ net'.failures = w.failures /\ net'.pc = "PWNAM" /\ net'.out = << <<"PWNAM", "empty">> >>
      BY <1>5, <1>6, <2>1, <2>w, AskFacts DEF Quiet
    <2>3. Types'
      BY <1>1, <1>2, <1>3, <1>5, <1>7, <2>2, <2>w DEF Inv, Types, Kept
    <2>4. Verdict' /\ Tries'
      BY <1>1, <1>3, <1>5, <1>8, <2>2, <2>w DEF Inv, Verdict, Tries
    <2>5. Outcome'
      BY <1>1, <1>3, <1>5, <1>8, <1>9, <2>2, <2>w DEF Inv, Outcome, Start, Kept
    <2>6. AtPwnam'
      <3>1. Start' /\ Asking("PWNAM", "empty")'
        BY <1>1, <1>3, <1>5, <1>6, <1>9, <2>2, <2>w DEF Start, NoDevice, NoContext, Asking, Quiet, Kept
      <3>2. net'.attempt = 1 /\ Credentials'
        BY <1>3, <1>5, <1>9, <2>2, <2>w DEF Credentials, Kept
      <3> QED
        BY <1>1, <1>9, <3>1, <3>2 DEF AtPwnam
    <2> QED
      BY <2>2, <2>3, <2>4, <2>5, <2>6 DEF Inv, Where
  <1>s. CASE Ready /\ mon.state # "exit" /\ service # net.service
    <2>1. net' = [n EXCEPT !.pc = "exit"]
      BY <1>2, <1>4, <1>7, <1>s DEF input_userauth_request, Ready
    <2>2. Kept(n, net') /\ net'.failures = n.failures /\ net'.pc = "exit" /\ net'.out = n.out
      BY <1>5, <2>1 DEF IsNet, Kept
    <2>3. Types'
      BY <1>1, <1>2, <1>3, <1>5, <1>7, <2>2 DEF Inv, Types, Kept
    <2>4. Verdict' /\ Tries'
      BY <1>1, <1>3, <1>5, <2>2 DEF Inv, Verdict, Tries
    <2>5. Outcome'
      BY <1>1, <1>3, <1>5, <1>8, <1>s, <2>2 DEF Inv, Outcome, Kept
    <2>6. PamSilent /\ mon.state \in {"loop", "account"}
      <3>1. pam = NoPam => PamSilent
        BY DEF NoPam, PamSilent
      <3> QED
        BY <1>6, <3>1 DEF AtIdle, Start, NoContext, LoopOrStranded, Conversation, Prompted, Over
    <2>7. AtExit'
      BY <1>1, <1>5, <1>6, <1>8, <2>2, <2>6 DEF AtExit, Quiet, PamSilent, Kept
    <2> QED
      BY <2>2, <2>3, <2>4, <2>5, <2>7 DEF Inv, Where
  <1>10. CASE Ready /\ mon.state # "exit" /\ service = net.service
    <2>1. net' = auth2_challenge_stop(n, "method") /\ n.attempt > 1
      BY <1>2, <1>4, <1>5, <1>7, <1>10 DEF input_userauth_request, Ready
    <2>2. Settled'
      <3>1. mon.out = << >> /\ ~mon.refused
        BY <1>6, <1>10 DEF Inv, Outcome, Quiet
      <3>2. Verdict'
        BY <1>1 DEF Inv, Verdict
      <3>3. /\ IsMon(mon) /\ IsPam(pam) /\ user \in [valid : BOOLEAN, account : BOOLEAN]
            /\ mon.permit \subseteq Requests /\ mon.account_status \in {-1, 0, 1}
            /\ mon.pam_done \in {-1, 0, 1} /\ pam.asked \in Nat
        BY DEF Inv, Types
      <3>4. /\ mon.attempt = 1 /\ mon.valid = user.valid
            /\ {"ACCOUNT", "KEYALLOWED", "KEYVERIFY"} \subseteq mon.permit
            /\ "INIT_CTX" \in mon.permit \/ mon.ctxt \/ mon.denied
            /\ mon.ctxt => {"FREE_CTX", "QUERY"} \subseteq mon.permit
        BY <1>10 DEF Ready
      <3> QED
        BY <1>1, <1>3, <1>7, <3>1, <3>2, <3>3, <3>4 DEF Settled
    <2>3. ASSUME NEW w, Kept(n, w), w.failures = n.failures, w.out = n.out
          PROVE  Active(w)'
      <3>1. /\ IsNet(w) /\ w.out = << >> /\ w.attempt = client'.requests
            /\ w.attempt >= 1 /\ ~w.success /\ ~w.surprised
        BY <1>5, <1>6, <1>7, <1>8, <1>10, <2>1, <2>3 DEF Kept, Quiet, Ready
      <3>k. Known(w)' /\ (w.enabled <=> mon'.enabled)
        BY <1>1, <1>5, <1>10, <2>3 DEF Kept, Ready, Known
      <3>2. /\ w.failures \in 0 .. MaxAuthTries /\ w.failures < MaxAuthTries
            /\ w.nreq \in 0 .. 1 /\ w.method \in Methods /\ w.service \in Services \cup {"none"}
            /\ w.key \in {"none", "own", "other"} /\ w.sig \in {"none", "right", "wrong"}
        BY <1>2, <1>5, <1>8, <2>3 DEF Kept, Inv, Types
      <3> QED
        BY <1>1, <3>1, <3>2, <3>k DEF Active
    <2>4. n.key = "own" /\ n.sig = "right" => client'.proof
      BY <1>3, <1>5
    <2>5. CASE NoDevice /\ NoContext /\ LoopOrStranded /\ Counted
      <3>1. ~n.kbdint
        BY <1>5, <2>5 DEF NoDevice
      <3>2. PICK w : /\ auth2_challenge_stop(n, "method") = TryMethod(w)
                     /\ Kept(n, w) /\ ~w.kbdint /\ ~w.info_response
                     /\ w.failures = n.failures /\ w.out = n.out
        BY <1>5, <3>1, StopNothing
      <3>3. Active(w)' /\ net' = TryMethod(w)
        BY <2>1, <2>3, <3>2
      <3>4. w.key = "own" /\ w.sig = "right" => client'.proof
        BY <2>4, <3>2 DEF Kept
      <3>5. client'.bad <= w.failures /\ client'.bad <= w.failures + 1
        BY <1>3, <1>5, <1>8, <2>5, <3>2 DEF Counted
      <3>6. \/ mon'.state = "loop" /\ client'.bad <= w.failures
            \/ mon'.state = "account" /\ Stranded(w)' /\ w.attempt > 1
        BY <1>1, <1>3, <1>5, <2>1, <2>5, <3>2, <3>5 DEF LoopOrStranded, Stranded, Unheeded, Kept
      <3>7. NoContext'
        BY <1>1, <2>5 DEF NoContext
      <3> QED
        BY <2>2, <3>2, <3>3, <3>4, <3>5, <3>6, <3>7, Try
    <2>6. CASE /\ net.kbdint /\ net.info_response /\ Conversation
               /\ (net.nreq = 1 /\ Prompted) \/ (net.nreq = 0 /\ Over)
      <3>1. Active(n)'
        <4>1. Kept(n, n)
          BY <1>5 DEF Kept
        <4> QED
          BY <2>3, <4>1
      <3>2. mon'.ctxt /\ mon'.state = "loop" /\ PamSilent'
        BY <1>1, <2>6 DEF Conversation, Prompted, Over, PamSilent
      <3>3. (~mon'.authok /\ client'.bad <= n.failures) \/ (mon'.authok /\ client'.abandoned)
        BY <1>1, <1>3, <1>5, <2>6 DEF Prompted, Over, Counted
      <3>4. n.kbdint /\ client'.bad <= n.failures + 1
        BY <1>3, <1>5, <1>8, <2>6
      <3> QED
        BY <2>1, <2>2, <2>4, <3>1, <3>2, <3>3, <3>4, Stop
    <2> QED
      BY <1>6, <1>9, <2>5, <2>6 DEF AtIdle
  <1> QED
    BY <1>6, <1>9, <1>10, <1>s DEF AtIdle, LoopOrStranded, Conversation

LEMMA InfoResponseStep == ASSUME Inv, InfoResponse PROVE Inv'
  <1>1. /\ net.pc = "idle" /\ net.info_response /\ user' = user /\ mon' = mon /\ pam' = pam
    BY DEF InfoResponse
  <1>2. PICK answer \in IF net.nreq = 1 THEN {"right", "wrong"} ELSE {"nothing"} :
          /\ net' = Ask(net, "RESPOND", answer)
          /\ client' = [client EXCEPT !.proof = IF answer = "nothing" THEN @
                                                ELSE answer = "right" /\ (pam.asked = 1 \/ @)]
    BY DEF InfoResponse
  <1>3. /\ Ready /\ net.kbdint /\ Conversation /\ Quiet
        /\ (net.nreq = 1 /\ Prompted) \/ (net.nreq = 0 /\ Over)
    BY <1>1 DEF Inv, Where, AtIdle, Start, NoDevice
  <1>4. /\ IsClient(client') /\ client'.requests = client.requests /\ client'.bad = client.bad
        /\ client'.abandoned = client.abandoned
        /\ answer = "nothing" => client'.proof = client.proof
        /\ answer # "nothing" => (client'.proof <=> (answer = "right" /\ (pam.asked = 1 \/ client.proof)))
    BY <1>2 DEF Inv, Types, IsClient
  <1>5. /\ Kept(net, net') /\ net'.kbdint = net.kbdint
        /\ net'.failures = net.failures /\ net'.pc = "RESPOND" /\ net'.out = << <<"RESPOND", answer>> >>
    <2>1. IsNet(net) /\ net.out = << >>
      BY <1>3 DEF Inv, Types, Quiet
    <2> QED
      BY <1>2, <2>1, AskFacts
  <1>6. Types'
    BY <1>1, <1>4, <1>5 DEF Inv, Types, Kept
  <1>7. Verdict' /\ Tries' /\ Outcome'
    BY <1>1, <1>4, <1>5 DEF Inv, Verdict, Tries, Outcome, Excused, Unheeded, Kept
  <1>8. Ready' /\ net'.kbdint /\ Conversation'
    BY <1>1, <1>3, <1>5 DEF Ready, Known, Conversation, Kept
  <1>9. mon'.out = << >> /\ (Counted => Counted')
    BY <1>1, <1>3, <1>4, <1>5 DEF Quiet, Counted
  <1>10. CASE net.nreq = 1 /\ Prompted
    <2>1. /\ pam.state = "asked" /\ pam.asked >= 1 /\ PamSilent /\ mon.pam_done = 0 /\ ~mon.authok
          /\ "RESPOND" \in mon.permit /\ Counted /\ pam.asked \in Nat
          /\ pam.right /\ pam.asked > 1 => client.proof
      BY <1>10 DEF Prompted, Inv, Types
    <2>2. CASE answer = "right"
      <3>1. pam'.right => client'.proof
        BY <1>1, <1>4, <2>1, <2>2
      <3>2. Prompted'
        BY <1>1, <1>9, <2>1, <3>1 DEF Prompted, PamSilent
      <3>3. AtRespond'
        BY <1>5, <1>8, <1>9, <2>2, <3>1, <3>2 DEF AtRespond, Asking
      <3> QED
        BY <1>5, <1>6, <1>7, <3>3 DEF Inv, Where
    <2>3. CASE answer = "wrong"
      <3>1. AtRespond'
        BY <1>1, <1>5, <1>8, <1>9, <2>1, <2>3 DEF AtRespond, Asking, PamSilent
      <3> QED
        BY <1>5, <1>6, <1>7, <3>1 DEF Inv, Where
    <2> QED
      BY <1>2, <1>10, <2>2, <2>3
  <1>11. CASE net.nreq = 0 /\ Over
    <2>1. answer = "nothing"
      BY <1>2, <1>11
    <2>2. Over'
      BY <1>1, <1>4, <1>9, <1>11, <2>1 DEF Over, PamSilent
    <2>3. AtRespond'
      BY <1>5, <1>8, <1>9, <2>1, <2>2 DEF AtRespond, Asking
    <2> QED
      BY <1>5, <1>6, <1>7, <2>3 DEF Inv, Where
  <1> QED
    BY <1>3, <1>10, <1>11

LEMMA ClientLeavesStep == ASSUME Inv, ClientLeaves PROVE Inv'
  <1>1. /\ net.pc = "idle" /\ net' = [net EXCEPT !.pc = "exit"]
        /\ user' = user /\ client' = client /\ mon' = mon /\ pam' = pam
    BY DEF ClientLeaves
  <1>2. Kept(net, net') /\ net'.failures = net.failures /\ net'.pc = "exit" /\ net'.out = net.out
    BY <1>1 DEF Inv, Types, IsNet, Kept
  <1>3. Quiet /\ PamSilent /\ mon.state \in {"loop", "account"}
    <2>1. pam = NoPam => PamSilent
      BY DEF NoPam, PamSilent
    <2> QED
      BY <1>1, <2>1 DEF Inv, Where, AtIdle, Start, NoContext, LoopOrStranded, Conversation, Prompted, Over
  <1>4. ~net'.success
    BY <1>1, <1>2 DEF Inv, Outcome, Kept
  <1>5. AtExit'
    BY <1>1, <1>2, <1>3, <1>4 DEF AtExit, Quiet, PamSilent
  <1>6. Types'
    BY <1>1, <1>2 DEF Inv, Types, Kept
  <1>7. Verdict' /\ Tries' /\ Outcome'
    BY <1>1, <1>2 DEF Inv, Verdict, Tries, Outcome, Excused, Unheeded, Kept
  <1> QED
    BY <1>2, <1>5, <1>6, <1>7 DEF Inv, Where

LEMMA MonitorWaitsStep == ASSUME Inv, MonitorWaits PROVE Inv'
  <1>1. /\ net.pc = "exit" /\ net.out = << >> /\ pam' = NoPam
        /\ user' = user /\ client' = client /\ net' = net
        /\ mon' = [mon EXCEPT !.state = IF mon.state = "wait" THEN "post" ELSE "exit"]
        /\ mon.state \in {"loop", "account", "keystate", "wait"}
    BY DEF MonitorWaits
  <1>2. IsMon(mon) /\ IsNet(net) /\ Outcome
    BY DEF Inv, Types
  <1>3. /\ IsMon(mon') /\ mon'.permit = mon.permit /\ mon'.out = mon.out
        /\ mon'.account_status = mon.account_status /\ mon'.pam_done = mon.pam_done
        /\ mon'.refused = mon.refused /\ mon'.denied = mon.denied
        /\ mon'.state = (IF mon.state = "wait" THEN "post" ELSE "exit")
    BY <1>1, <1>2 DEF IsMon
  <1>4. mon'.out = << >> \/ mon'.out = << mon'.out[1] >>
    BY <1>2, <1>3 DEF Outcome
  <1>5. CASE mon.state # "wait"
    BY <1>1, <1>2, <1>3, <1>4, <1>5, GoneNext
  <1>6. CASE mon.state = "wait"
    <2>1. IsPam(NoPam) /\ NoPam.asked = 0 /\ NoPam.in = << >> /\ NoPam.out = << >> /\ NoPam.state = "none"
      BY DEF NoPam, IsPam
    <2>2. NetKept
      BY <1>1, <1>2 DEF NetKept, Kept
    <2>3. ~mon'.refused /\ Verdict' /\ IsPam(pam') /\ pam'.asked \in Nat
      BY <1>1, <1>2, <1>3, <1>6, <2>1 DEF Inv, Outcome, Verdict
    <2>4. Types' /\ Verdict' /\ Tries' /\ Outcome'
      <3>1. /\ mon'.permit \subseteq Requests /\ mon'.account_status \in {-1, 0, 1}
            /\ mon'.pam_done \in {-1, 0, 1}
        BY <1>3 DEF Inv, Types
      <3> QED
        BY <1>1, <1>3, <1>4, <2>2, <2>3, <3>1, MonNext
    <2>5. AtExit'
      BY <1>1, <1>3, <1>6, <2>1 DEF Inv, Where, AtExit, Quiet, PamSilent
    <2> QED
      BY <1>1, <2>4, <2>5 DEF Inv, Where
  <1> QED
    BY <1>5, <1>6

LEMMA GraceStep == ASSUME Inv, grace_alarm_handler PROVE Inv'
  <1>1. /\ pam' = NoPam /\ user' = user /\ client' = client
        /\ net' = [net EXCEPT !.pc = "exit", !.out = << >>]
        /\ mon' = [mon EXCEPT !.state = "exit"]
    BY DEF grace_alarm_handler
  <1>2. IsMon(mon) /\ IsNet(net) /\ Outcome
    BY DEF Inv, Types
  <1>3. /\ IsMon(mon') /\ mon'.permit = mon.permit /\ mon'.out = mon.out
        /\ mon'.account_status = mon.account_status /\ mon'.pam_done = mon.pam_done
        /\ mon'.refused = mon.refused /\ mon'.denied = mon.denied /\ mon'.state = "exit"
    BY <1>1, <1>2 DEF IsMon
  <1>4. mon'.out = << >> \/ mon'.out = << mon'.out[1] >>
    BY <1>2, <1>3 DEF Outcome
  <1>5. Kept(net, net') /\ net'.failures = net.failures /\ net'.pc = "exit" /\ net'.out = << >>
    BY <1>1, <1>2 DEF IsNet, Kept
  <1> QED
    BY <1>1, <1>3, <1>4, <1>5, GoneNext DEF Kept

-----------------------------------------------------------------------------
(* The PAM process.  It acts only while the child waits for what it says. *)

LEMMA PamActs ==
    ASSUME Inv, pam.state = "run" \/ (pam.state = "asked" /\ pam.in # << >>)
    PROVE  /\ Talking
           /\ \/ net.pc = "INIT_CTX" /\ Told("INIT_CTX", TRUE) /\ Ready /\ NoDevice
              \/ net.pc = "QUERY" /\ Asking("QUERY", "empty") /\ Ready /\ net.kbdint
              \/ net.pc = "RESPOND" /\ Told("RESPOND", 1) /\ Ready /\ net.kbdint
           /\ Conversation /\ Counted
  <1>1. ~PamSilent /\ pam # NoPam
    BY DEF PamSilent, NoPam
  <1>2. /\ net.pc # "kex" /\ net.pc # "SIGN" /\ net.pc # "PWNAM" /\ net.pc # "BANNER"
        /\ net.pc # "KEYALLOWED" /\ net.pc # "KEYVERIFY" /\ net.pc # "ACCOUNT" /\ net.pc # "exit"
    BY <1>1 DEF Inv, Where, AtKex, AtSign, AtPwnam, AtBanner, AtKeyAllowed, AtKeyVerify, AtAccount,
                AtExit, Start, NoContext
  <1>3. net.pc # "idle" /\ net.pc # "FREE_CTX"
    BY <1>1 DEF Inv, Where, AtIdle, AtFreeCtx, Start, NoContext, Prompted, Over
  <1>4. CASE net.pc = "INIT_CTX"
    BY <1>1, <1>4 DEF Inv, Where, AtInitCtx, NoContext, Talking
  <1>5. CASE net.pc = "QUERY"
    BY <1>1, <1>5 DEF Inv, Where, AtQuery, Prompted, Over
  <1>6. CASE net.pc = "RESPOND"
    BY <1>1, <1>6 DEF Inv, Where, AtRespond, Prompted, Over, Talking
  <1> QED
    BY <1>2, <1>3, <1>4, <1>5, <1>6 DEF Inv, Where

LEMMA PamStep ==
    ASSUME Inv, pam.state = "run" \/ (pam.state = "asked" /\ pam.in # << >>),
           user' = user, client' = client, net' = net, mon' = mon,
           IsPam(pam'), pam'.asked \in Nat, Talking'
    PROVE  Inv'
  <1>1. Types'
    BY DEF Inv, Types
  <1>2. Verdict' /\ Tries' /\ Outcome'
    BY DEF Inv, Verdict, Tries, Outcome, Excused, Unheeded
  <1>3. Conversation' /\ Counted'
    BY PamActs DEF Conversation, Counted
  <1>4. CASE net.pc = "INIT_CTX" /\ Told("INIT_CTX", TRUE) /\ Ready /\ NoDevice
    <2>1. AtInitCtx'
      BY <1>3, <1>4 DEF AtInitCtx, Told, Ready, Known, NoDevice, Conversation
    <2> QED
      BY <1>1, <1>2, <1>4, <2>1 DEF Inv, Where
  <1>5. CASE net.pc = "QUERY" /\ Asking("QUERY", "empty") /\ Ready /\ net.kbdint
    <2>1. AtQuery'
      BY <1>3, <1>5 DEF AtQuery, Asking, Ready, Known
    <2> QED
      BY <1>1, <1>2, <1>5, <2>1 DEF Inv, Where
  <1>6. CASE net.pc = "RESPOND" /\ Told("RESPOND", 1) /\ Ready /\ net.kbdint
    <2>1. AtRespond'
      BY <1>3, <1>6 DEF AtRespond, Told, Ready, Known
    <2> QED
      BY <1>1, <1>2, <1>6, <2>1 DEF Inv, Where
  <1> QED
    BY <1>4, <1>5, <1>6, PamActs

LEMMA PamAsksStep == ASSUME Inv, PamAsks PROVE Inv'
  <1>1. /\ pam.state = "run" /\ user' = user /\ client' = client /\ net' = net /\ mon' = mon
        /\ pam' = [pam EXCEPT !.state = "asked", !.asked = @ + 1, !.out = Append(@, Prompt)]
    BY DEF PamAsks, Prompt
  <1>2. Talking /\ IsPam(pam) /\ pam.asked \in Nat
    BY <1>1, PamActs DEF Inv, Types
  <1>3. /\ pam.in = << >> /\ pam.out = << >>
        /\ pam.right /\ pam.asked > 0 => client.proof /\ user.valid
    BY <1>1, <1>2 DEF Talking
  <1>4. Append(pam.out, Prompt) = << Prompt >>
    BY <1>3, Singletons
  <1>5. /\ IsPam(pam') /\ pam'.state = "asked" /\ pam'.asked = pam.asked + 1 /\ pam'.in = << >>
        /\ pam'.out = << Prompt >> /\ pam'.right = pam.right
    BY <1>1, <1>2, <1>3, <1>4 DEF IsPam
  <1>6. pam'.asked \in Nat /\ pam'.asked >= 1 /\ (pam'.asked > 1 => pam.asked > 0)
    BY <1>2, <1>5
  <1>7. Talking'
    BY <1>1, <1>2, <1>3, <1>5, <1>6 DEF Talking, Counted
  <1> QED
    BY <1>1, <1>5, <1>6, <1>7, PamStep

LEMMA PamReadsStep == ASSUME Inv, PamReads PROVE Inv'
  <1>1. /\ pam.state = "asked" /\ pam.in # << >>
        /\ user' = user /\ client' = client /\ net' = net /\ mon' = mon
        /\ pam' = [pam EXCEPT !.state = "run", !.in = Tail(@),
                              !.right = @ /\ Head(pam.in) = "right" /\ user.valid]
    BY DEF PamReads
  <1>2. Talking /\ IsPam(pam) /\ pam.asked \in Nat
    BY <1>1, PamActs DEF Inv, Types
  <1>3. PICK a \in {"right", "wrong"} :
          pam.in = << a >> /\ pam.out = << >> /\ (a = "right" /\ pam.right => client.proof)
    BY <1>1, <1>2 DEF Talking
  <1>4. Head(pam.in) = a /\ Tail(pam.in) = << >>
    BY <1>3, Singletons
  <1>5. /\ IsPam(pam') /\ pam'.state = "run" /\ pam'.asked = pam.asked /\ pam'.in = << >>
        /\ pam'.out = << >> /\ pam'.right <=> (pam.right /\ a = "right" /\ user.valid)
    BY <1>1, <1>2, <1>3, <1>4 DEF IsPam
  <1>6. Talking'
    BY <1>1, <1>2, <1>3, <1>5 DEF Talking, Counted
  <1> QED
    BY <1>1, <1>2, <1>5, <1>6, PamStep

LEMMA PamDecidesStep == ASSUME Inv, PamDecides PROVE Inv'
  <1>1. /\ pam.state = "run" /\ user' = user /\ client' = client /\ net' = net /\ mon' = mon
    BY DEF PamDecides
  <1>2. PICK type \in {"success", "expired", "error", "maxtries"}, text \in BOOLEAN :
          /\ type \in {"success", "expired"} => pam.asked > 0 /\ pam.right
          /\ type = "success" => user.account /\ ~text
          /\ pam' = [pam EXCEPT !.state = "ended", !.out = Append(@, Message(type, text))]
    BY DEF PamDecides
  <1>m. PICK msg : msg = Message(type, text)
    OBVIOUS
  <1>3. Talking /\ IsPam(pam) /\ pam.asked \in Nat
    BY <1>1, PamActs DEF Inv, Types
  <1>4. /\ pam.in = << >> /\ pam.out = << >>
        /\ pam.right /\ pam.asked > 0 => client.proof /\ user.valid
    BY <1>1, <1>3 DEF Talking
  <1>5. Append(pam.out, msg) = << msg >>
    BY <1>4, Singletons
  <1>6. /\ IsPam(pam') /\ pam'.state = "ended" /\ pam'.asked = pam.asked /\ pam'.in = << >>
        /\ pam'.out = << msg >>
    BY <1>2, <1>m, <1>3, <1>4, <1>5 DEF IsPam
  <1>7. Talking'
    <2>1. type = "success" => msg = Success
      BY <1>2, <1>m DEF Message, Success
    <2>2. type # "success" => msg \in Refusals
      BY <1>2, <1>m DEF Message, Refusals
    <2> QED
      BY <1>1, <1>2, <1>3, <1>4, <1>6, <2>1, <2>2 DEF Talking, Counted
  <1> QED
    BY <1>1, <1>3, <1>6, <1>7, PamStep

-----------------------------------------------------------------------------
(* The invariant. *)

LEMMA InvInit == Init => Inv
  <1> SUFFICES ASSUME Init PROVE Inv
    OBVIOUS
  <1>1. /\ client = [requests |-> 0, proof |-> FALSE, abandoned |-> FALSE, bad |-> 0]
        /\ net = [pc |-> "kex", attempt |-> 0, service |-> "none", valid |-> FALSE,
                  enabled |-> TRUE, kbdint |-> FALSE, nreq |-> 0,
                  info_response |-> FALSE, failures |-> 0, method |-> "none", key |-> "none",
                  sig |-> "none", after |-> "none", success |-> FALSE, surprised |-> FALSE, out |-> << >>]
        /\ mon = [state |-> "loop", permit |-> {"SIGN"}, ctxt |-> FALSE, authok |-> FALSE,
                  pam_done |-> 0, account_status |-> -1, valid |-> FALSE, attempt |-> 0,
                  key_blob |-> "none", handle |-> TRUE, enabled |-> TRUE,
                  denied |-> FALSE, refused |-> FALSE, out |-> << >>]
        /\ pam = NoPam /\ user \in [valid : BOOLEAN, account : BOOLEAN]
    BY DEF Init
  <1>2. IsNet(net) /\ IsMon(mon) /\ IsPam(pam) /\ IsClient(client)
    BY <1>1 DEF IsNet, IsMon, IsPam, IsClient, NoPam
  <1>3. Types
    BY <1>1, <1>2, TriesAssumption DEF Types, Methods, NoPam, Requests
  <1>4. net.pc = "kex" /\ AtKex
    BY <1>1 DEF AtKex, Start, NoDevice, NoContext, Quiet
  <1>5. Verdict /\ Tries /\ Outcome
    BY <1>1, TriesAssumption DEF Verdict, Tries, Outcome
  <1> QED
    BY <1>3, <1>4, <1>5 DEF Inv, Where

LEMMA InvNext == Inv /\ [Next]_vars => Inv'
  <1> SUFFICES ASSUME Inv, [Next]_vars PROVE Inv'
    OBVIOUS
  <1>1. CASE Net
    BY <1>1, KexStep, NetReadsStep DEF Net
  <1>2. CASE Monitor
    BY <1>2, MonitorReadsStep, MonitorWaitsStep DEF Monitor
  <1>3. CASE Pam
    BY <1>3, PamAsksStep, PamReadsStep, PamDecidesStep DEF Pam
  <1>4. CASE UserauthRequest \/ InfoResponse \/ ClientLeaves \/ grace_alarm_handler
    BY <1>4, UserauthRequestStep, InfoResponseStep, ClientLeavesStep, GraceStep
  <1>5. CASE UNCHANGED vars
    <2>1. user' = user /\ client' = client /\ net' = net /\ mon' = mon /\ pam' = pam
      BY <1>5 DEF vars
    <2>2. Types' /\ Verdict' /\ Tries' /\ Outcome'
      BY <2>1 DEF Inv, Types, Verdict, Tries, Outcome, Excused, Unheeded
    <2>3. Where'
      <3>1. /\ Start => Start'
            /\ Ready => Ready'
            /\ NoDevice => NoDevice'
            /\ NoContext => NoContext'
            /\ Credentials => Credentials'
            /\ Counted => Counted'
            /\ Conversation => Conversation'
            /\ PamSilent => PamSilent'
            /\ Quiet => Quiet'
            /\ Known(net) => Known(net)'
            /\ Stranded(net) => Stranded(net)'
        BY <2>1 DEF Start, Ready, NoDevice, NoContext, Credentials, Counted, Conversation, PamSilent, Quiet,
                    Known, Stranded, Unheeded
      <3>2. /\ LoopOrStranded => LoopOrStranded'
            /\ Prompted => Prompted'
            /\ Over => Over'
        BY <2>1, <3>1 DEF LoopOrStranded, Prompted, Over
      <3>3. Talking => Talking'
        BY <2>1, <3>1 DEF Talking
      <3>4. /\ AtKex => AtKex'
            /\ AtExit => AtExit'
        BY <2>1, <3>1 DEF AtKex, AtExit
      <3>5. /\ AtSign => AtSign'
            /\ AtPwnam => AtPwnam'
        BY <2>1, <3>1 DEF AtSign, AtPwnam, Asking, Told
      <3>6. AtBanner => AtBanner'
        BY <2>1, <3>1 DEF AtBanner, Asking, Told
      <3>7. AtIdle => AtIdle'
        BY <2>1, <3>1, <3>2 DEF AtIdle
      <3>8. /\ AtKeyAllowed => AtKeyAllowed'
            /\ AtKeyVerify => AtKeyVerify'
        BY <2>1, <3>1, <3>2 DEF AtKeyAllowed, AtKeyVerify, Asking, Told
      <3>9. AtInitCtx => AtInitCtx'
        BY <2>1, <3>1, <3>2, <3>3 DEF AtInitCtx, Asking, Told
      <3>10. AtQuery => AtQuery'
        BY <2>1, <3>1, <3>2, <3>3 DEF AtQuery, Asking, Told
      <3>11. AtRespond => AtRespond'
        BY <2>1, <3>1, <3>2, <3>3 DEF AtRespond, Asking, Told
      <3>12. AtFreeCtx => AtFreeCtx'
        BY <2>1, <3>1, <3>2 DEF AtFreeCtx, Asking, Told
      <3>13. AtAccount => AtAccount'
        BY <2>1, <3>1 DEF AtAccount, Asking, Told
      <3> QED
        BY <2>1, <3>4, <3>5, <3>6, <3>7, <3>8, <3>9, <3>10, <3>11, <3>12, <3>13 DEF Inv, Where
    <2> QED
      BY <2>2, <2>3 DEF Inv
  <1> QED
    BY <1>1, <1>2, <1>3, <1>4, <1>5 DEF Next

LEMMA InvAlways == Spec => []Inv
  BY InvInit, InvNext, PTL DEF Spec

-----------------------------------------------------------------------------
(* The theorems. *)

(* mm_request_receive_expect, monitor_read: whatever a client sends and    *)
(* whenever, the child gets the answer it waits for, the monitor permits   *)
(* what it is asked, but for the three exceptions of FitTogether, and the  *)
(* queues between the three processes have their bounds.                   *)
THEOREM PrivsepFitsTogether == Spec => []FitTogether
  <1>1. Inv => TypeOK
    <2> SUFFICES ASSUME Inv PROVE TypeOK
      OBVIOUS
    <2>1. /\ net.failures \in 0 .. MaxAuthTries /\ net.attempt \in 0 .. MaxRequests
          /\ net.nreq \in 0 .. 1 /\ net.method \in Methods /\ mon.permit \subseteq Requests
          /\ net.service \in Services \cup {"none"}
      BY DEF Inv, Types
    <2>2. net.pc \in Requests \cup {"kex", "idle", "exit"}
      BY DEF Inv, Where, Requests
    <2>3. Len(mon.out) <= 1
      <3>1. PICK x : x = mon.out[1]
        OBVIOUS
      <3>2. Len(<< >>) = 0 /\ Len(<< x >>) = 1
        BY Lengths
      <3>3. mon.out = << >> \/ mon.out = << x >>
        BY <3>1 DEF Inv, Outcome
      <3>4. Len(mon.out) = 0 \/ Len(mon.out) = 1
        BY <3>2, <3>3, Zenon
      <3> QED
        BY <3>4, AtMost, Zenon
    <2>4. Len(net.out) <= 3
      <3>1. Quiet => Len(net.out) <= 3
        BY Lengths DEF Quiet
      <3>2. ASSUME NEW r, NEW v, Asking(r, v) \/ Told(r, v)
            PROVE  Len(net.out) <= 3
        BY <3>2, Lengths DEF Asking, Told
      <3>3. AtKex \/ AtIdle => Len(net.out) <= 3
        BY <3>1 DEF AtKex, AtIdle
      <3>4. AtSign \/ AtPwnam \/ AtAccount => Len(net.out) <= 3
        BY <3>2, Zenon DEF AtSign, AtPwnam, AtAccount
      <3>5. AtKeyAllowed \/ AtKeyVerify \/ AtFreeCtx => Len(net.out) <= 3
        BY <3>2, Zenon DEF AtKeyAllowed, AtKeyVerify, AtFreeCtx
      <3>6. AtInitCtx \/ AtQuery \/ AtRespond => Len(net.out) <= 3
        BY <3>2, Zenon DEF AtInitCtx, AtQuery, AtRespond
      <3>7. AtBanner => Len(net.out) <= 3
        <4>1. PICK x, y, z : /\ x = <<"PAM_START", "empty">> /\ y = <<"AUTHSERV", "empty">>
                             /\ z = <<"BANNER", "empty">>
          OBVIOUS
        <4>2. Len(<< y, z >>) = 2 /\ Len(<< x, y, z >>) = 3
          BY Lengths
        <4>3. \/ net.out = << x, y, z >> \/ net.out = << y, z >>
              \/ Asking("BANNER", "empty") \/ Told("BANNER", "empty") \/ ~AtBanner
          BY <4>1 DEF AtBanner
        <4>4. AtBanner => Len(net.out) = 3 \/ Len(net.out) = 2 \/ Len(net.out) <= 3
          BY <3>2, <4>2, <4>3, Zenon
        <4> QED
          BY <4>4, AtMost, Zenon
      <3>8. AtExit => Len(net.out) <= 3
        BY <3>1, Lengths DEF AtExit
      <3> QED
        BY <3>3, <3>4, <3>5, <3>6, <3>7, <3>8 DEF Inv, Where
    <2>5. /\ Len(pam.out) <= 1 /\ Len(pam.in) <= 1
          /\ pam.state \in {"none", "run", "asked", "ended"}
      <3>1. pam = NoPam \/ PamSilent \/ Talking
        BY DEF Inv, Where, AtKex, AtSign, AtPwnam, AtBanner, AtIdle, AtKeyAllowed, AtKeyVerify,
           AtInitCtx, AtQuery, AtRespond, AtFreeCtx, AtAccount, AtExit, Start, NoContext, Prompted, Over
      <3>2. CASE pam = NoPam
        BY <3>2, Lengths DEF NoPam
      <3>3. CASE PamSilent
        BY <3>3, Lengths DEF PamSilent
      <3>4. CASE Talking
        <4>1. \E x : pam.out = << >> \/ pam.out = << x >>
          BY <3>4 DEF Talking
        <4>2. \E x : pam.in = << >> \/ pam.in = << x >>
          BY <3>4 DEF Talking
        <4>3. pam.state \in {"run", "asked", "ended"}
          BY <3>4 DEF Talking
        <4>4. (Len(pam.out) = 0 \/ Len(pam.out) = 1) /\ (Len(pam.in) = 0 \/ Len(pam.in) = 1)
          BY <4>1, <4>2, Lengths, Zenon
        <4>5. Len(pam.out) <= 1 /\ Len(pam.in) <= 1
          BY <4>4, AtMost, Zenon
        <4> QED
          BY <4>3, <4>5
      <3> QED
        BY <3>1, <3>2, <3>3, <3>4
    <2>6. mon.state \in {"loop", "account", "keystate", "wait", "post", "exit"}
      BY DEF Inv, Where, AtKex, AtSign, AtPwnam, AtBanner, AtIdle, AtKeyAllowed, AtKeyVerify,
         AtInitCtx, AtQuery, AtRespond, AtFreeCtx, AtAccount, AtExit, Start, LoopOrStranded, Conversation
    <2> QED
      BY <2>1, <2>2, <2>3, <2>4, <2>5, <2>6 DEF TypeOK
  <1>2. Inv => FitTogether
    BY <1>1 DEF Inv, Outcome, Excused, Unheeded, FitTogether
  <1> QED
    BY <1>2, InvAlways, PTL

(* userauth_finish, monitor_child_preauth: the child reports success only  *)
(* with the monitor's consent, and the session starts only after that.     *)
THEOREM PrivsepBothDecide == Spec => []BothDecide
  <1>1. Inv => BothDecide
    <2> SUFFICES ASSUME Inv PROVE BothDecide
      OBVIOUS
    <2>1. net.pc # "exit" => ~net.success /\ mon.state \notin {"wait", "post"}
      BY DEF Inv, Outcome, Where, AtKex, AtSign, AtPwnam, AtBanner, AtIdle, AtKeyAllowed, AtKeyVerify,
         AtInitCtx, AtQuery, AtRespond, AtFreeCtx, AtAccount, Start, LoopOrStranded, Conversation
    <2>2. net.pc = "exit" => AtExit
      BY DEF Inv, Where
    <2> QED
      BY <2>1, <2>2 DEF BothDecide, AtExit
  <1> QED
    BY <1>1, InvAlways, PTL

(* A login is granted only to a known user with a usable account who has   *)
(* proved the key or answered all of PAM's questions rightly in the last   *)
(* attempt.                                                                *)
THEOREM PrivsepGrantedIsEarned == Spec => []GrantedIsEarned
  <1>1. Inv => GrantedIsEarned
    BY DEF Inv, Outcome, GrantedIsEarned
  <1> QED
    BY <1>1, InvAlways, PTL

(* The credentials found wrong never exceed MaxAuthTries, also when the    *)
(* client leaves conversations before their end.                           *)
THEOREM PrivsepTriesBounded == Spec => []TriesBounded
  <1>1. Inv => TriesBounded
    BY DEF Inv, Tries, TriesBounded
  <1> QED
    BY <1>1, InvAlways, PTL
=============================================================================

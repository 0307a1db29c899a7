------------------------------ MODULE Privsep ------------------------------
(***************************************************************************)
(* Authentication with privilege separation, under the configuration of    *)
(* the inbox (UsePAM, the methods lists "publickey" and                    *)
(* "keyboard-interactive:pam", a banner, no passwords): the network child  *)
(* that talks to the client (auth2*.c, the stubs of monitor_wrap.c), the   *)
(* monitor that decides (monitor.c, auth-pam.c) and the process in which   *)
(* PAM runs.  They share no memory; requests, answers and the PAM          *)
(* conversation travel over socket pairs.                                  *)
(*                                                                         *)
(* An operator named after a C function maps the memory of its process to  *)
(* the memory after the call, up to the next blocking read.  The field out *)
(* of a process holds what it has written and nobody has read.             *)
(***************************************************************************)
EXTENDS Integers, Sequences

CONSTANTS MaxAuthTries,     \* options.max_authtries
          MaxRequests,      \* bound on the requests of the client
          MaxPrompts        \* bound on the questions PAM asks in one conversation

ASSUME TriesAssumption ==
    MaxAuthTries \in Nat \ {0} /\ MaxRequests \in Nat /\ MaxPrompts \in Nat \ {0}

VARIABLES user,     \* is the account known, may it be used?
          client,   \* what the client has done
          net,      \* the network child
          mon,      \* the monitor
          pam       \* the PAM process

vars == <<user, client, net, mon, pam>>

Requests == {"SIGN", "PWNAM", "AUTHSERV", "BANNER", "PAM_START", "ACCOUNT", "INIT_CTX",
             "QUERY", "RESPOND", "FREE_CTX", "KEYALLOWED", "KEYVERIFY", "KEYEXPORT"}

Methods == {"none", "publickey", "keyboard-interactive"}

(* The service a request names; the child knows users of the first only. *)
Services == {"ssh-connection", "other"}

(* What sshpam_init_ctx comes to: a context, no PAM handle any more        *)
(* (sshpam_init failed), or neither sockets nor a process (socketpair or   *)
(* fork failed).                                                           *)
Contexts == {"ctxt", "no_handle", "no_process"}

(* mon_dispatch_proto20. *)
MON_ONCE == {"SIGN", "PWNAM", "AUTHSERV", "BANNER", "PAM_START", "INIT_CTX", "RESPOND", "FREE_CTX"}
MON_AUTHDECIDE == {"FREE_CTX", "KEYVERIFY"}
MON_AUTH == MON_AUTHDECIDE \cup {"KEYALLOWED"}

NoPam == [state |-> "none", in |-> << >>, out |-> << >>, asked |-> 0, right |-> TRUE]

Init ==
    /\ user \in [valid : BOOLEAN, account : BOOLEAN]
    /\ client = [requests |-> 0, proof |-> FALSE, abandoned |-> FALSE, bad |-> 0]
    /\ net = [pc |-> "kex", attempt |-> 0, service |-> "none", valid |-> FALSE,
              enabled |-> TRUE, kbdint |-> FALSE, nreq |-> 0,
              info_response |-> FALSE, failures |-> 0, method |-> "none", key |-> "none",
              sig |-> "none", after |-> "none", success |-> FALSE, surprised |-> FALSE, out |-> << >>]
    /\ mon = [state |-> "loop", permit |-> {"SIGN"}, ctxt |-> FALSE, authok |-> FALSE,
              pam_done |-> 0, account_status |-> -1, valid |-> FALSE, attempt |-> 0,
              key_blob |-> "none", handle |-> TRUE, enabled |-> TRUE,
              denied |-> FALSE, refused |-> FALSE, out |-> << >>]
    /\ pam = NoPam

-----------------------------------------------------------------------------
(* The network child: auth2.c, auth2-pubkey.c, auth2-chall.c and the stubs *)
(* of monitor_wrap.c.  It is at "idle" when it waits for the client, and   *)
(* otherwise at the request whose answer it waits for.                     *)

mm_request_send(n, r, v) == [n EXCEPT !.out = Append(@, <<r, v>>)]
Ask(n, r, v) == [mm_request_send(n, r, v) EXCEPT !.pc = r]

(* Slip: only a first attempt at a method counts as a failure. *)
userauth_finish_Uncounted(n, authenticated) ==
    IF authenticated THEN Ask(n, "ACCOUNT", "empty")
    ELSE LET f == n.failures + (IF n.attempt = 1 /\ n.method # "none" THEN 1 ELSE 0)
         IN  [n EXCEPT !.failures = f, !.pc = IF f >= MaxAuthTries THEN "exit" ELSE "idle"]

(* The methods lists have one method each: success completes one of them.  *)
userauth_finish(n, authenticated) ==
    IF authenticated THEN Ask(n, "ACCOUNT", "empty")
    ELSE LET f == n.failures + (IF n.attempt > 1 \/ n.method # "none" THEN 1 ELSE 0)
         IN  [n EXCEPT !.failures = f, !.pc = IF f >= MaxAuthTries THEN "exit" ELSE "idle"]

(* userauth_pubkey up to its first request. *)
userauth_pubkey(n) ==
    IF n.valid THEN Ask(n, "KEYALLOWED", n.key) ELSE userauth_finish(n, FALSE)

userauth_kbdint(n) == Ask(n, "INIT_CTX", "empty")

(* "none" is in no list; keyboard-interactive can be turned off by PAM. *)
authmethod_lookup(n) == n.method = "publickey" \/ (n.method = "keyboard-interactive" /\ n.enabled)

(* The method's userauth function. *)
TryMethod(n) ==
    CASE n.failures >= MaxAuthTries \/ ~authmethod_lookup(n) -> userauth_finish(n, FALSE)
      [] n.failures < MaxAuthTries /\ n.method = "publickey" -> userauth_pubkey(n)
      [] n.failures < MaxAuthTries /\ n.method = "keyboard-interactive" /\ n.enabled -> userauth_kbdint(n)

(* What follows once the conversation with PAM, if any, is closed. *)
Continue(n, k) ==
    CASE k = "method" -> TryMethod(n)
      [] k = "failed" -> userauth_finish(n, FALSE)
      [] k = "ok"     -> userauth_finish(n, TRUE)

(* kbdint_free, and kbdint_next_device after the only device: FREE_CTX.    *)
auth2_challenge_stop(n, k) ==
    LET u == [n EXCEPT !.info_response = FALSE]
    IN  IF n.kbdint THEN Ask([u EXCEPT !.kbdint = FALSE, !.after = k], "FREE_CTX", "empty")
        ELSE Continue(u, k)

(* Only the first request may choose the service (and the user name, for   *)
(* which the same holds): packet_disconnect otherwise.                     *)
input_userauth_request(n, service, m, key, sig) ==
    LET u == [n EXCEPT !.attempt = @ + 1, !.method = m, !.key = key, !.sig = sig]
    IN  CASE n.attempt = 0 -> Ask([u EXCEPT !.service = service], "PWNAM", "empty")
          [] n.attempt # 0 /\ service # n.service -> [u EXCEPT !.pc = "exit"]
          [] n.attempt # 0 /\ service = n.service -> auth2_challenge_stop(u, "method")

(* The rest of the set-up at the first request: for another service than   *)
(* ssh-connection the child takes the user for unknown, whatever the       *)
(* monitor says.  PAM_START and AUTHSERV are not answered.                 *)
mm_getpwnamallow(n, allowed) ==
    LET u == [n EXCEPT !.valid = allowed /\ n.service = "ssh-connection"]
    IN  Ask(mm_request_send(mm_request_send(u, "PAM_START", "empty"), "AUTHSERV", "empty"), "BANNER", "empty")

(* userauth_pubkey after user_key_allowed: a query is answered with PK_OK. *)
mm_key_allowed(n, allowed) ==
    CASE allowed /\ n.sig # "none" -> Ask(n, "KEYVERIFY", <<n.key, n.sig>>)
      [] allowed /\ n.sig = "none" -> [n EXCEPT !.pc = "idle"]
      [] ~allowed -> userauth_finish(n, FALSE)

(* auth2_challenge_start. *)
mm_sshpam_init_ctx(n, ok) ==
    IF ok THEN Ask([n EXCEPT !.kbdint = TRUE], "QUERY", "empty") ELSE userauth_finish(n, FALSE)

(* The child's options after sshpam_set_maxtries_reached. *)
Turned(n, reached) == [n EXCEPT !.enabled = @ /\ ~reached]

(* send_userauth_info_request. *)
mm_sshpam_query(n, ret, num, reached) ==
    IF ret = 0 THEN [Turned(n, reached) EXCEPT !.pc = "idle", !.nreq = num, !.info_response = TRUE]
    ELSE auth2_challenge_stop(Turned(n, reached), "failed")

(* input_userauth_info_response after the device's respond. *)
mm_sshpam_respond(n, res) ==
    CASE res = 0 -> auth2_challenge_stop(n, IF n.valid THEN "ok" ELSE "failed")
      [] res = 1 -> Ask(n, "QUERY", "empty")
      [] OTHER   -> auth2_challenge_stop(n, "failed")

(* Slip: the verdict on the account is not looked at. *)
mm_do_pam_account_Ignored(n, ok) ==
    [mm_request_send(n, "KEYEXPORT", "empty") EXCEPT !.success = TRUE, !.pc = "exit"]

(* The end of userauth_finish, do_authentication2 and mm_send_keystate;    *)
(* an account that PAM denies is fatal.                                    *)
mm_do_pam_account(n, ok) ==
    IF ok THEN [mm_request_send(n, "KEYEXPORT", "empty") EXCEPT !.success = TRUE, !.pc = "exit"]
    ELSE [n EXCEPT !.pc = "exit"]

(* mm_request_receive_expect and what the caller does with the answer. *)
Received(n, r, v) ==
    CASE r # n.pc -> [n EXCEPT !.surprised = TRUE, !.pc = "exit"]
      [] r = "SIGN" -> [n EXCEPT !.pc = "idle"]
      [] r = "PWNAM" -> mm_getpwnamallow(n, v)
      [] r = "BANNER" -> auth2_challenge_stop(n, "method")
      [] r = "KEYALLOWED" -> mm_key_allowed(n, v)
      [] r = "KEYVERIFY" -> userauth_finish(n, v)
      [] r = "INIT_CTX" -> mm_sshpam_init_ctx(n, v)
      [] r = "QUERY" -> mm_sshpam_query(n, v[1], v[2], v[3])
      [] r = "RESPOND" -> mm_sshpam_respond(n, v)
      [] r = "FREE_CTX" -> Continue(n, n.after)
      [] r = "ACCOUNT" -> mm_do_pam_account(n, v)

-----------------------------------------------------------------------------
(* The monitor: the handlers of monitor.c.  Each is an operator from the   *)
(* monitor's memory to the memory after it; the value that decides whether *)
(* the main loop ends is MonitorReturns below.                             *)

Answer(m, r, v) == [m EXCEPT !.out = Append(@, <<r, v>>)]
Permit(m, S) == [m EXCEPT !.permit = @ \cup S]
Fatal(m) == [m EXCEPT !.state = "exit", !.refused = TRUE]

mm_answer_sign(m) == Permit(Answer(m, "SIGN", "empty"), {"PWNAM"})

mm_answer_pwnamallow(m) ==
    IF m.attempt # 0 THEN Fatal(m)
    ELSE Permit(Answer([m EXCEPT !.attempt = 1, !.valid = user.valid], "PWNAM", user.valid),
                {"AUTHSERV", "BANNER", "PAM_START"})

mm_answer_auth2_read_banner(m) == Answer(m, "BANNER", "empty")

mm_answer_authserv(m) == Permit(m, MON_AUTH)

(* A failing sshpam_init is fatal here; the alarm below covers a monitor   *)
(* that ends at any point.                                                 *)
mm_answer_pam_start(m) == Permit(m, IF m.enabled THEN {"ACCOUNT", "INIT_CTX"} ELSE {"ACCOUNT"})

(* do_pam_account keeps the first verdict on the account; without a handle *)
(* pam_acct_mgmt fails.                                                    *)
AccountStatus(m) ==
    IF m.account_status # -1 THEN m.account_status ELSE IF user.account /\ m.handle THEN 1 ELSE 0

mm_answer_pam_account(m) ==
    Answer([m EXCEPT !.account_status = AccountStatus(m)], "ACCOUNT", AccountStatus(m) = 1)

(* sshpam_init_ctx: a refused account needs no process. *)
sshpam_init_ctx(m, got) == IF m.account_status = 0 THEN "no_process" ELSE got

(* Slip: a context that cannot be had is not reported. *)
mm_answer_pam_init_ctx_Silent(m, got) ==
    LET c == sshpam_init_ctx(m, got)
    IN  IF ~m.enabled \/ m.ctxt THEN Fatal(m)
        ELSE IF c # "ctxt" THEN [m EXCEPT !.authok = FALSE, !.denied = TRUE]
        ELSE Permit(Answer([m EXCEPT !.ctxt = TRUE, !.authok = FALSE, !.pam_done = 0], "INIT_CTX", TRUE),
                    {"FREE_CTX", "QUERY"})

(* The field denied records that the child has been told of no context. *)
mm_answer_pam_init_ctx(m, got) ==
    LET c == sshpam_init_ctx(m, got)
    IN  IF ~m.enabled \/ m.ctxt THEN Fatal(m)
        ELSE IF c # "ctxt" THEN Answer([m EXCEPT !.authok = FALSE, !.denied = TRUE,
                                                 !.handle = @ /\ c # "no_handle"], "INIT_CTX", FALSE)
        ELSE Permit(Answer([m EXCEPT !.ctxt = TRUE, !.authok = FALSE, !.pam_done = 0], "INIT_CTX", TRUE),
                    {"FREE_CTX", "QUERY"})

(* sshpam_query: one message from PAM; the return value, the number of     *)
(* prompts and pam_done.  Text that goes with a refusal is shown first.    *)
sshpam_query(msg) ==
    CASE msg.type = "prompt"  -> [ret |-> 0, num |-> 1, done |-> 0]
      [] msg.type = "success" -> [ret |-> 0, num |-> 0, done |-> 1]
      [] msg.type \notin {"prompt", "success"} ->
           [ret |-> IF msg.text THEN 0 ELSE -1, num |-> 0, done |-> -1]

(* Success and an expired account bring the verdict on the account along,  *)
(* PAM_MAXTRIES turns keyboard-interactive off.                            *)
Noted(m, msg) ==
    [m EXCEPT !.pam_done = sshpam_query(msg).done,
              !.authok = (sshpam_query(msg).ret = 0 /\ sshpam_query(msg).num = 0),
              !.account_status = CASE msg.type = "success" -> 1 [] msg.type = "expired" -> 0 [] OTHER -> @,
              !.enabled = @ /\ msg.type # "maxtries"]

(* Slip: a response is permitted by the first question only. *)
mm_answer_pam_query_FirstOnly(m) ==
    LET msg == Head(pam.out)
        q   == sshpam_query(msg)
        u   == Noted(m, msg)
    IN  IF ~m.ctxt \/ (msg.type = "success" /\ ~m.valid) THEN Fatal(m)
        ELSE Permit(Answer(u, "QUERY", <<q.ret, q.num, ~u.enabled>>), IF pam.asked = 1 THEN {"RESPOND"} ELSE {})

(* The answer carries sshpam_get_maxtries_reached. *)
mm_answer_pam_query(m) ==
    LET msg == Head(pam.out)
        q   == sshpam_query(msg)
        u   == Noted(m, msg)
    IN  IF ~m.ctxt \/ (msg.type = "success" /\ ~m.valid) THEN Fatal(m)
        ELSE Permit(Answer(u, "QUERY", <<q.ret, q.num, ~u.enabled>>), {"RESPOND"})

(* Slip: the conversation of a known user that is over has succeeded. *)
sshpam_respond_Over(m, answer) ==
    CASE m.pam_done # 0 /\ m.valid -> 0
      [] m.pam_done = 0 /\ answer # "nothing" -> 1
      [] OTHER -> -1

sshpam_respond(m, answer) ==
    CASE m.pam_done = 1 -> 0
      [] m.pam_done = 0 /\ answer # "nothing" -> 1
      [] OTHER -> -1

mm_answer_pam_respond(m, answer) ==
    IF ~m.ctxt THEN Fatal(m)
    ELSE Answer([m EXCEPT !.authok = (sshpam_respond(m, answer) = 0)],
                "RESPOND", sshpam_respond(m, answer))

mm_answer_pam_free_ctx(m) ==
    IF ~m.ctxt THEN Fatal(m)
    ELSE Permit(Answer([m EXCEPT !.ctxt = FALSE, !.authok = FALSE], "FREE_CTX", "empty"), {"INIT_CTX"})

(* The keys of the account are known to the monitor; a key it allows is    *)
(* kept for the verification.                                              *)
mm_answer_keyallowed(m, key) ==
    LET allowed == m.valid /\ key = "own"
    IN  Answer([m EXCEPT !.key_blob = IF allowed THEN key ELSE "none"], "KEYALLOWED", allowed)

mm_answer_keyverify(m, key, sig) ==
    IF m.key_blob = "none" \/ m.key_blob # key THEN Fatal(m)
    ELSE Answer([m EXCEPT !.key_blob = "none"], "KEYVERIFY", sig = "right")

MonitorHandles(m, r, v) ==
    CASE r = "SIGN" -> mm_answer_sign(m)
      [] r = "PWNAM" -> mm_answer_pwnamallow(m)
      [] r = "BANNER" -> mm_answer_auth2_read_banner(m)
      [] r = "AUTHSERV" -> mm_answer_authserv(m)
      [] r = "PAM_START" -> mm_answer_pam_start(m)
      [] r = "ACCOUNT" -> mm_answer_pam_account(m)
      [] r = "INIT_CTX" -> mm_answer_pam_init_ctx(m, v)
      [] r = "QUERY" -> mm_answer_pam_query(m)
      [] r = "RESPOND" -> mm_answer_pam_respond(m, v)
      [] r = "FREE_CTX" -> mm_answer_pam_free_ctx(m)
      [] r = "KEYALLOWED" -> mm_answer_keyallowed(m, v)
      [] r = "KEYVERIFY" -> mm_answer_keyverify(m, v[1], v[2])

(* Which requests return 1 to monitor_child_preauth. *)
MonitorReturns(m, r, v) ==
    CASE r = "FREE_CTX" -> m.authok
      [] r = "KEYVERIFY" -> v[2] = "right"
      [] r = "ACCOUNT" -> AccountStatus(m) = 1
      [] OTHER -> FALSE

(* monitor_read: a request not in the table or not permitted is fatal. *)
monitor_read(m, r, v) ==
    IF r \notin m.permit THEN Fatal(m)
    ELSE LET u == MonitorHandles(m, r, v)
         IN  [u EXCEPT !.permit = IF r \in MON_ONCE THEN @ \ {r} ELSE @]

(* One turn of the loop of monitor_child_preauth.  A request that          *)
(* authenticates must be one that may, and PAM's view of the account is    *)
(* asked for next.                                                         *)
monitor_child_preauth(m, r, v) ==
    LET u == monitor_read(m, r, v)
    IN  IF u.state = "exit" \/ ~MonitorReturns(m, r, v) THEN u
        ELSE IF r \notin MON_AUTHDECIDE THEN Fatal(u)
        ELSE [u EXCEPT !.state = "account"]

(* mm_request_receive_expect of PAM_ACCOUNT, then of the key state. *)
MonitorExpects(m, r) ==
    CASE m.state = "account" ->
           IF r # "ACCOUNT" THEN Fatal(m)
           ELSE LET u == mm_answer_pam_account(m)
                IN  IF AccountStatus(m) # 1 THEN [u EXCEPT !.state = "loop"]
                    ELSE IF ~m.valid THEN Fatal(u)
                    ELSE [u EXCEPT !.state = "keystate"]
      [] m.state = "keystate" ->
           IF r = "KEYEXPORT" THEN [m EXCEPT !.state = "wait"] ELSE Fatal(m)

-----------------------------------------------------------------------------
(* Actions of the network child and its client. *)

Kex == /\ net.pc = "kex"
       /\ net' = Ask(net, "SIGN", "empty")
       /\ UNCHANGED <<user, client, mon, pam>>

(* The client asks for authentication; RFC 4252 lets it do so at any time. *)
UserauthRequest ==
    /\ net.pc = "idle" /\ client.requests < MaxRequests
    /\ \E service \in Services, m \in Methods, key \in {"own", "other"}, sig \in {"none", "right", "wrong"} :
         /\ m # "publickey" => key = "other" /\ sig = "none"
         /\ net' = input_userauth_request(net, service, m, key, sig)
         /\ client' = [client EXCEPT
                         !.requests = @ + 1,
                         !.proof = (key = "own" /\ sig = "right"),
                         !.abandoned = @ \/ (net.info_response /\ net.nreq = 0)]
    /\ UNCHANGED <<user, mon, pam>>

(* The client answers the last information request. *)
InfoResponse ==
    /\ net.pc = "idle" /\ net.info_response
    /\ \E answer \in IF net.nreq = 1 THEN {"right", "wrong"} ELSE {"nothing"} :
         /\ net' = Ask(net, "RESPOND", answer)
         /\ client' = [client EXCEPT !.proof = IF answer = "nothing" THEN @
                                               ELSE answer = "right" /\ (pam.asked = 1 \/ @)]
    /\ UNCHANGED <<user, mon, pam>>

(* The client goes away. *)
ClientLeaves ==
    /\ net.pc = "idle"
    /\ net' = [net EXCEPT !.pc = "exit"]
    /\ UNCHANGED <<user, client, mon, pam>>

(* The network child reads an answer. *)
NetReads ==
    /\ net.pc \in Requests /\ mon.out # << >>
    /\ LET a == Head(mon.out)
       IN  /\ net' = Received(net, a[1], a[2])
           /\ client' = [client EXCEPT !.bad =
                           IF \/ a = <<"KEYVERIFY", FALSE>>
                              \/ a[1] = "QUERY" /\ mon.pam_done = -1
                           THEN @ + 1 ELSE @]
    /\ mon' = [mon EXCEPT !.out = Tail(@)]
    /\ UNCHANGED <<user, pam>>

-----------------------------------------------------------------------------
(* Actions of the monitor and the PAM process. *)

(* cleanup_exit of the monitor takes the child and PAM along. *)
AfterStep(n, m) == IF m.state = "exit" THEN [n EXCEPT !.pc = "exit"] ELSE n

(* sshpam_init_ctx starts the process, sshpam_respond writes to it, and    *)
(* sshpam_thread_cleanup ends it; sshpam_query has read a message.         *)
PamAfter(m, r, v) ==
    CASE m.state = "exit" -> NoPam
      [] r = "INIT_CTX" /\ m.ctxt /\ ~mon.ctxt -> [NoPam EXCEPT !.state = "run"]
      [] r = "FREE_CTX" -> NoPam
      [] r = "QUERY" -> [pam EXCEPT !.out = Tail(@)]
      [] r = "RESPOND" /\ mon.pam_done = 0 -> [pam EXCEPT !.in = Append(@, v)]
      [] OTHER -> pam

(* What a handler works on: the value of the request, and for INIT_CTX     *)
(* what the system lets sshpam_init_ctx have.                              *)
Input(q, got) == IF q[1] = "INIT_CTX" THEN got ELSE q[2]

MonitorReads ==
    /\ mon.state \in {"loop", "account", "keystate"} /\ net.out # << >>
    /\ \E got \in Contexts :
         LET q == Head(net.out)
             v == Input(q, got)
             \* sshpam_query blocks until PAM has something to say
             blocked == q[1] = "QUERY" /\ mon.state = "loop" /\ "QUERY" \in mon.permit
                          /\ mon.ctxt /\ pam.out = << >>
             m == IF mon.state = "loop" THEN monitor_child_preauth(mon, q[1], v)
                  ELSE MonitorExpects(mon, q[1])
         IN  /\ ~blocked
             /\ mon' = m
             /\ net' = AfterStep([net EXCEPT !.out = Tail(@)], m)
             /\ pam' = IF mon.state = "loop" THEN PamAfter(m, q[1], v) ELSE pam
    /\ UNCHANGED <<user, client>>

(* The child has gone: before the end of authentication the monitor        *)
(* follows it (sshpam_sigchld_handler and cleanup_exit end PAM), after it  *)
(* the session starts.                                                     *)
MonitorWaits ==
    /\ net.pc = "exit" /\ net.out = << >>
    /\ mon.state \in {"loop", "account", "keystate", "wait"}
    /\ mon' = [mon EXCEPT !.state = IF mon.state = "wait" THEN "post" ELSE "exit"]
    /\ pam' = NoPam
    /\ UNCHANGED <<user, client, net>>

(* LoginGraceTime is over before authentication is. *)
grace_alarm_handler ==
    /\ mon.state \in {"loop", "account", "keystate", "wait"}
    /\ mon' = [mon EXCEPT !.state = "exit"]
    /\ net' = [net EXCEPT !.pc = "exit", !.out = << >>]
    /\ pam' = NoPam
    /\ UNCHANGED <<user, client>>

(* A message of the PAM process; text is what the stack wanted shown. *)
Message(type, text) == [type |-> type, text |-> text]

(* The PAM stack asks a question. *)
PamAsks ==
    /\ pam.state = "run" /\ pam.asked < MaxPrompts
    /\ pam' = [pam EXCEPT !.state = "asked", !.asked = @ + 1, !.out = Append(@, Message("prompt", FALSE))]
    /\ UNCHANGED <<user, client, net, mon>>

(* For an unknown user the monitor has passed on a made-up password. *)
PamReads ==
    /\ pam.state = "asked" /\ pam.in # << >>
    /\ pam' = [pam EXCEPT !.state = "run", !.in = Tail(@),
                          !.right = @ /\ Head(pam.in) = "right" /\ user.valid]
    /\ UNCHANGED <<user, client, net, mon>>

(* sshpam_thread ends with a verdict: success needs every answer right and *)
(* a usable account; it may fail for reasons of its own at any time, with  *)
(* or without a text.                                                      *)
PamDecides ==
    /\ pam.state = "run"
    /\ \E type \in {"success", "expired", "error", "maxtries"}, text \in BOOLEAN :
         /\ type \in {"success", "expired"} => pam.asked > 0 /\ pam.right
         /\ type = "success" => user.account /\ ~text
         /\ type = "expired" => ~user.account
         /\ pam' = [pam EXCEPT !.state = "ended", !.out = Append(@, Message(type, text))]
    /\ UNCHANGED <<user, client, net, mon>>

Net == Kex \/ NetReads
Monitor == MonitorReads \/ MonitorWaits
Pam == PamAsks \/ PamReads \/ PamDecides

Next == \/ Net \/ Monitor \/ Pam
        \/ UserauthRequest \/ InfoResponse \/ ClientLeaves \/ grace_alarm_handler

Spec == Init /\ [][Next]_vars

(* The processes run and PAM comes to a verdict; neither the client nor    *)
(* the alarm is needed.                                                    *)
FairSpec == Spec /\ WF_vars(Net) /\ WF_vars(Monitor) /\ WF_vars(Pam)

-----------------------------------------------------------------------------
(* Properties. *)

(* The values of the state; the child waits for one answer at a time, so   *)
(* at most three requests and one answer are on the way.                   *)
TypeOK ==
    /\ net.pc \in Requests \cup {"kex", "idle", "exit"}
    /\ net.failures \in 0..MaxAuthTries /\ net.attempt \in 0..MaxRequests
    /\ net.nreq \in 0..1 /\ net.method \in Methods /\ net.service \in Services \cup {"none"}
    /\ Len(net.out) <= 3 /\ Len(mon.out) <= 1 /\ Len(pam.out) <= 1 /\ Len(pam.in) <= 1
    /\ mon.state \in {"loop", "account", "keystate", "wait", "post", "exit"}
    /\ mon.permit \subseteq Requests
    /\ pam.state \in {"none", "run", "asked", "ended"}

(* mm_request_receive_expect, monitor_read: whatever a client asks for, in *)
(* whatever order, the monitor has an answer to each request of the child  *)
(* and the child gets the answer it waits for.  Three exceptions:          *)
(* - a client that turns to another method instead of acknowledging an     *)
(*   information request without prompts;                                  *)
(* - a client that asks for a PAM conversation again after there was no    *)
(*   context for one (PAM has refused the account, or sshpam_init,         *)
(*   socketpair or fork failed): INIT_CTX is permitted once and only       *)
(*   FREE_CTX permits it again;                                            *)
(* - a client that names another service and converses with PAM            *)
(*   successfully: the child counts it as a failure, the monitor waits for *)
(*   PAM_ACCOUNT and takes nothing else.                                   *)
(* The queues between the three processes stay as short as TypeOK says.    *)
FitTogether ==
    /\ TypeOK
    /\ ~net.surprised
    /\ mon.refused =>
         \/ client.abandoned
         \/ /\ net.method = "keyboard-interactive"
            /\ mon.denied \/ (net.service # "ssh-connection" /\ mon.account_status = 1)

(* userauth_finish, monitor_child_preauth: the child reports success only  *)
(* with the monitor's consent, and the session starts only after that.     *)
BothDecide ==
    /\ net.success => mon.state \in {"keystate", "wait", "post", "exit"}
    /\ mon.state \in {"wait", "post"} => net.success

(* A login is granted to a known user with a usable account whose last     *)
(* attempt proved the key, or answered all of PAM's questions rightly.     *)
GrantedIsEarned == net.success => user.valid /\ user.account /\ client.proof

(* MaxAuthTries bounds the credentials that are found wrong, also when the *)
(* client leaves conversations before their end.                           *)
TriesBounded == client.bad <= MaxAuthTries

(* No process waits for another for ever: again and again the child waits  *)
(* for the client, or it is gone, the monitor has drawn the conclusion and *)
(* no PAM process is left holding the start-up pipe of the listener.       *)
EveryStepSettles ==
    []<>(\/ net.pc = "idle"
         \/ net.pc = "exit" /\ mon.state \in {"post", "exit"} /\ pam.state = "none")
=============================================================================

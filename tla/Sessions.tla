-------------------------------- MODULE Sessions --------------------------------
(* Signing in with a password or a passkey, sessions and the login throttle    *)
(* (server/auth.go, login_throttle.go, webauthn.go, db/auth.go, webauthn.go).  *)
(* Handlers run side by side; one action is one statement, one critical        *)
(* section or one answer of the WebAuthn library.                              *)
EXTENDS Integers

CONSTANTS
    Users, Addresses, Handlers,
    MaxTokens,       \* bound: sessions, ceremonies and passkeys ever made
    SessionTime,     \* 24 h, in ticks
    CeremonyTime,    \* 5 min
    FreeFailures, MaxDelay, ThrottleTime,   \* 3, 30 s, 15 min
    Configs          \* what clients do, "password" or "passkey", and bounds:
                     \* [ways, time, requests, restarts]

VARIABLES
    now,
    hash,         \* auth: user -> "modern" or "legacy"
    sessions,     \* token -> [user, expires]
    ceremonies,   \* in memory: token -> [user, expires]; user 0 to sign in
    passkeys,     \* id -> [user, count]
    throttle,     \* in memory: user or address -> [failures, until, seen]
    handler,
    issued, closed,  \* all sessions ever; those that were logged out
    finished,     \* ceremony -> how often it made a session or passkey
    config, used

store == <<hash, sessions, passkeys, issued, closed, finished>>
memory == <<ceremonies, throttle>>
vars == <<now, store, memory, handler, config, used>>

Tokens == 1 .. MaxTokens
Nobody == 0
Keys == Users \cup Addresses
Map(S) == [x \in S |-> 0]
With(f, k, v) == [x \in DOMAIN f \cup {k} |-> IF x = k THEN v ELSE f[x]]
Without(f, S) == [x \in DOMAIN f \ S |-> f[x]]
Idle == [at |-> "idle", user |-> Nobody, address |-> Nobody, token |-> 0, ceremony |-> 0,
         passkey |-> 0, count |-> 0, next |-> "idle"]

Init ==
    /\ now = 0
    /\ hash \in [Users -> {"modern", "legacy"}]
    /\ sessions = Map({}) /\ ceremonies = Map({}) /\ throttle = Map({})
    /\ passkeys \in {Map({})} \cup {With(Map({}), 1, [user |-> u, count |-> 0]) : u \in Users}
    /\ handler = [h \in Handlers |-> Idle]
    /\ issued = Map({}) /\ closed = {} /\ finished = Map({})
    /\ config \in Configs
    /\ used = [requests |-> 0, restarts |-> 0]

Go(h, r) == handler' = [handler EXCEPT ![h] = r]
At(h, at) == handler[h].at = at
Request(way) ==
    /\ way \in config.ways /\ used.requests < config.requests
    /\ used' = [used EXCEPT !.requests = @ + 1]
Fresh(made) == CHOOSE t \in Tokens : t \notin made

Tick ==
    /\ now < config.time /\ now' = now + 1
    /\ UNCHANGED <<store, memory, handler, config, used>>

(* The database stays, what is in memory goes; initAdminPassword finds a hash. *)
Restart ==
    /\ used.restarts < config.restarts /\ used' = [used EXCEPT !.restarts = @ + 1]
    /\ ceremonies' = Map({}) /\ throttle' = Map({})
    /\ handler' = [h \in Handlers |-> Idle]
    /\ UNCHANGED <<now, store, config>>

-------------------------------------------------------------------------------
(* The throttle                                                                *)

Pruned == Without(throttle, {k \in DOMAIN throttle : now - throttle[k].seen > ThrottleTime})
StateOf(f, k) == IF k \in DOMAIN f THEN f[k] ELSE [failures |-> 0, until |-> 0, seen |-> now]
Blocked(f, k) == now < StateOf(f, k).until

(* 1, 2, 4 ... seconds; as the code's 64 bits hold the power up to failure 37, *)
(* far above what the bound on requests allows.                                *)
Delay(failures) ==
    LET d == 2 ^ (failures - FreeFailures - 1) IN IF d \in 1 .. MaxDelay THEN d ELSE MaxDelay

\* Mutant: a new delay begins where the last one ends.
NextThrottle_Adds(s) ==
    LET n == s.failures + 1
        from == IF s.until > now THEN s.until ELSE now IN
    [failures |-> n, seen |-> now, until |-> IF n > FreeFailures THEN from + Delay(n) ELSE s.until]

NextThrottle(s) ==
    LET n == s.failures + 1 IN
    [failures |-> n, seen |-> now, until |-> IF n > FreeFailures THEN now + Delay(n) ELSE s.until]

-------------------------------------------------------------------------------
(* handleLogin                                                                 *)

Login(h, u, a) ==
    /\ At(h, "idle") /\ Request("password")
    /\ throttle' = Pruned
    /\ IF Blocked(Pruned, u) \/ Blocked(Pruned, a)
       THEN UNCHANGED handler
       ELSE Go(h, [Idle EXCEPT !.at = "check", !.user = u, !.address = a])
    /\ UNCHANGED <<now, store, ceremonies, config>>

(* Right, wrong or an error.                                                   *)
CheckPassword(h) ==
    LET r == handler[h] IN
    /\ At(h, "check")
    /\ \/ Go(h, [r EXCEPT !.at = IF hash[r.user] = "legacy" THEN "rehash" ELSE "success"])
       \/ Go(h, [r EXCEPT !.at = "failure"])
       \/ Go(h, Idle)
    /\ UNCHANGED <<now, store, memory, config, used>>

Rehash(h) ==
    /\ At(h, "rehash")
    /\ hash' = [hash EXCEPT ![handler[h].user] = "modern"]
    /\ Go(h, [handler[h] EXCEPT !.at = "success"])
    /\ UNCHANGED <<now, sessions, passkeys, issued, closed, finished, memory, config, used>>

RecordFailure(h) ==
    LET keys == {handler[h].user, handler[h].address} IN
    /\ At(h, "failure")
    /\ throttle' = [k \in DOMAIN Pruned \cup keys |->
                      IF k \in keys THEN NextThrottle(StateOf(Pruned, k)) ELSE Pruned[k]]
    /\ Go(h, Idle)
    /\ UNCHANGED <<now, store, ceremonies, config, used>>

RecordSuccess(h) ==
    /\ At(h, "success")
    /\ throttle' = Without(throttle, {handler[h].user, handler[h].address})
    /\ Go(h, [handler[h] EXCEPT !.at = "create"])
    /\ UNCHANGED <<now, store, ceremonies, config, used>>

-------------------------------------------------------------------------------
(* Sessions                                                                    *)

\* Mutant: a user has one session.
CreateSession_Replaces(h) ==
    LET u == handler[h].user
        t == Fresh(DOMAIN issued) IN
    /\ At(h, "create") /\ DOMAIN issued # Tokens
    /\ sessions' = With(Without(sessions, {s \in DOMAIN sessions : sessions[s].user = u}), t,
                        [user |-> u, expires |-> now + SessionTime])
    /\ issued' = With(issued, t, [user |-> u, expires |-> now + SessionTime])
    /\ finished' = IF handler[h].ceremony = 0 THEN finished
                   ELSE [finished EXCEPT ![handler[h].ceremony] = @ + 1]
    /\ Go(h, Idle)
    /\ UNCHANGED <<now, hash, passkeys, closed, memory, config, used>>

(* For both ways to sign in.                                                   *)
CreateSession(h) ==
    LET t == Fresh(DOMAIN issued)
        s == [user |-> handler[h].user, expires |-> now + SessionTime] IN
    /\ At(h, "create") /\ DOMAIN issued # Tokens
    /\ sessions' = With(sessions, t, s)
    /\ issued' = With(issued, t, s)
    /\ finished' = IF handler[h].ceremony = 0 THEN finished
                   ELSE [finished EXCEPT ![handler[h].ceremony] = @ + 1]
    /\ Go(h, Idle)
    /\ UNCHANGED <<now, hash, passkeys, closed, memory, config, used>>

DeleteSession(t) == sessions' = Without(sessions, {t})

(* handleLogout; a token that is not stored is no error.                       *)
Logout(t) ==
    /\ t \in DOMAIN issued \ closed
    /\ DeleteSession(t)
    /\ closed' = closed \cup {t}
    /\ UNCHANGED <<now, hash, passkeys, issued, finished, memory, handler, config, used>>

(* requireAuth, authenticateSession: a request with the token of a session.    *)
(* handleSession and the other handlers stop here; next is what the WebAuthn   *)
(* handlers do then.                                                           *)
ValidateSession(h, t, next, c) ==
    /\ At(h, "idle") /\ Request("passkey") /\ t \in DOMAIN sessions
    /\ Go(h, IF now > sessions[t].expires
             THEN [Idle EXCEPT !.at = "expired", !.token = t]
             ELSE [Idle EXCEPT !.at = next, !.user = sessions[t].user, !.ceremony = c, !.next = "register"])
    /\ UNCHANGED <<now, store, memory, config>>

DeleteExpired(h) ==
    /\ At(h, "expired")
    /\ DeleteSession(handler[h].token)
    /\ Go(h, Idle)
    /\ UNCHANGED <<now, hash, passkeys, issued, closed, finished, memory, config, used>>

-------------------------------------------------------------------------------
(* Passkeys                                                                    *)

SetCeremony(u) ==
    LET c == Fresh(DOMAIN finished) IN
    /\ DOMAIN finished # Tokens
    /\ ceremonies' = With(ceremonies, c, [user |-> u, expires |-> now + CeremonyTime])
    /\ finished' = With(finished, c, 0)

RegisterBegin(h) ==
    /\ At(h, "begin")
    /\ SetCeremony(handler[h].user)
    /\ Go(h, Idle)
    /\ UNCHANGED <<now, hash, sessions, passkeys, issued, closed, throttle, config, used>>

LoginBegin ==
    /\ Request("passkey")
    /\ SetCeremony(Nobody)
    /\ UNCHANGED <<now, hash, sessions, passkeys, issued, closed, throttle, handler, config>>

LoginFinish(h, c) ==
    /\ At(h, "idle") /\ Request("passkey")
    /\ Go(h, [Idle EXCEPT !.at = "get", !.ceremony = c, !.next = "assert"])
    /\ UNCHANGED <<now, store, memory, config>>

\* Mutant: the ceremony stays until it expires.
GetCeremony_Keeps(h) ==
    LET r == handler[h]
        found == r.ceremony \in DOMAIN ceremonies /\ now <= ceremonies[r.ceremony].expires IN
    /\ At(h, "get")
    /\ Go(h, IF found THEN [r EXCEPT !.at = r.next, !.token = ceremonies[r.ceremony].user] ELSE Idle)
    /\ UNCHANGED <<now, store, memory, config, used>>

(* Single use, in one critical section.  token then holds the ceremony's user. *)
GetCeremony(h) ==
    LET r == handler[h]
        found == r.ceremony \in DOMAIN ceremonies /\ now <= ceremonies[r.ceremony].expires IN
    /\ At(h, "get")
    /\ ceremonies' = Without(ceremonies, {r.ceremony})
    /\ Go(h, IF found THEN [r EXCEPT !.at = r.next, !.token = ceremonies[r.ceremony].user] ELSE Idle)
    /\ UNCHANGED <<now, store, throttle, config, used>>

InsertPasskey(u) ==
    /\ DOMAIN passkeys # Tokens
    /\ passkeys' = With(passkeys, Fresh(DOMAIN passkeys), [user |-> u, count |-> 0])

(* FinishRegistration of the library refuses a ceremony of another user; then  *)
(* the passkey is stored.                                                      *)
RegisterFinish(h) ==
    LET r == handler[h] IN
    /\ At(h, "register")
    /\ \/ /\ r.token = r.user /\ InsertPasskey(r.user)
          /\ finished' = [finished EXCEPT ![r.ceremony] = @ + 1]
       \/ UNCHANGED <<passkeys, finished>>
    /\ Go(h, Idle)
    /\ UNCHANGED <<now, hash, sessions, issued, closed, memory, config, used>>

(* FinishPasskeyLogin: the passkey names its user and counts its uses.         *)
Assert(h) ==
    LET r == handler[h] IN
    /\ At(h, "assert")
    /\ \/ /\ r.token = Nobody
          /\ \E k \in DOMAIN passkeys :
                Go(h, [r EXCEPT !.at = "count", !.user = passkeys[k].user, !.passkey = k,
                                !.count = passkeys[k].count + 1])
       \/ Go(h, Idle)
    /\ UNCHANGED <<now, store, memory, config, used>>

(* An error is only logged.                                                    *)
UpdateSignCount(h) ==
    LET r == handler[h] IN
    /\ At(h, "count")
    /\ \/ passkeys' = [passkeys EXCEPT ![r.passkey].count = r.count]
       \/ UNCHANGED passkeys
    /\ Go(h, [r EXCEPT !.at = "create"])
    /\ UNCHANGED <<now, hash, sessions, issued, closed, finished, memory, config, used>>

-------------------------------------------------------------------------------
PasswordStep(h) ==
    \/ \E u \in Users, a \in Addresses : Login(h, u, a)
    \/ CheckPassword(h) \/ Rehash(h) \/ RecordFailure(h) \/ RecordSuccess(h)
PasskeyStep(h) ==
    \/ \E t \in DOMAIN sessions : ValidateSession(h, t, "begin", 0)
    \/ \E t \in DOMAIN sessions, c \in DOMAIN finished : ValidateSession(h, t, "get", c)
    \/ \E c \in DOMAIN finished : LoginFinish(h, c)
    \/ RegisterBegin(h) \/ GetCeremony(h) \/ RegisterFinish(h) \/ Assert(h) \/ UpdateSignCount(h)

Next ==
    \/ Tick \/ Restart \/ LoginBegin
    \/ \E h \in Handlers : PasswordStep(h) \/ PasskeyStep(h) \/ CreateSession(h) \/ DeleteExpired(h)
    \/ \E t \in Tokens : Logout(t)

Spec == Init /\ [][Next]_vars
-------------------------------------------------------------------------------
TypeOK ==
    /\ hash \in [Users -> {"modern", "legacy"}]
    /\ DOMAIN sessions \subseteq DOMAIN issued /\ DOMAIN issued \subseteq Tokens
    /\ DOMAIN ceremonies \subseteq DOMAIN finished
    /\ DOMAIN throttle \subseteq Keys
    /\ \A k \in DOMAIN passkeys : passkeys[k].user \in Users

(* Sessions are independent: each is stored until it is logged out or expires, *)
(* whatever other devices of the user, requests in flight and restarts do, and *)
(* a session that was logged out never comes back (db/auth.go:70).             *)
SessionsAreIndependent ==
    /\ closed \cap DOMAIN sessions = {}
    /\ \A t \in DOMAIN issued \ closed :
          now <= issued[t].expires => t \in DOMAIN sessions /\ sessions[t] = issued[t]

(* A ceremony makes one session or one passkey at most, however often and      *)
(* simultaneously the browser sends its answer (webauthn.go:82).               *)
CeremonyOnce == \A c \in DOMAIN finished : finished[c] <= 1

(* Nobody waits longer than the longest delay: failures of handlers that       *)
(* passed the check together do not add up, and a success or time clears them  *)
(* (login_throttle.go:12).                                                     *)
WaitIsBounded == \A k \in DOMAIN throttle : throttle[k].until <= now + MaxDelay

(* Not a property of the code: the use counter of a passkey never goes back.   *)
SignCountGrows ==
    [][\A k \in DOMAIN passkeys : passkeys[k].count <= passkeys'[k].count]_vars
================================================================================

------------------------------ MODULE Accounts ------------------------------
(***************************************************************************)
(* Logins, sessions and devices, password links and second factors         *)
(* (mod/auth), and the deactivation of a device (mod/api/device).          *)
(*                                                                         *)
(* A request reads rows without locking them, and writes, when it commits, *)
(* the columns it changed: the values it computed from what it had read.   *)
(* What it flushes earlier nobody else reads, so its writes are one step.  *)
(* A session ends when a request has found its row and sets is_active to   *)
(* FALSE; one that the SELECT did not see stays.  A rollback is the loss   *)
(* of req[w].                                                              *)
(*                                                                         *)
(* All users are active and below superadmin (UserVpn has the switch of    *)
(* is_active); every login names its device, as those of the UI do.        *)
(***************************************************************************)
EXTENDS Naturals, Sequences, FiniteSets

CONSTANTS
  Users,
  Enforced,       \* users with two_factor_enforced
  Phones,         \* device_fingerprint and imei of what users log in from
  Workers,        \* threads of the API's processes
  MaxRequests,    \* bound: requests
  MaxLinks        \* bound: reset links

ASSUME AccountsAssumption ==
  /\ Enforced \subseteq Users
  /\ MaxRequests \in Nat /\ MaxLinks \in Nat

VARIABLES
  password,   \* per user, the number of passwords so far: the last is in force
  factor,     \* the columns two_factor_secret and two_factor_enabled
  device,     \* the devices table, by phone
  sessions,   \* the active rows of user_sessions
  links,      \* password_reset_requests that had a token, in order
  tokens,     \* mfa_pending tokens handed out and not expired
  req,        \* what each process is doing and has not committed
  opened,     \* sessions opened
  secrets,    \* secrets generated
  started,    \* requests started
  barrier,    \* per user, the password set by the last completed link
  confirmed,  \* secrets of which a code was accepted
  crossed,    \* users with factor columns written over a change not seen
  deleted     \* phones whose device row DELETE /api/devices has deactivated, since
              \* when no login and no deregistration has written to it

vars == <<password, factor, device, sessions, links, tokens, req, opened,
          secrets, started, barrier, confirmed, crossed, deleted>>

NoSecret == 0
Factor == [secret : Nat, enabled : BOOLEAN]

NoRow == [user |-> "none"]
Device == [user : Users, active : BOOLEAN]

\* password: the one that opened it, which is that of the mfa token when there was
\* one; slipped: see Slips.
Session == [id : Nat, user : Users, phone : Phones, password : Nat,
            slipped : BOOLEAN]

\* open: active, not completed and not expired; uses: completions; slipped: it was
\* made, or completed, over a change not seen.
Link == [user : Users, open : BOOLEAN, uses : Nat, slipped : BOOLEAN]

Modes == {"setup", "verify"}
Token == [user : Users, phone : Phones, mode : Modes, password : Nat]

Pcs == {"device", "login", "sessions", "deregister", "link", "reset", "factor",
        "change", "forgot"}

\* old, mine: the factor as it was read, and as the handler sets it; code: the
\* secret whose code was accepted; row: the device as it was read; drop: devices
\* whose sessions it has yet to read, gone: those it has; seen: sessions, or links,
\* it is to end; link: the one it completes.
Request == [pc : Pcs, user : Users, old : Factor, mine : Factor, code : Nat,
            password : Nat, phone : SUBSET Phones, row : Device \cup {NoRow},
            drop : SUBSET Phones, gone : SUBSET Phones, seen : SUBSET Nat,
            link : Nat]
Idle == [pc |-> "idle"]

At(w, pc) == req[w].pc = pc
Busy(w) == req[w] # Idle

\* Type invariant; a session has one row, and names the device it was opened on.
TypeOK ==
  /\ password \in [Users -> Nat]
  /\ factor \in [Users -> Factor]
  /\ device \in [Phones -> Device \cup {NoRow}]
  /\ sessions \subseteq Session
  /\ links \in Seq(Link)
  /\ tokens \subseteq Token
  /\ req \in [Workers -> Request \cup {Idle}]
  /\ opened \in Nat /\ secrets \in Nat /\ started \in Nat
  /\ barrier \in [Users -> Nat]
  /\ confirmed \subseteq Nat
  /\ crossed \subseteq Users
  /\ deleted \subseteq Phones
  /\ \A s \in sessions : s.id <= opened /\ device[s.phone] # NoRow
  /\ \A s, t \in sessions : s.id = t.id => s = t

Init ==
  /\ password = [u \in Users |-> 0]
  /\ factor = [u \in Users |-> [secret |-> NoSecret, enabled |-> FALSE]]
  /\ device = [p \in Phones |-> NoRow]
  /\ sessions = {}
  /\ links = <<>>
  /\ tokens = {}
  /\ req = [w \in Workers |-> Idle]
  /\ opened = 0 /\ secrets = 0 /\ started = 0
  /\ barrier = [u \in Users |-> 0]
  /\ confirmed = {}
  /\ crossed = {}
  /\ deleted = {}

-----------------------------------------------------------------------------
Becomes(w, q) == req' = [req EXCEPT ![w] = q]

Reading(u, pc) ==
  [pc |-> pc, user |-> u, old |-> factor[u], mine |-> factor[u], code |-> NoSecret,
   password |-> password[u], phone |-> {}, row |-> NoRow, drop |-> {}, gone |-> {},
   seen |-> {}, link |-> 0]

Counted == started < MaxRequests /\ started' = started + 1

Start(w, q) ==
  /\ ~Busy(w)
  /\ Counted
  /\ Becomes(w, q)
  /\ UNCHANGED <<password, factor, device, sessions, links, tokens, opened,
                 barrier, confirmed, crossed, deleted>>

\* auth_dependency: a session of the user is active.
SignedIn(u) == \E s \in sessions : s.user = u

SessionIds(S) == {s.id : s \in S}
SessionsOf(u) == {s \in sessions : s.user = u}
SessionsOn(p) == {s \in sessions : s.phone = p}

-----------------------------------------------------------------------------
(* POST /auth/login, /auth/login-token, /auth/login/verify-2fa *)

\* Mutant: the token forgets the device.
TokenWithoutDevice(u, p, mode) ==
  [user |-> u, phone |-> "none", mode |-> mode, password |-> password[u]]

NewToken(u, p, mode) ==
  [user |-> u, phone |-> p, mode |-> mode, password |-> password[u]]

\* begin_login_after_credentials_verified
NeedsSetup(u) == u \in Enforced /\ ~factor[u].enabled

Login(w, u, p) ==
  /\ ~NeedsSetup(u) /\ ~factor[u].enabled
  /\ Start(w, [Reading(u, "device") EXCEPT !.phone = {p}])
  /\ UNCHANGED secrets

\* Nothing is kept of it but what the token says.
LoginHalfway(u, p) ==
  /\ NeedsSetup(u) \/ factor[u].enabled
  /\ Counted
  /\ tokens' = tokens \cup
       {NewToken(u, p, IF NeedsSetup(u) THEN "setup" ELSE "verify")}
  /\ UNCHANGED <<password, factor, device, sessions, links, req, opened, secrets,
                 barrier, confirmed, crossed, deleted>>

\* complete_login_with_two_factor; the token is not used up.
VerifyLogin(w, t) ==
  LET u == t.user IN
  /\ factor[u].secret # NoSecret
  /\ t.mode = "verify" => factor[u].enabled
  /\ Start(w, [Reading(u, "device") EXCEPT
                 !.phone = {t.phone}, !.password = t.password,
                 !.code = factor[u].secret, !.mine.enabled = TRUE])
  /\ UNCHANGED secrets

ExpireToken(t) ==
  /\ tokens' = tokens \ {t}
  /\ UNCHANGED <<password, factor, device, sessions, links, req, opened, secrets,
                 started, barrier, confirmed, crossed, deleted>>

\* upsert_device_action looks for the device.
LoginDevice(w) ==
  /\ At(w, "device")
  /\ \E p \in req[w].phone :
       Becomes(w, [req[w] EXCEPT !.pc = "login", !.row = device[p]])
  /\ UNCHANGED <<password, factor, device, sessions, links, tokens, opened, secrets,
                 started, barrier, confirmed, crossed, deleted>>

\* The UPDATE of the factor names the columns that were changed.
MergedFactor(w) ==
  LET q == req[w] f == factor[q.user] IN
  [secret  |-> IF q.mine.secret # q.old.secret THEN q.mine.secret ELSE f.secret,
   enabled |-> IF q.mine.enabled # q.old.enabled THEN q.mine.enabled ELSE f.enabled]

SaveFactor(w) ==
  LET q == req[w] IN
  /\ factor' = [factor EXCEPT ![q.user] = MergedFactor(w)]
  /\ confirmed' = confirmed \cup ({q.code} \ {NoSecret})
  /\ crossed' = IF q.mine # q.old /\ factor[q.user] # q.old
                THEN crossed \cup {q.user} ELSE crossed

\* A new device row, or the columns of the one it had read. Another login may have
\* inserted the row in between: uq_devices_device_fingerprint.
Conflicts(w, p) == req[w].row = NoRow /\ device[p] # NoRow

SavedDevice(w, p) ==
  LET q == req[w] IN
  IF q.row = NoRow THEN [user |-> q.user, active |-> TRUE]
  ELSE [user   |-> IF q.row.user # q.user THEN q.user ELSE device[p].user,
        active |-> ~q.row.active \/ device[p].active]

\* A reset of the password came after the login had read it, or after the mfa token
\* it completes was made, however long ago; the device was dropped since it read the
\* row; or a request has read what sessions it is to end, and would have ended this
\* one.
Slips(w, p) ==
  \/ req[w].password < barrier[req[w].user]
  \/ ~SavedDevice(w, p).active
  \/ \E v \in Workers : /\ Busy(v)
                        /\ \/ p \in req[v].gone
                           \/ At(v, "reset") /\ req[v].user = req[w].user

NewSession(w, p) ==
  [id |-> opened + 1, user |-> req[w].user, phone |-> p,
   password |-> req[w].password, slipped |-> Slips(w, p)]

\* complete_login, from the device row to the commit.
LoginCommit(w) ==
  /\ At(w, "login")
  /\ \E p \in req[w].phone :
       /\ ~Conflicts(w, p)
       /\ device' = [device EXCEPT ![p] = SavedDevice(w, p)]
       /\ sessions' = sessions \cup {NewSession(w, p)}
       /\ deleted' = IF SavedDevice(w, p).active THEN deleted \ {p} ELSE deleted
  /\ opened' = opened + 1
  /\ SaveFactor(w)
  /\ Becomes(w, Idle)
  /\ UNCHANGED <<password, links, tokens, secrets, started, barrier>>

-----------------------------------------------------------------------------
(* POST /auth/devices/resolve, /auth/devices/{uuid}/deregister *)

ActiveOf(u) == {p \in Phones : device[p] = [user |-> u, active |-> TRUE]}

\* resolve keeps at least one of the user's active devices and drops the others;
\* deregister drops one.
Deregister(w, u, drop) ==
  /\ SignedIn(u)
  /\ drop \subseteq ActiveOf(u) /\ drop # {}
  /\ drop # ActiveOf(u) \/ \E p \in drop : drop = {p}
  /\ Start(w, [Reading(u, "sessions") EXCEPT !.drop = drop])
  /\ UNCHANGED secrets

\* Mutant: only the caller's own sessions.
OwnSessionsOn(w, p) == SessionsOn(p) \cap SessionsOf(req[w].user)

\* revoke_sessions_for_device, whoever's sessions they are.
SessionsToEnd(w, p) == SessionsOn(p)

\* deregister_device takes one device after the other.
DeregisterRead(w) ==
  /\ At(w, "sessions")
  /\ \E p \in req[w].drop :
       Becomes(w, [req[w] EXCEPT
         !.pc = IF req[w].drop = {p} THEN "deregister" ELSE @,
         !.drop = @ \ {p}, !.gone = @ \cup {p},
         !.seen = @ \cup SessionIds(SessionsToEnd(w, p))])
  /\ UNCHANGED <<password, factor, device, sessions, links, tokens, opened, secrets,
                 started, barrier, confirmed, crossed, deleted>>

EndSeen(w) == sessions' = {s \in sessions : s.id \notin req[w].seen}

DeregisterCommit(w) ==
  /\ At(w, "deregister")
  /\ device' = [p \in Phones |-> IF p \in req[w].gone
                                 THEN [device[p] EXCEPT !.active = FALSE]
                                 ELSE device[p]]
  /\ deleted' = deleted \ req[w].gone
  /\ EndSeen(w)
  /\ Becomes(w, Idle)
  /\ UNCHANGED <<password, factor, links, tokens, opened, secrets, started, barrier,
                 confirmed, crossed>>

(* DELETE /api/devices/{uuid}, of the module mod/api/device *)

\* A manager's or a superadmin's.  The sessions on the device go on.  One step: had
\* it read an inactive row, it would have no column to write.
DeleteDevice(p) ==
  /\ device[p] # NoRow
  /\ Counted
  /\ device' = [device EXCEPT ![p].active = FALSE]
  /\ deleted' = IF device[p].active THEN deleted \cup {p} ELSE deleted
  /\ UNCHANGED <<password, factor, sessions, links, tokens, req, opened, secrets,
                 barrier, confirmed, crossed>>

-----------------------------------------------------------------------------
(* POST /auth/forgot-password, /auth/reset-password, /auth/change-password *)

OpenLinks(u) == {l \in DOMAIN links : links[l].user = u /\ links[l].open}

\* invalidate_pending_password_reset_requests reads what it is to close.
Forgot(w, u) ==
  /\ Start(w, [Reading(u, "forgot") EXCEPT !.seen = OpenLinks(u)])
  /\ UNCHANGED secrets

\* The mail with the link goes out before, or by way of, the commit.
ForgotCommit(w) ==
  LET q == req[w]
      new == [user |-> q.user, open |-> TRUE, uses |-> 0,
              slipped |-> OpenLinks(q.user) \ q.seen # {}]
  IN
  /\ At(w, "forgot")
  /\ Len(links) < MaxLinks
  /\ links' = Append([l \in DOMAIN links |->
                        [links[l] EXCEPT !.open = @ /\ l \notin q.seen]], new)
  /\ Becomes(w, Idle)
  /\ UNCHANGED <<password, factor, device, sessions, tokens, opened, secrets,
                 started, barrier, confirmed, crossed, deleted>>

ExpireLink(l) ==
  /\ links[l].open
  /\ links' = [links EXCEPT ![l].open = FALSE]
  /\ UNCHANGED <<password, factor, device, sessions, tokens, req, opened, secrets,
                 started, barrier, confirmed, crossed, deleted>>

\* process_reset_password finds the request of the link, then, after the password
\* history, the sessions.
Reset(w, l) ==
  /\ links[l].open
  /\ Start(w, [Reading(links[l].user, "link") EXCEPT !.link = l])
  /\ UNCHANGED secrets

ResetRead(w) ==
  /\ At(w, "link")
  /\ Becomes(w, [req[w] EXCEPT !.pc = "reset",
                               !.seen = SessionIds(SessionsOf(req[w].user))])
  /\ UNCHANGED <<password, factor, device, sessions, links, tokens, opened, secrets,
                 started, barrier, confirmed, crossed, deleted>>

NextPassword(w) == password' = [password EXCEPT ![req[w].user] = @ + 1]

Completed(link) ==
  [link EXCEPT !.open = FALSE, !.uses = @ + 1, !.slipped = @ \/ ~link.open]

ResetCommit(w) ==
  /\ At(w, "reset")
  /\ NextPassword(w)
  /\ barrier' = [barrier EXCEPT ![req[w].user] = password'[req[w].user]]
  /\ links' = [links EXCEPT ![req[w].link] = Completed(@)]
  /\ EndSeen(w)
  /\ Becomes(w, Idle)
  /\ UNCHANGED <<factor, device, tokens, opened, secrets, started, confirmed, crossed,
                 deleted>>

\* Whoever is signed in and knows the password; the sessions go on.
Change(w, u) ==
  /\ SignedIn(u)
  /\ Start(w, Reading(u, "change"))
  /\ UNCHANGED secrets

ChangeCommit(w) ==
  /\ At(w, "change")
  /\ NextPassword(w)
  /\ Becomes(w, Idle)
  /\ UNCHANGED <<factor, device, sessions, links, tokens, opened, secrets, started,
                 barrier, confirmed, crossed, deleted>>

-----------------------------------------------------------------------------
(* POST /auth/2fa/..., /auth/login/2fa/setup, /users/{uuid}/reset-2fa *)

\* Mutant: a new secret under a factor that stays enabled.
NewSecretOnly(u) == [factor[u] EXCEPT !.secret = secrets + 1]

NewSecret(u) == [secret |-> secrets + 1, enabled |-> FALSE]

\* start_authenticated_two_factor_setup; start_pending_login_two_factor_setup, with
\* any token that says so.
Setup(w, u) ==
  /\ SignedIn(u) \/ \E t \in tokens : t.user = u /\ t.mode = "setup"
  /\ secrets' = secrets + 1
  /\ Start(w, [Reading(u, "factor") EXCEPT !.mine = NewSecret(u)])

\* confirm_two_factor_setup, with the right code.
Confirm(w, u) ==
  /\ SignedIn(u)
  /\ factor[u].secret # NoSecret
  /\ Start(w, [Reading(u, "factor") EXCEPT !.mine.enabled = TRUE,
                                           !.code = factor[u].secret])
  /\ UNCHANGED secrets

\* disable_user_two_factor, reset_user_two_factor_self and the superadmin's, who
\* needs no session of the user.
SwitchOff(w, u) ==
  /\ Start(w, [Reading(u, "factor") EXCEPT
                 !.mine = [secret |-> NoSecret, enabled |-> FALSE]])
  /\ UNCHANGED secrets

FactorCommit(w) ==
  /\ At(w, "factor")
  /\ SaveFactor(w)
  /\ Becomes(w, Idle)
  /\ UNCHANGED <<password, device, sessions, links, tokens, opened, secrets, started,
                 barrier, deleted>>

-----------------------------------------------------------------------------
\* An exception or the death of the process: the transaction is rolled back.
Fail(w) ==
  /\ Busy(w)
  /\ Becomes(w, Idle)
  /\ UNCHANGED <<password, factor, device, sessions, links, tokens, opened, secrets,
                 started, barrier, confirmed, crossed, deleted>>

Step(w) ==
  \/ LoginDevice(w) \/ LoginCommit(w) \/ DeregisterRead(w) \/ DeregisterCommit(w)
  \/ ForgotCommit(w) \/ ResetRead(w) \/ ResetCommit(w) \/ ChangeCommit(w)
  \/ FactorCommit(w)

Next ==
  \/ \E w \in Workers, u \in Users :
       \/ \E p \in Phones : Login(w, u, p)
       \/ \E drop \in SUBSET Phones : Deregister(w, u, drop)
       \/ Forgot(w, u) \/ Change(w, u)
       \/ Setup(w, u) \/ Confirm(w, u) \/ SwitchOff(w, u)
  \/ \E u \in Users, p \in Phones : LoginHalfway(u, p)
  \/ \E p \in Phones : DeleteDevice(p)
  \/ \E w \in Workers, t \in tokens : VerifyLogin(w, t)
  \/ \E w \in Workers, l \in DOMAIN links : Reset(w, l)
  \/ \E t \in tokens : ExpireToken(t)
  \/ \E l \in DOMAIN links : ExpireLink(l)
  \/ \E w \in Workers : Step(w) \/ Fail(w)

Spec == Init /\ [][Next]_vars

-----------------------------------------------------------------------------
(* Properties *)

\* "Deregister a device and revoke all its sessions": a session that is still active
\* was opened on a device that still is, whoever it belongs to by now.  Only DELETE
\* /api/devices, which says nothing of sessions, leaves them, and the device cannot
\* be deregistered then, unless that was under way, before a login takes it up again.
OverWithDevice ==
  \A s \in sessions : device[s.phone].active \/ s.phone \in deleted \/ s.slipped

\* "Revokes all active sessions for the user on success": nobody is signed in by a
\* password from before the last reset.
OverWithPassword ==
  \A s \in sessions : s.password >= barrier[s.user] \/ s.slipped

\* A link is completed once, and only the last one sent is open.
OverWithUse ==
  /\ \A l \in DOMAIN links : links[l].uses <= 1 \/ links[l].slipped
  /\ \A l, m \in DOMAIN links :
       (l < m /\ links[l].open /\ links[m].open /\ links[l].user = links[m].user)
         => links[m].slipped

\* What was ended is over, but for requests that had begun before it was.
EndedIsOver == OverWithDevice /\ OverWithPassword /\ OverWithUse

\* A second factor is asked for only with a secret whose codes its user has shown to
\* have, whatever set-ups, confirmations and resets were begun and left: unless two
\* of them wrote over each other, column by column.
SecretIsConfirmed ==
  \A u \in Users :
    factor[u].enabled => factor[u].secret \in confirmed \/ u \in crossed
=============================================================================

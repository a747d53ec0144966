------------------------------ MODULE UserVpn ------------------------------
(***************************************************************************)
(* Onboarding and VPN profiles: the users row, the devices the provisioner *)
(* keeps for its user, and the welcome mails (mod/api/user,                *)
(* mod/auth/onboarding_vpn.py, mod/jobs/onboard_emails.py).                *)
(*                                                                         *)
(* A request reads the row without a lock, calls the provisioner by HTTP,  *)
(* and writes, of the columns it changed, the values it computed from what *)
(* it had read.  The first UPDATE takes the row lock until the commit:     *)
(* onboarding flushes the new password before it calls anyone, the other   *)
(* requests write when they commit.  A rollback is the loss of req[w].     *)
(* Neither mails nor devices are rolled back.                              *)
(*                                                                         *)
(* Of the provisioner only the devices that are up are kept: one is made   *)
(* by POST /v1/devices, and lives until it is revoked (DeviceRegistry).    *)
(***************************************************************************)
EXTENDS Naturals, FiniteSets

CONSTANTS
  Users,          \* users.id of those who are not superadmins
  Workers,        \* API processes and Celery workers
  MaxRequests,    \* bound: single requests, and users taken up by the job
  MaxEvents       \* bound: kinds of event that may happen in one behaviour

ASSUME UserVpnAssumption ==
  /\ Users \subseteq Nat \ {0} /\ IsFiniteSet(Users)
  /\ MaxRequests \in Nat
  /\ MaxEvents \in Nat

VARIABLES
  row,        \* the committed users rows
  devices,    \* the provisioner's active devices
  inbox,      \* the last welcome mail of each user
  req,        \* what each process is doing and has not committed
  temps,      \* temporary passwords generated
  started,    \* requests started, each user of a job counted
  events      \* what has happened that a property excuses

vars == <<row, devices, inbox, req, temps, started, events>>

-----------------------------------------------------------------------------
(* A password is the number of the temporary one it is, or 0: the user's own, *)
(* or the unknown one of an import.                                          *)

Own == 0
NoDevice == 0
Nobody == 0

\* must: must_change_password; sent: onboard_email_sent_at is set.
Row == [pw : Nat, must : BOOLEAN, sent : BOOLEAN, active : BOOLEAN, vpn : Nat]

\* user: whose onboarding or profile it was made for, or Nobody's.
Device == [id : Nat \ {0}, user : Users \cup {Nobody}]

\* config: the device whose config and QR code are attached.
Mail == [pw : Nat \ {0}, config : Nat]
NoMail == [pw |-> 0]

Pcs == {"next", "password", "provision", "config", "mail", "commit",
        "detach", "create", "save"}

\* old, mine: the columns as they were read, and as the handler has set them;
\* locked: it has flushed them; job, rest: a run of the job, and the users it has
\* yet to take; then: where a revocation goes on; config: what the mail will carry.
Request == [pc : Pcs, user : Users, old : Row, mine : Row, locked : BOOLEAN,
            job : BOOLEAN, rest : SUBSET Users, then : Pcs, config : Nat]
Idle == [pc |-> "idle"]

Events ==
  { "fault",       \* a call, a mail, a commit or a process failed
    "stale",       \* a row had changed between its reading and its writing
    "welcomed" }   \* a listed user was onboarded before the job came to them

Busy(w) == req[w] # Idle
At(w, pc) == req[w].pc = pc

\* Type invariant; one transaction at a time has written a user's row.
TypeOK ==
  /\ row \in [Users -> Row]
  /\ devices \subseteq Device
  /\ inbox \in [Users -> Mail \cup {NoMail}]
  /\ req \in [Workers -> Request \cup {Idle}]
  /\ temps \in Nat /\ started \in Nat
  /\ events \subseteq Events
  /\ \A v, w \in Workers :
       (Busy(v) /\ Busy(w) /\ req[v].locked /\ req[w].locked
          /\ req[v].user = req[w].user) => v = w

Imported == [pw |-> Own, must |-> TRUE, sent |-> FALSE, active |-> TRUE,
             vpn |-> NoDevice]
Created == [Imported EXCEPT !.must = FALSE]

Init ==
  /\ row \in [Users -> {Imported, Created}]
  /\ devices = {}
  /\ inbox = [u \in Users |-> NoMail]
  /\ req = [w \in Workers |-> Idle]
  /\ temps = 0
  /\ started = 0
  /\ events = {}

-----------------------------------------------------------------------------
Note(new) ==
  /\ events' = events \cup new
  /\ Cardinality(events') <= MaxEvents

Fault == Note({"fault"})

Becomes(w, q) == req' = [req EXCEPT ![w] = q]
Goto(w, pc) == Becomes(w, [req[w] EXCEPT !.pc = pc])

\* Some other transaction has written the user's row: an UPDATE waits.
Blocked(w) ==
  \E v \in Workers \ {w} :
    Busy(v) /\ req[v].locked /\ req[v].user = req[w].user

\* What the row becomes: the UPDATE names the columns that were changed.
Merged(w) ==
  LET r == row[req[w].user] IN
  [c \in DOMAIN r |-> IF req[w].mine[c] # req[w].old[c] THEN req[w].mine[c] ELSE r[c]]

Staleness(w) == IF row[req[w].user] # req[w].old THEN {"stale"} ELSE {}

Reading(u, pc) ==
  [pc |-> pc, user |-> u, old |-> row[u], mine |-> row[u], locked |-> FALSE,
   job |-> FALSE, rest |-> {}, then |-> pc, config |-> NoDevice]

Start(w, q) ==
  /\ ~Busy(w)
  /\ started' = started + 1 + Cardinality(q.rest)
  /\ started' <= MaxRequests
  /\ Becomes(w, q)
  /\ UNCHANGED <<row, devices, inbox, temps, events>>

\* The end of a request, and the job's way to its next user.
Ended(w) ==
  IF req[w].rest = {} THEN Idle
  ELSE [req[w] EXCEPT !.pc = "next", !.locked = FALSE]

-----------------------------------------------------------------------------
(* Onboarding: POST /users/{uuid}/onboard, and the job for all who wait *)

\* 403 for an inactive user.
StartOnboard(w, u) == row[u].active /\ Start(w, Reading(u, "password"))

\* Mutant: the mail already sent is not looked at.
PendingByPassword == {u \in Users : row[u].active /\ row[u].must}

\* listUsersPendingOnboardEmail
Pending == {u \in Users : row[u].active /\ row[u].must /\ ~row[u].sent}

JobReading(u, rest) ==
  [Reading(u, "password") EXCEPT !.job = TRUE, !.rest = rest]

Least(us) == CHOOSE u \in us : \A v \in us : u <= v

\* The first user's row stays in the session as the SELECT of the list read it.
StartJob(w) ==
  /\ Pending # {}
  /\ LET u == Least(Pending) IN Start(w, JobReading(u, Pending \ {u}))

\* After a commit or a rollback the session reads anew. Whether the user is still
\* pending is not asked.
JobNext(w) ==
  /\ At(w, "next")
  /\ LET u == Least(req[w].rest)
         rest == req[w].rest \ {u}
     IN \/ /\ row[u].active
           /\ Becomes(w, JobReading(u, rest))
           /\ Note(IF u \in Pending THEN {} ELSE {"welcomed"})
        \/ /\ ~row[u].active
           /\ Becomes(w, IF rest = {} THEN Idle ELSE [req[w] EXCEPT !.rest = rest])
           /\ UNCHANGED events
  /\ UNCHANGED <<row, devices, inbox, temps, started>>

\* Mutant: users who have changed their password before need not do it again.
ResetOnly(w) == [req[w].mine EXCEPT !.pw = temps + 1]

\* The new temporary password, to be changed at the next login.
Reset(w) == [req[w].mine EXCEPT !.pw = temps + 1, !.must = TRUE]

\* Mutant: the password is written with the commit.
OnboardPasswordUnflushed(w) ==
  /\ At(w, "password")
  /\ temps' = temps + 1
  /\ Becomes(w, [req[w] EXCEPT
       !.mine = Reset(w),
       !.pc = IF req[w].mine.vpn = NoDevice THEN "provision" ELSE "mail"])
  /\ Note(Staleness(w))
  /\ UNCHANGED <<row, devices, inbox, started>>

\* Mutant: every onboarding makes a device.
OnboardPasswordProvisioning(w) ==
  /\ At(w, "password")
  /\ ~Blocked(w)
  /\ temps' = temps + 1
  /\ Becomes(w, [req[w] EXCEPT !.locked = TRUE, !.mine = Reset(w), !.pc = "provision"])
  /\ Note(Staleness(w))
  /\ UNCHANGED <<row, devices, inbox, started>>

\* onboard_existing_user: a new temporary password, flushed.
OnboardPassword(w) ==
  /\ At(w, "password")
  /\ ~Blocked(w)
  /\ temps' = temps + 1
  /\ Becomes(w, [req[w] EXCEPT
       !.locked = TRUE,
       !.mine = Reset(w),
       !.pc = IF req[w].mine.vpn = NoDevice THEN "provision" ELSE "mail"])
  /\ Note(Staleness(w))
  /\ UNCHANGED <<row, devices, inbox, started>>

DeviceFor(u) == [id |-> Cardinality(devices) + 1, user |-> u]
NewDevice(w) == DeviceFor(req[w].user)

\* POST /v1/devices fails, or its answer is lost.
CreateFails(w) ==
  /\ Fault
  /\ devices' = devices \/ devices' = devices \cup {NewDevice(w)}

\* provision_user_vpn_for_onboarding; any failure only costs the attachments.
Provision(w) ==
  /\ At(w, "provision")
  /\ \/ /\ devices' = devices \cup {NewDevice(w)}
        /\ Becomes(w, [req[w] EXCEPT !.pc = "config", !.mine.vpn = NewDevice(w).id])
        /\ UNCHANGED events
     \/ CreateFails(w) /\ Goto(w, "mail")
  /\ UNCHANGED <<row, inbox, temps, started>>

FetchConfig(w) ==
  /\ At(w, "config")
  /\ \/ /\ Becomes(w, [req[w] EXCEPT !.pc = "mail", !.config = req[w].mine.vpn])
        /\ UNCHANGED events
     \/ Fault /\ Goto(w, "mail")
  /\ UNCHANGED <<row, devices, inbox, temps, started>>

\* Mutant: the password the row had before.
WelcomeMailOfRow(w) == [pw |-> row[req[w].user].pw, config |-> req[w].config]

WelcomeMail(w) == [pw |-> req[w].mine.pw, config |-> req[w].config]

\* The attempts of deliver_welcome_onboarding_email_with_retry; one that failed may
\* have arrived.
SendMail(w) ==
  LET sent == [inbox EXCEPT ![req[w].user] = WelcomeMail(w)] IN
  /\ At(w, "mail")
  /\ \/ /\ inbox' = sent
        /\ Becomes(w, [req[w] EXCEPT !.pc = "commit", !.mine.sent = TRUE])
        /\ UNCHANGED events
     \/ Fault /\ inbox' \in {inbox, sent} /\ Goto(w, "commit")
  /\ UNCHANGED <<row, devices, temps, started>>

OnboardCommit(w) ==
  /\ At(w, "commit")
  /\ ~Blocked(w)
  /\ \/ row' = [row EXCEPT ![req[w].user] = Merged(w)] /\ UNCHANGED events
     \/ Fault /\ UNCHANGED row
  /\ Becomes(w, Ended(w))
  /\ UNCHANGED <<devices, inbox, temps, started>>

-----------------------------------------------------------------------------
(* VPN profiles, and the switch of is_active *)

Detaching(u, then) ==
  [Reading(u, IF row[u].vpn = NoDevice THEN then ELSE "detach")
     EXCEPT !.then = then]

\* POST /users/generate-vpn
StartGenerate(w, u) == Start(w, Detaching(u, "create"))

\* GET /users/{uuid}/vpn/revoke; 404 without a profile.
StartRevoke(w, u) == row[u].vpn # NoDevice /\ Start(w, Detaching(u, "save"))

\* PUT /users/{uuid} with is_active
StartDeactivate(w, u) ==
  Start(w, [Detaching(u, "save") EXCEPT !.mine.active = FALSE])
StartActivate(w, u) ==
  ~row[u].active /\ Start(w, [Reading(u, "save") EXCEPT !.mine.active = TRUE])

\* revoke_user_vpn_profile: a GET, where the provisioner routes a POST. Its 405 is
\* below 500: the device stays, and the row is to forget it.
Detach(w) ==
  /\ At(w, "detach")
  /\ \/ /\ Becomes(w, [req[w] EXCEPT !.pc = req[w].then, !.mine.vpn = NoDevice])
        /\ UNCHANGED events
     \/ Fault /\ Becomes(w, Idle)
  /\ UNCHANGED <<row, devices, inbox, temps, started>>

Create(w) ==
  /\ At(w, "create")
  /\ \/ /\ devices' = devices \cup {NewDevice(w)}
        /\ Becomes(w, [req[w] EXCEPT !.pc = "save", !.mine.vpn = NewDevice(w).id])
        /\ UNCHANGED events
     \/ CreateFails(w) /\ Becomes(w, Idle)
  /\ UNCHANGED <<row, inbox, temps, started>>

\* POST /api/vpn/devices by a superadmin: a device for whatever name and address they
\* give, written to no users row; with its answer lost, it may be there too. (Their
\* revocation is the same GET as that of Detach.)
CreateByAdmin ==
  /\ started < MaxRequests /\ started' = started + 1
  /\ devices' = devices \cup {DeviceFor(Nobody)}
  /\ UNCHANGED <<row, inbox, req, temps, events>>

\* The commit. PUT may still answer 4xx, after the revocation, for another field.
Save(w) ==
  /\ At(w, "save")
  /\ ~Blocked(w)
  /\ \/ row' = [row EXCEPT ![req[w].user] = Merged(w)] /\ Note(Staleness(w))
     \/ /\ req[w].mine.active # req[w].old.active
        /\ UNCHANGED <<row, events>>
     \/ Fault /\ UNCHANGED row
  /\ Becomes(w, Idle)
  /\ UNCHANGED <<devices, inbox, temps, started>>

\* POST /auth/password/change by a user who has got in with a mailed password.
StartChange(w, u) ==
  /\ row[u].active /\ row[u].pw # Own /\ inbox[u].pw = row[u].pw
  /\ Start(w, [Reading(u, "save") EXCEPT !.mine.pw = Own, !.mine.must = FALSE])

-----------------------------------------------------------------------------
\* The process dies, or the hard time limit of a task ends it.
Crash(w) ==
  /\ Busy(w)
  /\ Fault
  /\ Becomes(w, Idle)
  /\ UNCHANGED <<row, devices, inbox, temps, started>>

Step(w) ==
  \/ JobNext(w) \/ OnboardPassword(w) \/ Provision(w) \/ FetchConfig(w)
  \/ SendMail(w) \/ OnboardCommit(w)
  \/ Detach(w) \/ Create(w) \/ Save(w)

Next ==
  \/ \E w \in Workers, u \in Users :
       \/ StartOnboard(w, u) \/ StartGenerate(w, u) \/ StartRevoke(w, u)
       \/ StartDeactivate(w, u) \/ StartActivate(w, u) \/ StartChange(w, u)
  \/ \E w \in Workers : StartJob(w) \/ Step(w) \/ Crash(w)
  \/ CreateByAdmin

Spec == Init /\ [][Next]_vars

-----------------------------------------------------------------------------
(* Properties *)

Excused(kinds) == events \cap kinds # {}

\* The last mail's password is in force unless the user has replaced it: runs of
\* the job and single onboardings of one user send their mails and commit in one
\* order, since the row is locked from before the mail to the commit.
LastMailWorks ==
  \A u \in Users :
    (inbox[u] # NoMail /\ \A w \in Workers : At(w, "commit") => req[w].user # u)
      => row[u].pw \in {Own, inbox[u].pw} \/ Excused({"fault"})

\* A password that went through a mail must be changed at the next login. The
\* columns are written one by one, so an onboarding over a password change that it
\* has not seen can leave the temporary password without the obligation.
TemporaryMustChange ==
  \A u \in Users : row[u].pw # Own => row[u].must \/ Excused({"stale"})

Carries(w, d) ==
  Busy(w) /\ req[w].pc # "next" /\ req[w].user = d.user /\ req[w].mine.vpn = d.id

\* Its user's row names a device, or a request is about to name it there.
Kept(d) ==
  /\ d.user # Nobody
  /\ \/ row[d.user].vpn = d.id
     \/ \E w \in Workers : Carries(w, d) /\ req[w].old.vpn # d.id

\* What takes a device's name from it: a commit of one who had it detached, a commit
\* that names or drops a device over a row that has changed since its reading, or the
\* loss of the transaction that was to name it.
Detaches(w, d) == At(w, "save") /\ req[w].old.vpn = d.id /\ req[w].mine.vpn # d.id
Overwrites(w) == req[w].mine.vpn # req[w].old.vpn /\ row[req[w].user] # req[w].old
Loses(w, d) == Carries(w, d) /\ UNCHANGED row /\ "fault" \in events'

\* A device is made to be named, in the row or by the request that made it, and its
\* name does not go but for one of these reasons, each a matter of the very request
\* that takes the step: whatever mixture of onboardings, jobs, profiles, switches and
\* password changes of one user is under way.  A superadmin's device has no name.
NamesGoWithReason ==
  [][/\ \A d \in devices' \ devices :
          \/ d.user = Nobody
          \/ \E w \in Workers : Carries(w, d)'
          \/ "fault" \in events'
     /\ \A d \in devices : (Kept(d) /\ ~Kept(d)') =>
          \E w \in Workers :
            /\ req'[w] # req[w] /\ req[w].user = d.user
            /\ Detaches(w, d) \/ Overwrites(w) \/ Loses(w, d)]_vars

\* The job is for users "with must_change_password=true and no
\* onboard_email_sent_at": it replaces no password of a user already welcomed.
\* It does for those it had listed, or read, before another request welcomed them.
JobKeepsWelcomed ==
  [][\A w \in Workers, u \in Users :
       (At(w, "commit") /\ ~At(w, "commit")' /\ req[w].job /\ req[w].user = u
          /\ row[u].sent /\ row'[u].pw # row[u].pw)
         => Excused({"welcomed", "stale"})]_vars

\* "Replacing an existing profile revokes the old device first": with every call
\* answered, a user has one device.
OneDevicePerUser ==
  \A u \in Users :
    Cardinality({d \in devices : d.user = u}) <= 1 \/ Excused({"fault"})
=============================================================================

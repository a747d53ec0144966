--------------------------- MODULE ClientSession ---------------------------
(***************************************************************************)
(* The session as one browser tab keeps it (ui/src/services/login-service, *)
(* api/axios-instance, hooks/use-session-user, the guards of router/ and   *)
(* the caches of services/ and lib/).                                      *)
(*                                                                         *)
(* A login puts the token and the user into localStorage, which all tabs   *)
(* share.  A tab keeps copies of its own: the Authorization header of its  *)
(* axios client, the user it has drawn, answers it has cached and requests *)
(* it has not finished.  localStorage tells it of a change made elsewhere  *)
(* some time later, and only what is drawn listens.  The other tabs are    *)
(* seen through localStorage alone; the server is the list of the sessions *)
(* it has given out and which of them live.                                *)
(***************************************************************************)
EXTENDS Naturals, Sequences, FiniteSets

CONSTANTS
  Users,
  MaxSessions,    \* bound: logins the server grants
  MaxRequests,    \* bound: requests in flight
  MaxEvents       \* bound: kinds of event that may happen in one behaviour

ASSUME SessionAssumption == {MaxSessions, MaxRequests, MaxEvents} \subseteq Nat

VARIABLES
  sessions,   \* what the server has given out, in order
  stored,     \* localStorage: the session whose token and user it holds, or none
  tab,        \* the tab
  requests,   \* its requests on their way, and answers it has not read
  events      \* what has happened that a property excuses

vars == <<sessions, stored, tab, requests, events>>

-----------------------------------------------------------------------------
NoSession == 0
SessionIds == 0..MaxSessions
NoUser == "nobody"

Events ==
  { "elsewhere",    \* another tab changed the session
    "unprimed",     \* a request went out without the session that was stored
    "late",         \* a list came after the cache it was fetched for was cleared
    "over" }        \* a login without a logout before it

\* been: the history has a page of the application.  header: axios' default
\* Authorization.  drawn: the session useSessionUser read last.  leaving:
\* location.replace goes on.  muted: handlingSessionRevoked.
\* asked, granted: a login on its way.
\* list: the memory caches of warehouses, filter options and release notes, by
\* the session that fetched them.  config, configFor: formConfigCache by the
\* session that fetched it, and formConfigCacheToken.
Tab == [page : {"login", "app"}, been : BOOLEAN, header : SessionIds, drawn : SessionIds,
        leaving : BOOLEAN, muted : BOOLEAN, asked : Users \cup {NoUser}, granted : SessionIds,
        list : SessionIds, config : SessionIds, configFor : SessionIds]

\* under: what was stored when the request was made.  shared: the in-flight
\* variable of the cache still points to it.
Request == [kind : {"call", "list", "config"}, auth : SessionIds,
            under : SessionIds, shared : BOOLEAN, answer : {"none", "ok", "denied"}]

InFlight(kind) == {r \in requests : r.kind = kind /\ r.shared}

\* Type invariant; a cache has one request that later callers join.
TypeOK ==
  /\ sessions \in Seq([user : Users, live : BOOLEAN])
  /\ Len(sessions) <= MaxSessions
  /\ stored \in SessionIds
  /\ tab \in Tab
  /\ requests \subseteq Request
  /\ events \subseteq Events
  /\ InFlight("call") = {}
  /\ \A kind \in {"list", "config"} : Cardinality(InFlight(kind)) <= 1

\* The modules of the page have just been loaded.
Loaded(page) ==
  [page |-> page, been |-> page = "app", header |-> stored, drawn |-> stored,
   leaving |-> FALSE, muted |-> FALSE, asked |-> NoUser, granted |-> NoSession,
   list |-> NoSession, config |-> NoSession, configFor |-> NoSession]

Init ==
  /\ sessions = <<>>
  /\ stored = NoSession
  /\ tab = Loaded("login")
  /\ requests = {}
  /\ events = {}

Note(new) ==
  /\ events' = events \cup new
  /\ Cardinality(events') <= MaxEvents

UserOf(i) == IF i = NoSession THEN NoUser ELSE sessions[i].user
Live(i) == i # NoSession /\ sessions[i].live

-----------------------------------------------------------------------------
(* The page *)

\* The header and the user come from localStorage, and the guards send a tab
\* without a token to the login page.
Load(page) ==
  /\ stored = NoSession => page = "login"
  /\ tab' = [Loaded(page) EXCEPT !.been = @ \/ tab.been]
  /\ requests' = {}
  /\ UNCHANGED <<sessions, stored, events>>

\* Reloaded, or another address typed in.
Reload == ~tab.leaving /\ \E page \in {"login", "app"} : Load(page)

\* location.replace of redirectToLoginRevoked.
Revoked == tab.leaving /\ Load("login")

\* The storage event: useSessionUser reads again, and the guards follow.
Notice ==
  /\ tab.drawn # stored
  /\ tab' = [tab EXCEPT !.drawn = stored,
                        !.page = IF stored = NoSession THEN "login" ELSE @]
  /\ UNCHANGED <<sessions, stored, requests, events>>

\* Back from the login page, within the application: the guard finds a token.
Back ==
  /\ tab.page = "login" /\ tab.been /\ ~tab.leaving
  /\ stored # NoSession
  /\ tab' = [tab EXCEPT !.page = "app", !.drawn = stored]
  /\ UNCHANGED <<sessions, stored, requests, events>>

-----------------------------------------------------------------------------
(* The session *)

Granted(u) == Append(sessions, [user |-> u, live |-> TRUE])
CanGrant == Len(sessions) < MaxSessions

\* Another tab logs out, or meets a 401.
OtherForgets ==
  /\ stored # NoSession
  /\ stored' = NoSession
  /\ Note({"elsewhere"})
  /\ UNCHANGED <<sessions, tab, requests>>

OtherSignsIn(u) ==
  /\ CanGrant
  /\ sessions' = Granted(u)
  /\ stored' = Len(sessions')
  /\ Note({"elsewhere"})
  /\ UNCHANGED <<tab, requests>>

\* Expired, revoked from another device, or its user deactivated.
End(i) ==
  /\ sessions[i].live
  /\ sessions' = [sessions EXCEPT ![i].live = FALSE]
  /\ UNCHANGED <<stored, tab, requests, events>>

Unshared(rs, kinds) ==
  {IF r.kind \in kinds THEN [r EXCEPT !.shared = FALSE] ELSE r : r \in rs}

\* invalidateOpsInspectionFormConfigCache, on the event of the same tab.
Invalidated == [tab EXCEPT !.config = NoSession, !.configFor = NoSession]

\* Mutant: the session goes and the lists stay.
ClearedButLists ==
  [Invalidated EXCEPT !.header = NoSession, !.drawn = NoSession, !.page = "login"]

\* clearAuthenticatedSession: the lists' caches, localStorage, the event, the
\* header; the guards follow.
Cleared ==
  [Invalidated EXCEPT !.list = NoSession, !.header = NoSession, !.drawn = NoSession,
                      !.page = "login"]

\* Log out, sign-in cancelled, no access from this network, password reset: the
\* server is not told, and no request is aborted.
Forget ==
  /\ ~tab.leaving
  /\ stored' = NoSession
  /\ tab' = Cleared
  /\ requests' = Unshared(requests, {"list", "config"})
  /\ UNCHANGED <<sessions, events>>

SignIn(u) ==
  /\ tab.page = "login" /\ ~tab.leaving
  /\ tab.asked = NoUser
  /\ tab' = [tab EXCEPT !.asked = u]
  /\ UNCHANGED <<sessions, stored, requests, events>>

Grant ==
  /\ tab.asked # NoUser /\ tab.granted = NoSession
  /\ CanGrant
  /\ sessions' = Granted(tab.asked)
  /\ tab' = [tab EXCEPT !.granted = Len(sessions')]
  /\ UNCHANGED <<stored, requests, events>>

\* Wrong password, or no answer: the button is on again.
SignInFails ==
  /\ tab.asked # NoUser
  /\ tab' = [tab EXCEPT !.asked = NoUser, !.granted = NoSession]
  /\ UNCHANGED <<sessions, stored, requests, events>>

Primed(i) ==
  [Invalidated EXCEPT !.header = i, !.drawn = i, !.page = "app", !.been = TRUE,
                      !.asked = NoUser, !.granted = NoSession]

\* Mutant: the configuration that is being fetched survives the login.
SignedInJoining ==
  /\ tab.granted # NoSession
  /\ stored' = tab.granted
  /\ tab' = Primed(tab.granted)
  /\ Note(IF stored # NoSession THEN {"over"} ELSE {})
  /\ UNCHANGED <<sessions, requests>>

\* Mutant: axios keeps the header of the session before.
SignedInUnprimed ==
  /\ tab.granted # NoSession
  /\ stored' = tab.granted
  /\ tab' = [Primed(tab.granted) EXCEPT !.header = tab.header]
  /\ requests' = Unshared(requests, {"config"})
  /\ Note(IF stored # NoSession THEN {"over"} ELSE {})
  /\ UNCHANGED sessions

\* persistAuthenticatedSession: localStorage, the header, the event.  The lists'
\* caches are left alone.
SignedIn ==
  /\ tab.granted # NoSession
  /\ stored' = tab.granted
  /\ tab' = Primed(tab.granted)
  /\ requests' = Unshared(requests, {"config"})
  /\ Note(IF stored # NoSession THEN {"over"} ELSE {})
  /\ UNCHANGED sessions

-----------------------------------------------------------------------------
(* Requests *)

Send(kind, shared) ==
  /\ tab.page = "app" /\ ~tab.leaving
  /\ Cardinality(requests) < MaxRequests
  /\ requests' = requests \cup
       {[kind |-> kind, auth |-> tab.header, under |-> stored,
         shared |-> shared, answer |-> "none"]}
  /\ Note(IF tab.header # stored THEN {"unprimed"} ELSE {})
  /\ UNCHANGED <<sessions, stored, tab>>

Call == Send("call", FALSE)

\* fetchAllWarehouses and its like: the cache, what is in flight, or a request.
FetchList == tab.list = NoSession /\ InFlight("list") = {} /\ Send("list", TRUE)

CachedConfig == tab.config # NoSession /\ tab.configFor = stored

\* Mutant: no single flight.
FetchConfigEach == stored # NoSession /\ ~CachedConfig /\ Send("config", TRUE)

\* loadOpsInspectionFormConfig, with a token stored.
FetchConfig ==
  /\ stored # NoSession
  /\ ~CachedConfig /\ InFlight("config") = {}
  /\ Send("config", TRUE)

\* OPS_FORM_CONFIG_TTL_MS
ConfigAges ==
  /\ tab.config # NoSession
  /\ tab' = Invalidated
  /\ UNCHANGED <<sessions, stored, requests, events>>

\* verify_user_session_active.
Serve(r) ==
  /\ r.answer = "none"
  /\ requests' = (requests \ {r}) \cup
       {[r EXCEPT !.answer = IF Live(r.auth) THEN "ok" ELSE "denied"]}
  /\ UNCHANGED <<sessions, stored, tab, events>>

\* The promise is settled: its finally clears the in-flight variable, whatever
\* request that points to by now.
Settled(r) == Unshared(requests \ {r}, {r.kind})

Lose(r) ==
  /\ requests' = Settled(r)
  /\ UNCHANGED <<sessions, stored, tab, events>>

CallDone(r) ==
  /\ r.kind = "call" /\ r.answer = "ok"
  /\ requests' = Settled(r)
  /\ UNCHANGED <<sessions, stored, tab, events>>

ListDone(r) ==
  /\ r.kind = "list" /\ r.answer = "ok"
  /\ requests' = Settled(r)
  /\ tab' = [tab EXCEPT !.list = r.auth]
  /\ Note(IF r.shared THEN {} ELSE {"late"})
  /\ UNCHANGED <<sessions, stored>>

\* Cached if the token is still the one it was asked under.
ConfigDone(r) ==
  /\ r.kind = "config" /\ r.answer = "ok"
  /\ requests' = Settled(r)
  /\ tab' = IF stored = r.under
            THEN [tab EXCEPT !.config = r.auth, !.configFor = r.under] ELSE tab
  /\ UNCHANGED <<sessions, stored, events>>

\* A 401.  With a session stored, whichever it is, the storage is cleared and
\* the page is left, once.  A form with unsaved answers asks before it is left:
\* if the operator stays, the guards follow all the same, in modules that are muted.
Denied(r) ==
  /\ r.answer = "denied"
  /\ IF stored # NoSession /\ ~tab.muted
     THEN /\ stored' = NoSession
          /\ \E leaving \in {TRUE, tab.page # "app"} :
               tab' = [Cleared EXCEPT !.leaving = leaving, !.muted = TRUE]
          /\ requests' = Unshared(requests \ {r}, {"list", "config"})
     ELSE /\ requests' = Settled(r)
          /\ UNCHANGED <<stored, tab>>
  /\ UNCHANGED <<sessions, events>>

-----------------------------------------------------------------------------
Read(r) == CallDone(r) \/ ListDone(r) \/ ConfigDone(r) \/ Denied(r)

Next ==
  \/ Reload \/ Revoked \/ Notice \/ Back
  \/ OtherForgets \/ \E u \in Users : OtherSignsIn(u)
  \/ \E i \in DOMAIN sessions : End(i)
  \/ Forget \/ Grant \/ SignInFails \/ SignedIn \/ \E u \in Users : SignIn(u)
  \/ Call \/ FetchList \/ FetchConfig \/ ConfigAges
  \/ \E r \in requests : Serve(r) \/ Lose(r) \/ Read(r)

Spec == Init /\ [][Next]_vars

-----------------------------------------------------------------------------
(* Properties *)

Excused(kinds) == events \cap kinds # {}

\* The configuration a page gets, cached or from a request it joins, was fetched
\* with the session that is stored: the token check and the invalidation see to
\* it across logouts, logins and late answers in a tab.  They do not see to a
\* header that is not the stored session's, which takes another tab, nor to what
\* another tab does while a request is in flight.
ConfigIsTheSessions ==
  tab.page = "app" /\ stored # NoSession =>
    /\ CachedConfig => tab.config = stored \/ Excused({"unprimed"})
    /\ \A r \in InFlight("config") : r.auth = stored \/ Excused({"elsewhere"})

\* The lists a tab has cached are those of the user who is signed in: unless the
\* login went over another's, another tab changed the session, or the list came
\* after the logout.
ListsAreTheUsers ==
  tab.page = "app" /\ stored # NoSession /\ tab.list # NoSession =>
    \/ UserOf(tab.list) = UserOf(stored)
    \/ Excused({"over", "elsewhere", "late"})

\* A request that carries a session carries that of the user the tab shows: "persists
\* bearer token and primes axios".  Only another tab's login can part the two: this
\* one then draws the new user, and its axios sends the old user's token.
ActsAsShown ==
  [][\A r \in requests' \ requests :
       Cardinality(requests') > Cardinality(requests) /\ r.auth # NoSession =>
         \/ UserOf(r.auth) = UserOf(tab.drawn)
         \/ Excused({"elsewhere"})]_vars
=============================================================================

------------------------ MODULE ClientSessionProofs ------------------------
(***************************************************************************)
(* Proofs about ClientSession, for every set of users and every bound.     *)
(***************************************************************************)
EXTENDS ClientSession, FiniteSetTheorems, SequenceTheorems, TLAPS

Session == [user : Users, live : BOOLEAN]

\* Of the requests of a kind, later callers join at most one.
AtMostOneShared(rs) ==
  /\ \A r \in rs : r.shared => r.kind \in {"list", "config"}
  /\ \A r, s \in rs : (r.shared /\ s.shared /\ r.kind = s.kind) => r = s

TypeInv ==
  /\ sessions \in Seq(Session) /\ Len(sessions) <= MaxSessions
  /\ stored \in SessionIds
  /\ tab \in Tab
  /\ requests \subseteq Request /\ IsFiniteSet(requests) /\ AtMostOneShared(requests)
  /\ events \subseteq Events

\* But for another tab, the copies are the session that is stored, and the
\* application is only drawn with one.
CopyInv ==
  \/ "elsewhere" \in events
  \/ /\ tab.header = stored /\ tab.drawn = stored
     /\ tab.page = "app" => stored # NoSession

\* The configuration that is kept, and those on their way.
ConfigInv ==
  /\ \/ "unprimed" \in events
     \/ /\ tab.config # NoSession => tab.config = tab.configFor
        /\ \A r \in requests : r.kind = "config" => r.auth = r.under
  /\ \/ "elsewhere" \in events
     \/ \A r \in requests : (r.kind = "config" /\ r.shared) => r.auth = stored

\* The lists that are kept, and those on their way.
ListInv ==
  \/ events \cap {"over", "elsewhere", "late"} # {}
  \/ /\ tab.list \in {NoSession, stored}
     /\ \A r \in requests : (r.kind = "list" /\ r.shared) =>
          r.auth = stored /\ stored # NoSession

Inv == TypeInv /\ CopyInv /\ ConfigInv /\ ListInv

-----------------------------------------------------------------------------
(* Requests *)

\* What comes of the requests rs: each of ss is one of them, answered or no longer
\* shared.
Follow(rs, ss) ==
  /\ ss \subseteq Request /\ IsFiniteSet(ss) /\ AtMostOneShared(ss)
  /\ Cardinality(ss) <= Cardinality(rs)
  /\ \A s \in ss : \E r \in rs :
       /\ r.kind = s.kind /\ r.auth = s.auth /\ r.under = s.under
       /\ s.shared => r.shared

\* None of a kind is shared.
Apart(rs, kind) == \A r \in rs : r.kind = kind => ~r.shared

LEMMA RequestFields ==
  ASSUME NEW r \in Request
  PROVE  /\ r.kind \in {"call", "list", "config"} /\ r.auth \in SessionIds
         /\ r.under \in SessionIds /\ r.shared \in BOOLEAN
         /\ r.answer \in {"none", "ok", "denied"}
  BY DEF Request

LEMMA SelfFollows ==
  ASSUME TypeInv
  PROVE  Follow(requests, requests) /\ Cardinality(requests) \in Nat
  <1>1. Cardinality(requests) \in Nat
    BY FS_CardinalityType DEF TypeInv
  <1> QED
    BY <1>1 DEF TypeInv, Follow

LEMMA NoneFollows ==
  ASSUME TypeInv
  PROVE  Follow(requests, {}) /\ \A kind : Apart({}, kind)
  <1>1. IsFiniteSet({}) /\ Cardinality({}) = 0 /\ Cardinality(requests) \in Nat
    BY FS_EmptySet, FS_CardinalityType DEF TypeInv
  <1> QED
    BY <1>1 DEF Follow, AtMostOneShared, Apart

\* Fewer requests.
LEMMA FewerFollow ==
  ASSUME TypeInv, NEW r
  PROVE  Follow(requests, requests \ {r})
  <1>1. IsFiniteSet(requests \ {r}) /\ Cardinality(requests \ {r}) <= Cardinality(requests)
    BY FS_Subset DEF TypeInv
  <1> QED
    BY <1>1 DEF TypeInv, Follow, AtMostOneShared

\* A request that others may join no longer.
Alone(r) == [r EXCEPT !.shared = FALSE]

LEMMA AloneIs ==
  ASSUME NEW r \in Request
  PROVE  /\ Alone(r) \in Request /\ Alone(r).kind = r.kind /\ Alone(r).auth = r.auth
         /\ Alone(r).under = r.under /\ ~Alone(r).shared
  BY DEF Alone, Request

\* The in-flight variables of some caches are cleared.
LEMMA UnsharedFollows ==
  ASSUME TypeInv, NEW rs, Follow(requests, rs), NEW kinds
  PROVE  /\ Follow(requests, Unshared(rs, kinds))
         /\ \A kind \in kinds : Apart(Unshared(rs, kinds), kind)
  <1> DEFINE f == [r \in rs |-> IF r.kind \in kinds THEN Alone(r) ELSE r]
             ss == Unshared(rs, kinds)
  <1>1. /\ \A r \in rs : f[r] \in ss
        /\ \A s \in ss : \E r \in rs : s = f[r]
    BY DEF Unshared, Alone
  <1>2. \A r \in rs : /\ f[r] \in Request /\ f[r].kind = r.kind /\ f[r].auth = r.auth
                      /\ f[r].under = r.under /\ (f[r].shared => r.shared)
                      /\ (f[r].shared => r.kind \notin kinds /\ f[r] = r)
    BY AloneIs DEF Follow
  <1>3. f \in Surjection(rs, ss)
    BY <1>1 DEF Surjection
  <1>4. /\ IsFiniteSet(ss) /\ Cardinality(ss) <= Cardinality(rs)
        /\ Cardinality(ss) \in Nat /\ Cardinality(rs) \in Nat /\ Cardinality(requests) \in Nat
    <2> HIDE DEF f, ss
    <2>1. IsFiniteSet(rs) /\ IsFiniteSet(requests)
      BY DEF Follow, TypeInv
    <2>2. IsFiniteSet(ss) /\ Cardinality(ss) <= Cardinality(rs)
      BY <1>3, <2>1, FS_Surjection
    <2> QED
      BY <2>1, <2>2, FS_CardinalityType
  <1> HIDE DEF f, ss
  <1>5. Cardinality(ss) <= Cardinality(requests)
    BY <1>4 DEF Follow
  <1>6. AtMostOneShared(ss)
    BY <1>1, <1>2 DEF Follow, AtMostOneShared
  <1>7. ASSUME NEW s \in ss
        PROVE  \E r \in requests : /\ r.kind = s.kind /\ r.auth = s.auth /\ r.under = s.under
                                   /\ s.shared => r.shared
    BY <1>1, <1>2 DEF Follow
  <1>8. ss \subseteq Request
    BY <1>1, <1>2
  <1>9. Follow(requests, ss)
    BY <1>4, <1>5, <1>6, <1>7, <1>8 DEF Follow
  <1>10. \A kind \in kinds : Apart(ss, kind)
    BY <1>1, <1>2 DEF Apart
  <1> QED
    BY <1>9, <1>10 DEF ss

LEMMA SettledFollows ==
  ASSUME TypeInv, NEW r
  PROVE  Follow(requests, Settled(r))
  BY FewerFollow, UnsharedFollows DEF Settled

\* A request is answered.
LEMMA ServedFollows ==
  ASSUME TypeInv, NEW r \in requests, NEW a \in {"ok", "denied"}
  PROVE  Follow(requests, (requests \ {r}) \cup {[r EXCEPT !.answer = a]})
  <1> DEFINE t == [r EXCEPT !.answer = a]
             ss == (requests \ {r}) \cup {t}
  <1>1. /\ t \in Request /\ t.kind = r.kind /\ t.auth = r.auth /\ t.under = r.under
        /\ t.shared = r.shared
    BY DEF TypeInv, Request
  <1> HIDE DEF t
  <1>2. IsFiniteSet(ss) /\ Cardinality(ss) <= Cardinality(requests)
    <2> DEFINE rest == requests \ {r}
    <2>1. IsFiniteSet(rest) /\ Cardinality(rest) = Cardinality(requests) - 1
      BY FS_RemoveElement DEF TypeInv
    <2>2. IsFiniteSet(rest \cup {t})
          /\ Cardinality(rest \cup {t}) = IF t \in rest THEN Cardinality(rest) ELSE Cardinality(rest) + 1
      <3> HIDE DEF rest
      <3> QED
        BY <2>1, FS_AddElement
    <2>3. Cardinality(requests) \in Nat
      BY FS_CardinalityType DEF TypeInv
    <2> QED
      BY <2>1, <2>2, <2>3
  <1>3. AtMostOneShared(ss)
    <2>1. \A s \in ss : \E o \in requests :
            /\ s.kind = o.kind /\ s.shared = o.shared
            /\ (o = r /\ s = t) \/ (o # r /\ s = o)
      BY <1>1
    <2> QED
      BY <2>1 DEF TypeInv, AtMostOneShared
  <1>4. \A s \in ss : \E o \in requests :
          /\ o.kind = s.kind /\ o.auth = s.auth /\ o.under = s.under
          /\ s.shared => o.shared
    BY <1>1
  <1>5. ss \subseteq Request
    BY <1>1 DEF TypeInv
  <1> HIDE DEF ss
  <1>6. Follow(requests, ss)
    BY <1>2, <1>3, <1>4, <1>5 DEF Follow
  <1>7. Follow(requests, (requests \ {r}) \cup {t})
    BY <1>6 DEF ss
  <1>8. t = [r EXCEPT !.answer = a]
    BY DEF t
  <1> QED
    BY <1>7, <1>8, Zenon

-----------------------------------------------------------------------------
(* The tab *)

LEMMA TabFields ==
  ASSUME NEW t \in Tab
  PROVE  /\ t.page \in {"login", "app"} /\ t.been \in BOOLEAN
         /\ t.leaving \in BOOLEAN /\ t.muted \in BOOLEAN
         /\ t.header \in SessionIds /\ t.drawn \in SessionIds
         /\ t.asked \in Users \cup {NoUser} /\ t.granted \in SessionIds
         /\ t.list \in SessionIds /\ t.config \in SessionIds /\ t.configFor \in SessionIds
  BY DEF Tab

LEMMA NoSessionIs == NoSession \in SessionIds
  BY SessionAssumption DEF NoSession, SessionIds

LEMMA LoadedIs ==
  ASSUME TypeInv, NEW page \in {"login", "app"}
  PROVE  LET t == [Loaded(page) EXCEPT !.been = @ \/ tab.been] IN
         /\ t \in Tab /\ t.page = page /\ t.header = stored /\ t.drawn = stored
         /\ t.list = NoSession /\ t.config = NoSession /\ t.configFor = NoSession
  <1>1. tab.been \in BOOLEAN /\ stored \in SessionIds /\ NoSession \in SessionIds
    BY TabFields, NoSessionIs DEF TypeInv
  <1> DEFINE b == (page = "app") \/ tab.been
             t == [Loaded(page) EXCEPT !.been = b]
  <1>2. b \in BOOLEAN
    OBVIOUS
  <1>3. [Loaded(page) EXCEPT !.been = @ \/ tab.been] = t
    BY DEF Loaded
  <1> HIDE DEF b
  <1> DEFINE l == Loaded(page)
             c == page = "app"
  <1>4. /\ l \in Tab /\ l.page = page /\ l.header = stored /\ l.drawn = stored
        /\ l.list = NoSession /\ l.config = NoSession /\ l.configFor = NoSession
    <2>1. c \in BOOLEAN
      OBVIOUS
    <2>2. l = [page |-> page, been |-> c, header |-> stored, drawn |-> stored,
               leaving |-> FALSE, muted |-> FALSE, asked |-> NoUser, granted |-> NoSession,
               list |-> NoSession, config |-> NoSession, configFor |-> NoSession]
      BY DEF Loaded
    <2> HIDE DEF c, l
    <2> QED
      BY <1>1, <2>1, <2>2 DEF Tab
  <1>5. t = [l EXCEPT !.been = b]
    OBVIOUS
  <1> HIDE DEF l, t
  <1>6. /\ t \in Tab /\ t.page = page /\ t.header = stored /\ t.drawn = stored
        /\ t.list = NoSession /\ t.config = NoSession /\ t.configFor = NoSession
    BY <1>2, <1>4, <1>5 DEF Tab
  <1> QED
    BY <1>3, <1>6

LEMMA InvalidatedIs ==
  ASSUME TypeInv
  PROVE  /\ Invalidated \in Tab /\ Invalidated.config = NoSession
         /\ Invalidated.configFor = NoSession /\ Invalidated.list = tab.list
         /\ Invalidated.page = tab.page /\ Invalidated.header = tab.header
         /\ Invalidated.drawn = tab.drawn
  BY NoSessionIs DEF TypeInv, Invalidated, Tab

LEMMA ClearedIs ==
  ASSUME TypeInv
  PROVE  /\ Cleared \in Tab /\ Cleared.config = NoSession
         /\ Cleared.configFor = NoSession /\ Cleared.list = NoSession
         /\ Cleared.page = "login" /\ Cleared.header = NoSession
         /\ Cleared.drawn = NoSession
  BY InvalidatedIs, NoSessionIs DEF Cleared, Tab

LEMMA PrimedIs ==
  ASSUME TypeInv, NEW i \in SessionIds
  PROVE  /\ Primed(i) \in Tab /\ Primed(i).config = NoSession
         /\ Primed(i).configFor = NoSession /\ Primed(i).list = tab.list
         /\ Primed(i).page = "app" /\ Primed(i).header = i /\ Primed(i).drawn = i
  BY InvalidatedIs, NoSessionIs DEF Primed, Tab

-----------------------------------------------------------------------------
(* Steps *)

\* A step that sends no request.
LEMMA Keeps ==
  ASSUME Inv, sessions' \in Seq(Session), Len(sessions') <= MaxSessions,
         stored' \in SessionIds, tab' \in Tab, Follow(requests, requests'),
         events' \subseteq Events, events \subseteq events',
         \/ "elsewhere" \in events'
         \/ tab'.header = stored' /\ tab'.drawn = stored' /\ (tab'.page = "app" => stored' # NoSession),
         \/ tab'.config = tab.config /\ tab'.configFor = tab.configFor
         \/ tab'.config = NoSession
         \/ tab'.config = tab'.configFor
         \/ "unprimed" \in events',
         stored' = stored \/ "elsewhere" \in events' \/ Apart(requests', "config"),
         \/ events' \cap {"over", "elsewhere", "late"} # {}
         \/ /\ tab'.list = stored' \/ tab'.list = NoSession
            /\ stored' = stored \/ Apart(requests', "list")
  PROVE  Inv'
  <1>1. TypeInv'
    BY DEF Follow, TypeInv
  <1>2. CopyInv'
    BY DEF CopyInv
  <1>3. ASSUME NEW s \in requests'
        PROVE  \E r \in requests : /\ r.kind = s.kind /\ r.auth = s.auth /\ r.under = s.under
                                   /\ s.shared => r.shared
    BY DEF Follow
  <1>4. ConfigInv'
    <2>1. \/ "unprimed" \in events'
          \/ /\ tab'.config # NoSession => tab'.config = tab'.configFor
             /\ \A r \in requests' : r.kind = "config" => r.auth = r.under
      BY <1>3 DEF Inv, ConfigInv
    <2>2. \/ "elsewhere" \in events'
          \/ \A r \in requests' : (r.kind = "config" /\ r.shared) => r.auth = stored'
      BY <1>3 DEF Inv, ConfigInv, Apart
    <2> QED
      BY <2>1, <2>2 DEF ConfigInv
  <1>5. ListInv'
    BY <1>3 DEF Inv, ListInv, Apart
  <1> QED
    BY <1>1, <1>2, <1>4, <1>5 DEF Inv

\* A step that changes neither the tab nor what is stored.
LEMMA QuietKeeps ==
  ASSUME Inv, sessions' \in Seq(Session), Len(sessions') <= MaxSessions,
         UNCHANGED <<stored, tab>>, Follow(requests, requests'),
         events' \subseteq Events, events \subseteq events'
  PROVE  Inv'
  <1>1. /\ stored' \in SessionIds /\ tab' \in Tab
        /\ \/ "elsewhere" \in events'
           \/ /\ tab'.header = stored' /\ tab'.drawn = stored'
              /\ tab'.page = "app" => stored' # NoSession
    BY DEF Inv, TypeInv, CopyInv
  <1>2. \/ events' \cap {"over", "elsewhere", "late"} # {}
        \/ tab'.list = stored' \/ tab'.list = NoSession
    BY DEF Inv, ListInv
  <1> QED
    BY <1>1, <1>2, Keeps

\* A step of the page alone.
LEMMA TabKeeps ==
  ASSUME Inv, UNCHANGED <<sessions, stored, requests>>, events' \subseteq Events,
         events \subseteq events', tab' \in Tab,
         \/ "elsewhere" \in events
         \/ tab'.header = stored /\ tab'.drawn = stored /\ (tab'.page = "app" => stored # NoSession),
         \/ tab'.config = tab.config /\ tab'.configFor = tab.configFor
         \/ tab'.config = NoSession,
         tab'.list = tab.list
  PROVE  Inv'
  <1>1. /\ sessions' \in Seq(Session) /\ Len(sessions') <= MaxSessions
        /\ stored' \in SessionIds /\ Follow(requests, requests')
    BY SelfFollows DEF Inv, TypeInv
  <1>2. \/ events' \cap {"over", "elsewhere", "late"} # {}
        \/ tab'.list = stored' \/ tab'.list = NoSession
    BY DEF Inv, ListInv
  <1> QED
    BY <1>1, <1>2, Keeps

LEMMA EventsGrow ==
  ASSUME TypeInv, NEW new \in SUBSET Events, Note(new)
  PROVE  events' \subseteq Events /\ events \subseteq events' /\ new \subseteq events'
  BY DEF Note, TypeInv

LEMMA LoadKeeps ==
  ASSUME Inv, NEW page \in {"login", "app"}, Load(page)
  PROVE  Inv'
  <1>1. /\ tab' \in Tab /\ tab'.page = page /\ tab'.header = stored /\ tab'.drawn = stored
        /\ tab'.list = NoSession /\ tab'.config = NoSession
    BY LoadedIs DEF Load, Inv
  <1>2. requests' = {} /\ UNCHANGED <<sessions, stored, events>> /\ (stored = NoSession => page = "login")
    BY DEF Load
  <1>3. /\ Follow(requests, requests') /\ sessions' \in Seq(Session) /\ Len(sessions') <= MaxSessions
        /\ stored' \in SessionIds /\ events' \subseteq Events
    BY <1>2, NoneFollows DEF Inv, TypeInv
  <1> QED
    BY <1>1, <1>2, <1>3, Keeps

LEMMA PageKeeps ==
  ASSUME Inv, Reload \/ Revoked
  PROVE  Inv'
  BY LoadKeeps DEF Reload, Revoked

LEMMA NoticeKeeps ==
  ASSUME Inv, Notice
  PROVE  Inv'
  <1> DEFINE page == IF stored = NoSession THEN "login" ELSE tab.page
  <1>1. /\ tab \in Tab /\ stored \in SessionIds /\ page \in {"login", "app"}
        /\ events \subseteq Events /\ UNCHANGED <<sessions, stored, requests, events>>
    BY TabFields DEF Notice, Inv, TypeInv
  <1>2. tab' = [tab EXCEPT !.drawn = stored, !.page = page]
    BY DEF Notice
  <1> HIDE DEF page
  <1>3. /\ tab' \in Tab /\ tab'.drawn = stored /\ tab'.page = page /\ tab'.header = tab.header
        /\ tab'.list = tab.list /\ tab'.config = tab.config /\ tab'.configFor = tab.configFor
    BY <1>1, <1>2 DEF Tab
  <1>4. page = "app" => stored # NoSession
    BY DEF page
  <1> QED
    BY <1>1, <1>3, <1>4, TabKeeps DEF Inv, CopyInv

LEMMA BackKeeps ==
  ASSUME Inv, Back
  PROVE  Inv'
  <1>1. /\ tab \in Tab /\ stored \in SessionIds /\ stored # NoSession
        /\ events \subseteq Events /\ UNCHANGED <<sessions, stored, requests, events>>
        /\ tab' = [tab EXCEPT !.page = "app", !.drawn = stored]
    BY DEF Back, Inv, TypeInv
  <1>2. /\ tab' \in Tab /\ tab'.drawn = stored /\ tab'.header = tab.header
        /\ tab'.list = tab.list /\ tab'.config = tab.config /\ tab'.configFor = tab.configFor
    BY <1>1 DEF Tab
  <1> QED
    BY <1>1, <1>2, TabKeeps DEF Inv, CopyInv

-----------------------------------------------------------------------------
(* Sessions *)

LEMMA GrantedIs ==
  ASSUME TypeInv, CanGrant, NEW u \in Users
  PROVE  /\ Granted(u) \in Seq(Session) /\ Len(Granted(u)) <= MaxSessions
         /\ Len(Granted(u)) \in SessionIds
  <1> DEFINE s == [user |-> u, live |-> TRUE]
  <1>1. s \in Session
    BY DEF Session
  <1>2. Granted(u) = Append(sessions, s)
    BY DEF Granted
  <1> HIDE DEF s
  <1>3. Granted(u) \in Seq(Session) /\ Len(Granted(u)) = Len(sessions) + 1
    BY <1>1, <1>2, AppendProperties DEF TypeInv
  <1>4. Len(sessions) \in Nat /\ MaxSessions \in Nat
    BY SessionAssumption DEF TypeInv
  <1> QED
    BY <1>3, <1>4 DEF CanGrant, SessionIds

LEMMA OtherForgetsKeeps ==
  ASSUME Inv, OtherForgets
  PROVE  Inv'
  <1>1. events' \subseteq Events /\ events \subseteq events' /\ "elsewhere" \in events'
    BY EventsGrow DEF Inv, OtherForgets, Events
  <1>2. /\ stored' \in SessionIds /\ UNCHANGED <<sessions, tab, requests>> /\ tab' \in Tab
        /\ sessions' \in Seq(Session) /\ Len(sessions') <= MaxSessions
        /\ Follow(requests, requests')
    BY NoSessionIs, SelfFollows DEF OtherForgets, Inv, TypeInv
  <1> QED
    BY <1>1, <1>2, Keeps

LEMMA OtherSignsInKeeps ==
  ASSUME Inv, NEW u \in Users, OtherSignsIn(u)
  PROVE  Inv'
  <1>1. events' \subseteq Events /\ events \subseteq events' /\ "elsewhere" \in events'
    BY EventsGrow DEF Inv, OtherSignsIn, Events
  <1>2. /\ stored' \in SessionIds /\ UNCHANGED <<tab, requests>> /\ tab' \in Tab
        /\ sessions' \in Seq(Session) /\ Len(sessions') <= MaxSessions
        /\ Follow(requests, requests')
    BY GrantedIs, SelfFollows DEF OtherSignsIn, Inv, TypeInv
  <1> QED
    BY <1>1, <1>2, Keeps

LEMMA EndKeeps ==
  ASSUME Inv, NEW i \in DOMAIN sessions, End(i)
  PROVE  Inv'
  <1>1. sessions \in Seq(Session) /\ i \in 1..Len(sessions)
    BY DEF Inv, TypeInv
  <1>2. sessions[i] \in Session
    BY <1>1, ElementOfSeq
  <1> DEFINE s == [sessions[i] EXCEPT !.live = FALSE]
  <1>3. s \in Session
    BY <1>2 DEF Session
  <1>4. sessions' = [sessions EXCEPT ![i] = s]
    BY DEF End
  <1> HIDE DEF s
  <1>5. sessions' \in Seq(Session) /\ Len(sessions') = Len(sessions)
    BY <1>1, <1>3, <1>4, ExceptSeq
  <1> QED
    BY <1>5, QuietKeeps, SelfFollows DEF End, Inv, TypeInv

\* Both caches' requests are cut off.
LEMMA CutFollows ==
  ASSUME TypeInv, NEW rs, Follow(requests, rs)
  PROVE  /\ Follow(requests, Unshared(rs, {"list", "config"}))
         /\ Apart(Unshared(rs, {"list", "config"}), "list")
         /\ Apart(Unshared(rs, {"list", "config"}), "config")
  BY UnsharedFollows

LEMMA ForgetKeeps ==
  ASSUME Inv, Forget
  PROVE  Inv'
  <1>1. /\ tab' \in Tab /\ tab'.page = "login" /\ tab'.header = stored' /\ tab'.drawn = stored'
        /\ tab'.list = NoSession /\ tab'.config = NoSession /\ stored' \in SessionIds
    BY ClearedIs, NoSessionIs DEF Forget, Inv
  <1>2. /\ Follow(requests, requests') /\ Apart(requests', "list") /\ Apart(requests', "config")
    BY CutFollows, SelfFollows DEF Forget, Inv
  <1> QED
    BY <1>1, <1>2, Keeps DEF Forget, Inv, TypeInv

LEMMA SignInKeeps ==
  ASSUME Inv, NEW u \in Users, SignIn(u)
  PROVE  Inv'
  <1>1. tab \in Tab /\ tab' = [tab EXCEPT !.asked = u]
    BY DEF SignIn, Inv, TypeInv
  <1>2. /\ tab' \in Tab /\ tab'.drawn = tab.drawn /\ tab'.header = tab.header /\ tab'.page = tab.page
        /\ tab'.list = tab.list /\ tab'.config = tab.config /\ tab'.configFor = tab.configFor
    BY <1>1 DEF Tab
  <1> QED
    BY <1>2, TabKeeps DEF SignIn, Inv, TypeInv, CopyInv

LEMMA SignInFailsKeeps ==
  ASSUME Inv, SignInFails
  PROVE  Inv'
  <1>1. tab \in Tab /\ tab' = [tab EXCEPT !.asked = NoUser, !.granted = NoSession]
    BY DEF SignInFails, Inv, TypeInv
  <1>2. /\ tab' \in Tab /\ tab'.drawn = tab.drawn /\ tab'.header = tab.header /\ tab'.page = tab.page
        /\ tab'.list = tab.list /\ tab'.config = tab.config /\ tab'.configFor = tab.configFor
    BY <1>1, NoSessionIs DEF Tab
  <1> QED
    BY <1>2, TabKeeps DEF SignInFails, Inv, TypeInv, CopyInv

LEMMA GrantKeeps ==
  ASSUME Inv, Grant
  PROVE  Inv'
  <1> DEFINE n == Len(sessions')
  <1>1. tab \in Tab /\ tab.asked \in Users
    BY TabFields DEF Grant, Inv, TypeInv
  <1>2. sessions' \in Seq(Session) /\ Len(sessions') <= MaxSessions /\ n \in SessionIds
    BY <1>1, GrantedIs DEF Grant, Inv
  <1>3. tab' = [tab EXCEPT !.granted = n] /\ UNCHANGED <<stored, requests, events>>
    BY DEF Grant
  <1> HIDE DEF n
  <1>4. /\ tab' \in Tab /\ tab'.drawn = tab.drawn /\ tab'.header = tab.header /\ tab'.page = tab.page
        /\ tab'.list = tab.list /\ tab'.config = tab.config /\ tab'.configFor = tab.configFor
    BY <1>1, <1>2, <1>3 DEF Tab
  <1>5. \/ events' \cap {"over", "elsewhere", "late"} # {}
        \/ tab'.list = stored' \/ tab'.list = NoSession
    BY <1>3, <1>4 DEF Inv, ListInv
  <1> QED
    BY <1>2, <1>3, <1>4, <1>5, SelfFollows, Keeps DEF Inv, TypeInv, CopyInv

\* The token that the login returned is stored, put in the header and announced.
LEMMA SignedInKeeps ==
  ASSUME Inv, SignedIn
  PROVE  Inv'
  <1> DEFINE i == tab.granted
             new == IF stored # NoSession THEN {"over"} ELSE {}
  <1>1. i \in SessionIds /\ i # NoSession
    BY TabFields DEF SignedIn, Inv, TypeInv
  <1>2. /\ stored' = i /\ tab' = Primed(i) /\ requests' = Unshared(requests, {"config"})
        /\ Note(new) /\ UNCHANGED sessions
    BY DEF SignedIn
  <1>3. events' \subseteq Events /\ events \subseteq events' /\ (stored # NoSession => "over" \in events')
    BY <1>2, EventsGrow DEF Inv, Events
  <1> HIDE DEF i, new
  <1>4. /\ tab' \in Tab /\ tab'.config = NoSession /\ tab'.list = tab.list
        /\ tab'.header = i /\ tab'.drawn = i
    BY <1>1, <1>2, PrimedIs DEF Inv
  <1>5. Follow(requests, requests') /\ Apart(requests', "config")
    BY <1>2, UnsharedFollows, SelfFollows DEF Inv
  <1>6. \/ events' \cap {"over", "elsewhere", "late"} # {}
        \/ tab'.list = NoSession /\ Apart(requests', "list")
    <2> SUFFICES ASSUME events' \cap {"over", "elsewhere", "late"} = {}
                 PROVE  tab'.list = NoSession /\ Apart(requests', "list")
      OBVIOUS
    <2>1. stored = NoSession /\ events \cap {"over", "elsewhere", "late"} = {}
      BY <1>3
    <2>2. tab.list = NoSession /\ Apart(requests, "list")
      BY <2>1 DEF Inv, ListInv, Apart
    <2>3. Apart(requests', "list")
      BY <1>5, <2>2 DEF Follow, Apart
    <2> QED
      BY <1>4, <2>2, <2>3
  <1> QED
    BY <1>1, <1>2, <1>3, <1>4, <1>5, <1>6, Keeps DEF Inv, TypeInv

-----------------------------------------------------------------------------
(* Requests *)

\* What Send adds.
Sent(kind, shared) ==
  [kind |-> kind, auth |-> tab.header, under |-> stored, shared |-> shared, answer |-> "none"]

\* A request takes the header's session, from a page of the application.
LEMMA SendKeeps ==
  ASSUME Inv, NEW kind \in {"call", "list", "config"}, NEW shared \in BOOLEAN,
         Send(kind, shared), shared => kind # "call" /\ Apart(requests, kind)
  PROVE  Inv'
  <1> DEFINE r == Sent(kind, shared)
             new == IF tab.header # stored THEN {"unprimed"} ELSE {}
  <1>1. /\ r \in Request /\ r.kind = kind /\ r.auth = tab.header /\ r.under = stored
        /\ r.shared = shared
    BY TabFields DEF Inv, TypeInv, Request, Sent
  <1>2. /\ requests' = requests \cup {r} /\ Note(new) /\ tab.page = "app"
        /\ UNCHANGED <<sessions, stored, tab>>
    BY DEF Send, Sent
  <1>3. events' \subseteq Events /\ events \subseteq events' /\ (tab.header # stored => "unprimed" \in events')
    BY <1>2, EventsGrow DEF Inv, Events
  <1> HIDE DEF r, new
  <1>4. AtMostOneShared(requests')
    BY <1>1, <1>2 DEF Inv, TypeInv, AtMostOneShared, Apart
  <1>5. IsFiniteSet(requests')
    BY <1>2, FS_AddElement DEF Inv, TypeInv
  <1>6. TypeInv'
    BY <1>1, <1>2, <1>3, <1>4, <1>5 DEF Inv, TypeInv
  <1>7. CopyInv'
    BY <1>2, <1>3 DEF Inv, CopyInv
  <1>8. ConfigInv'
    <2>1. \/ "unprimed" \in events'
          \/ /\ tab'.config # NoSession => tab'.config = tab'.configFor
             /\ \A s \in requests' : s.kind = "config" => s.auth = s.under
      BY <1>1, <1>2, <1>3 DEF Inv, ConfigInv
    <2>2. \/ "elsewhere" \in events'
          \/ \A s \in requests' : (s.kind = "config" /\ s.shared) => s.auth = stored'
      BY <1>1, <1>2, <1>3 DEF Inv, ConfigInv, CopyInv
    <2> QED
      BY <2>1, <2>2 DEF ConfigInv
  <1>9. ListInv'
    BY <1>1, <1>2, <1>3 DEF Inv, ListInv, CopyInv
  <1> QED
    BY <1>6, <1>7, <1>8, <1>9 DEF Inv

LEMMA NothingInFlight ==
  ASSUME NEW kind, InFlight(kind) = {}
  PROVE  Apart(requests, kind)
  BY DEF InFlight, Apart

LEMMA FetchesKeep ==
  ASSUME Inv, Call \/ FetchList \/ FetchConfig
  PROVE  Inv'
  <1>1. CASE Call
    BY <1>1, SendKeeps DEF Call
  <1>2. CASE FetchList
    BY <1>2, SendKeeps, NothingInFlight DEF FetchList
  <1>3. CASE FetchConfig
    BY <1>3, SendKeeps, NothingInFlight DEF FetchConfig
  <1> QED
    BY <1>1, <1>2, <1>3

LEMMA ConfigAgesKeeps ==
  ASSUME Inv, ConfigAges
  PROVE  Inv'
  <1>1. /\ tab' \in Tab /\ tab'.drawn = tab.drawn /\ tab'.header = tab.header /\ tab'.page = tab.page
        /\ tab'.list = tab.list /\ tab'.config = NoSession
    BY InvalidatedIs DEF ConfigAges, Inv
  <1> QED
    BY <1>1, TabKeeps DEF ConfigAges, Inv, TypeInv, CopyInv

LEMMA ServeKeeps ==
  ASSUME Inv, NEW r \in requests, Serve(r)
  PROVE  Inv'
  <1> DEFINE a == IF Live(r.auth) THEN "ok" ELSE "denied"
  <1>1. a \in {"ok", "denied"} /\ requests' = (requests \ {r}) \cup {[r EXCEPT !.answer = a]}
    BY DEF Serve
  <1> HIDE DEF a
  <1>2. Follow(requests, requests')
    BY <1>1, ServedFollows DEF Inv
  <1> QED
    BY <1>2, QuietKeeps DEF Serve, Inv, TypeInv

LEMMA LoseKeeps ==
  ASSUME Inv, NEW r \in requests, Lose(r) \/ CallDone(r)
  PROVE  Inv'
  <1>1. requests' = Settled(r) /\ UNCHANGED <<sessions, stored, tab, events>>
    BY DEF Lose, CallDone
  <1> QED
    BY <1>1, SettledFollows, QuietKeeps DEF Inv, TypeInv

\* A list that is still the one to join is the stored session's.
LEMMA ListDoneKeeps ==
  ASSUME Inv, NEW r \in requests, ListDone(r)
  PROVE  Inv'
  <1> DEFINE new == IF r.shared THEN {} ELSE {"late"}
  <1>1. /\ r \in Request /\ r.auth \in SessionIds /\ r.kind = "list" /\ tab \in Tab
        /\ tab' = [tab EXCEPT !.list = r.auth] /\ UNCHANGED <<sessions, stored>> /\ Note(new)
        /\ Follow(requests, requests')
    BY RequestFields, SettledFollows DEF Inv, TypeInv, ListDone
  <1>2. events' \subseteq Events /\ events \subseteq events' /\ (~r.shared => "late" \in events')
    BY <1>1, EventsGrow DEF Inv, Events
  <1> HIDE DEF new
  <1>3. /\ tab' \in Tab /\ tab'.drawn = tab.drawn /\ tab'.header = tab.header /\ tab'.page = tab.page
        /\ tab'.list = r.auth /\ tab'.config = tab.config /\ tab'.configFor = tab.configFor
    BY <1>1 DEF Tab
  <1>4. events' \cap {"over", "elsewhere", "late"} # {} \/ tab'.list = stored'
    BY <1>1, <1>2, <1>3 DEF Inv, ListInv
  <1>5. \/ "elsewhere" \in events'
        \/ tab'.header = stored' /\ tab'.drawn = stored' /\ (tab'.page = "app" => stored' # NoSession)
    BY <1>1, <1>2, <1>3 DEF Inv, CopyInv
  <1> QED
    BY <1>1, <1>2, <1>3, <1>4, <1>5, Keeps DEF Inv, TypeInv

\* A configuration is kept for the token it was asked under, and was asked with it.
LEMMA ConfigDoneKeeps ==
  ASSUME Inv, NEW r \in requests, ConfigDone(r)
  PROVE  Inv'
  <1>1. /\ r \in Request /\ r.auth \in SessionIds /\ r.under \in SessionIds /\ r.kind = "config"
        /\ tab \in Tab /\ UNCHANGED <<sessions, stored, events>>
        /\ tab' = IF stored = r.under
                  THEN [tab EXCEPT !.config = r.auth, !.configFor = r.under] ELSE tab
        /\ Follow(requests, requests')
    BY RequestFields, SettledFollows DEF Inv, TypeInv, ConfigDone
  <1>2. CASE stored = r.under
    <2>1. /\ tab' \in Tab /\ tab'.drawn = tab.drawn /\ tab'.header = tab.header /\ tab'.page = tab.page
          /\ tab'.list = tab.list /\ tab'.config = r.auth /\ tab'.configFor = r.under
      BY <1>1, <1>2 DEF Tab
    <2>2. tab'.config = tab'.configFor \/ "unprimed" \in events'
      BY <1>1, <2>1 DEF Inv, ConfigInv
    <2>3. events' \cap {"over", "elsewhere", "late"} # {} \/ tab'.list = stored' \/ tab'.list = NoSession
      BY <1>1, <2>1 DEF Inv, ListInv
    <2>4. \/ "elsewhere" \in events'
          \/ tab'.header = stored' /\ tab'.drawn = stored' /\ (tab'.page = "app" => stored' # NoSession)
      BY <1>1, <2>1 DEF Inv, CopyInv
    <2> QED
      BY <1>1, <2>1, <2>2, <2>3, <2>4, Keeps DEF Inv, TypeInv
  <1>3. CASE stored # r.under
    BY <1>1, <1>3, QuietKeeps DEF Inv, TypeInv
  <1> QED
    BY <1>2, <1>3

LEMMA DeniedKeeps ==
  ASSUME Inv, NEW r \in requests, Denied(r)
  PROVE  Inv'
  <1>1. CASE stored # NoSession /\ ~tab.muted
    <2>0. PICK leaving \in BOOLEAN : tab' = [Cleared EXCEPT !.leaving = leaving, !.muted = TRUE]
      BY <1>1 DEF Denied
    <2>1. /\ stored' = NoSession /\ UNCHANGED <<sessions, events>>
          /\ requests' = Unshared(requests \ {r}, {"list", "config"})
      BY <1>1 DEF Denied
    <2>2. /\ tab' \in Tab /\ tab'.page = "login" /\ tab'.header = stored' /\ tab'.drawn = stored'
          /\ tab'.list = NoSession /\ tab'.config = NoSession /\ stored' \in SessionIds
      BY <2>0, <2>1, ClearedIs, NoSessionIs DEF Inv, Tab
    <2>3. /\ Follow(requests, requests') /\ Apart(requests', "list") /\ Apart(requests', "config")
      BY <2>1, CutFollows, FewerFollow DEF Inv
    <2> QED
      BY <2>1, <2>2, <2>3, Keeps DEF Inv, TypeInv
  <1>2. CASE ~(stored # NoSession /\ ~tab.muted)
    <2>1. requests' = Settled(r) /\ UNCHANGED <<sessions, stored, tab, events>>
      BY <1>2 DEF Denied
    <2> QED
      BY <2>1, SettledFollows, QuietKeeps DEF Inv, TypeInv
  <1> QED
    BY <1>1, <1>2

-----------------------------------------------------------------------------
(* The invariant *)

LEMMA InvInit ==
  ASSUME Init
  PROVE  Inv
  <1>1. sessions \in Seq(Session) /\ Len(sessions) = 0 /\ MaxSessions \in Nat
    BY SessionAssumption DEF Init
  <1>2. /\ tab \in Tab /\ tab.header = stored /\ tab.drawn = stored /\ tab.page = "login"
        /\ tab.list = NoSession /\ tab.config = NoSession
    BY NoSessionIs DEF Init, Loaded, Tab
  <1>3. IsFiniteSet(requests) /\ AtMostOneShared(requests)
    BY FS_EmptySet DEF Init, AtMostOneShared
  <1>4. TypeInv
    BY <1>1, <1>2, <1>3, NoSessionIs DEF Init, TypeInv
  <1> QED
    BY <1>2, <1>4 DEF Init, Inv, CopyInv, ConfigInv, ListInv

LEMMA InvStep ==
  ASSUME Inv, [Next]_vars
  PROVE  Inv'
  <1>1. ASSUME NEW r \in requests, Serve(r) \/ Lose(r) \/ Read(r)
        PROVE  Inv'
    BY <1>1, ServeKeeps, LoseKeeps, ListDoneKeeps, ConfigDoneKeeps, DeniedKeeps DEF Read
  <1>2. CASE UNCHANGED vars
    BY <1>2, QuietKeeps, SelfFollows DEF vars, Inv, TypeInv
  <1> QED
    BY <1>1, <1>2, PageKeeps, NoticeKeeps, BackKeeps, OtherForgetsKeeps, OtherSignsInKeeps,
       EndKeeps, ForgetKeeps, GrantKeeps, SignInFailsKeeps, SignedInKeeps, SignInKeeps,
       FetchesKeep, ConfigAgesKeeps DEF Next

LEMMA InvHolds == Spec => []Inv
  <1> QED
    BY InvInit, InvStep, PTL DEF Spec

\* At most one.
LEMMA AtMostOne ==
  ASSUME NEW S, IsFiniteSet(S), \A r, s \in S : r = s
  PROVE  Cardinality(S) <= 1
  <1>1. CASE S = {}
    BY <1>1, FS_EmptySet
  <1>2. CASE S # {}
    <2>1. \E x : S = {x}
      BY <1>2
    <2> QED
      BY <2>1, FS_Singleton
  <1> QED
    BY <1>1, <1>2

\* Sessions, the tab and its requests keep their types, and of each cache at most one
\* request is on its way that later callers join.
THEOREM TypeCorrect == Spec => []TypeOK
  <1>1. Inv => TypeOK
    <2> SUFFICES ASSUME TypeInv PROVE TypeOK
      BY DEF Inv
    <2>1. InFlight("call") = {}
      BY DEF InFlight, TypeInv, AtMostOneShared
    <2>2. ASSUME NEW kind \in {"list", "config"}
          PROVE  Cardinality(InFlight(kind)) <= 1
      <3>1. IsFiniteSet(InFlight(kind))
        BY FS_Subset DEF TypeInv, InFlight
      <3>2. \A r, s \in InFlight(kind) : r = s
        BY DEF InFlight, TypeInv, AtMostOneShared
      <3> QED
        BY <3>1, <3>2, AtMostOne
    <2> QED
      BY <2>1, <2>2 DEF TypeInv, TypeOK, Session
  <1> QED
    BY <1>1, InvHolds, PTL

\* A configuration that a page gets is the stored session's: from the cache unless a
\* request had gone out under another, from one on its way unless another tab changed
\* the session.
THEOREM ConfigIsOfTheSession == Spec => []ConfigIsTheSessions
  <1>1. Inv => ConfigIsTheSessions
    BY DEF Inv, ConfigInv, ConfigIsTheSessions, CachedConfig, InFlight, Excused
  <1> QED
    BY <1>1, InvHolds, PTL

\* The lists that a tab keeps are those of the user who is signed in, but for a login
\* over another, another tab, or a list that came late.
THEOREM ListsAreOfTheUser == Spec => []ListsAreTheUsers
  <1>1. Inv => ListsAreTheUsers
    BY DEF Inv, ListInv, ListsAreTheUsers, Excused
  <1> QED
    BY <1>1, InvHolds, PTL

\* Every step sends a request, or makes no more of them.
LEMMA NoMoreRequests ==
  ASSUME Inv, [Next]_vars, ~(Call \/ FetchList \/ FetchConfig)
  PROVE  Cardinality(requests') <= Cardinality(requests) /\ Cardinality(requests') \in Nat
         /\ Cardinality(requests) \in Nat
  <1>1. Follow(requests, requests')
    <2>1. CASE UNCHANGED requests
      BY <2>1, SelfFollows DEF Inv
    <2>2. CASE Reload \/ Revoked
      BY <2>2, NoneFollows DEF Reload, Revoked, Load, Inv
    <2>3. CASE Forget
      BY <2>3, CutFollows, SelfFollows DEF Forget, Inv
    <2>4. CASE SignedIn
      BY <2>4, UnsharedFollows, SelfFollows DEF SignedIn, Inv
    <2>5. ASSUME NEW r \in requests, Serve(r) PROVE Follow(requests, requests')
      <3> DEFINE a == IF Live(r.auth) THEN "ok" ELSE "denied"
      <3>1. a \in {"ok", "denied"} /\ requests' = (requests \ {r}) \cup {[r EXCEPT !.answer = a]}
        BY <2>5 DEF Serve
      <3> HIDE DEF a
      <3> QED
        BY <3>1, ServedFollows DEF Inv
    <2>6. ASSUME NEW r \in requests, Lose(r) \/ CallDone(r) \/ ListDone(r) \/ ConfigDone(r)
          PROVE  Follow(requests, requests')
      BY <2>6, SettledFollows DEF Lose, CallDone, ListDone, ConfigDone, Inv
    <2>7. ASSUME NEW r \in requests, Denied(r) PROVE Follow(requests, requests')
      <3>1. requests' = Settled(r) \/ requests' = Unshared(requests \ {r}, {"list", "config"})
        BY <2>7 DEF Denied
      <3> QED
        BY <3>1, SettledFollows, CutFollows, FewerFollow DEF Inv
    <2>8. CASE \/ Notice \/ Back \/ OtherForgets \/ \E u \in Users : OtherSignsIn(u)
               \/ \E i \in DOMAIN sessions : End(i)
               \/ Grant \/ SignInFails \/ ConfigAges \/ \E u \in Users : SignIn(u)
      BY <2>1, <2>8 DEF Notice, Back, OtherForgets, OtherSignsIn, End, Grant, SignInFails,
         ConfigAges, SignIn
    <2> QED
      BY <2>1, <2>2, <2>3, <2>4, <2>5, <2>6, <2>7, <2>8 DEF Next, Read, vars
  <1> QED
    BY <1>1, FS_CardinalityType DEF Follow, Inv, TypeInv

\* A request that a page sends carries the session of the user it shows, unless another
\* tab changed the session.
THEOREM RequestsAreOfTheUserShown == Spec => ActsAsShown
  <1> DEFINE Shown == \A r \in requests' \ requests :
               Cardinality(requests') > Cardinality(requests) /\ r.auth # NoSession =>
                 \/ UserOf(r.auth) = UserOf(tab.drawn)
                 \/ Excused({"elsewhere"})
  <1>1. ASSUME Inv, [Next]_vars
        PROVE  Shown
    <2>1. CASE Call \/ FetchList \/ FetchConfig
      <3>1. \E kind, shared : Send(kind, shared)
        BY <2>1 DEF Call, FetchList, FetchConfig
      <3>2. \A r \in requests' \ requests : r.auth = tab.header
        BY <3>1 DEF Send
      <3>3. tab.header = tab.drawn \/ Excused({"elsewhere"})
        BY <1>1 DEF Inv, CopyInv, Excused
      <3> QED
        BY <3>2, <3>3
    <2>2. CASE ~(Call \/ FetchList \/ FetchConfig)
      BY <1>1, <2>2, NoMoreRequests
    <2> QED
      BY <2>1, <2>2
  <1> QED
    BY <1>1, InvHolds, PTL DEF Spec, ActsAsShown
=============================================================================

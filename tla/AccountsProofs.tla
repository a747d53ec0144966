--------------------------- MODULE AccountsProofs ---------------------------
(***************************************************************************)
(* Proofs about Accounts, for every set of users, phones and processes and *)
(* for every bound.                                                        *)
(***************************************************************************)
EXTENDS Accounts, TLAPS

\* What a request names is there: a device row is never deleted, nor a link.
NamedRows ==
  \A w \in Workers : Busy(w) =>
    /\ \A p \in req[w].drop \cup req[w].gone : device[p] # NoRow
    /\ (At(w, "login") /\ req[w].row # NoRow) =>
         \A p \in req[w].phone : device[p] # NoRow
    /\ (At(w, "device") \/ At(w, "login")) => \E p \in Phones : req[w].phone = {p}
    /\ (At(w, "link") \/ At(w, "reset")) => req[w].link \in DOMAIN links

TypeInv == TypeOK /\ NamedRows

-----------------------------------------------------------------------------
(* Requests and their fields *)

\* The fields of a request in flight.
LEMMA RequestFields ==
  ASSUME TypeOK, NEW w \in Workers, Busy(w)
  PROVE  /\ req[w] \in Request
         /\ req[w].pc \in Pcs /\ req[w].user \in Users
         /\ req[w].old \in Factor /\ req[w].mine \in Factor
         /\ req[w].code \in Nat /\ req[w].password \in Nat
         /\ req[w].phone \subseteq Phones /\ req[w].row \in Device \cup {NoRow}
         /\ req[w].drop \subseteq Phones /\ req[w].gone \subseteq Phones
         /\ req[w].seen \subseteq Nat /\ req[w].link \in Nat
  BY DEF TypeOK, Request, Busy

\* A process that is somewhere is not idle.
LEMMA BusyAt ==
  ASSUME NEW w, NEW pc \in Pcs, At(w, pc)
  PROVE  Busy(w)
  BY DEF At, Busy, Idle, Pcs

\* What a request is when it starts.
LEMMA ReadingFields ==
  ASSUME TypeOK, NEW u \in Users, NEW pc \in Pcs
  PROVE  /\ Reading(u, pc) \in Request
         /\ Reading(u, pc).pc = pc /\ Reading(u, pc).user = u
         /\ Reading(u, pc).old = factor[u] /\ Reading(u, pc).mine = factor[u]
         /\ Reading(u, pc).code = NoSecret
         /\ Reading(u, pc).drop = {} /\ Reading(u, pc).gone = {}
         /\ Reading(u, pc).row = NoRow
  BY DEF Reading, TypeOK, Request, Pcs, NoSecret

\* The row of a link.
LEMMA LinkFields ==
  ASSUME TypeOK, NEW l \in DOMAIN links
  PROVE  links[l] \in Link /\ l \in Nat /\ links[l].user \in Users
  <1>1. links \in Seq(Link)
    BY DEF TypeOK
  <1>2. links[l] \in Link /\ l \in Nat
    BY <1>1
  <1> QED
    BY <1>2 DEF Link

-----------------------------------------------------------------------------
(* Types *)

\* A request, or none, in the place of another keeps the invariant, when what it
\* names is there and what is there stays.
LEMMA BecomesTyped ==
  ASSUME TypeInv, NEW w \in Workers, NEW q \in Request \cup {Idle}, Becomes(w, q),
         \A p \in Phones : device[p] # NoRow => device'[p] # NoRow,
         DOMAIN links \subseteq DOMAIN links',
         q # Idle =>
           /\ \A p \in q.drop \cup q.gone : device[p] # NoRow
           /\ (q.pc = "login" /\ q.row # NoRow) => \A p \in q.phone : device[p] # NoRow
           /\ q.pc \in {"device", "login"} => \E p \in Phones : q.phone = {p}
           /\ q.pc \in {"link", "reset"} => q.link \in DOMAIN links
  PROVE  req' \in [Workers -> Request \cup {Idle}] /\ NamedRows'
  <1>1. req'[w] = q /\ \A v \in Workers \ {w} : req'[v] = req[v]
    BY DEF Becomes, TypeInv, TypeOK
  <1>2. req' \in [Workers -> Request \cup {Idle}]
    BY DEF Becomes, TypeInv, TypeOK
  <1>3. ASSUME NEW v \in Workers, Busy(v)'
        PROVE  (/\ \A p \in req[v].drop \cup req[v].gone : device[p] # NoRow
                /\ (At(v, "login") /\ req[v].row # NoRow) =>
                     \A p \in req[v].phone : device[p] # NoRow
                /\ (At(v, "device") \/ At(v, "login")) =>
                     \E p \in Phones : req[v].phone = {p}
                /\ (At(v, "link") \/ At(v, "reset")) => req[v].link \in DOMAIN links)'
    <2>1. CASE v = w
      <3>1. q \in Request /\ q # Idle
        BY <1>1, <1>3, <2>1 DEF Busy
      <3> QED
        BY <1>1, <2>1, <3>1 DEF At, Request
    <2>2. CASE v # w
      <3>1. Busy(v) /\ req'[v] = req[v]
        BY <1>1, <1>3, <2>2 DEF Busy
      <3>2. req[v].drop \subseteq Phones /\ req[v].gone \subseteq Phones
            /\ req[v].phone \subseteq Phones
        BY <3>1, RequestFields DEF TypeInv
      <3> QED
        BY <3>1, <3>2 DEF At, TypeInv, NamedRows
    <2> QED
      BY <2>1, <2>2
  <1> QED
    BY <1>2, <1>3 DEF NamedRows

\* A request starts.
LEMMA StartTyped ==
  ASSUME TypeInv, NEW w \in Workers, NEW q \in Request, Start(w, q), secrets' \in Nat,
         \A p \in q.drop \cup q.gone : device[p] # NoRow,
         q.pc # "login", q.pc # "reset",
         q.pc = "device" => \E p \in Phones : q.phone = {p},
         q.pc = "link" => q.link \in DOMAIN links
  PROVE  TypeInv'
  <1>1. req' \in [Workers -> Request \cup {Idle}] /\ NamedRows'
    BY BecomesTyped DEF Start
  <1>2. started' \in Nat
    BY DEF Start, Counted, TypeInv, TypeOK
  <1> QED
    BY <1>1, <1>2 DEF Start, TypeInv, TypeOK

\* What a request writes of the factor.
LEMMA SaveFactorTyped ==
  ASSUME TypeOK, NEW w \in Workers, Busy(w), SaveFactor(w)
  PROVE  /\ factor' \in [Users -> Factor]
         /\ confirmed' \subseteq Nat
         /\ crossed' \subseteq Users
  <1>1. req[w].user \in Users /\ req[w].mine \in Factor /\ req[w].code \in Nat
    BY RequestFields
  <1>2. factor \in [Users -> Factor] /\ confirmed \subseteq Nat /\ crossed \subseteq Users
    BY DEF TypeOK
  <1>3. MergedFactor(w) \in Factor
    BY <1>1, <1>2 DEF MergedFactor, Factor
  <1>4. factor' \in [Users -> Factor]
    BY <1>2, <1>3 DEF SaveFactor
  <1>5. confirmed' \subseteq Nat
    BY <1>1, <1>2 DEF SaveFactor
  <1>6. crossed' \subseteq Users
    BY <1>1, <1>2 DEF SaveFactor
  <1> QED
    BY <1>4, <1>5, <1>6

\* The device row a login writes.
LEMMA SavedDeviceTyped ==
  ASSUME TypeInv, NEW w \in Workers, At(w, "login"), NEW p \in req[w].phone
  PROVE  SavedDevice(w, p) \in Device /\ SavedDevice(w, p) # NoRow /\ p \in Phones
  <1>1. Busy(w)
    BY BusyAt DEF Pcs
  <1>2. /\ req[w].user \in Users /\ req[w].row \in Device \cup {NoRow}
        /\ p \in Phones
    BY <1>1, RequestFields DEF TypeInv
  <1>3. device[p] \in Device \cup {NoRow} /\ (req[w].row # NoRow => device[p] # NoRow)
    BY <1>1, <1>2 DEF TypeInv, TypeOK, NamedRows
  <1>4. SavedDevice(w, p) \in Device
    BY <1>2, <1>3 DEF SavedDevice, Device
  <1>5. NoRow \notin Device
    BY DEF NoRow, Device
  <1> QED
    BY <1>2, <1>4, <1>5

\* Requests that only read: the row of the device, the sessions on it, the user's.
LEMMA ReadTyped ==
  ASSUME TypeInv, NEW w \in Workers,
         LoginDevice(w) \/ DeregisterRead(w) \/ ResetRead(w)
  PROVE  TypeInv'
  <1> USE DEF TypeInv
  <1>1. SUFFICES /\ req' \in [Workers -> Request \cup {Idle}] /\ NamedRows'
                 /\ UNCHANGED <<password, factor, device, sessions, links, tokens, opened,
                                secrets, started, barrier, confirmed, crossed, deleted>>
    BY DEF TypeOK
  <1>2. Busy(w)
    BY BusyAt DEF LoginDevice, DeregisterRead, ResetRead, Pcs
  <1>3. /\ req[w] \in Request /\ req[w].phone \subseteq Phones
        /\ req[w].user \in Users /\ req[w].drop \subseteq Phones
        /\ req[w].gone \subseteq Phones /\ req[w].seen \subseteq Nat
    BY <1>2, RequestFields
  <1>4. /\ device \in [Phones -> Device \cup {NoRow}]
        /\ \A S \in SUBSET sessions : SessionIds(S) \subseteq Nat
    BY DEF TypeOK, SessionIds, Session
  <1>5. /\ \A p \in req[w].drop \cup req[w].gone : device[p] # NoRow
        /\ (At(w, "device") \/ At(w, "login")) => \E p \in Phones : req[w].phone = {p}
        /\ At(w, "link") => req[w].link \in DOMAIN links
    BY <1>2 DEF NamedRows
  <1>6. CASE LoginDevice(w)
    <2>1. PICK p \in req[w].phone :
            Becomes(w, [req[w] EXCEPT !.pc = "login", !.row = device[p]])
      BY <1>6 DEF LoginDevice
    <2> DEFINE q == [req[w] EXCEPT !.pc = "login", !.row = device[p]]
    <2>2. /\ q \in Request /\ q.pc = "login" /\ q.row = device[p]
          /\ q.phone = {p} /\ q.drop = req[w].drop /\ q.gone = req[w].gone
      BY <1>3, <1>4, <1>5, <1>6 DEF Request, LoginDevice, Pcs
    <2>3. q # Idle
      BY <2>2 DEF Idle
    <2> HIDE DEF q
    <2>4. req' \in [Workers -> Request \cup {Idle}] /\ NamedRows'
      BY <1>3, <1>5, <1>6, <2>1, <2>2, <2>3, BecomesTyped DEF LoginDevice, q
    <2> QED
      BY <1>6, <2>4 DEF LoginDevice
  <1>7. CASE DeregisterRead(w)
    <2>1. PICK p \in req[w].drop :
            Becomes(w, [req[w] EXCEPT
              !.pc = IF req[w].drop = {p} THEN "deregister" ELSE @,
              !.drop = @ \ {p}, !.gone = @ \cup {p},
              !.seen = @ \cup SessionIds(SessionsToEnd(w, p))])
      BY <1>7 DEF DeregisterRead
    <2> DEFINE q == [req[w] EXCEPT
              !.pc = IF req[w].drop = {p} THEN "deregister" ELSE @,
              !.drop = @ \ {p}, !.gone = @ \cup {p},
              !.seen = @ \cup SessionIds(SessionsToEnd(w, p))]
    <2>2. SessionIds(SessionsToEnd(w, p)) \subseteq Nat
      BY <1>4 DEF SessionsToEnd, SessionsOn
    <2>3. /\ q \in Request /\ q.pc \in {"sessions", "deregister"}
          /\ q.drop = req[w].drop \ {p} /\ q.gone = req[w].gone \cup {p}
      BY <1>3, <1>7, <2>2 DEF Request, DeregisterRead, At, Pcs
    <2> HIDE DEF q
    <2>4. req' \in [Workers -> Request \cup {Idle}] /\ NamedRows'
      <3>1. \A r \in q.drop \cup q.gone : device[r] # NoRow
        BY <1>5, <2>3
      <3>2. Becomes(w, q) /\ device' = device /\ links' = links
        BY <1>7, <2>1 DEF DeregisterRead, q
      <3> QED
        BY <2>3, <3>1, <3>2, BecomesTyped
    <2> QED
      BY <1>7, <2>4 DEF DeregisterRead
  <1>8. CASE ResetRead(w)
    <2> DEFINE q == [req[w] EXCEPT !.pc = "reset",
                       !.seen = SessionIds(SessionsOf(req[w].user))]
    <2>1. /\ q \in Request /\ q.pc = "reset" /\ q.link = req[w].link
          /\ q.drop = req[w].drop /\ q.gone = req[w].gone
      BY <1>3, <1>4 DEF Request, SessionsOf, Pcs
    <2> HIDE DEF q
    <2>2. Becomes(w, q) /\ device' = device /\ links' = links
      BY <1>8 DEF ResetRead, q
    <2>3. req[w].link \in DOMAIN links
      BY <1>5, <1>8 DEF ResetRead
    <2>4. req' \in [Workers -> Request \cup {Idle}] /\ NamedRows'
      BY <1>5, <2>1, <2>2, <2>3, BecomesTyped
    <2> QED
      BY <1>8, <2>4 DEF ResetRead
  <1> QED
    BY <1>6, <1>7, <1>8

\* A request ends: nothing it named has to be there.
LEMMA EndTyped ==
  ASSUME TypeInv, NEW w \in Workers, Becomes(w, Idle),
         \A p \in Phones : device[p] # NoRow => device'[p] # NoRow,
         DOMAIN links \subseteq DOMAIN links'
  PROVE  req' \in [Workers -> Request \cup {Idle}] /\ NamedRows'
  BY BecomesTyped

\* The commit of a login.
LEMMA LoginCommitTyped ==
  ASSUME TypeInv, NEW w \in Workers, LoginCommit(w)
  PROVE  TypeInv'
  <1> USE DEF TypeInv
  <1>1. Busy(w) /\ At(w, "login")
    BY BusyAt DEF LoginCommit, Pcs
  <1>2. PICK p \in req[w].phone :
          /\ device' = [device EXCEPT ![p] = SavedDevice(w, p)]
          /\ sessions' = sessions \cup {NewSession(w, p)}
    BY DEF LoginCommit
  <1>3. SavedDevice(w, p) \in Device /\ SavedDevice(w, p) # NoRow /\ p \in Phones
    BY <1>1, SavedDeviceTyped
  <1>4. /\ device' \in [Phones -> Device \cup {NoRow}] /\ device'[p] # NoRow
        /\ \A r \in Phones : device[r] # NoRow => device'[r] # NoRow
    BY <1>2, <1>3 DEF TypeOK
  <1>5. req' \in [Workers -> Request \cup {Idle}] /\ NamedRows'
    BY <1>4, EndTyped DEF LoginCommit
  <1>6. /\ factor' \in [Users -> Factor] /\ confirmed' \subseteq Nat
        /\ crossed' \subseteq Users
    BY <1>1, SaveFactorTyped DEF LoginCommit
  <1>7. req[w].user \in Users /\ req[w].password \in Nat
    BY <1>1, RequestFields
  <1>8. opened \in Nat /\ opened' = opened + 1
    BY DEF LoginCommit, TypeOK
  <1>9. Slips(w, p) \in BOOLEAN
    BY DEF Slips
  <1>10. /\ NewSession(w, p) \in Session /\ NewSession(w, p).id = opened + 1
         /\ NewSession(w, p).phone = p
    BY <1>3, <1>7, <1>8, <1>9 DEF NewSession, Session
  <1>11. \A s \in sessions : s \in Session /\ s.id <= opened /\ device[s.phone] # NoRow
    BY DEF TypeOK
  <1>12. sessions' \subseteq Session
    BY <1>2, <1>10, <1>11
  <1>13. \A s \in sessions' : s.id <= opened' /\ device'[s.phone] # NoRow
    <2>1. TAKE s \in sessions'
    <2>2. CASE s \in sessions
      BY <1>4, <1>8, <1>11, <2>2 DEF Session
    <2>3. CASE s = NewSession(w, p)
      BY <1>4, <1>8, <1>10, <2>3
    <2> QED
      BY <1>2, <2>1, <2>2, <2>3
  <1>14. \A s, t \in sessions' : s.id = t.id => s = t
    <2>1. \A s \in sessions : s.id # opened + 1
      BY <1>8, <1>11 DEF Session
    <2>2. \A s, t \in sessions : s.id = t.id => s = t
      BY DEF TypeOK
    <2> QED
      BY <1>2, <1>10, <2>1, <2>2
  <1>15. deleted' \subseteq Phones
    BY DEF LoginCommit, TypeOK
  <1> QED
    BY <1>4, <1>5, <1>6, <1>8, <1>12, <1>13, <1>14, <1>15 DEF LoginCommit, TypeOK

\* Sessions that end.
LEMMA EndSeenTyped ==
  ASSUME TypeOK, NEW w \in Workers, EndSeen(w)
  PROVE  sessions' \subseteq sessions
  BY DEF EndSeen

\* The other commits, and the rollback.
LEMMA CommitTyped ==
  ASSUME TypeInv, NEW w \in Workers,
         \/ DeregisterCommit(w) \/ ForgotCommit(w) \/ ResetCommit(w)
         \/ ChangeCommit(w) \/ FactorCommit(w) \/ Fail(w)
  PROVE  TypeInv'
  <1> USE DEF TypeInv
  <1>1. Busy(w)
    BY BusyAt DEF DeregisterCommit, ForgotCommit, ResetCommit, ChangeCommit,
                  FactorCommit, Fail, Pcs
  <1>2. /\ req[w].user \in Users /\ req[w].gone \subseteq Phones
        /\ req[w].link \in Nat
    BY <1>1, RequestFields
  <1>3. /\ password \in [Users -> Nat] /\ barrier \in [Users -> Nat]
        /\ device \in [Phones -> Device \cup {NoRow}]
        /\ links \in Seq(Link) /\ sessions \subseteq Session
    BY DEF TypeOK
  <1>4. CASE DeregisterCommit(w)
    <2>1. \A p \in req[w].gone : device[p] # NoRow /\ device[p] \in Device
      BY <1>1, <1>2, <1>3 DEF NamedRows
    <2>2. /\ device' \in [Phones -> Device \cup {NoRow}]
          /\ \A p \in Phones : device[p] # NoRow => device'[p] # NoRow
      <3>1. NoRow \notin Device
        BY DEF NoRow, Device
      <3>2. \A p \in req[w].gone : [device[p] EXCEPT !.active = FALSE] \in Device
        BY <2>1 DEF Device
      <3> QED
        BY <1>3, <1>4, <3>1, <3>2 DEF DeregisterCommit
    <2>3. req' \in [Workers -> Request \cup {Idle}] /\ NamedRows'
      BY <1>4, <2>2, EndTyped DEF DeregisterCommit
    <2>4. sessions' \subseteq sessions
      BY <1>4, EndSeenTyped DEF DeregisterCommit
    <2>5. \A s \in sessions : s.phone \in Phones
      BY <1>3 DEF Session
    <2> QED
      BY <1>4, <2>2, <2>3, <2>4, <2>5 DEF DeregisterCommit, TypeOK
  <1>5. CASE ForgotCommit(w)
    <2>1. \A l \in DOMAIN links : links[l] \in Link /\ l \in Nat
      BY <1>3
    <2> DEFINE new == [user |-> req[w].user, open |-> TRUE, uses |-> 0,
                       slipped |-> OpenLinks(req[w].user) \ req[w].seen # {}]
               closed == [l \in DOMAIN links |->
                            [links[l] EXCEPT !.open = @ /\ l \notin req[w].seen]]
    <2>2. new \in Link
      BY <1>2 DEF Link
    <2>3. closed \in Seq(Link) /\ DOMAIN closed = DOMAIN links
      <3>1. \A l \in DOMAIN links :
              [links[l] EXCEPT !.open = @ /\ l \notin req[w].seen] \in Link
        BY <2>1 DEF Link
      <3>2. Len(links) \in Nat /\ DOMAIN links = 1..Len(links)
        BY <1>3
      <3> QED
        BY <3>1, <3>2
    <2>4. links' = Append(closed, new)
      BY <1>5 DEF ForgotCommit
    <2> HIDE DEF closed, new
    <2>5. links' \in Seq(Link) /\ DOMAIN links \subseteq DOMAIN links'
      BY <2>2, <2>3, <2>4
    <2>6. req' \in [Workers -> Request \cup {Idle}] /\ NamedRows'
      BY <1>5, <2>5, EndTyped DEF ForgotCommit
    <2> QED
      BY <1>5, <2>5, <2>6 DEF ForgotCommit, TypeOK
  <1>6. CASE ResetCommit(w)
    <2>1. password' \in [Users -> Nat]
      BY <1>2, <1>3, <1>6 DEF ResetCommit, NextPassword
    <2>2. barrier' \in [Users -> Nat]
      BY <1>2, <1>3, <1>6, <2>1 DEF ResetCommit
    <2>3. req[w].link \in DOMAIN links
      BY <1>1, <1>6 DEF ResetCommit, NamedRows
    <2>4. Completed(links[req[w].link]) \in Link
      <3> DEFINE link == links[req[w].link]
      <3>1. link \in Link
        BY <2>3, LinkFields
      <3>2. link.uses + 1 \in Nat
        BY <3>1 DEF Link
      <3>3. (link.slipped \/ ~link.open) \in BOOLEAN
        OBVIOUS
      <3> DEFINE x == link.slipped \/ ~link.open
                 n == link.uses + 1
      <3>4. Completed(link) = [link EXCEPT !.open = FALSE, !.uses = n, !.slipped = x]
        BY DEF Completed
      <3> HIDE DEF link, x, n
      <3>5. x \in BOOLEAN /\ n \in Nat
        BY <3>2, <3>3 DEF x, n
      <3> QED
        BY <3>1, <3>4, <3>5 DEF Link, link
    <2>5. links' \in Seq(Link) /\ DOMAIN links' = DOMAIN links
      BY <1>3, <1>6, <2>3, <2>4 DEF ResetCommit
    <2>6. req' \in [Workers -> Request \cup {Idle}] /\ NamedRows'
      BY <1>6, <2>5, EndTyped DEF ResetCommit
    <2>7. sessions' \subseteq sessions
      BY <1>6, EndSeenTyped DEF ResetCommit
    <2> QED
      BY <1>6, <2>1, <2>2, <2>5, <2>6, <2>7 DEF ResetCommit, TypeOK
  <1>7. CASE ChangeCommit(w)
    <2>1. password' \in [Users -> Nat]
      BY <1>2, <1>3, <1>7 DEF ChangeCommit, NextPassword
    <2>2. req' \in [Workers -> Request \cup {Idle}] /\ NamedRows'
      BY <1>7, EndTyped DEF ChangeCommit
    <2> QED
      BY <1>7, <2>1, <2>2 DEF ChangeCommit, TypeOK
  <1>8. CASE FactorCommit(w)
    <2>1. /\ factor' \in [Users -> Factor] /\ confirmed' \subseteq Nat
          /\ crossed' \subseteq Users
      BY <1>1, <1>8, SaveFactorTyped DEF FactorCommit
    <2>2. req' \in [Workers -> Request \cup {Idle}] /\ NamedRows'
      BY <1>8, EndTyped DEF FactorCommit
    <2> QED
      BY <1>8, <2>1, <2>2 DEF FactorCommit, TypeOK
  <1>9. CASE Fail(w)
    <2>1. req' \in [Workers -> Request \cup {Idle}] /\ NamedRows'
      BY <1>9, EndTyped DEF Fail
    <2> QED
      BY <1>9, <2>1 DEF Fail, TypeOK
  <1> QED
    BY <1>4, <1>5, <1>6, <1>7, <1>8, <1>9

\* What belongs to no process.
LEMMA OutsideTyped ==
  ASSUME TypeInv,
         \/ \E u \in Users, p \in Phones : LoginHalfway(u, p)
         \/ \E p \in Phones : DeleteDevice(p)
         \/ \E t \in tokens : ExpireToken(t)
         \/ \E l \in DOMAIN links : ExpireLink(l)
  PROVE  TypeInv'
  <1> USE DEF TypeInv
  <1>1. /\ password \in [Users -> Nat] /\ links \in Seq(Link)
        /\ device \in [Phones -> Device \cup {NoRow}]
    BY DEF TypeOK
  <1>2. ASSUME NEW u \in Users, NEW p \in Phones, LoginHalfway(u, p)
        PROVE  TypeInv'
    <2>1. \A mode \in Modes : NewToken(u, p, mode) \in Token
      BY <1>1 DEF NewToken, Token
    <2>2. tokens' \subseteq Token /\ started' \in Nat
      BY <1>2, <2>1 DEF LoginHalfway, TypeOK, Counted, Modes
    <2> QED
      BY <1>2, <2>2 DEF LoginHalfway, TypeOK, NamedRows, Busy, At
  <1>3. ASSUME NEW t \in tokens, ExpireToken(t)
        PROVE  TypeInv'
    BY <1>3 DEF ExpireToken, TypeOK, NamedRows, Busy, At
  <1>4. ASSUME NEW l \in DOMAIN links, ExpireLink(l)
        PROVE  TypeInv'
    <2>1. [links[l] EXCEPT !.open = FALSE] \in Link
      <3>1. links[l] \in Link
        BY LinkFields
      <3> QED
        BY <3>1 DEF Link
    <2>2. links' \in Seq(Link) /\ DOMAIN links' = DOMAIN links
      BY <1>1, <1>4, <2>1 DEF ExpireLink
    <2> QED
      BY <1>4, <2>2 DEF ExpireLink, TypeOK, NamedRows, Busy, At
  <1>5. ASSUME NEW p \in Phones, DeleteDevice(p)
        PROVE  TypeInv'
    <2>1. device[p] \in Device /\ NoRow \notin Device
      <3>1. NoRow \notin Device
        BY DEF NoRow, Device
      <3> QED
        BY <1>1, <1>5, <3>1 DEF DeleteDevice
    <2>2. [device[p] EXCEPT !.active = FALSE] \in Device
      BY <2>1 DEF Device
    <2>3. /\ device' \in [Phones -> Device \cup {NoRow}]
          /\ \A r \in Phones : device[r] # NoRow => device'[r] # NoRow
      BY <1>1, <1>5, <2>1, <2>2 DEF DeleteDevice
    <2>4. deleted' \subseteq Phones /\ started' \in Nat
      BY <1>5 DEF DeleteDevice, Counted, TypeOK
    <2>5. \A w \in Workers : Busy(w) =>
            /\ req[w].drop \subseteq Phones /\ req[w].gone \subseteq Phones
            /\ req[w].phone \subseteq Phones
      BY RequestFields
    <2>6. NamedRows'
      <3>1. UNCHANGED <<req, links>>
        BY <1>5 DEF DeleteDevice
      <3>2. ASSUME NEW w \in Workers, Busy(w)
            PROVE  /\ \A r \in req[w].drop \cup req[w].gone : device'[r] # NoRow
                   /\ (At(w, "login") /\ req[w].row # NoRow) =>
                        \A r \in req[w].phone : device'[r] # NoRow
                   /\ (At(w, "device") \/ At(w, "login")) =>
                        \E r \in Phones : req[w].phone = {r}
                   /\ (At(w, "link") \/ At(w, "reset")) => req[w].link \in DOMAIN links
        BY <2>3, <2>5, <3>2 DEF NamedRows
      <3> QED
        BY <3>1, <3>2 DEF NamedRows, Busy, At
    <2>7. \A s \in sessions : s.phone \in Phones
      BY DEF TypeOK, Session
    <2> QED
      BY <1>5, <2>3, <2>4, <2>6, <2>7 DEF DeleteDevice, TypeOK
  <1> QED
    BY <1>2, <1>3, <1>4, <1>5

\* The requests that start.
Starts(w) ==
  \/ \E u \in Users :
       \/ \E p \in Phones : Login(w, u, p)
       \/ \E drop \in SUBSET Phones : Deregister(w, u, drop)
       \/ Forgot(w, u) \/ Change(w, u)
       \/ Setup(w, u) \/ Confirm(w, u) \/ SwitchOff(w, u)
  \/ \E t \in tokens : VerifyLogin(w, t)
  \/ \E l \in DOMAIN links : Reset(w, l)

\* What a handler sets of the factor: nothing; enabled, after a code of the secret
\* that was read; or not enabled.
Shaped(q) ==
  \/ q.mine = q.old
  \/ /\ q.mine.secret = q.old.secret
     /\ q.code = q.old.secret /\ q.code # NoSecret
  \/ ~q.mine.enabled

\* What a request is when it starts, and that what it names is there.
Fresh(q) ==
  /\ q \in Request
  /\ q.pc \notin {"login", "reset"} /\ q.gone = {}
  /\ \A p \in q.drop : device[p] # NoRow
  /\ q.pc = "device" => \E p \in Phones : q.phone = {p}
  /\ q.pc = "link" => q.link \in DOMAIN links
  /\ Shaped(q)

LEMMA StartsFresh ==
  ASSUME TypeInv, NEW w \in Workers, Starts(w)
  PROVE  \E q : Start(w, q) /\ Fresh(q) /\ secrets' \in Nat
  <1> DEFINE Goal == \E q : Start(w, q) /\ Fresh(q) /\ secrets' \in Nat
  <1>1. /\ TypeOK /\ factor \in [Users -> Factor] /\ secrets \in Nat
        /\ links \in Seq(Link) /\ tokens \subseteq Token
        /\ device \in [Phones -> Device \cup {NoRow}]
    BY DEF TypeInv, TypeOK
  <1>2. ASSUME NEW u \in Users, NEW p \in Phones, Login(w, u, p)
        PROVE  Goal
    <2> DEFINE q == [Reading(u, "device") EXCEPT !.phone = {p}]
    <2>1. /\ q \in Request /\ q.pc = "device" /\ q.phone = {p}
          /\ q.drop = {} /\ q.gone = {} /\ q.mine = q.old
      BY <1>1, ReadingFields DEF Request, Reading, Pcs
    <2> HIDE DEF q
    <2>2. Start(w, q) /\ secrets' \in Nat
      BY <1>1, <1>2 DEF Login, q
    <2>3. Fresh(q)
      BY <2>1 DEF Fresh, Shaped
    <2> QED
      BY <2>2, <2>3
  <1>3. ASSUME NEW u \in Users, NEW drop \in SUBSET Phones, Deregister(w, u, drop)
        PROVE  Goal
    <2> DEFINE q == [Reading(u, "sessions") EXCEPT !.drop = drop]
    <2>1. /\ q \in Request /\ q.pc = "sessions" /\ q.drop = drop /\ q.gone = {}
          /\ q.mine = q.old
      BY <1>1, ReadingFields DEF Request, Reading, Pcs
    <2> HIDE DEF q
    <2>2. Start(w, q) /\ secrets' \in Nat
      BY <1>1, <1>3 DEF Deregister, q
    <2>3. \A r \in drop : device[r] # NoRow
      <3>1. NoRow \notin Device
        BY DEF NoRow, Device
      <3>2. \A r \in drop : device[r] = [user |-> u, active |-> TRUE]
        BY <1>3 DEF Deregister, ActiveOf
      <3>3. [user |-> u, active |-> TRUE] \in Device
        BY DEF Device
      <3> QED
        BY <3>1, <3>2, <3>3
    <2>4. Fresh(q)
      BY <2>1, <2>3 DEF Fresh, Shaped
    <2> QED
      BY <2>2, <2>4
  <1>4. ASSUME NEW u \in Users, Forgot(w, u)
        PROVE  Goal
    <2> DEFINE q == [Reading(u, "forgot") EXCEPT !.seen = OpenLinks(u)]
    <2>1. OpenLinks(u) \subseteq Nat
      BY <1>1 DEF OpenLinks
    <2>2. /\ q \in Request /\ q.pc = "forgot" /\ q.drop = {} /\ q.gone = {}
          /\ q.mine = q.old
      BY <1>1, <2>1, ReadingFields DEF Request, Reading, Pcs
    <2> HIDE DEF q
    <2>3. Start(w, q) /\ secrets' \in Nat
      BY <1>1, <1>4 DEF Forgot, q
    <2>4. Fresh(q)
      BY <2>2 DEF Fresh, Shaped
    <2> QED
      BY <2>3, <2>4
  <1>5. ASSUME NEW u \in Users, Change(w, u)
        PROVE  Goal
    <2> DEFINE q == Reading(u, "change")
    <2>1. /\ q \in Request /\ q.pc = "change" /\ q.drop = {} /\ q.gone = {}
          /\ q.mine = q.old
      BY <1>1, ReadingFields DEF Pcs
    <2> HIDE DEF q
    <2>2. Start(w, q) /\ secrets' \in Nat
      BY <1>1, <1>5 DEF Change, q
    <2>3. Fresh(q)
      BY <2>1 DEF Fresh, Shaped
    <2> QED
      BY <2>2, <2>3
  <1>6. ASSUME NEW u \in Users, Setup(w, u) \/ Confirm(w, u) \/ SwitchOff(w, u)
        PROVE  Goal
    <2>1. PICK q : /\ Start(w, q)
                   /\ q \in Request /\ q.pc = "factor" /\ q.drop = {} /\ q.gone = {}
                   /\ Shaped(q)
      <3>1. factor[u] \in Factor /\ NewSecret(u) \in Factor
            /\ [secret |-> NoSecret, enabled |-> FALSE] \in Factor
        BY <1>1 DEF Factor, NewSecret, NoSecret
      <3>2. /\ Reading(u, "factor") \in Request
            /\ Reading(u, "factor").mine = factor[u]
            /\ Reading(u, "factor").old = factor[u]
        BY <1>1, ReadingFields DEF Pcs
      <3>3. CASE Setup(w, u)
        <4> WITNESS [Reading(u, "factor") EXCEPT !.mine = NewSecret(u)]
        <4> QED
          BY <3>1, <3>2, <3>3 DEF Request, Setup, Reading, Shaped, NewSecret
      <3>4. CASE Confirm(w, u)
        <4> WITNESS [Reading(u, "factor") EXCEPT !.mine.enabled = TRUE,
                                                 !.code = factor[u].secret]
        <4> QED
          BY <3>1, <3>2, <3>4 DEF Request, Confirm, Reading, Shaped, Factor
      <3>5. CASE SwitchOff(w, u)
        <4> WITNESS [Reading(u, "factor") EXCEPT
                       !.mine = [secret |-> NoSecret, enabled |-> FALSE]]
        <4> QED
          BY <3>1, <3>2, <3>5 DEF Request, SwitchOff, Reading, Shaped
      <3> QED
        BY <1>6, <3>3, <3>4, <3>5
    <2>2. secrets' \in Nat
      BY <1>1, <1>6 DEF Setup, Confirm, SwitchOff
    <2>3. Fresh(q)
      BY <2>1 DEF Fresh
    <2> QED
      BY <2>1, <2>2, <2>3
  <1>7. ASSUME NEW t \in tokens, VerifyLogin(w, t)
        PROVE  Goal
    <2> DEFINE q == [Reading(t.user, "device") EXCEPT
                       !.phone = {t.phone}, !.password = t.password,
                       !.code = factor[t.user].secret, !.mine.enabled = TRUE]
    <2>1. t.user \in Users /\ t.phone \in Phones /\ t.password \in Nat
      BY <1>1 DEF Token
    <2>2. factor[t.user] \in Factor /\ factor[t.user].secret \in Nat
      BY <1>1, <2>1 DEF Factor
    <2>3. /\ q \in Request /\ q.pc = "device" /\ q.phone = {t.phone}
          /\ q.drop = {} /\ q.gone = {} /\ q.code = factor[t.user].secret
          /\ q.mine.secret = q.code /\ q.old.secret = q.code
      <3> DEFINE r == Reading(t.user, "device")
      <3>1. /\ r \in Request /\ r.mine = factor[t.user] /\ r.pc = "device"
            /\ r.old = factor[t.user]
            /\ r.drop = {} /\ r.gone = {}
        BY <1>1, <2>1, ReadingFields DEF Pcs
      <3>2. [r.mine EXCEPT !.enabled = TRUE] \in Factor
        BY <2>2, <3>1 DEF Factor
      <3>3. q = [r EXCEPT !.phone = {t.phone}, !.password = t.password,
                          !.code = factor[t.user].secret,
                          !.mine = [r.mine EXCEPT !.enabled = TRUE]]
        BY <3>1 DEF Request
      <3> HIDE DEF r, q
      <3> QED
        BY <2>1, <2>2, <3>1, <3>2, <3>3 DEF Request, Factor
    <2> HIDE DEF q
    <2>4. Start(w, q) /\ secrets' \in Nat
      BY <1>1, <1>7 DEF VerifyLogin, q
    <2>5. q.code # NoSecret
      BY <1>7, <2>3 DEF VerifyLogin
    <2>6. Fresh(q)
      BY <2>1, <2>3, <2>5 DEF Fresh, Shaped
    <2> QED
      BY <2>4, <2>6
  <1>8. ASSUME NEW l \in DOMAIN links, Reset(w, l)
        PROVE  Goal
    <2> DEFINE q == [Reading(links[l].user, "link") EXCEPT !.link = l]
    <2>1. links[l].user \in Users /\ l \in Nat
      BY <1>1, LinkFields
    <2>2. /\ q \in Request /\ q.pc = "link" /\ q.link = l
          /\ q.drop = {} /\ q.gone = {} /\ q.mine = q.old
      <3> DEFINE u == links[l].user
                 r == Reading(u, "link")
      <3>1. /\ r \in Request /\ r.pc = "link" /\ r.drop = {} /\ r.gone = {}
            /\ r.mine = r.old
        BY <1>1, <2>1, ReadingFields DEF Pcs
      <3> HIDE DEF r, u
      <3>2. q = [r EXCEPT !.link = l]
        BY DEF r, u
      <3> HIDE DEF q
      <3> QED
        BY <2>1, <3>1, <3>2 DEF Request
    <2> HIDE DEF q
    <2>3. Start(w, q) /\ secrets' \in Nat
      BY <1>1, <1>8 DEF Reset, q
    <2>4. Fresh(q)
      BY <2>2 DEF Fresh, Shaped
    <2> QED
      BY <2>3, <2>4
  <1> HIDE DEF Goal
  <1>9. Goal
    BY <1>2, <1>3, <1>4, <1>5, <1>6, <1>7, <1>8 DEF Starts
  <1> QED
    BY <1>9 DEF Goal

LEMMA StartsTyped ==
  ASSUME TypeInv, NEW w \in Workers, Starts(w)
  PROVE  TypeInv'
  BY StartsFresh, StartTyped DEF Fresh

\* Every step is a start, a step of a request, its end, or belongs to no process.
LEMMA NextSplit ==
  ASSUME Next
  PROVE  \/ \E w \in Workers : Starts(w) \/ Step(w) \/ Fail(w)
         \/ \E u \in Users, p \in Phones : LoginHalfway(u, p)
         \/ \E p \in Phones : DeleteDevice(p)
         \/ \E t \in tokens : ExpireToken(t)
         \/ \E l \in DOMAIN links : ExpireLink(l)
  BY DEF Next, Starts

LEMMA TypeInit == Init => TypeInv
  BY DEF Init, TypeInv, TypeOK, NamedRows, Busy, Factor, NoSecret

LEMMA TypeStep == TypeInv /\ [Next]_vars => TypeInv'
  <1> SUFFICES ASSUME TypeInv, [Next]_vars PROVE TypeInv'
    OBVIOUS
  <1>1. CASE UNCHANGED vars
    BY <1>1 DEF vars, TypeInv, TypeOK, NamedRows, Busy, At
  <1>2. CASE Next
    BY <1>2, NextSplit, StartsTyped, ReadTyped, LoginCommitTyped, CommitTyped,
       OutsideTyped DEF Step
  <1> QED
    BY <1>1, <1>2

\* Every row and every request has its type, ids are given to one session each, and
\* what a request or a session names is there.
THEOREM TypeCorrect == Spec => []TypeOK
  <1>1. TypeInv => TypeOK
    BY DEF TypeInv
  <1> QED
    BY <1>1, TypeInit, TypeStep, PTL DEF Spec

-----------------------------------------------------------------------------
(* The second factor *)

\* Every request in flight sets the factor as a handler does.
AllShaped == \A w \in Workers : Busy(w) => Shaped(req[w])

SecretInv == SecretIsConfirmed /\ AllShaped

\* A request that has the fields of another, as far as the factor goes, or none.
LEMMA BecomesShaped ==
  ASSUME TypeOK, AllShaped, NEW w \in Workers, NEW q, Becomes(w, q),
         q # Idle => Shaped(q)
  PROVE  AllShaped'
  BY DEF AllShaped, Becomes, TypeOK, Busy, Shaped

LEMMA SaveFactorSecret ==
  ASSUME TypeOK, SecretInv, NEW w \in Workers, Busy(w), SaveFactor(w)
  PROVE  SecretIsConfirmed'
  <1> DEFINE q == req[w]
  <1>1. /\ q.user \in Users /\ q.mine \in Factor /\ q.old \in Factor /\ Shaped(q)
        /\ factor \in [Users -> Factor]
    BY RequestFields DEF SecretInv, AllShaped, TypeOK
  <1>2. /\ factor' = [factor EXCEPT ![q.user] = MergedFactor(w)]
        /\ confirmed' = confirmed \cup ({q.code} \ {NoSecret})
        /\ crossed \subseteq crossed'
        /\ (q.mine # q.old /\ factor[q.user] # q.old) => q.user \in crossed'
    BY DEF SaveFactor
  <1>3. SUFFICES ASSUME NEW u \in Users, factor'[u].enabled, u \notin crossed'
                 PROVE  factor'[u].secret \in confirmed'
    BY DEF SecretIsConfirmed
  <1>4. factor[u].enabled => factor[u].secret \in confirmed
    BY <1>2, <1>3 DEF SecretInv, SecretIsConfirmed
  <1>5. CASE u # q.user
    BY <1>1, <1>2, <1>3, <1>4, <1>5
  <1>6. CASE u = q.user
    <2>1. factor'[u] = MergedFactor(w)
      BY <1>1, <1>2, <1>6
    <2>2. CASE q.mine = q.old
      <3>1. factor'[u] = factor[u]
        BY <1>1, <1>6, <2>1, <2>2 DEF MergedFactor, Factor
      <3> QED
        BY <1>2, <1>3, <1>4, <3>1
    <2>3. CASE q.mine # q.old
      <3>1. factor[u] = q.old
        BY <1>2, <1>3, <1>6, <2>3
      <3>2. factor'[u] = q.mine
        BY <1>1, <1>6, <2>1, <3>1 DEF MergedFactor, Factor
      <3>3. q.code = q.mine.secret /\ q.code # NoSecret
        BY <1>1, <1>3, <2>3, <3>2 DEF Shaped
      <3> QED
        BY <1>2, <3>2, <3>3
    <2> QED
      BY <2>2, <2>3
  <1> QED
    BY <1>5, <1>6

LEMMA SecretInit == Init => SecretInv
  BY DEF Init, SecretInv, SecretIsConfirmed, AllShaped, Busy

LEMMA SecretStep == TypeInv /\ SecretInv /\ [Next]_vars => SecretInv'
  <1> SUFFICES ASSUME TypeInv, SecretInv, [Next]_vars PROVE SecretInv'
    OBVIOUS
  <1> USE DEF TypeInv
  <1>1. ASSUME UNCHANGED <<factor, confirmed, crossed>>
        PROVE  SecretIsConfirmed'
    BY <1>1 DEF SecretInv, SecretIsConfirmed
  <1>2. ASSUME UNCHANGED req
        PROVE  AllShaped'
    BY <1>2 DEF SecretInv, AllShaped, Busy
  <1>3. ASSUME NEW w \in Workers, NEW q, Becomes(w, q), q # Idle => Shaped(q)
        PROVE  AllShaped'
    BY <1>3, BecomesShaped DEF SecretInv
  <1>4. \A w \in Workers : Busy(w) => Shaped(req[w])
    BY DEF SecretInv, AllShaped
  <1>5. CASE UNCHANGED vars
    BY <1>1, <1>2, <1>5 DEF vars, SecretInv
  <1>6. ASSUME NEW w \in Workers, Starts(w)
        PROVE  SecretInv'
    <2>1. PICK q : Start(w, q) /\ Fresh(q)
      BY <1>6, StartsFresh
    <2> QED
      BY <1>1, <1>3, <2>1 DEF Start, Fresh, SecretInv
  <1>7. ASSUME NEW w \in Workers, LoginDevice(w) \/ DeregisterRead(w) \/ ResetRead(w)
        PROVE  SecretInv'
    <2>1. Busy(w) /\ Shaped(req[w]) /\ req[w] \in Request
      BY <1>4, <1>7, BusyAt, RequestFields DEF LoginDevice, DeregisterRead, ResetRead, Pcs
    <2>2. \E q : Becomes(w, q) /\ Shaped(q)
      <3>1. CASE LoginDevice(w)
        <4>1. PICK p : Becomes(w, [req[w] EXCEPT !.pc = "login", !.row = device[p]])
          BY <3>1 DEF LoginDevice
        <4>2. Shaped([req[w] EXCEPT !.pc = "login", !.row = device[p]])
          BY <2>1 DEF Shaped, Request
        <4> QED
          BY <4>1, <4>2
      <3>2. CASE DeregisterRead(w)
        <4>1. PICK pc, drop, gone, seen :
                Becomes(w, [req[w] EXCEPT !.pc = pc, !.drop = drop, !.gone = gone,
                                          !.seen = seen])
          BY <3>2 DEF DeregisterRead
        <4>2. Shaped([req[w] EXCEPT !.pc = pc, !.drop = drop, !.gone = gone,
                                    !.seen = seen])
          BY <2>1 DEF Shaped, Request
        <4> QED
          BY <4>1, <4>2
      <3>3. CASE ResetRead(w)
        <4>1. PICK seen : Becomes(w, [req[w] EXCEPT !.pc = "reset", !.seen = seen])
          BY <3>3 DEF ResetRead
        <4>2. Shaped([req[w] EXCEPT !.pc = "reset", !.seen = seen])
          BY <2>1 DEF Shaped, Request
        <4> QED
          BY <4>1, <4>2
      <3> QED
        BY <1>7, <3>1, <3>2, <3>3
    <2> QED
      BY <1>1, <1>3, <1>7, <2>2 DEF LoginDevice, DeregisterRead, ResetRead, SecretInv
  <1>8. ASSUME NEW w \in Workers, LoginCommit(w) \/ FactorCommit(w)
        PROVE  SecretInv'
    <2>1. Busy(w)
      BY <1>8, BusyAt DEF LoginCommit, FactorCommit, Pcs
    <2>2. SaveFactor(w) /\ Becomes(w, Idle)
      BY <1>8 DEF LoginCommit, FactorCommit
    <2> QED
      BY <1>3, <2>1, <2>2, SaveFactorSecret DEF SecretInv
  <1>9. ASSUME NEW w \in Workers,
               \/ DeregisterCommit(w) \/ ForgotCommit(w) \/ ResetCommit(w)
               \/ ChangeCommit(w) \/ Fail(w)
        PROVE  SecretInv'
    BY <1>1, <1>3, <1>9 DEF DeregisterCommit, ForgotCommit, ResetCommit, ChangeCommit,
                            Fail, SecretInv
  <1>10. ASSUME \/ \E u \in Users, p \in Phones : LoginHalfway(u, p)
                \/ \E p \in Phones : DeleteDevice(p)
                \/ \E t \in tokens : ExpireToken(t)
                \/ \E l \in DOMAIN links : ExpireLink(l)
         PROVE  SecretInv'
    BY <1>1, <1>2, <1>10 DEF LoginHalfway, DeleteDevice, ExpireToken, ExpireLink, SecretInv
  <1> QED
    BY <1>5, <1>6, <1>7, <1>8, <1>9, <1>10, NextSplit DEF Step

\* A login is asked for a second factor only with a secret its user has shown to
\* have, unless two requests wrote over each other column by column.
THEOREM OnlyConfirmedSecrets == Spec => []SecretIsConfirmed
  <1>1. SecretInv => SecretIsConfirmed
    BY DEF SecretInv
  <1> QED
    BY <1>1, TypeInit, TypeStep, SecretInit, SecretStep, PTL DEF Spec

-----------------------------------------------------------------------------
(* What was ended is over *)

\* What a request that ends sessions did not see of what it is to end has slipped.
UnseenSlipped ==
  \A w \in Workers : Busy(w) =>
    /\ req[w].gone # {} => At(w, "sessions") \/ At(w, "deregister")
    /\ \A p \in req[w].gone : \A s \in SessionsOn(p) :
         s.id \in req[w].seen \/ s.slipped
    /\ At(w, "reset") => \A s \in SessionsOf(req[w].user) :
                           s.id \in req[w].seen \/ s.slipped

\* A link that is open has not been completed.
OpenUnused == \A l \in DOMAIN links : links[l].open => links[l].uses = 0

OverInv == EndedIsOver /\ UnseenSlipped /\ OpenUnused

\* What a request says of the sessions it is to end.
Awaits(w) ==
  /\ req[w].gone # {} => At(w, "sessions") \/ At(w, "deregister")
  /\ \A p \in req[w].gone : \A s \in SessionsOn(p) : s.id \in req[w].seen \/ s.slipped
  /\ At(w, "reset") => \A s \in SessionsOf(req[w].user) :
                         s.id \in req[w].seen \/ s.slipped

\* It is kept by those whose request is the same, when sessions only end, or slip.
LEMMA AwaitsKept ==
  ASSUME UnseenSlipped, NEW w \in Workers, Busy(w), req'[w] = req[w],
         \A s \in sessions' \ sessions :
            /\ s.phone \in req[w].gone => s.slipped
            /\ (At(w, "reset") /\ s.user = req[w].user) => s.slipped
  PROVE  Awaits(w)'
  BY DEF UnseenSlipped, Awaits, SessionsOn, SessionsOf, At

\* When sessions only end, it is enough that it holds of a request that changes.
LEMMA UnseenKept ==
  ASSUME TypeOK, UnseenSlipped, sessions' \subseteq sessions,
         NEW w \in Workers, NEW q, Becomes(w, q), q # Idle => Awaits(w)'
  PROVE  UnseenSlipped'
  <1>1. SUFFICES ASSUME NEW v \in Workers, Busy(v)'
                 PROVE  Awaits(v)'
    BY DEF UnseenSlipped, Awaits
  <1>2. req'[w] = q /\ (v # w => req'[v] = req[v])
    BY DEF Becomes, TypeOK
  <1>3. CASE v = w
    BY <1>1, <1>2, <1>3 DEF Busy
  <1>4. CASE v # w
    <2>1. Busy(v) /\ req'[v] = req[v]
      BY <1>1, <1>2, <1>4 DEF Busy
    <2> QED
      BY <2>1, AwaitsKept
  <1> QED
    BY <1>3, <1>4

\* A request that starts has read none of the sessions it is to end.
LEMMA AwaitsFresh ==
  ASSUME TypeOK, NEW w \in Workers, NEW q, Becomes(w, q), Fresh(q)
  PROVE  Awaits(w)'
  <1>1. req'[w] = q
    BY DEF Becomes, TypeOK
  <1> QED
    BY <1>1 DEF Awaits, Fresh, At

\* A device that is read for sessions.
LEMMA DeregisterReadAwaits ==
  ASSUME TypeInv, UnseenSlipped, NEW w \in Workers, DeregisterRead(w)
  PROVE  UnseenSlipped'
  <1> USE DEF TypeInv
  <1>1. Busy(w) /\ At(w, "sessions")
    BY BusyAt DEF DeregisterRead, Pcs
  <1>2. req[w] \in Request
    BY <1>1, RequestFields
  <1>3. PICK p \in req[w].drop :
          Becomes(w, [req[w] EXCEPT
            !.pc = IF req[w].drop = {p} THEN "deregister" ELSE @,
            !.drop = @ \ {p}, !.gone = @ \cup {p},
            !.seen = @ \cup SessionIds(SessionsToEnd(w, p))])
    BY DEF DeregisterRead
  <1> DEFINE q == [req[w] EXCEPT
            !.pc = IF req[w].drop = {p} THEN "deregister" ELSE @,
            !.drop = @ \ {p}, !.gone = @ \cup {p},
            !.seen = @ \cup SessionIds(SessionsToEnd(w, p))]
  <1>4. /\ q.pc \in {"sessions", "deregister"}
        /\ q.gone = req[w].gone \cup {p}
        /\ q.seen = req[w].seen \cup SessionIds(SessionsOn(p))
    BY <1>1, <1>2 DEF Request, At, SessionsToEnd
  <1>5. Becomes(w, q)
    BY <1>3
  <1> HIDE DEF q
  <1>6. req'[w] = q /\ sessions' = sessions
    BY <1>5 DEF Becomes, TypeOK, DeregisterRead
  <1>7. Awaits(w)'
    <2>1. \A s \in SessionsOn(p) : s.id \in q.seen
      BY <1>4 DEF SessionIds
    <2>2. \A r \in req[w].gone : \A s \in SessionsOn(r) :
            s.id \in req[w].seen \/ s.slipped
      BY <1>1 DEF UnseenSlipped
    <2>3. \A r \in q.gone : \A s \in SessionsOn(r) : s.id \in q.seen \/ s.slipped
      BY <1>4, <2>1, <2>2
    <2> QED
      BY <1>4, <1>6, <2>3 DEF Awaits, At, SessionsOn
  <1> QED
    BY <1>5, <1>6, <1>7, UnseenKept

\* The commit of a login.
LEMMA LoginCommitOver ==
  ASSUME TypeInv, OverInv, NEW w \in Workers, LoginCommit(w)
  PROVE  OverInv'
  <1> USE DEF TypeInv
  <1>1. Busy(w) /\ At(w, "login")
    BY BusyAt DEF LoginCommit, Pcs
  <1>2. PICK p \in req[w].phone :
          /\ device' = [device EXCEPT ![p] = SavedDevice(w, p)]
          /\ sessions' = sessions \cup {NewSession(w, p)}
          /\ deleted' = IF SavedDevice(w, p).active THEN deleted \ {p} ELSE deleted
    BY DEF LoginCommit
  <1> DEFINE new == NewSession(w, p)
  <1>3. /\ new.user = req[w].user /\ new.phone = p /\ new.password = req[w].password
        /\ new.slipped = Slips(w, p)
    BY DEF NewSession
  <1>4. p \in Phones /\ device \in [Phones -> Device \cup {NoRow}]
        /\ \A s \in sessions : s.phone \in Phones
    BY <1>1, SavedDeviceTyped DEF TypeOK, Session
  <1>5. /\ UNCHANGED <<links, barrier>> /\ Becomes(w, Idle)
        /\ \A v \in Workers \ {w} : req'[v] = req[v]
        /\ ~Busy(w)'
    BY DEF LoginCommit, Becomes, TypeOK, Busy
  <1> HIDE DEF new
  <1>6. OverWithDevice'
    <2>1. SUFFICES ASSUME NEW s \in sessions'
                   PROVE  device'[s.phone].active \/ s.phone \in deleted' \/ s.slipped
      BY DEF OverWithDevice
    <2>2. device'[p] = SavedDevice(w, p)
      BY <1>2, <1>4
    <2>3. CASE s = new
      BY <1>3, <2>2, <2>3 DEF Slips
    <2>4. CASE s \in sessions /\ s.phone # p
      BY <1>2, <1>4, <2>4 DEF OverInv, EndedIsOver, OverWithDevice
    <2>5. CASE s \in sessions /\ s.phone = p
      <3>1. device[p].active \/ p \in deleted \/ s.slipped
        BY <2>5 DEF OverInv, EndedIsOver, OverWithDevice
      <3>2. device[p].active => SavedDevice(w, p).active
        BY DEF SavedDevice
      <3> QED
        BY <1>2, <2>2, <2>5, <3>1, <3>2
    <2> QED
      BY <1>2, <2>3, <2>4, <2>5 DEF new
  <1>7. OverWithPassword'
    <2>1. SUFFICES ASSUME NEW s \in sessions'
                   PROVE  s.password >= barrier[s.user] \/ s.slipped
      BY <1>5 DEF OverWithPassword
    <2>2. CASE s \in sessions
      BY <2>2 DEF OverInv, EndedIsOver, OverWithPassword
    <2>3. CASE s = new
      <3>1. req[w].password \in Nat /\ barrier[req[w].user] \in Nat
        BY <1>1, RequestFields DEF TypeOK
      <3>2. req[w].password < barrier[req[w].user] => s.slipped
        BY <1>3, <2>3 DEF Slips
      <3>3. s.password = req[w].password /\ s.user = req[w].user
        BY <1>3, <2>3
      <3>4. req[w].password >= barrier[req[w].user]
              \/ req[w].password < barrier[req[w].user]
        BY <3>1
      <3> QED
        BY <3>2, <3>3, <3>4
    <2> QED
      BY <1>2, <2>1, <2>2, <2>3 DEF new
  <1>8. UnseenSlipped'
    <2>1. SUFFICES ASSUME NEW v \in Workers, Busy(v)'
                   PROVE  Awaits(v)'
      BY DEF UnseenSlipped, Awaits
    <2>2. Busy(v) /\ req'[v] = req[v]
      BY <1>5, <2>1 DEF Busy
    <2>3. ASSUME p \in req[v].gone \/ (At(v, "reset") /\ req[v].user = req[w].user)
          PROVE  new.slipped
      BY <1>3, <2>2, <2>3 DEF Slips
    <2>4. \A s \in sessions' \ sessions : s = new
      BY <1>2 DEF new
    <2> QED
      BY <1>3, <2>2, <2>3, <2>4, AwaitsKept DEF OverInv
  <1>9. OverWithUse' /\ OpenUnused'
    BY <1>5 DEF OverInv, EndedIsOver, OverWithUse, OpenUnused
  <1> QED
    BY <1>6, <1>7, <1>8, <1>9 DEF OverInv, EndedIsOver

\* The commit of a request that drops devices.
LEMMA DeregisterCommitOver ==
  ASSUME TypeInv, OverInv, NEW w \in Workers, DeregisterCommit(w)
  PROVE  OverInv'
  <1> USE DEF TypeInv
  <1>1. Busy(w)
    BY BusyAt DEF DeregisterCommit, Pcs
  <1>2. /\ sessions' = {s \in sessions : s.id \notin req[w].seen}
        /\ UNCHANGED <<links, barrier>> /\ Becomes(w, Idle)
    BY DEF DeregisterCommit, EndSeen
  <1>3. OverWithDevice'
    <2>1. SUFFICES ASSUME NEW s \in sessions'
                   PROVE  device'[s.phone].active \/ s.phone \in deleted' \/ s.slipped
      BY DEF OverWithDevice
    <2>2. s \in sessions /\ s.id \notin req[w].seen /\ s.phone \in Phones
      BY <1>2 DEF TypeOK, Session
    <2>3. CASE s.phone \in req[w].gone
      BY <1>1, <2>2, <2>3 DEF OverInv, UnseenSlipped, SessionsOn
    <2>4. CASE s.phone \notin req[w].gone
      <3>1. device'[s.phone] = device[s.phone]
        BY <2>2, <2>4 DEF DeregisterCommit
      <3>2. s.phone \in deleted => s.phone \in deleted'
        BY <2>4 DEF DeregisterCommit
      <3> QED
        BY <2>2, <3>1, <3>2 DEF OverInv, EndedIsOver, OverWithDevice
    <2> QED
      BY <2>3, <2>4
  <1>4. OverWithPassword'
    BY <1>2 DEF OverInv, EndedIsOver, OverWithPassword
  <1>5. UnseenSlipped'
    BY <1>2, UnseenKept DEF OverInv
  <1>6. OverWithUse' /\ OpenUnused'
    BY <1>2 DEF OverInv, EndedIsOver, OverWithUse, OpenUnused
  <1> QED
    BY <1>3, <1>4, <1>5, <1>6 DEF OverInv, EndedIsOver

\* The completion of a link.
LEMMA ResetCommitOver ==
  ASSUME TypeInv, OverInv, NEW w \in Workers, ResetCommit(w)
  PROVE  OverInv'
  <1> USE DEF TypeInv
  <1>1. Busy(w) /\ At(w, "reset")
    BY BusyAt DEF ResetCommit, Pcs
  <1>2. /\ sessions' = {s \in sessions : s.id \notin req[w].seen}
        /\ UNCHANGED <<device, deleted>> /\ Becomes(w, Idle)
    BY DEF ResetCommit, EndSeen
  <1>3. OverWithDevice'
    BY <1>2 DEF OverInv, EndedIsOver, OverWithDevice
  <1>4. OverWithPassword'
    <2>1. SUFFICES ASSUME NEW s \in sessions'
                   PROVE  s.password >= barrier'[s.user] \/ s.slipped
      BY DEF OverWithPassword
    <2>2. s \in sessions /\ s.id \notin req[w].seen /\ s.user \in Users
      BY <1>2 DEF TypeOK, Session
    <2>3. CASE s.user = req[w].user
      BY <1>1, <2>2, <2>3 DEF OverInv, UnseenSlipped, SessionsOf
    <2>4. CASE s.user # req[w].user
      <3>1. barrier'[s.user] = barrier[s.user]
        BY <2>2, <2>4 DEF ResetCommit, TypeOK
      <3> QED
        BY <2>2, <3>1 DEF OverInv, EndedIsOver, OverWithPassword
    <2> QED
      BY <2>3, <2>4
  <1>5. UnseenSlipped'
    BY <1>2, UnseenKept DEF OverInv
  <1> DEFINE k == req[w].link
  <1>6. k \in DOMAIN links /\ links \in Seq(Link) /\ links[k] \in Link
    BY <1>1, LinkFields DEF NamedRows, TypeOK
  <1>7. /\ DOMAIN links' = DOMAIN links
        /\ \A l \in DOMAIN links : l # k => links'[l] = links[l]
        /\ links'[k] = Completed(links[k])
    BY <1>6 DEF ResetCommit
  <1>8. /\ links'[k].user = links[k].user
        /\ ~links'[k].open
        /\ links'[k].uses = links[k].uses + 1
        /\ links[k].slipped \/ ~links[k].open => links'[k].slipped
    BY <1>6, <1>7 DEF Completed, Link
  <1> HIDE DEF k
  <1>9. \A l \in DOMAIN links :
          /\ links'[l].user = links[l].user
          /\ links'[l].open => links[l].open /\ links'[l].uses = links[l].uses
          /\ links[l].slipped => links'[l].slipped
    BY <1>7, <1>8
  <1>10. OpenUnused'
    BY <1>7, <1>9 DEF OverInv, OpenUnused
  <1>11. OverWithUse'
    <2>1. ASSUME NEW l \in DOMAIN links
          PROVE  links'[l].uses <= 1 \/ links'[l].slipped
      <3>1. CASE l # k
        BY <1>7, <3>1 DEF OverInv, EndedIsOver, OverWithUse
      <3>2. CASE l = k
        BY <1>8, <3>2 DEF OverInv, OpenUnused
      <3> QED
        BY <3>1, <3>2
    <2>2. ASSUME NEW l \in DOMAIN links, NEW m \in DOMAIN links, l < m,
                 links'[l].open, links'[m].open, links'[l].user = links'[m].user
          PROVE  links'[m].slipped
      BY <1>9, <2>2 DEF OverInv, EndedIsOver, OverWithUse
    <2> QED
      BY <1>7, <2>1, <2>2 DEF OverWithUse
  <1> QED
    BY <1>3, <1>4, <1>5, <1>10, <1>11 DEF OverInv, EndedIsOver

\* The commit of a request for a link.
LEMMA ForgotCommitOver ==
  ASSUME TypeInv, OverInv, NEW w \in Workers, ForgotCommit(w)
  PROVE  OverInv'
  <1> USE DEF TypeInv
  <1> DEFINE u == req[w].user
             slip == OpenLinks(u) \ req[w].seen # {}
             new == [user |-> u, open |-> TRUE, uses |-> 0, slipped |-> slip]
             closed == [l \in DOMAIN links |->
                          [links[l] EXCEPT !.open = @ /\ l \notin req[w].seen]]
             last == Len(links) + 1
  <1>1. links' = Append(closed, new) /\ UNCHANGED <<device, sessions, barrier, deleted>>
        /\ Becomes(w, Idle)
    BY DEF ForgotCommit
  <1>2. /\ links \in Seq(Link) /\ Len(links) \in Nat
        /\ DOMAIN links = 1 .. Len(links)
        /\ \A l \in DOMAIN links : links[l] \in Link
    BY DEF TypeOK
  <1>3. Len(closed) = Len(links) /\ DOMAIN closed = DOMAIN links
        /\ \A l \in DOMAIN links :
             /\ closed[l].user = links[l].user
             /\ closed[l].open = (links[l].open /\ l \notin req[w].seen)
             /\ closed[l].uses = links[l].uses
             /\ closed[l].slipped = links[l].slipped
    <2>1. \A l \in DOMAIN links :
            [links[l] EXCEPT !.open = @ /\ l \notin req[w].seen] \in Link
      BY <1>2 DEF Link
    <2>2. closed \in Seq(Link) /\ DOMAIN closed = DOMAIN links
      BY <1>2, <2>1
    <2>3. Len(closed) = Len(links)
      BY <1>2, <2>2
    <2> QED
      BY <1>2, <2>2, <2>3 DEF Link
  <1>4. /\ DOMAIN links' = 1 .. last
        /\ links'[last] = new
        /\ \A l \in DOMAIN links : links'[l] = closed[l]
    <2>1. closed = [l \in 1 .. Len(links) |-> closed[l]]
      BY <1>2
    <2> HIDE DEF closed, new
    <2> QED
      BY <1>1, <1>2, <1>3, <2>1
  <1>5. /\ new.user = u /\ new.open /\ new.uses = 0 /\ new.slipped = slip
    OBVIOUS
  <1> HIDE DEF new, closed
  <1>6. \A l \in DOMAIN links' : l \in DOMAIN links \/ l = last
    BY <1>2, <1>4
  <1>7. OpenUnused'
    BY <1>3, <1>4, <1>5, <1>6 DEF OverInv, OpenUnused
  <1>8. OverWithUse'
    <2>1. ASSUME NEW l \in DOMAIN links'
          PROVE  links'[l].uses <= 1 \/ links'[l].slipped
      BY <1>3, <1>4, <1>5, <1>6 DEF OverInv, EndedIsOver, OverWithUse
    <2>2. ASSUME NEW l \in DOMAIN links', NEW m \in DOMAIN links', l < m,
                 links'[l].open, links'[m].open, links'[l].user = links'[m].user
          PROVE  links'[m].slipped
      <3>1. l \in DOMAIN links
        BY <1>2, <1>4, <2>2
      <3>2. CASE m \in DOMAIN links
        <4>1. links[l].open /\ links[m].open /\ links[l].user = links[m].user
          BY <1>3, <1>4, <2>2, <3>1, <3>2
        <4>2. links[m].slipped
          BY <2>2, <3>1, <3>2, <4>1 DEF OverInv, EndedIsOver, OverWithUse
        <4>3. closed[m].slipped = links[m].slipped
          BY <1>3, <3>2
        <4> QED
          BY <1>4, <3>2, <4>2, <4>3
      <3>3. CASE m = last
        <4>1. links[l].user = u /\ links[l].open /\ l \notin req[w].seen
          BY <1>3, <1>4, <1>5, <2>2, <3>1, <3>3
        <4>2. l \in OpenLinks(u) \ req[w].seen
          BY <3>1, <4>1 DEF OpenLinks
        <4> QED
          BY <1>4, <1>5, <3>3, <4>2
      <3> QED
        BY <1>6, <3>2, <3>3
    <2> QED
      BY <2>1, <2>2 DEF OverWithUse
  <1>9. UnseenSlipped'
    BY <1>1, UnseenKept DEF OverInv
  <1>10. OverWithDevice' /\ OverWithPassword'
    BY <1>1 DEF OverInv, EndedIsOver, OverWithDevice, OverWithPassword
  <1> QED
    BY <1>7, <1>8, <1>9, <1>10 DEF OverInv, EndedIsOver

LEMMA OverInit == Init => OverInv
  BY DEF Init, OverInv, EndedIsOver, OverWithDevice, OverWithPassword, OverWithUse,
         UnseenSlipped, OpenUnused, Busy

LEMMA OverStep == TypeInv /\ OverInv /\ [Next]_vars => OverInv'
  <1> SUFFICES ASSUME TypeInv, OverInv, [Next]_vars PROVE OverInv'
    OBVIOUS
  <1>1. ASSUME UNCHANGED <<device, sessions, links, barrier, deleted>>
        PROVE  EndedIsOver' /\ OpenUnused'
    BY <1>1 DEF OverInv, EndedIsOver, OverWithDevice, OverWithPassword, OverWithUse,
                OpenUnused
  <1>2. ASSUME UNCHANGED <<req, sessions>>
        PROVE  UnseenSlipped'
    BY <1>2 DEF OverInv, UnseenSlipped, Busy, At, SessionsOn, SessionsOf
  <1>3. ASSUME NEW w \in Workers, NEW q, Becomes(w, q), UNCHANGED sessions,
               q # Idle => Awaits(w)'
        PROVE  UnseenSlipped'
    BY <1>3, UnseenKept DEF OverInv, TypeInv
  <1>4. CASE UNCHANGED vars
    BY <1>1, <1>2, <1>4 DEF vars, OverInv
  <1>5. ASSUME NEW w \in Workers, Starts(w)
        PROVE  OverInv'
    <2>1. PICK q : Start(w, q) /\ Fresh(q)
      BY <1>5, StartsFresh
    <2>2. Awaits(w)'
      BY <2>1, AwaitsFresh DEF Start, TypeInv
    <2> QED
      BY <1>1, <1>3, <2>1, <2>2 DEF Start, OverInv
  <1>6. ASSUME NEW w \in Workers, LoginDevice(w)
        PROVE  OverInv'
    <2>1. PICK p : Becomes(w, [req[w] EXCEPT !.pc = "login", !.row = device[p]])
      BY <1>6 DEF LoginDevice
    <2>2. Busy(w) /\ At(w, "device") /\ req[w] \in Request
      BY <1>6, BusyAt, RequestFields DEF LoginDevice, Pcs, TypeInv
    <2>3. req[w].gone = {}
      BY <2>2 DEF OverInv, UnseenSlipped, At
    <2>4. req'[w].gone = {} /\ req'[w].pc = "login"
      BY <2>1, <2>2, <2>3 DEF Becomes, TypeInv, TypeOK, Request
    <2>5. Awaits(w)'
      BY <2>4 DEF Awaits, At
    <2> QED
      BY <1>1, <1>3, <1>6, <2>1, <2>5 DEF LoginDevice, OverInv
  <1>7. ASSUME NEW w \in Workers, DeregisterRead(w)
        PROVE  OverInv'
    BY <1>1, <1>7, DeregisterReadAwaits DEF DeregisterRead, OverInv
  <1>8. ASSUME NEW w \in Workers, ResetRead(w)
        PROVE  OverInv'
    <2> DEFINE u == req[w].user
               seen == SessionIds(SessionsOf(u))
    <2>1. Becomes(w, [req[w] EXCEPT !.pc = "reset", !.seen = seen])
      BY <1>8 DEF ResetRead
    <2>2. Busy(w) /\ At(w, "link") /\ req[w] \in Request
      BY <1>8, BusyAt, RequestFields DEF ResetRead, Pcs, TypeInv
    <2>3. req[w].gone = {}
      BY <2>2 DEF OverInv, UnseenSlipped, At
    <2>4. /\ req'[w].gone = {} /\ req'[w].pc = "reset"
          /\ req'[w].seen = seen /\ req'[w].user = u
      BY <2>1, <2>2, <2>3 DEF Becomes, TypeInv, TypeOK, Request
    <2>5. \A s \in SessionsOf(u) : s.id \in seen
      BY DEF SessionIds
    <2> HIDE DEF seen, u
    <2>6. Awaits(w)'
      BY <1>8, <2>4, <2>5 DEF ResetRead, Awaits, At, SessionsOf
    <2> QED
      BY <1>1, <1>3, <1>8, <2>1, <2>6 DEF ResetRead, OverInv
  <1>9. ASSUME NEW w \in Workers, ChangeCommit(w) \/ FactorCommit(w) \/ Fail(w)
        PROVE  OverInv'
    BY <1>1, <1>3, <1>9 DEF ChangeCommit, FactorCommit, Fail, OverInv
  <1>10. ASSUME NEW u \in Users, NEW p \in Phones, LoginHalfway(u, p)
         PROVE  OverInv'
    BY <1>1, <1>2, <1>10 DEF LoginHalfway, OverInv
  <1>11. ASSUME NEW t \in tokens, ExpireToken(t)
         PROVE  OverInv'
    BY <1>1, <1>2, <1>11 DEF ExpireToken, OverInv
  <1>12. ASSUME NEW l \in DOMAIN links, ExpireLink(l)
         PROVE  OverInv'
    <2>1. links \in Seq(Link) /\ links[l] \in Link
      BY LinkFields DEF TypeInv, TypeOK
    <2>2. /\ DOMAIN links' = DOMAIN links
          /\ \A k \in DOMAIN links :
               /\ links'[k].user = links[k].user
               /\ links'[k].uses = links[k].uses
               /\ links'[k].slipped = links[k].slipped
               /\ links'[k].open => links[k].open
      BY <1>12, <2>1 DEF ExpireLink, Link
    <2>3. OverWithUse'
      BY <2>2 DEF OverInv, EndedIsOver, OverWithUse
    <2>4. OpenUnused'
      BY <2>2 DEF OverInv, OpenUnused
    <2>5. OverWithDevice' /\ OverWithPassword'
      BY <1>12 DEF ExpireLink, OverInv, EndedIsOver, OverWithDevice, OverWithPassword
    <2> QED
      BY <1>2, <1>12, <2>3, <2>4, <2>5 DEF ExpireLink, OverInv, EndedIsOver
  <1>13. CASE \E w \in Workers : Starts(w) \/ Step(w) \/ Fail(w)
    BY <1>5, <1>6, <1>7, <1>8, <1>9, <1>13, LoginCommitOver, DeregisterCommitOver,
       ForgotCommitOver, ResetCommitOver DEF Step
  <1>14. ASSUME NEW p \in Phones, DeleteDevice(p)
         PROVE  OverInv'
    <2>1. /\ device \in [Phones -> Device \cup {NoRow}]
          /\ \A s \in sessions : s.phone \in Phones
      BY DEF TypeInv, TypeOK, Session
    <2>2. /\ \A r \in Phones \ {p} : device'[r] = device[r]
          /\ device[p].active => p \in deleted'
          /\ deleted \subseteq deleted'
      BY <1>14, <2>1 DEF DeleteDevice
    <2>3. OverWithDevice'
      BY <1>14, <2>1, <2>2 DEF DeleteDevice, OverInv, EndedIsOver, OverWithDevice
    <2>4. OverWithPassword' /\ OverWithUse' /\ OpenUnused'
      BY <1>14 DEF DeleteDevice, OverInv, EndedIsOver, OverWithPassword, OverWithUse,
                   OpenUnused
    <2> QED
      BY <1>2, <1>14, <2>3, <2>4 DEF DeleteDevice, OverInv, EndedIsOver
  <1> QED
    BY <1>4, <1>10, <1>11, <1>12, <1>13, <1>14, NextSplit

\* Nobody is signed in on a device that was deregistered, or by a password from before
\* the last reset, and no link is completed twice, but for logins and requests that
\* began before and end after.
THEOREM EndedStaysOver == Spec => []EndedIsOver
  <1>1. OverInv => EndedIsOver
    BY DEF OverInv
  <1> QED
    BY <1>1, TypeInit, TypeStep, OverInit, OverStep, PTL DEF Spec
=============================================================================

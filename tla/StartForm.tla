----------------------------- MODULE StartForm -----------------------------
(***************************************************************************)
(* The form in which an operator inspects a unit (ui/src/pages/ops/        *)
(* new-inspection): one browser tab, one unit, one direction.              *)
(*                                                                         *)
(* The form takes the unit's lock when it opens and returns it when it     *)
(* goes, uploads photos as they are picked, keeps a draft in localStorage  *)
(* and posts the inspection.  All of these are promises: the operator goes *)
(* on, restarts, leaves or comes back before they are settled.  The server *)
(* is the intake module reduced to what the form can tell: who holds the   *)
(* lock, and how many inspections are active.                              *)
(***************************************************************************)
EXTENDS Naturals, FiniteSets, SequencesExt

CONSTANTS
  MaxVisits,      \* bound: times the form is opened
  MaxEpochs,      \* bound: times the operator starts from nothing, plus one
  MaxCalls,       \* bound: calls in service when submit is pressed
  MaxEvents       \* bound: kinds of event that may happen in one behaviour

ASSUME FormAssumption ==
  /\ {MaxVisits, MaxEpochs, MaxCalls, MaxEvents} \subseteq Nat
  /\ MaxEpochs > 0

VARIABLES
  holder,     \* barcode_locks: who holds the lock of the unit
  recorded,   \* inspections: active ones of the unit in this direction
  calls,      \* calls not answered yet, and answers not read, as they were sent
  tab,        \* the mounted form
  form,       \* what it shows
  draft,      \* localStorage
  epoch,      \* how often the operator has started from nothing
  uploads,    \* photos of this form on their way, by epoch
  geo,        \* GeolocationProvider
  events      \* what has happened that a property excuses

server == <<holder, recorded>>
page == <<tab, form, draft, epoch, uploads>>
vars == <<server, calls, page, geo, events>>

-----------------------------------------------------------------------------
Visits == 1..MaxVisits
Epochs == 1..MaxEpochs

Events ==
  { "expired",          \* the lock ran out, or its row was removed
    "overtaken",        \* a call was served before one sent earlier
    "lost",             \* a call or its answer was lost
    "aborted",          \* the form was left while it reserved the unit
    "closed",           \* the tab was closed or reloaded with the form in it
    "left_posting",     \* the form was left while an inspection was posted
    "late_upload" }     \* a photo arrived after the restart that cleared it

\* What a form shows, by the epochs its answers and photos were given in.
Content == SUBSET Epochs
Blank == {}
NoDraft == {0}

\* waits: the invocation that sent the call still waits for its answer.
Call == [kind : {"acquire", "release", "create"}, visit : Visits, waits : BOOLEAN,
         stage : {"sent", "checked", "ok", "held", "refused"}]

\* held: lockPayloadRef is set.  saving: draftSaveReady.
Tab == [stage : {"away", "loading", "reserving", "refused", "ready"},
        visit : {0} \cup Visits, held : BOOLEAN, saving : BOOLEAN,
        submitting : BOOLEAN]

\* ready: isLocationReady.  prompt: the dialog that asks for the position.
Geo == [ready : BOOLEAN, prompt : BOOLEAN]

\* When the page is loaded the position is in sessionStorage, or not yet known.
Loaded == [ready : BOOLEAN, prompt : {FALSE}]

\* Type invariant.
TypeOK ==
  /\ holder \in {"nobody", "me", "other"}
  /\ recorded \in Nat
  /\ calls \in Seq(Call)
  /\ tab \in Tab
  /\ form \in Content
  /\ draft \in Content \cup {NoDraft}
  /\ epoch \in Epochs
  /\ uploads \subseteq Epochs
  /\ geo \in Geo
  /\ events \subseteq Events

Init ==
  /\ holder = "nobody"
  /\ recorded = 0
  /\ calls = <<>>
  /\ tab = [stage |-> "away", visit |-> 0, held |-> FALSE,
            saving |-> FALSE, submitting |-> FALSE]
  /\ form = Blank
  /\ draft = NoDraft
  /\ epoch = 1
  /\ uploads = {}
  /\ geo \in Loaded
  /\ events = {}

Note(new) ==
  /\ events' = events \cup new
  /\ Cardinality(events') <= MaxEvents

Sent(kind, visit, waits) ==
  [kind |-> kind, visit |-> visit, waits |-> waits, stage |-> "sent"]
Send(kind, visit, waits) == calls' = Append(calls, Sent(kind, visit, waits))

-----------------------------------------------------------------------------
(* The server *)

\* The answer stays until it is read, if somebody waits for it.
Answer(i, stage) ==
  calls' = IF calls[i].waits THEN [calls EXCEPT ![i].stage = stage]
                             ELSE RemoveAt(calls, i)

\* Calls need not be served in the order they were sent.
Arrives(i, kind) ==
  /\ calls[i].kind = kind /\ calls[i].stage = "sent"
  /\ Note(IF \E j \in 1..i - 1 : calls[j].stage = "sent" THEN {"overtaken"} ELSE {})

\* acquire_inspection_barcode_lock: an active inspection refuses, a lock of
\* another user conflicts, one's own is returned, none is taken.
ServeAcquire(i) ==
  /\ Arrives(i, "acquire")
  /\ \/ recorded > 0 /\ Answer(i, "refused") /\ UNCHANGED holder
     \/ recorded = 0 /\ holder = "other" /\ Answer(i, "held") /\ UNCHANGED holder
     \/ recorded = 0 /\ holder # "other" /\ Answer(i, "ok") /\ holder' = "me"
  /\ UNCHANGED <<recorded, page, geo>>

\* release_inspection_barcode_lock: nothing to do for a lock of nobody's, 403
\* for another user's.
ServeRelease(i) ==
  /\ Arrives(i, "release")
  /\ holder' = IF holder = "me" THEN "nobody" ELSE holder
  /\ Answer(i, "ok")
  /\ UNCHANGED <<recorded, page, geo>>

\* create_inspection: the lock and the active inspections are looked at ...
ServeCreate(i) ==
  /\ Arrives(i, "create")
  /\ IF holder = "me" /\ recorded = 0
     THEN calls' = [calls EXCEPT ![i].stage = "checked"]
     ELSE Answer(i, "refused")
  /\ UNCHANGED <<server, page, geo>>

\* ... and later the inspection is committed and the lock removed, if still mine.
CommitCreate(i) ==
  /\ calls[i].stage = "checked"
  /\ recorded' = recorded + 1
  /\ holder' = IF holder = "me" THEN "nobody" ELSE holder
  /\ Answer(i, "ok")
  /\ UNCHANGED <<page, geo, events>>

\* The rest of the validation refuses.
RejectCreate(i) ==
  /\ calls[i].stage = "checked"
  /\ Answer(i, "refused")
  /\ UNCHANGED <<server, page, geo, events>>

Expire ==
  /\ holder # "nobody"
  /\ Note(IF holder = "me" THEN {"expired"} ELSE {})
  /\ holder' = "nobody"
  /\ UNCHANGED <<recorded, calls, page, geo>>

\* Another operator, seen from here: takes the lock, and returns it or inspects.
OtherTakes ==
  /\ holder = "nobody" /\ recorded = 0
  /\ holder' = "other"
  /\ UNCHANGED <<recorded, calls, page, geo, events>>

OtherInspects ==
  /\ holder = "other" /\ recorded = 0
  /\ holder' = "nobody"
  /\ recorded' = recorded + 1
  /\ UNCHANGED <<calls, page, geo, events>>

\* A call nobody waits for does not get through.
LoseCall(i) ==
  /\ calls[i].stage = "sent" /\ ~calls[i].waits
  /\ calls' = RemoveAt(calls, i)
  /\ Note({"lost"})
  /\ UNCHANGED <<server, page, geo>>

-----------------------------------------------------------------------------
(* The form: opening, the lock, leaving *)

\* Its sender no longer waits: the call may never have been sent, or the server
\* goes on with it.
GivenUp(i) ==
  \/ calls' = RemoveAt(calls, i)
  \/ /\ calls[i].stage \in {"sent", "checked"}
     /\ calls' = [calls EXCEPT ![i].waits = FALSE]

Waiting(kind, v) ==
  {i \in DOMAIN calls : calls[i].kind = kind /\ calls[i].waits /\ calls[i].visit = v}

\* A scan clears the drafts of the unit, and the operator starts from nothing.
Scan ==
  /\ tab.stage = "away" /\ draft # NoDraft /\ epoch < MaxEpochs
  /\ draft' = NoDraft
  /\ epoch' = epoch + 1
  /\ UNCHANGED <<server, calls, tab, form, uploads, geo, events>>

Open ==
  /\ tab.stage = "away" /\ tab.visit < MaxVisits
  /\ tab' = [stage |-> "loading", visit |-> tab.visit + 1, held |-> FALSE,
             saving |-> FALSE, submitting |-> FALSE]
  /\ form' = Blank
  /\ UNCHANGED <<server, calls, draft, epoch, uploads, geo, events>>

\* The metadata have come, or failed: either way the form reserves the unit.
Reserve ==
  /\ tab.stage = "loading"
  /\ Send("acquire", tab.visit, TRUE)
  /\ tab' = [tab EXCEPT !.stage = "reserving"]
  /\ UNCHANGED <<server, form, draft, epoch, uploads, geo, events>>

Read(i) == calls' = RemoveAt(calls, i)
Unmounted == [tab EXCEPT !.stage = "away", !.held = FALSE,
                         !.saving = FALSE, !.submitting = FALSE]

\* Held by another: a dialog, then back to the unit.  Any other error: back at
\* once.  An acquire that is still awaited is this form's.
Reserved(i) ==
  /\ calls[i].kind = "acquire" /\ calls[i].stage \in {"ok", "held", "refused"}
  /\ Read(i)
  /\ tab' = CASE calls[i].stage = "ok" -> [tab EXCEPT !.stage = "ready", !.held = TRUE]
              [] calls[i].stage = "held" -> [tab EXCEPT !.stage = "refused"]
              [] calls[i].stage = "refused" -> Unmounted
  /\ UNCHANGED <<server, form, draft, epoch, uploads, geo, events>>

\* The call, or its answer, is lost: back to the unit.
ReserveFails(i) ==
  /\ calls[i].kind = "acquire" /\ calls[i].waits
  /\ GivenUp(i)
  /\ tab' = Unmounted
  /\ Note({"lost"})
  /\ UNCHANGED <<server, form, draft, epoch, uploads, geo>>

Left ==
  (IF tab.stage = "reserving" THEN {"aborted"} ELSE {})
    \cup (IF Waiting("create", tab.visit) # {} THEN {"left_posting"} ELSE {})

\* Mutant: the cleanup aborts the acquire and forgets the release.
LeaveSilently ==
  /\ tab.stage # "away"
  /\ tab' = Unmounted
  /\ uploads' = {}
  /\ IF tab.stage = "reserving" THEN \E i \in Waiting("acquire", tab.visit) : GivenUp(i)
                                ELSE UNCHANGED calls
  /\ Note(Left)
  /\ UNCHANGED <<server, form, draft, epoch, geo>>

\* Leave, confirmed if need be.  The cleanup aborts the acquire, which the
\* server may serve all the same, and sends the release nobody waits for.
Leave ==
  /\ tab.stage # "away"
  /\ tab' = Unmounted
  /\ uploads' = {}
  /\ \/ tab.stage = "reserving" /\ \E i \in Waiting("acquire", tab.visit) : GivenUp(i)
     \/ tab.held /\ Send("release", tab.visit, FALSE)
     \/ tab.stage # "reserving" /\ ~tab.held /\ UNCHANGED calls
  /\ Note(Left)
  /\ UNCHANGED <<server, form, draft, epoch, geo>>

InService == {i \in DOMAIN calls : calls[i].stage \in {"sent", "checked"}}

\* What is in service goes on, in the order it was sent, and nobody waits for it.
Abandoned(cs) ==
  \E f \in [1..Cardinality(InService) -> InService] :
    /\ \A i, j \in DOMAIN f : i < j => f[i] < f[j]
    /\ cs = [i \in DOMAIN f |-> [calls[f[i]] EXCEPT !.waits = FALSE]]

\* The tab is closed or reloaded: no cleanup runs and all promises are gone.
Close ==
  /\ tab.stage # "away"
  /\ tab' = Unmounted
  /\ Abandoned(calls')
  /\ uploads' = {}
  /\ geo' \in Loaded
  /\ Note({"closed"})
  /\ UNCHANGED <<server, form, draft, epoch>>

-----------------------------------------------------------------------------
(* The form: answers, photos, draft *)

\* The operator can use the form: it is drawn, the ops shell around it is not
\* inert, for the position is known, and no prompt is over it.  (The shell is
\* inert offline too: then the operator does nothing, as always he may.)
Shown == tab.stage = "ready" /\ geo.ready /\ ~geo.prompt

\* Mutant: what localStorage gives is taken for a draft.
HydrateUnparsed ==
  /\ tab.stage \in {"reserving", "refused", "ready"}
  /\ ~tab.saving
  /\ tab' = [tab EXCEPT !.saving = TRUE]
  /\ form' = draft
  /\ draft' = IF tab.stage = "ready" THEN form' ELSE draft
  /\ UNCHANGED <<server, calls, epoch, uploads, geo, events>>

\* 320 ms after the metadata.  Saving starts, and its effect saves at once what
\* was drawn last: nothing while the unit is being reserved.
Hydrate ==
  /\ tab.stage \in {"reserving", "refused", "ready"}
  /\ ~tab.saving
  /\ tab' = [tab EXCEPT !.saving = TRUE]
  /\ form' = IF draft = NoDraft THEN form ELSE draft
  /\ draft' = IF tab.stage = "ready" THEN form' ELSE draft
  /\ UNCHANGED <<server, calls, epoch, uploads, geo, events>>

Fill ==
  /\ Shown
  /\ form' = form \cup {epoch}
  /\ UNCHANGED <<server, calls, tab, draft, epoch, uploads, geo, events>>

\* Every 2.5 s, and on every step.
Save ==
  /\ tab.stage = "ready" /\ tab.saving
  /\ draft' = form
  /\ UNCHANGED <<server, calls, tab, form, epoch, uploads, geo, events>>

Pick ==
  /\ Shown
  /\ uploads' = uploads \cup {epoch}
  /\ UNCHANGED <<server, calls, tab, form, draft, epoch, geo, events>>

\* addNoAnswerImages, uploadSideImage: the answer is applied to whatever the
\* form has become.
Uploaded(e) ==
  /\ uploads' = uploads \ {e}
  /\ form' = form \cup {e}
  /\ Note(IF e < epoch THEN {"late_upload"} ELSE {})
  /\ UNCHANGED <<server, calls, tab, draft, epoch, geo>>

UploadFails(e) ==
  /\ uploads' = uploads \ {e}
  /\ UNCHANGED <<server, calls, tab, form, draft, epoch, geo, events>>

\* removeNoAnswerImage, removeSideImage, and answers taken back.
TakeBack(e) ==
  /\ Shown
  /\ form' = form \ {e}
  /\ UNCHANGED <<server, calls, tab, draft, epoch, uploads, geo, events>>

\* Mutant: the restart clears the form and leaves the draft to the next save.
RestartForm ==
  /\ Shown /\ epoch < MaxEpochs
  /\ form' = Blank
  /\ epoch' = epoch + 1
  /\ tab' = [tab EXCEPT !.saving = TRUE]
  /\ UNCHANGED <<server, calls, draft, uploads, geo, events>>

\* performRestart: the form and the draft, not what is on its way.
Restart ==
  /\ Shown /\ epoch < MaxEpochs
  /\ form' = Blank
  /\ draft' = NoDraft
  /\ epoch' = epoch + 1
  /\ tab' = [tab EXCEPT !.saving = TRUE]
  /\ UNCHANGED <<server, calls, uploads, geo, events>>

-----------------------------------------------------------------------------
(* The position *)

\* acquireLocation, from the dialog of the inert shell.
Ask ==
  /\ ~geo.ready /\ ~geo.prompt
  /\ geo' = [geo EXCEPT !.prompt = TRUE]
  /\ UNCHANGED <<server, calls, page, events>>

\* The position asked for on load, or by the prompt, has come, or a default
\* stands in for it.  Only the one that came on load leaves a prompt open.
Located ==
  /\ ~geo.ready
  /\ \E open \in {geo.prompt, FALSE} : geo' = [ready |-> TRUE, prompt |-> open]
  /\ UNCHANGED <<server, calls, page, events>>

\* handleDialogOpenChange: only once the position is known.
Dismiss ==
  /\ geo.ready /\ geo.prompt
  /\ geo' = [geo EXCEPT !.prompt = FALSE]
  /\ UNCHANGED <<server, calls, page, events>>

\* handleAllowLocation, in the prompt that was left open: asks again.
AskAgain ==
  /\ geo.ready /\ geo.prompt
  /\ geo' = [geo EXCEPT !.ready = FALSE]
  /\ UNCHANGED <<server, calls, page, events>>

-----------------------------------------------------------------------------
(* handleSubmit *)

Showing(v) == tab.stage # "away" /\ tab.visit = v
Submitting(v, yes) == IF Showing(v) THEN [tab EXCEPT !.submitting = yes] ELSE tab

Post ==
  /\ Send("create", tab.visit, TRUE)
  /\ tab' = [tab EXCEPT !.submitting = TRUE]

\* Mutant: the button stays on while an inspection is posted.
PressAgain ==
  /\ Shown /\ tab.saving
  /\ form # Blank
  /\ Len(calls) < MaxCalls
  /\ Post
  /\ UNCHANGED <<server, form, draft, epoch, uploads, geo, events>>

\* The press: the position is known and acquireLocation answers with it at once.
\* The button is off while an inspection is posted.  A form cannot be completed
\* in the 320 ms before it is hydrated.
Press ==
  /\ Shown /\ tab.saving /\ ~tab.submitting
  /\ form # Blank
  /\ Len(calls) < MaxCalls
  /\ Post
  /\ UNCHANGED <<server, form, draft, epoch, uploads, geo, events>>

\* navigate to the inspection: away, or a later form asks before it is left.
Navigate(v) ==
  /\ tab' = IF Showing(v) THEN Unmounted ELSE tab
  /\ uploads' = IF Showing(v) THEN {} ELSE uploads

\* The inspection is recorded: the draft goes, and the lock that the form still
\* has is released before it navigates.
Recorded(i) ==
  LET v == calls[i].visit IN
  /\ calls[i].kind = "create" /\ calls[i].stage = "ok"
  /\ draft' = NoDraft
  /\ IF Showing(v) /\ tab.held
     THEN /\ calls' = Append(RemoveAt(calls, i), Sent("release", v, TRUE))
          /\ tab' = [tab EXCEPT !.held = FALSE]
          /\ UNCHANGED uploads
     ELSE /\ Read(i)
          /\ Navigate(v)
  /\ UNCHANGED <<server, form, epoch, geo, events>>

Released(i) ==
  /\ calls[i].kind = "release" /\ calls[i].stage = "ok"
  /\ Read(i)
  /\ Navigate(calls[i].visit)
  /\ UNCHANGED <<server, form, draft, epoch, geo, events>>

ReleaseFails(i) ==
  /\ calls[i].kind = "release" /\ calls[i].waits
  /\ GivenUp(i)
  /\ Navigate(calls[i].visit)
  /\ Note({"lost"})
  /\ UNCHANGED <<server, form, draft, epoch, geo>>

\* Mutant: a refusal gives the lock back and keeps lockPayloadRef.
RefusedReleases(i) ==
  /\ calls[i].kind = "create" /\ calls[i].stage = "refused"
  /\ calls' = Append(RemoveAt(calls, i), Sent("release", calls[i].visit, FALSE))
  /\ tab' = Submitting(calls[i].visit, FALSE)
  /\ UNCHANGED <<server, form, draft, epoch, uploads, geo, events>>

\* A refusal is shown, and the button is on again.
Refused(i) ==
  /\ calls[i].kind = "create" /\ calls[i].stage = "refused"
  /\ Read(i)
  /\ tab' = Submitting(calls[i].visit, FALSE)
  /\ UNCHANGED <<server, form, draft, epoch, uploads, geo, events>>

\* Mutant: only an answer switches the button on again.
PostFailsSpinning(i) ==
  /\ calls[i].kind = "create" /\ calls[i].waits
  /\ GivenUp(i)
  /\ Note({"lost"})
  /\ UNCHANGED <<server, tab, form, draft, epoch, uploads, geo>>

\* The call or its answer is lost: an error like any other.
PostFails(i) ==
  /\ calls[i].kind = "create" /\ calls[i].waits
  /\ GivenUp(i)
  /\ tab' = Submitting(calls[i].visit, FALSE)
  /\ Note({"lost"})
  /\ UNCHANGED <<server, form, draft, epoch, uploads, geo>>

-----------------------------------------------------------------------------
Serve(i) == ServeAcquire(i) \/ ServeRelease(i) \/ ServeCreate(i)
Decide(i) == CommitCreate(i) \/ RejectCreate(i)
Settle(i) == Reserved(i) \/ Recorded(i) \/ Released(i) \/ Refused(i)
Fail(i) == LoseCall(i) \/ ReserveFails(i) \/ PostFails(i) \/ ReleaseFails(i)
Position == Ask \/ Located \/ Dismiss \/ AskAgain

Next ==
  \/ \E i \in DOMAIN calls : Serve(i) \/ Decide(i) \/ Settle(i) \/ Fail(i)
  \/ Expire \/ OtherTakes \/ OtherInspects
  \/ Scan \/ Open \/ Reserve \/ Leave \/ Close
  \/ Hydrate \/ Fill \/ Save \/ Pick \/ Restart
  \/ \E e \in uploads : Uploaded(e) \/ UploadFails(e)
  \/ \E e \in form : TakeBack(e)
  \/ Position \/ Press

Spec == Init /\ [][Next]_vars

\* Calls in service are served and their answers read; nothing else need happen.
FairSpec ==
  /\ Spec
  /\ WF_vars(\E i \in DOMAIN calls : Serve(i))
  /\ WF_vars(\E i \in DOMAIN calls : Decide(i))
  /\ WF_vars(\E i \in DOMAIN calls : Settle(i))
  /\ WF_vars(Reserve)

-----------------------------------------------------------------------------
(* Properties *)

Excused(kinds) == events \cap kinds # {}

\* A form in which the operator works holds the unit's lock, until it gives it
\* back or has its inspection: the release of an earlier visit does not take it
\* away, unless it was served after the acquire it was sent before.
ReadyHoldsLock ==
  tab.held /\ recorded = 0 =>
    holder = "me" \/ Excused({"expired", "overtaken"})

\* When no form is open and nothing is in service, the unit is free for others:
\* unless the operator left while it was being reserved (the abort does not
\* reach the server), closed the tab, or a call was lost.
NoLockLeftBehind ==
  tab.stage = "away" /\ calls = <<>> =>
    holder # "me" \/ Excused({"aborted", "closed", "lost"})

\* One inspection per unit and direction, whatever the other operator does and
\* however often submit is pressed: the form is what keeps the creates of its
\* user apart, and it does not when it is left and opened again while one is
\* posted, or when an answer is lost.
OneInspection ==
  recorded <= 1 \/ Excused({"expired", "closed", "lost", "overtaken", "left_posting"})

\* Nothing given before a restart or a new scan is in the form or in the draft,
\* except a photo that was on its way when the operator restarted.
OldAnswersStayOut ==
  \/ form \cup draft \subseteq {0, epoch}
  \/ tab.stage = "away"
  \/ Excused({"late_upload"})

\* Neither the form that is being reserved nor the submit button spins for ever.
SpinnersEnd ==
  /\ tab.stage = "reserving" ~> tab.stage # "reserving"
  /\ tab.submitting ~> ~tab.submitting
=============================================================================

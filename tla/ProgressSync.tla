------------------------------ MODULE ProgressSync ------------------------------
(***************************************************************************)
(* One browser's record of where its reader is, and the account's copy of  *)
(* it: lib/progress/store.ts, client.ts, reconcile.ts and sync.ts, with    *)
(* what they depend on: the reveal (lib/actions/reveal.ts), the recording  *)
(* of a shown frame (remember-position.tsx), and sign-in, which has the    *)
(* account adopt the anonymous cursor's places (lib/server/session.ts).    *)
(*                                                                         *)
(* A tab runs one cycle at a time, and one forget for each press; their    *)
(* requests to the API are answered apart from being served, and the       *)
(* reader, another machine and other requests act in between.  Requests    *)
(* and answers are lost, and the tab can be left at any moment; what       *)
(* outlives it is the browser's storage (record, forgetPending) and its    *)
(* cookies.                                                                *)
(*                                                                         *)
(* Left out: a second tab of the browser, the program gate (every program  *)
(* is open), and how long things take: a hold is over at any moment.       *)
(***************************************************************************)
EXTENDS Naturals, FiniteSets

CONSTANTS Programs, Editions,
          MaxStep,      \* frames of a program
          MaxForgets,   \* presses of Forget (bound)
          MaxSignIns,   \* sessions begun (bound)
          MaxLosses,    \* requests and answers lost, tabs left (bound)
          None          \* nothing: no page, no frame, no place

ASSUME StepsAssumption == MaxStep \in Nat \ {0}
ASSUME BoundsAssumption ==
    MaxForgets \in Nat /\ MaxSignIns \in Nat /\ MaxLosses \in Nat

\* A place, here or there.  History: `by', whether this browser moved it there,
\* and `after', how many forgets that ask for it came before.
Place == [step : 1 .. MaxStep, lang : Editions, by : {"here", "elsewhere"},
          after : 0 .. MaxForgets]
Frame == [prog : Programs, step : 1 .. MaxStep, lang : Editions]
Raised == [prog : Programs, to : Place]
ASSUME NoneAssumption == None \notin Place \cup Frame

\* What runs in the tab: the cycle, and a forget for each press.
Cycle == 0
Forgets == 1 .. MaxForgets
Tasks == {Cycle} \cup Forgets

VARIABLES
    account, cursor,   \* the API's rows: the account's, the anonymous reader's
    session,           \* is this browser signed in?
    positions, last,   \* the record: each program's furthest, the last frame shown
    forgetPending,     \* the marker of a forget still owed
    screen, page,      \* the frame on the screen; the page on its way
    task,              \* task[t]: where the cycle or forget is
    pulled,            \* the rows the cycle's pull answered
    raised, held,      \* the notice's lines; the lines held back
    presses, signIns, losses,
    shown,             \* history: the furthest frame this screen showed since a forget
    crossed,           \* history: a press, or the session's change, met a forget under way
    astray             \* history: a page was later than a hold, or never came, or
                       \* the frame before it was forgotten

server  == <<account, cursor>>
record  == <<positions, last>>
notices == <<raised, held>>
reading == <<screen, page>>
history == <<presses, signIns, losses, shown, crossed, astray>>
vars == <<server, session, record, forgetPending, reading, task, pulled, notices, history>>

NoPlaces == [p \in Programs |-> None]
Places == [Programs -> Place \cup {None}]

TypeOK ==
    /\ account \in Places /\ cursor \in Places /\ positions \in Places /\ pulled \in Places
    /\ session \in BOOLEAN /\ forgetPending \in BOOLEAN /\ crossed \in BOOLEAN /\ astray \in BOOLEAN
    /\ \A frame \in {last, screen, page} : frame = None \/ frame \in Frame
    /\ task[Cycle] \in {"idle", "delete", "deleted", "refused", "asking", "ask",
                        "pull", "pulled"}
    /\ \A f \in Forgets :
          task[f] \in {"idle", "wait", "delete", "deleted", "refused", "asking"}
    /\ raised \subseteq Raised /\ held \subseteq Raised
    /\ presses \in 0 .. MaxForgets /\ signIns \in 0 .. MaxSignIns
    /\ losses \in 0 .. MaxLosses
    /\ shown \in [Programs -> 0 .. MaxStep]

Init ==
    /\ account = NoPlaces /\ cursor = NoPlaces
    /\ session = FALSE
    /\ positions = NoPlaces /\ last = None
    /\ forgetPending = FALSE
    /\ screen = None /\ page = None
    /\ task = [t \in Tasks |-> "idle"]
    /\ pulled = NoPlaces
    /\ raised = {} /\ held = {}
    /\ presses = 0 /\ signIns = 0 /\ losses = 0
    /\ shown = [p \in Programs |-> 0]
    /\ crossed = FALSE /\ astray = FALSE

StepOf(place) == IF place = None THEN 0 ELSE place.step

-----------------------------------------------------------------------------
(* The rules of reconcile.ts.                                              *)

\* This browser has shown the raised frame, or one past it.
ShownHere(entry, latest) ==
    latest # None /\ latest.prog = entry.prog /\ latest.step >= entry.to.step

\* The line's frame is still the program's furthest, and not shown here.
StillNews(entry, furthest, latest) ==
    /\ StepOf(furthest[entry.prog]) = entry.to.step
    /\ ~ ShownHere(entry, latest)

\* Slip: the frame last shown, not the one after it.
CouldBeLastFrame(entry, latest) ==
    latest # None /\ latest.prog = entry.prog /\ entry.to.step = latest.step

\* The frame right after the one last shown, which this browser's own reveal,
\* its page not here yet, looks like.
CouldBeOwnReveal(entry, latest) ==
    latest # None /\ latest.prog = entry.prog /\ entry.to.step = latest.step + 1

\* Slip: a program the account has no row for is not carried over.
MergedRowsOnly(here, there) ==
    [p \in Programs |-> IF StepOf(here[p]) > StepOf(there[p]) /\ there[p] # None
                        THEN here[p] ELSE there[p]]

\* Furthest frame wins; on a tie the account's copy, whole.
Merged(here, there) ==
    [p \in Programs |->
        IF StepOf(here[p]) > StepOf(there[p]) THEN here[p] ELSE there[p]]

Raises(here, there) ==
    {[prog |-> p, to |-> there[p]] :
        p \in {x \in Programs : StepOf(there[x]) > StepOf(here[x])}}

\* Where `last' may point after a merge: it stays, or, if there is none, it is
\* the program of the row with the newest time (times are left out: any row).
MergedLasts(latest, merged, there) ==
    LET rows == {p \in Programs : there[p] # None}
    IN  IF latest # None \/ rows = {} THEN {latest}
        ELSE {[prog |-> p, step |-> merged[p].step, lang |-> merged[p].lang] : p \in rows}

-----------------------------------------------------------------------------
(* The record and the notice.                                              *)

\* withdrawStale: what a change to the record leaves of lines shown or held.
Standing(lines, furthest, latest) == {e \in lines : StillNews(e, furthest, latest)}

\* replace: writing the same record again changes, and announces, nothing.
SameRecord(furthest, latest) ==
    /\ latest = last
    /\ \A p \in Programs :
          /\ StepOf(furthest[p]) = StepOf(positions[p])
          /\ furthest[p] # None => furthest[p].lang = positions[p].lang

\* A newer line of a program replaces the older.
Published(lines, more) ==
    more \cup {e \in lines : \A m \in more : m.prog # e.prog}

\* rememberHere: the frame shown, and the furthest if it is at or past it.
Remember(frame) ==
    LET furthest == positions[frame.prog]
        here == [step |-> frame.step, lang |-> frame.lang, by |-> "here", after |-> presses]
    IN  /\ positions' = [positions EXCEPT ![frame.prog] =
                            IF StepOf(furthest) > frame.step THEN furthest ELSE here]
        /\ last' = frame
        /\ raised' = Standing(raised, positions', frame)
        /\ held' = Standing(held, positions', frame)

\* dismissRaised, for one program's line (its link is followed) or for all.
Dismiss(lines) ==
    /\ lines # {} /\ lines \subseteq raised
    /\ Cardinality(lines) = 1 \/ lines = raised
    /\ raised' = raised \ lines
    /\ UNCHANGED <<server, session, record, forgetPending, reading, task, pulled, held,
                   history>>

\* The timer of a line held back: it is told if nothing has settled it.
HoldOver(entry) ==
    /\ entry \in held
    /\ held' = held \ {entry}
    /\ raised' = IF StillNews(entry, positions, last)
                 THEN Published(raised, {entry}) ELSE raised
    /\ astray' = (astray \/ page # None)
    /\ UNCHANGED <<server, session, record, forgetPending, reading, task, pulled, presses,
                   signIns, losses, shown, crossed>>

-----------------------------------------------------------------------------
(* The reader, in this browser and elsewhere.                              *)

\* History: a forget is owed, or a request of one is still to be answered.
Owing ==
    \/ forgetPending
    \/ \E t \in Tasks : task[t] \in {"delete", "deleted", "refused", "asking"}

\* The rows the gate goes by.
InForce == IF session THEN account ELSE cursor

Cursor(p) == IF InForce[p] = None THEN 1 ELSE InForce[p].step

\* A link to a frame the gate serves.
Open(frame) ==
    /\ page = None
    /\ frame.step <= Cursor(frame.prog)
    /\ page' = frame
    /\ UNCHANGED <<server, session, record, forgetPending, screen, task, pulled, notices,
                   history>>

\* Slip: there is a next frame after the last.
RevealPastTheEnd(lang) ==
    /\ screen # None /\ page = None
    /\ screen.step <= Cursor(screen.prog)
    /\ page' = [prog |-> screen.prog, step |-> screen.step + 1, lang |-> lang]
    /\ UNCHANGED <<server, session, record, forgetPending, screen, task, pulled, notices,
                   history>>

\* Next: the advance is saved, then the next page is on its way.  A reader who
\* had gone back finds the cursor past it; one whose frame the API no longer
\* knows as reached gets no page.
Reveal(lang) ==
    LET p == screen.prog
        next == [step |-> screen.step + 1, lang |-> lang, by |-> "here", after |-> presses]
    IN  /\ screen # None /\ page = None
        /\ screen.step < MaxStep
        /\ screen.step <= Cursor(p)
        /\ IF screen.step < Cursor(p) THEN UNCHANGED server
           ELSE IF session
                THEN account' = [account EXCEPT ![p] = next] /\ UNCHANGED cursor
                ELSE cursor' = [cursor EXCEPT ![p] = next] /\ UNCHANGED account
        /\ page' = [prog |-> p, step |-> screen.step + 1, lang |-> lang]
        /\ UNCHANGED <<session, record, forgetPending, screen, task, pulled, notices, history>>

\* The page is here, and records itself.
Arrive ==
    /\ page # None
    /\ screen' = page /\ page' = None
    /\ Remember(page)
    /\ shown' = [shown EXCEPT ![page.prog] =
                    IF page.step > @ THEN page.step ELSE @]
    /\ UNCHANGED <<server, session, forgetPending, task, pulled, presses, signIns, losses,
                   crossed, astray>>

\* The reader, or an agent, reads on the account from another machine.
Elsewhere(p, lang) ==
    LET step == IF account[p] = None THEN 2 ELSE account[p].step + 1
    IN  /\ step <= MaxStep
        /\ account' = [account EXCEPT ![p] =
              [step |-> step, lang |-> lang, by |-> "elsewhere", after |-> presses]]
        /\ UNCHANGED <<cursor, session, record, forgetPending, reading, task, pulled,
                       notices, history>>

\* What ends with the tab; a request it sent was served before, or never is.
TabEnds ==
    /\ screen' = None /\ page' = None
    /\ task' = [t \in Tasks |-> "idle"] /\ pulled' = NoPlaces
    /\ raised' = {} /\ held' = {}

\* The tab is closed, or reloaded.
Leave ==
    /\ losses < MaxLosses /\ losses' = losses + 1
    /\ TabEnds
    /\ astray' = (astray \/ page # None)
    /\ UNCHANGED <<server, session, record, forgetPending, presses, signIns, shown, crossed>>

\* A session begins with a form's navigation, and the account adopts the
\* cursor's places, the furthest winning and a tie keeping the account's; or the
\* adoption failed, which fails nothing else.
SignIn(adopted) ==
    /\ ~ session /\ signIns < MaxSignIns
    /\ page = None
    /\ session' = TRUE /\ signIns' = signIns + 1
    /\ account' = IF adopted THEN Merged(account, [p \in Programs |->
                        IF StepOf(cursor[p]) > StepOf(account[p]) THEN cursor[p] ELSE None])
                  ELSE account
    /\ TabEnds
    /\ crossed' = (crossed \/ Owing)
    /\ UNCHANGED <<cursor, record, forgetPending, presses, losses, shown, astray>>

\* Signing out clears the cookies and nothing else; the tab goes on.
SignOut ==
    /\ session /\ session' = FALSE
    /\ crossed' = (crossed \/ Owing)
    /\ UNCHANGED <<server, record, forgetPending, reading, task, pulled, notices, presses,
                   signIns, losses, shown, astray>>

-----------------------------------------------------------------------------
(* The forget.                                                             *)

\* The end of a cycle wakes the forgets that wait for it.
Ended(t) ==
    [x \in Tasks |-> IF x = t THEN "idle"
                     ELSE IF t = Cycle /\ task[x] = "wait" THEN "delete" ELSE task[x]]

At(t, phase) == task' = [task EXCEPT ![t] = phase]

\* Slip: the DELETE does not wait for a cycle on the wire.
WaitForNothing == "delete"

\* await running: a forget waits for the cycle it finds.
AwaitRunning == IF task[Cycle] = "idle" THEN "delete" ELSE "wait"

\* forgetEverywhere, up to its first await.  A reader with no session asks
\* nothing of the account: its places do not count as forgotten.
Forget ==
    LET f == presses + 1
        kept == [p \in Programs |->
                    IF account[p] = None THEN None ELSE [account[p] EXCEPT !.after = f]]
    IN  /\ presses < MaxForgets /\ presses' = f
        /\ crossed' = (crossed \/ Owing)
        /\ forgetPending' = TRUE
        /\ positions' = NoPlaces /\ last' = None
        /\ raised' = {} /\ held' = Standing(held, NoPlaces, None)
        /\ At(f, AwaitRunning)
        /\ account' = IF session THEN account ELSE kept
        /\ shown' = [p \in Programs |-> 0]
        /\ astray' = TRUE
        /\ UNCHANGED <<cursor, session, reading, pulled, signIns, losses>>

\* DELETE /progress is served: the account's rows and the cursor's go, or, with
\* no session, nothing does.
DeleteServed(t) ==
    /\ task[t] = "delete"
    /\ IF session
       THEN account' = NoPlaces /\ cursor' = NoPlaces /\ At(t, "deleted")
       ELSE UNCHANGED server /\ At(t, "refused")
    /\ UNCHANGED <<session, record, forgetPending, reading, pulled, notices, history>>

\* The API refuses the bearer of a session this origin vouches for.
BearerRefused(t) ==
    /\ task[t] = "delete" /\ session
    /\ losses < MaxLosses /\ losses' = losses + 1
    /\ At(t, "refused")
    /\ UNCHANGED <<server, session, record, forgetPending, reading, pulled, notices, presses,
                   signIns, shown, crossed, astray>>

\* After a 401, DELETE /progress/anonymous is served.
AnonymousServed(t) ==
    /\ task[t] = "refused"
    /\ cursor' = NoPlaces
    /\ At(t, "asking")
    /\ UNCHANGED <<account, session, record, forgetPending, reading, pulled, notices, history>>

\* deleteRemote is true: the account and the cursor were reached, or, after a 401,
\* the cursor was and this origin says there is no session.
RemoteGone(t) == task[t] = "deleted" \/ (task[t] = "asking" /\ ~ session)

\* The marker goes, and a cycle goes on to its question.
Paid(t) ==
    /\ RemoteGone(t)
    /\ forgetPending' = FALSE
    /\ IF t = Cycle THEN At(t, "ask") ELSE task' = Ended(t)
    /\ UNCHANGED <<server, session, record, reading, pulled, notices, history>>

\* After a 401 the session is still there, so the account is still owed.
StillOwed(t) ==
    /\ task[t] = "asking" /\ session
    /\ task' = Ended(t)
    /\ UNCHANGED <<server, session, record, forgetPending, reading, pulled, notices, history>>

\* A request of the cycle or of a forget, or its answer, is lost.
Fail(t) ==
    /\ task[t] \notin {"idle", "wait"}
    /\ losses < MaxLosses /\ losses' = losses + 1
    /\ task' = Ended(t)
    /\ pulled' = IF t = Cycle THEN NoPlaces ELSE pulled
    /\ UNCHANGED <<server, session, record, forgetPending, reading, notices, presses, signIns,
                   shown, crossed, astray>>

-----------------------------------------------------------------------------
(* The cycle.                                                              *)

\* Slip: what is owed is left to the next press.
StartUnpaid ==
    /\ task[Cycle] = "idle"
    /\ At(Cycle, "ask")
    /\ UNCHANGED <<server, session, record, forgetPending, reading, pulled, notices, history>>

\* Slip: cycles are started before a frame is on the screen, and not again.
StartOnArrival ==
    /\ task[Cycle] = "idle" /\ screen = None
    /\ At(Cycle, IF forgetPending THEN "delete" ELSE "ask")
    /\ UNCHANGED <<server, session, record, forgetPending, reading, pulled, notices, history>>

\* On arrival, after a change, on coming back to the tab.  What is owed first.
Start ==
    /\ task[Cycle] = "idle"
    /\ At(Cycle, IF forgetPending THEN "delete" ELSE "ask")
    /\ UNCHANGED <<server, session, record, forgetPending, reading, pulled, notices, history>>

Ask ==
    /\ task[Cycle] = "ask"
    /\ task' = IF session THEN [task EXCEPT ![Cycle] = "pull"] ELSE Ended(Cycle)
    /\ UNCHANGED <<server, session, record, forgetPending, reading, pulled, notices, history>>

\* GET /progress is served; a 401 ends the cycle.
Pull ==
    /\ task[Cycle] = "pull"
    /\ IF session THEN At(Cycle, "pulled") /\ pulled' = account
       ELSE task' = Ended(Cycle) /\ UNCHANGED pulled
    /\ UNCHANGED <<server, session, record, forgetPending, reading, notices, history>>

\* The pull's rows are merged into the record as it now is, and what moved is
\* told, or held back; or all of it is dropped, as a forget is owed.
Land ==
    LET merged == Merged(positions, pulled)
        found  == Raises(positions, pulled)
    IN  /\ task[Cycle] = "pulled"
        /\ task' = Ended(Cycle) /\ pulled' = NoPlaces
        /\ \/ forgetPending /\ UNCHANGED <<record, notices>>
           \/ /\ ~ forgetPending
              /\ \E latest \in MergedLasts(last, merged, pulled) :
                    LET hold == {e \in found : CouldBeOwnReveal(e, latest)}
                        left(lines) == IF SameRecord(merged, latest) THEN lines
                                       ELSE Standing(lines, merged, latest)
                    IN  /\ positions' = merged /\ last' = latest
                        /\ raised' = Published(left(raised), found \ hold)
                        /\ held' = left(held) \cup hold
        /\ UNCHANGED <<server, session, forgetPending, reading, history>>

-----------------------------------------------------------------------------
Reader ==
    \/ \E frame \in Frame : Open(frame)
    \/ \E lang \in Editions : Reveal(lang)
    \/ \E p \in Programs, lang \in Editions : Elsewhere(p, lang)
    \/ \E lines \in SUBSET raised : Dismiss(lines)
    \/ Forget \/ Leave \/ SignOut
    \/ \E adopted \in BOOLEAN : SignIn(adopted)

Answered(t) ==
    DeleteServed(t) \/ AnonymousServed(t) \/ Paid(t) \/ StillOwed(t)

Exchange == Start \/ Ask \/ Pull \/ Land \/ Answered(Cycle)

Next ==
    \/ Reader \/ Arrive \/ Exchange
    \/ \E entry \in held : HoldOver(entry)
    \/ \E f \in Forgets : Answered(f)
    \/ \E t \in Tasks : BearerRefused(t) \/ Fail(t)

\* Cycles go on being started while a browser has a tab of the product, and what
\* is sent is served in the end, but for losses, which end.
Fairness ==
    /\ WF_vars(Exchange)
    /\ \A f \in Forgets : WF_vars(Answered(f))

Spec == Init /\ [][Next]_vars /\ Fairness

-----------------------------------------------------------------------------
(* Properties.                                                             *)

\* A forget is not undone: nothing this browser keeps was last read before the
\* forgets that asked for it, whatever is still in flight.
ForgottenIsGone ==
    \A p \in Programs : positions[p] # None => positions[p].after = presses

\* It can be undone only where a forget under way is met by another press or by
\* the session's beginning or end.
ForgottenUnlessCrossed == ForgottenIsGone \/ crossed

\* Once no forget is owed, and none was crossed, the API keeps nothing of what was
\* forgotten either.
PaidMeansGone ==
    ~ forgetPending /\ ~ crossed =>
        \A p \in Programs :
            /\ account[p] # None => account[p].after = presses
            /\ cursor[p] # None => cursor[p].after = presses

\* A forget holds in the browser at once, and at the API when it is paid.
ForgetsHold == ForgottenUnlessCrossed /\ PaidMeansGone

\* The notice is true and news: a line's frame is the program's furthest in the
\* record, and no frame this screen has shown, not a reveal that landed and not
\* one the reader has gone back past.
LinesAreTrue ==
    \A e \in raised :
        /\ StepOf(positions[e.prog]) = e.to.step
        /\ e.to.step > shown[e.prog]

\* Reading done here is not told as reading done elsewhere, as long as each page
\* comes before a hold is over and the frame it follows was not forgotten.
OnlyElsewhere == astray \/ \A e \in raised : e.to.by = "elsewhere"

\* What the notice says is so: its frames are the furthest, are new to this
\* screen, and were read elsewhere.
NoticeIsTrue == LinesAreTrue /\ OnlyElsewhere

\* The furthest frame of a program is lowered by a forget and by nothing else.
OnlyForgetLowers ==
    [][\A p \in Programs : StepOf(positions'[p]) >= StepOf(positions[p])
                           \/ presses' # presses]_vars

\* A forget is paid in the end, also after lost requests, a tab left, a bearer
\* refused, a session begun or ended.
ForgetIsPaid == forgetPending ~> ~ forgetPending

\* A second machine finds its place: once the reader, here and elsewhere, is done,
\* a signed-in browser stays at the account's furthest or past it, also after lost
\* requests, a forget, a tab left.
CatchesUp ==
    <>[](session => \A p \in Programs : StepOf(positions[p]) >= StepOf(account[p]))

=============================================================================

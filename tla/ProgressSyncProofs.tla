--------------------------- MODULE ProgressSyncProofs ---------------------------
(***************************************************************************)
(* ProgressSync for any programs, editions, presses of Forget, sessions    *)
(* and losses.                                                             *)
(*                                                                         *)
(* Three invariants beside the types.  ForgetInv: how old the rows are     *)
(* that the browser, a pull under way, the account and the cursor hold, by *)
(* where the cycle and the forgets are.  NewsInv: what is told or held     *)
(* back is ahead of the frames this screen has shown.  HereInv: a move     *)
(* made here is in the record already, or its page is on its way, so that  *)
(* no line that is told is about it.                                       *)
(***************************************************************************)
EXTENDS ProgressSync, TLAPS

-----------------------------------------------------------------------------
(* The inductive invariant.                                                *)

CyclePhases == {"idle", "delete", "deleted", "refused", "asking", "ask", "pull", "pulled"}
ForgetPhases == {"idle", "wait", "delete", "deleted", "refused", "asking"}
AreTasks(tasks) ==
    /\ tasks \in [Tasks -> CyclePhases \cup ForgetPhases]
    /\ tasks[Cycle] \in CyclePhases
    /\ \A f \in Forgets : tasks[f] \in ForgetPhases

SyncTypeInv == TypeOK /\ AreTasks(task)

\* Rows read after every forget that asked for them.
Fresh(rows) == \A p \in Programs : rows[p] # None => rows[p].after = presses

AtWork(t) == task[t] \in {"delete", "deleted", "refused", "asking"}

\* What a cycle has pulled is as old as what it may be written over: either no
\* forget was pressed behind it, or the marker will stand until it has ended.
BrowserIsFresh ==
    /\ Fresh(positions)
    /\ task[Cycle] = "pulled" /\ ~ forgetPending => Fresh(pulled)
    /\ forgetPending /\ task[Cycle] \in {"ask", "pull", "pulled"} => \A t \in Tasks : ~ AtWork(t)

\* What the API keeps, by how far the forget has come.
ServerIsFresh ==
    /\ ~ forgetPending => Fresh(account) /\ Fresh(cursor)
    /\ ~ session => Fresh(account)
    /\ \A t \in Tasks :
          /\ task[t] = "deleted" => Fresh(account) /\ Fresh(cursor)
          /\ task[t] = "asking" => Fresh(cursor)

ForgetInv == crossed \/ (BrowserIsFresh /\ ServerIsFresh)

\* Lines shown or held are ahead of what the screen has shown.
NewsInv ==
    /\ \A p \in Programs : shown[p] <= StepOf(positions[p])
    /\ \A e \in raised \cup held : e.to.step > shown[e.prog]
    /\ \A e \in raised : StepOf(positions[e.prog]) = e.to.step

\* The page on its way, when it is the one after the frame last shown.
OnItsWay(p, step) ==
    /\ page # None /\ page.prog = p /\ page.step = step
    /\ last # None /\ last.prog = p /\ last.step + 1 = step

\* This browser's own moves are in its record, or their page is on its way.
HereIsKnown(rows) ==
    \A p \in Programs : rows[p] # None /\ rows[p].by = "here" =>
        rows[p].step <= StepOf(positions[p]) \/ OnItsWay(p, rows[p].step)

HereKnown ==
    /\ screen # None => last = screen
    /\ HereIsKnown(account) /\ HereIsKnown(cursor) /\ HereIsKnown(pulled)
    /\ \A e \in raised : e.to.by = "elsewhere"
    /\ \A e \in held : e.to.by = "here" => OnItsWay(e.prog, e.to.step)

HereInv == astray \/ HereKnown

SyncInv == SyncTypeInv /\ ForgetInv /\ NewsInv /\ HereInv

-----------------------------------------------------------------------------
(* Places, lines and tasks.                                                *)

LEMMA StepOfIs ==
    ASSUME NEW place \in Place \cup {None}
    PROVE  /\ StepOf(place) \in 0 .. MaxStep
           /\ place = None => StepOf(place) = 0
           /\ place # None => place \in Place /\ StepOf(place) = place.step /\ place.step \in 1 .. MaxStep
  BY StepsAssumption DEF StepOf, Place

\* A frame has a program, a step and an edition, and is not none.
LEMMA FrameIs ==
    ASSUME NEW frame \in Frame
    PROVE  frame # None /\ frame.prog \in Programs /\ frame.step \in 1 .. MaxStep /\ frame.lang \in Editions
  BY NoneAssumption DEF Frame

\* A merge takes the further place, and the server's when they are level.
LEMMA MergedIs ==
    ASSUME NEW here \in Places, NEW there \in Places
    PROVE  LET merged == Merged(here, there) IN
             /\ merged \in Places
             /\ \A p \in Programs :
                  /\ merged[p] = IF StepOf(here[p]) > StepOf(there[p]) THEN here[p] ELSE there[p]
                  /\ StepOf(merged[p]) >= StepOf(here[p]) /\ StepOf(merged[p]) >= StepOf(there[p])
                  /\ there[p] # None => merged[p] # None
  <1>. DEFINE merged == Merged(here, there)
  <1>1. \A p \in Programs : here[p] \in Place \cup {None} /\ there[p] \in Place \cup {None}
    BY DEF Places
  <1>2. \A p \in Programs : merged[p] = IF StepOf(here[p]) > StepOf(there[p]) THEN here[p] ELSE there[p]
    BY DEF Merged
  <1>3. merged \in Places
    BY <1>1 DEF Merged, Places
  <1>4. ASSUME NEW p \in Programs
        PROVE  /\ StepOf(merged[p]) >= StepOf(here[p]) /\ StepOf(merged[p]) >= StepOf(there[p])
               /\ there[p] # None => merged[p] # None
    <2>1. StepOf(here[p]) \in Nat /\ StepOf(there[p]) \in Nat
      BY <1>1, StepOfIs
    <2>2. there[p] # None => StepOf(there[p]) >= 1
      BY <1>1, StepOfIs
    <2>3. StepOf(None) = 0
      BY DEF StepOf
    <2>4. QED
      BY <1>2, <2>1, <2>2, <2>3
  <1>5. QED
    BY <1>2, <1>3, <1>4

(* A program the other copy is ahead in, and the line it makes. *)
LEMMA RaisesIs ==
    ASSUME NEW here \in Places, NEW there \in Places, NEW e \in Raises(here, there)
    PROVE  /\ e \in Raised /\ e.prog \in Programs /\ e.to = there[e.prog] /\ there[e.prog] # None
           /\ e.to.step = StepOf(there[e.prog]) /\ e.to.step > StepOf(here[e.prog])
           /\ Merged(here, there)[e.prog] = there[e.prog]
  <1>1. PICK p \in Programs : e = [prog |-> p, to |-> there[p]] /\ StepOf(there[p]) > StepOf(here[p])
    BY DEF Raises
  <1>2. /\ here[p] \in Place \cup {None} /\ there[p] \in Place \cup {None}
        /\ StepOf(here[p]) \in Nat /\ StepOf(there[p]) \in Nat
    BY StepOfIs DEF Places
  <1>3. there[p] # None /\ there[p] \in Place /\ StepOf(there[p]) = there[p].step
    BY <1>1, <1>2, StepOfIs
  <1>4. e \in Raised /\ e.prog = p /\ e.to = there[p]
    BY <1>1, <1>3 DEF Raised
  <1>5. Merged(here, there)[p] = there[p]
    BY <1>1, <1>2 DEF Merged
  <1>6. QED
    BY <1>1, <1>3, <1>4, <1>5

\* A line names a program and a place, read to here or elsewhere.
LEMMA RaisedIs ==
    ASSUME NEW e \in Raised
    PROVE  e.prog \in Programs /\ e.to \in Place /\ e.to.step \in 1 .. MaxStep
           /\ e.to.by \in {"here", "elsewhere"}
  BY DEF Raised, Place

\* Remembering lowers no place, and what it changes it dates after the latest press.
LEMMA RememberIs ==
    ASSUME TypeOK, NEW frame \in Frame, Remember(frame)
    PROVE  /\ positions' \in Places /\ last' = frame
           /\ \A p \in Programs :
                /\ StepOf(positions'[p]) >= StepOf(positions[p])
                /\ positions'[p] = positions[p] \/ positions'[p].after = presses
           /\ StepOf(positions'[frame.prog]) >= frame.step
           /\ raised' \subseteq raised /\ held' \subseteq held
           /\ \A e \in raised' \cup held' :
                StepOf(positions'[e.prog]) = e.to.step /\ ~ ShownHere(e, frame)
  <1>. DEFINE q == frame.prog
              furthest == positions[q]
              here == [step |-> frame.step, lang |-> frame.lang, by |-> "here", after |-> presses]
              new == IF StepOf(furthest) > frame.step THEN furthest ELSE here
  <1>1. /\ positions' = [positions EXCEPT ![q] = new]
        /\ last' = frame
        /\ raised' = Standing(raised, positions', frame) /\ held' = Standing(held, positions', frame)
    BY DEF Remember
  <1>2. /\ positions \in Places /\ presses \in 0 .. MaxForgets /\ q \in Programs
        /\ frame.step \in 1 .. MaxStep /\ frame.lang \in Editions
    BY FrameIs DEF TypeOK
  <1>3. \A p \in Programs : positions[p] \in Place \cup {None} /\ StepOf(positions[p]) \in Nat
    BY <1>2, StepOfIs DEF Places
  <1>4. here \in Place /\ StepOf(here) = frame.step /\ here.after = presses
    <2>1. here \in Place /\ here.step = frame.step /\ here.after = presses
      BY <1>2 DEF Place
    <2>. HIDE DEF here
    <2>2. QED
      BY <2>1, StepOfIs, NoneAssumption
  <1>. HIDE DEF here
  <1>5. /\ new \in Place \cup {None} /\ (new = furthest \/ new.after = presses)
        /\ StepOf(new) >= StepOf(furthest) /\ StepOf(new) >= frame.step
    BY <1>2, <1>3, <1>4
  <1>. HIDE DEF new
  <1>6. positions' \in Places /\ positions'[q] = new /\ \A p \in Programs \ {q} : positions'[p] = positions[p]
    BY <1>1, <1>2, <1>5 DEF Places
  <1>7. \A p \in Programs :
          /\ StepOf(positions'[p]) >= StepOf(positions[p])
          /\ positions'[p] = positions[p] \/ positions'[p].after = presses
    BY <1>3, <1>5, <1>6
  <1>8. /\ raised' \subseteq raised /\ held' \subseteq held
        /\ \A e \in raised' \cup held' : StillNews(e, positions', frame)
    BY <1>1 DEF Standing
  <1>9. \A e \in raised' \cup held' : StepOf(positions'[e.prog]) = e.to.step /\ ~ ShownHere(e, frame)
    BY <1>8 DEF StillNews
  <1>10. QED
    BY <1>1, <1>5, <1>6, <1>7, <1>8, <1>9

\* The cycle and the presses of Forget.
LEMMA TasksAre ==
    /\ Cycle \in Tasks /\ Forgets \subseteq Tasks /\ Cycle \notin Forgets
    /\ Tasks = {Cycle} \cup Forgets /\ Forgets = 1 .. MaxForgets
  BY DEF Cycle, Forgets, Tasks

\* A task that moves on leaves the others where they are.
LEMMA AtIs ==
    ASSUME AreTasks(task), NEW t \in Tasks, NEW phase, At(t, phase),
           phase \in (IF t = Cycle THEN CyclePhases ELSE ForgetPhases)
    PROVE  AreTasks(task') /\ task'[t] = phase /\ \A x \in Tasks \ {t} : task'[x] = task[x]
  <1>1. task' = [task EXCEPT ![t] = phase] /\ phase \in CyclePhases \cup ForgetPhases
    BY DEF At
  <1>2. /\ task' \in [Tasks -> CyclePhases \cup ForgetPhases] /\ task'[t] = phase
        /\ \A x \in Tasks \ {t} : task'[x] = task[x]
    BY <1>1 DEF AreTasks
  <1>3. QED
    BY <1>2, TasksAre DEF AreTasks

\* The cycle that ends lets go of the forgets that wait for it.
LEMMA EndedIs ==
    ASSUME AreTasks(task), NEW t \in Tasks, task' = Ended(t)
    PROVE  /\ AreTasks(task') /\ task'[t] = "idle"
           /\ \A x \in Tasks \ {t} : task'[x] = task[x]
                                  \/ (t = Cycle /\ task[x] = "wait" /\ task'[x] = "delete")
  <1>1. \A x \in Tasks : task'[x] = IF x = t THEN "idle"
                                    ELSE IF t = Cycle /\ task[x] = "wait" THEN "delete" ELSE task[x]
    BY DEF Ended
  <1>2. task[Cycle] # "wait"
    BY DEF AreTasks, CyclePhases
  <1>3. \A x \in Tasks : task'[x] \in CyclePhases \cup ForgetPhases
    BY <1>1 DEF AreTasks, CyclePhases, ForgetPhases
  <1>4. task' \in [Tasks -> CyclePhases \cup ForgetPhases]
    BY <1>3 DEF Ended
  <1>5. task'[Cycle] \in CyclePhases /\ \A f \in Forgets : task'[f] \in ForgetPhases
    BY <1>1, <1>2, TasksAre DEF AreTasks, CyclePhases, ForgetPhases
  <1>6. QED
    BY <1>1, <1>4, <1>5 DEF AreTasks

\* A tab that goes takes its tasks, its page and its notice with it.
LEMMA TabEndsIs ==
    ASSUME TabEnds
    PROVE  /\ AreTasks(task') /\ \A t \in Tasks : task'[t] = "idle"
           /\ screen' = None /\ page' = None /\ raised' = {} /\ held' = {}
           /\ pulled' = NoPlaces
  <1>1. task' = [t \in Tasks |-> "idle"]
    BY DEF TabEnds
  <1>2. AreTasks(task')
    BY <1>1, TasksAre DEF AreTasks, CyclePhases, ForgetPhases
  <1>3. QED
    BY <1>1, <1>2 DEF TabEnds

\* No places are places, and none.
LEMMA NoPlacesIs == NoPlaces \in Places /\ \A p \in Programs : NoPlaces[p] = None
  BY DEF NoPlaces, Places

-----------------------------------------------------------------------------
(* Types.                                                                  *)

LEMMA TasksTyped == SyncTypeInv => AreTasks(task)
  BY DEF SyncTypeInv

\* What has to be shown of a step for the types.
LEMMA TypesTogether ==
    ASSUME account' \in Places, cursor' \in Places, positions' \in Places, pulled' \in Places,
           session' \in BOOLEAN, forgetPending' \in BOOLEAN, crossed' \in BOOLEAN, astray' \in BOOLEAN,
           \A frame \in {last', screen', page'} : frame = None \/ frame \in Frame,
           AreTasks(task'), raised' \subseteq Raised, held' \subseteq Raised,
           presses' \in 0 .. MaxForgets, signIns' \in 0 .. MaxSignIns, losses' \in 0 .. MaxLosses,
           shown' \in [Programs -> 0 .. MaxStep]
    PROVE  SyncTypeInv'
  BY DEF SyncTypeInv, TypeOK, AreTasks, CyclePhases, ForgetPhases

\* The types, by kinds of step: reading, the session and Forget, a task, the cycle.
LEMMA ReaderTyped ==
    ASSUME SyncTypeInv,
           \/ \E frame \in Frame : Open(frame)
           \/ \E lang \in Editions : Reveal(lang)
           \/ \E p \in Programs, lang \in Editions : Elsewhere(p, lang)
           \/ \E lines \in SUBSET raised : Dismiss(lines)
           \/ \E entry \in held : HoldOver(entry)
           \/ Arrive
    PROVE  SyncTypeInv'
  <1>. USE DEF SyncTypeInv
  <1>1. CASE \E frame \in Frame : Open(frame)
    BY <1>1, TypesTogether DEF Open, TypeOK, server, record, notices, history
  <1>2. ASSUME NEW lang \in Editions, Reveal(lang) PROVE SyncTypeInv'
    <2>. DEFINE p == screen.prog
                next == [step |-> screen.step + 1, lang |-> lang, by |-> "here", after |-> presses]
                frame == [prog |-> p, step |-> screen.step + 1, lang |-> lang]
    <2>1. /\ screen # None /\ screen.step < MaxStep /\ page' = frame
          /\ account' \in {account, [account EXCEPT ![p] = next]}
          /\ cursor' \in {cursor, [cursor EXCEPT ![p] = next]}
          /\ UNCHANGED <<session, record, forgetPending, screen, task, pulled, notices, history>>
      BY <1>2 DEF Reveal, server
    <2>2. screen \in Frame /\ presses \in 0 .. MaxForgets
      BY <2>1 DEF TypeOK
    <2>3. next \in Place /\ frame \in Frame
      BY <2>1, <2>2, StepsAssumption DEF Frame, Place
    <2>. HIDE DEF next, frame
    <2>4. account' \in Places /\ cursor' \in Places
      BY <2>1, <2>3 DEF TypeOK, Places
    <2>5. QED
      BY <2>1, <2>3, <2>4, TypesTogether DEF TypeOK, record, notices, history
  <1>3. ASSUME NEW p \in Programs, NEW lang \in Editions, Elsewhere(p, lang) PROVE SyncTypeInv'
    <2>. DEFINE step == IF account[p] = None THEN 2 ELSE account[p].step + 1
                row == [step |-> step, lang |-> lang, by |-> "elsewhere", after |-> presses]
    <2>1. /\ step <= MaxStep /\ account' = [account EXCEPT ![p] = row]
          /\ UNCHANGED <<cursor, session, record, forgetPending, reading, task, pulled,
                         notices, history>>
      BY <1>3 DEF Elsewhere
    <2>2. account[p] \in Place \cup {None} /\ presses \in 0 .. MaxForgets
      BY DEF TypeOK, Places
    <2>3. step \in 1 .. MaxStep
      BY <2>1, <2>2, StepsAssumption DEF Place
    <2>. HIDE DEF step
    <2>4. row \in Place
      BY <2>2, <2>3 DEF Place
    <2>. HIDE DEF row
    <2>5. account' \in Places
      BY <2>1, <2>4 DEF TypeOK, Places
    <2>6. QED
      BY <2>1, <2>5, TypesTogether DEF TypeOK, record, reading, notices, history
  <1>4. CASE \E lines \in SUBSET raised : Dismiss(lines)
    BY <1>4, TypesTogether DEF Dismiss, TypeOK, server, record, reading, history
  <1>5. ASSUME NEW entry \in held, HoldOver(entry) PROVE SyncTypeInv'
    <2>1. held' \subseteq held /\ raised' \subseteq raised \cup {entry}
      BY <1>5 DEF HoldOver, Published
    <2>2. astray' \in BOOLEAN
      BY <1>5 DEF HoldOver, TypeOK
    <2>3. QED
      BY <1>5, <2>1, <2>2, TypesTogether DEF HoldOver, TypeOK, server, record, reading
  <1>6. CASE Arrive
    <2>1. page \in Frame /\ page # None /\ Remember(page)
      BY <1>6 DEF Arrive, TypeOK
    <2>2. positions' \in Places /\ last' = page /\ raised' \subseteq raised /\ held' \subseteq held
      BY <2>1, RememberIs
    <2>3. shown' \in [Programs -> 0 .. MaxStep]
      BY <1>6, <2>1, FrameIs DEF Arrive, TypeOK
    <2>4. QED
      BY <1>6, <2>1, <2>2, <2>3, TypesTogether DEF Arrive, TypeOK, server
  <1>7. QED
    BY <1>1, <1>2, <1>3, <1>4, <1>5, <1>6

LEMMA SessionTyped ==
    ASSUME SyncTypeInv, Leave \/ SignOut \/ (\E adopted \in BOOLEAN : SignIn(adopted)) \/ Forget
    PROVE  SyncTypeInv'
  <1>. USE DEF SyncTypeInv
  <1>1. CASE Leave
    <2>1. astray' \in BOOLEAN /\ losses' \in 0 .. MaxLosses
      BY <1>1, BoundsAssumption DEF Leave, TypeOK
    <2>2. TabEnds
      BY <1>1 DEF Leave
    <2>3. QED
      BY <1>1, <2>1, <2>2, TabEndsIs, NoPlacesIs, TypesTogether DEF Leave, TypeOK, server, record
  <1>2. CASE SignOut
    <2>1. crossed' \in BOOLEAN
      BY <1>2 DEF SignOut, TypeOK
    <2>2. QED
      BY <1>2, <2>1, TypesTogether DEF SignOut, TypeOK, server, record, reading, notices
  <1>3. ASSUME NEW adopted \in BOOLEAN, SignIn(adopted) PROVE SyncTypeInv'
    <2>. DEFINE further == [p \in Programs |->
                              IF StepOf(cursor[p]) > StepOf(account[p]) THEN cursor[p] ELSE None]
    <2>1. further \in Places
      BY DEF TypeOK, Places
    <2>2. account' \in {account, Merged(account, further)}
      BY <1>3 DEF SignIn
    <2>. HIDE DEF further
    <2>3. account' \in Places
      BY <2>1, <2>2, MergedIs DEF TypeOK
    <2>4. crossed' \in BOOLEAN /\ signIns' \in 0 .. MaxSignIns /\ session' = TRUE /\ TabEnds
      BY <1>3, BoundsAssumption DEF SignIn, TypeOK
    <2>5. QED
      BY <1>3, <2>3, <2>4, TabEndsIs, NoPlacesIs, TypesTogether DEF SignIn, TypeOK, record
  <1>4. CASE Forget
    <2>. DEFINE f == presses + 1
                kept == [p \in Programs |->
                           IF account[p] = None THEN None ELSE [account[p] EXCEPT !.after = f]]
    <2>1. f \in 0 .. MaxForgets /\ f \in Forgets /\ presses' = f
      BY <1>4, BoundsAssumption DEF Forget, TypeOK, Forgets
    <2>. HIDE DEF f
    <2>2. ASSUME NEW p \in Programs, account[p] # None PROVE [account[p] EXCEPT !.after = f] \in Place
      BY <2>1, <2>2 DEF TypeOK, Places, Place
    <2>3. kept \in Places
      BY <2>2 DEF Places
    <2>4. account' \in {account, kept} /\ At(f, AwaitRunning)
      BY <1>4 DEF Forget, f
    <2>5. AwaitRunning \in ForgetPhases
      BY DEF AwaitRunning, ForgetPhases
    <2>6. AreTasks(task')
      BY <2>1, <2>4, <2>5, AtIs, TasksAre
    <2>7. account' \in Places
      BY <2>3, <2>4 DEF TypeOK
    <2>8. crossed' \in BOOLEAN
      BY <1>4 DEF Forget, TypeOK
    <2>9. held' \subseteq held /\ shown' \in [Programs -> 0 .. MaxStep]
      BY <1>4, StepsAssumption DEF Forget, Standing
    <2>10. QED
      BY <1>4, <2>1, <2>6, <2>7, <2>8, <2>9, NoPlacesIs, TypesTogether DEF Forget, TypeOK, reading
  <1>5. QED
    BY <1>1, <1>2, <1>3, <1>4

LEMMA TaskTyped ==
    ASSUME SyncTypeInv, NEW t \in Tasks, Answered(t) \/ BearerRefused(t) \/ Fail(t)
    PROVE  SyncTypeInv'
  <1>. USE DEF SyncTypeInv
  <1>1. {"deleted", "refused", "asking"} \subseteq CyclePhases \cap ForgetPhases /\ "ask" \in CyclePhases
    BY DEF CyclePhases, ForgetPhases
  <1>2. CASE DeleteServed(t)
    <2>1. \E phase \in {"deleted", "refused"} : At(t, phase)
      BY <1>2 DEF DeleteServed
    <2>2. AreTasks(task')
      BY <1>1, <2>1, AtIs
    <2>3. account' \in Places /\ cursor' \in Places
      BY <1>2, NoPlacesIs DEF DeleteServed, TypeOK, server
    <2>4. QED
      BY <1>2, <2>2, <2>3, TypesTogether DEF DeleteServed, TypeOK, record, reading, notices, history
  <1>3. CASE AnonymousServed(t)
    <2>1. AreTasks(task')
      BY <1>1, <1>3, AtIs DEF AnonymousServed
    <2>2. QED
      BY <1>3, <2>1, NoPlacesIs, TypesTogether DEF AnonymousServed, TypeOK, record, reading, notices, history
  <1>4. CASE Paid(t)
    <2>1. AreTasks(task')
      BY <1>1, <1>4, AtIs, EndedIs DEF Paid
    <2>2. QED
      BY <1>4, <2>1, TypesTogether DEF Paid, TypeOK, server, record, reading, notices, history
  <1>5. CASE StillOwed(t)
    <2>1. AreTasks(task')
      BY <1>5, EndedIs DEF StillOwed
    <2>2. QED
      BY <1>5, <2>1, TypesTogether DEF StillOwed, TypeOK, server, record, reading, notices, history
  <1>6. CASE BearerRefused(t)
    <2>1. AreTasks(task') /\ losses' \in 0 .. MaxLosses
      BY <1>1, <1>6, AtIs, BoundsAssumption DEF BearerRefused, TypeOK
    <2>2. QED
      BY <1>6, <2>1, TypesTogether DEF BearerRefused, TypeOK, server, record, reading, notices
  <1>7. CASE Fail(t)
    <2>1. AreTasks(task') /\ losses' \in 0 .. MaxLosses /\ pulled' \in Places
      BY <1>7, EndedIs, BoundsAssumption, NoPlacesIs DEF Fail, TypeOK
    <2>2. QED
      BY <1>7, <2>1, TypesTogether DEF Fail, TypeOK, server, record, reading, notices
  <1>8. QED
    BY <1>2, <1>3, <1>4, <1>5, <1>6, <1>7 DEF Answered

(* The rows of a pull, merged into the record as it is by then.            *)
LEMMA LandIs ==
    ASSUME SyncTypeInv, Land, ~ forgetPending
    PROVE  LET merged == Merged(positions, pulled)
               found == Raises(positions, pulled)
           IN  /\ positions' = merged /\ merged \in Places
               /\ last # None => last' = last
               /\ last' = None \/ last' \in Frame
               /\ \A p \in Programs : StepOf(merged[p]) >= StepOf(positions[p])
               /\ raised' \subseteq raised \cup found /\ held' \subseteq held \cup found
               /\ \A e \in raised' \ found : StepOf(positions'[e.prog]) = e.to.step
                                             \/ \A p \in Programs : StepOf(positions'[p]) = StepOf(positions[p])
               /\ \A e \in raised' \cap found :
                     CouldBeOwnReveal(e, last') => e \in raised
               /\ \A e \in held' \ held : e \in found /\ CouldBeOwnReveal(e, last')
  <1>. DEFINE merged == Merged(positions, pulled)
              found == Raises(positions, pulled)
              hold(latest) == {e \in found : CouldBeOwnReveal(e, latest)}
              left(lines, latest) == IF SameRecord(merged, latest) THEN lines
                                     ELSE Standing(lines, merged, latest)
  <1>1. PICK latest \in MergedLasts(last, merged, pulled) :
          /\ positions' = merged /\ last' = latest
          /\ raised' = Published(left(raised, latest), found \ hold(latest))
          /\ held' = left(held, latest) \cup hold(latest)
    BY DEF Land
  <1>2. /\ positions \in Places /\ pulled \in Places
        /\ last = None \/ last \in Frame
    BY DEF SyncTypeInv, TypeOK
  <1>3. /\ merged \in Places
        /\ \A p \in Programs : /\ StepOf(merged[p]) >= StepOf(positions[p])
                               /\ pulled[p] # None => merged[p] # None
    BY <1>2, MergedIs
  <1>. HIDE DEF merged
  <1>4. last # None => latest = last
    BY DEF MergedLasts
  <1>5. latest = None \/ latest \in Frame
    <2>1. CASE latest = last
      BY <1>2, <2>1
    <2>2. CASE latest # last
      <3>1. PICK p \in Programs : /\ pulled[p] # None
                                  /\ latest = [prog |-> p, step |-> merged[p].step, lang |-> merged[p].lang]
        BY <2>2 DEF MergedLasts
      <3>2. merged[p] \in Place
        BY <1>3, <3>1 DEF Places
      <3>3. QED
        BY <3>1, <3>2 DEF Place, Frame
    <2>3. QED  BY <2>1, <2>2
  <1>6. \A lines : left(lines, latest) \subseteq lines
    BY DEF Standing
  <1>7. raised' \subseteq left(raised, latest) \cup (found \ hold(latest))
    BY <1>1 DEF Published
  <1>8. ASSUME SameRecord(merged, latest), NEW p \in Programs PROVE StepOf(merged[p]) = StepOf(positions[p])
    BY <1>8 DEF SameRecord
  <1>9. ASSUME ~ SameRecord(merged, latest), NEW e \in left(raised, latest)
        PROVE  StepOf(merged[e.prog]) = e.to.step
    BY <1>9 DEF Standing, StillNews
  <1>10. QED
    <2>. HIDE DEF left
    <2>1. /\ raised' \subseteq raised \cup found /\ held' \subseteq held \cup found
          /\ \A e \in held' \ held : e \in found /\ CouldBeOwnReveal(e, last')
          /\ \A e \in raised' \cap found : CouldBeOwnReveal(e, last') => e \in raised
      BY <1>1, <1>6, <1>7
    <2>2. \A e \in raised' \ found : StepOf(positions'[e.prog]) = e.to.step
                                     \/ \A p \in Programs : StepOf(positions'[p]) = StepOf(positions[p])
      BY <1>1, <1>7, <1>8, <1>9
    <2>3. QED
      BY <1>1, <1>3, <1>4, <1>5, <2>1, <2>2 DEF merged

(* The marker being up, a pull is dropped. *)
LEMMA LandDropped ==
    ASSUME Land, forgetPending PROVE UNCHANGED <<record, notices>>
  BY DEF Land

LEMMA CycleTyped ==
    ASSUME SyncTypeInv, Start \/ Ask \/ Pull \/ Land
    PROVE  SyncTypeInv'
  <1>. USE DEF SyncTypeInv
  <1>1. {"idle", "delete", "ask", "pull", "pulled"} \subseteq CyclePhases /\ Cycle \in Tasks
    BY TasksAre DEF CyclePhases
  <1>2. CASE Start
    <2>1. AreTasks(task')
      BY <1>1, <1>2, AtIs DEF Start
    <2>2. QED
      BY <1>2, <2>1, TypesTogether DEF Start, TypeOK, server, record, reading, notices, history
  <1>3. CASE Ask
    <2>1. AreTasks(task')
      BY <1>1, <1>3, AtIs, EndedIs DEF Ask, At
    <2>2. QED
      BY <1>3, <2>1, TypesTogether DEF Ask, TypeOK, server, record, reading, notices, history
  <1>4. CASE Pull
    <2>1. AreTasks(task') /\ pulled' \in Places
      BY <1>1, <1>4, AtIs, EndedIs DEF Pull, TypeOK
    <2>2. QED
      BY <1>4, <2>1, TypesTogether DEF Pull, TypeOK, server, record, reading, notices, history
  <1>5. CASE Land
    <2>1. AreTasks(task') /\ pulled' = NoPlaces
      BY <1>1, <1>5, EndedIs DEF Land
    <2>2. /\ positions' \in Places /\ (last' = None \/ last' \in Frame)
          /\ raised' \subseteq Raised /\ held' \subseteq Raised
      <3>1. CASE forgetPending
        BY <1>5, <3>1, LandDropped DEF TypeOK, record, notices
      <3>2. CASE ~ forgetPending
        <4>1. Raises(positions, pulled) \subseteq Raised
          BY RaisesIs DEF TypeOK
        <4>2. QED
          BY <1>5, <3>2, <4>1, LandIs DEF TypeOK
      <3>3. QED  BY <3>1, <3>2
    <2>3. QED
      BY <1>5, <2>1, <2>2, NoPlacesIs, TypesTogether DEF Land, TypeOK, server, reading, history
  <1>6. QED
    BY <1>2, <1>3, <1>4, <1>5

LEMMA SyncTypeNext == SyncTypeInv /\ [Next]_vars => SyncTypeInv'
  <1>. SUFFICES ASSUME SyncTypeInv, [Next]_vars PROVE SyncTypeInv'
    OBVIOUS
  <1>1. CASE UNCHANGED vars
    BY <1>1 DEF vars, server, record, reading, notices, history, SyncTypeInv, TypeOK, AreTasks
  <1>2. CASE Next
    BY <1>2, ReaderTyped, SessionTyped, TaskTyped, CycleTyped, TasksAre DEF Next, Reader, Exchange
  <1>3. QED
    BY <1>1, <1>2

LEMMA SyncTypeInit == Init => SyncTypeInv
  <1>. SUFFICES ASSUME Init PROVE SyncTypeInv
    OBVIOUS
  <1>1. AreTasks(task) /\ NoPlaces \in Places /\ [p \in Programs |-> 0] \in [Programs -> 0 .. MaxStep]
    BY TasksAre, NoPlacesIs, StepsAssumption DEF Init, AreTasks, CyclePhases, ForgetPhases
  <1>2. /\ account = NoPlaces /\ cursor = NoPlaces /\ positions = NoPlaces /\ pulled = NoPlaces
        /\ session = FALSE /\ forgetPending = FALSE /\ crossed = FALSE /\ astray = FALSE
        /\ last = None /\ screen = None /\ page = None /\ raised = {} /\ held = {}
        /\ presses = 0 /\ signIns = 0 /\ losses = 0 /\ shown = [p \in Programs |-> 0]
    BY DEF Init
  <1>3. TypeOK
    <2>1. presses \in 0 .. MaxForgets /\ signIns \in 0 .. MaxSignIns /\ losses \in 0 .. MaxLosses
      BY <1>2, BoundsAssumption
    <2>2. /\ task[Cycle] = "idle" /\ \A f \in Forgets : task[f] = "idle"
      BY TasksAre DEF Init
    <2>3. shown \in [Programs -> 0 .. MaxStep]
      BY <1>1, <1>2
    <2>4. account \in Places /\ cursor \in Places /\ positions \in Places /\ pulled \in Places
      BY <1>1, <1>2
    <2>5. QED
      BY <1>2, <2>1, <2>2, <2>3, <2>4 DEF TypeOK
  <1>4. QED
    BY <1>1, <1>3 DEF SyncTypeInv

-----------------------------------------------------------------------------
(* Forgets.                                                                *)

LEMMA ForgetTogether ==
    ASSUME ForgetInv, crossed => crossed',
           ~ crossed /\ ~ crossed' /\ BrowserIsFresh /\ ServerIsFresh => BrowserIsFresh' /\ ServerIsFresh'
    PROVE  ForgetInv'
  BY DEF ForgetInv

(* Steps that read, record and tell. *)
LEMMA ReadingForgets ==
    ASSUME SyncTypeInv, ForgetInv,
           \/ \E frame \in Frame : Open(frame)
           \/ \E lang \in Editions : Reveal(lang)
           \/ \E p \in Programs, lang \in Editions : Elsewhere(p, lang)
           \/ \E lines \in SUBSET raised : Dismiss(lines)
           \/ \E entry \in held : HoldOver(entry)
           \/ Arrive
    PROVE  ForgetInv'
  <1>1. /\ UNCHANGED <<session, forgetPending, task, pulled, presses, crossed>>
        /\ \A p \in Programs : /\ positions'[p] = positions[p] \/ positions'[p].after = presses
                               /\ account'[p] = account[p] \/ account'[p].after = presses
                               /\ cursor'[p] = cursor[p] \/ cursor'[p].after = presses
    <2>1. CASE \E frame \in Frame : Open(frame)
      BY <2>1 DEF Open, server, record, history
    <2>2. ASSUME NEW lang \in Editions, Reveal(lang)
          PROVE  /\ UNCHANGED <<session, forgetPending, task, pulled, presses, crossed, positions>>
                 /\ \A p \in Programs : /\ account'[p] = account[p] \/ account'[p].after = presses
                                        /\ cursor'[p] = cursor[p] \/ cursor'[p].after = presses
      BY <2>2 DEF Reveal, server, record, history, SyncTypeInv, TypeOK, Places
    <2>3. ASSUME NEW p \in Programs, NEW lang \in Editions, Elsewhere(p, lang)
          PROVE  /\ UNCHANGED <<session, forgetPending, task, pulled, presses, crossed, positions, cursor>>
                 /\ \A q \in Programs : account'[q] = account[q] \/ account'[q].after = presses
      BY <2>3 DEF Elsewhere, record, history, SyncTypeInv, TypeOK, Places
    <2>4. CASE \E lines \in SUBSET raised : Dismiss(lines)
      BY <2>4 DEF Dismiss, server, record, history
    <2>5. CASE \E entry \in held : HoldOver(entry)
      BY <2>5 DEF HoldOver, server, record
    <2>6. CASE Arrive
      BY <2>6, RememberIs DEF Arrive, server, SyncTypeInv, TypeOK
    <2>7. QED
      BY <2>1, <2>2, <2>3, <2>4, <2>5, <2>6
  <1>2. /\ Fresh(positions) => Fresh(positions)'
        /\ Fresh(account) => Fresh(account)'
        /\ Fresh(cursor) => Fresh(cursor)'
        /\ Fresh(pulled) => Fresh(pulled)'
    BY <1>1 DEF Fresh
  <1>3. \A t \in Tasks : AtWork(t)' = AtWork(t)
    BY <1>1 DEF AtWork
  <1>4. QED
    BY <1>1, <1>2, <1>3, ForgetTogether DEF BrowserIsFresh, ServerIsFresh

(* The session, a press and the tab's end. *)
LEMMA SessionForgets ==
    ASSUME SyncTypeInv, ForgetInv,
           Leave \/ SignOut \/ (\E adopted \in BOOLEAN : SignIn(adopted)) \/ Forget
    PROVE  ForgetInv'
  <1>1. CASE Leave
    <2>1. /\ UNCHANGED <<account, cursor, session, positions, forgetPending, presses, crossed>>
          /\ \A t \in Tasks : task'[t] = "idle"
      BY <1>1, TabEndsIs DEF Leave, server, record
    <2>2. /\ Fresh(positions)' = Fresh(positions) /\ Fresh(account)' = Fresh(account)
          /\ Fresh(cursor)' = Fresh(cursor)
      BY <2>1 DEF Fresh
    <2>3. QED
      BY <2>1, <2>2, ForgetTogether, TasksAre DEF BrowserIsFresh, ServerIsFresh
  <1>2. CASE SignOut
    <2>1. /\ UNCHANGED <<account, cursor, positions, pulled, forgetPending, task, presses>>
          /\ crossed' = (crossed \/ Owing)
      BY <1>2 DEF SignOut, server, record, notices
    <2>2. /\ Fresh(positions)' = Fresh(positions) /\ Fresh(account)' = Fresh(account)
          /\ Fresh(cursor)' = Fresh(cursor) /\ Fresh(pulled)' = Fresh(pulled)
          /\ \A t \in Tasks : AtWork(t)' = AtWork(t)
      BY <2>1 DEF Fresh, AtWork
    <2>3. ~ crossed' => ~ forgetPending
      BY <2>1 DEF Owing
    <2>4. QED
      BY <2>1, <2>2, <2>3, ForgetTogether DEF BrowserIsFresh, ServerIsFresh
  <1>3. ASSUME NEW adopted \in BOOLEAN, SignIn(adopted) PROVE ForgetInv'
    <2>. DEFINE further == [p \in Programs |->
                              IF StepOf(cursor[p]) > StepOf(account[p]) THEN cursor[p] ELSE None]
    <2>1. /\ UNCHANGED <<cursor, positions, forgetPending, presses>>
          /\ account' \in {account, Merged(account, further)} /\ session' = TRUE
          /\ crossed' = (crossed \/ Owing)
          /\ \A t \in Tasks : task'[t] = "idle"
      BY <1>3, TabEndsIs DEF SignIn, record
    <2>2. \A p \in Programs : account'[p] \in {account[p], cursor[p], None}
      BY <2>1 DEF Merged
    <2>. HIDE DEF further
    <2>3. ASSUME ~ crossed', ServerIsFresh PROVE Fresh(account)' /\ Fresh(cursor)'
      <3>1. ~ forgetPending
        BY <2>1, <2>3 DEF Owing
      <3>2. Fresh(account) /\ Fresh(cursor)
        BY <2>3, <3>1 DEF ServerIsFresh
      <3>3. QED
        BY <2>1, <2>2, <3>2 DEF Fresh
    <2>4. Fresh(positions)' = Fresh(positions)
      BY <2>1 DEF Fresh
    <2>5. QED
      BY <2>1, <2>3, <2>4, ForgetTogether, TasksAre DEF BrowserIsFresh, ServerIsFresh
  <1>4. CASE Forget
    <2>. DEFINE f == presses + 1
                kept == [p \in Programs |->
                           IF account[p] = None THEN None ELSE [account[p] EXCEPT !.after = f]]
    <2>1. /\ presses' = f /\ crossed' = (crossed \/ Owing) /\ forgetPending' = TRUE
          /\ positions' = NoPlaces /\ UNCHANGED session
          /\ At(f, AwaitRunning) /\ account' = (IF session THEN account ELSE kept)
          /\ presses < MaxForgets
      BY <1>4 DEF Forget
    <2>2. f \in Forgets /\ presses \in Nat
      BY <2>1, BoundsAssumption DEF SyncTypeInv, TypeOK, Forgets
    <2>3. Fresh(positions)'
      BY <2>1, NoPlacesIs DEF Fresh
    <2>4. ~ session' => Fresh(account)'
      <3>1. ASSUME NEW p \in Programs, account[p] # None PROVE kept[p].after = f
        BY <3>1 DEF SyncTypeInv, TypeOK, Places, Place
      <3>2. \A p \in Programs : kept[p] # None => account[p] # None
        OBVIOUS
      <3>. HIDE DEF kept
      <3>3. QED
        BY <2>1, <3>1, <3>2 DEF Fresh
    <2>. HIDE DEF f, kept
    <2>5. /\ task'[f] = AwaitRunning /\ \A t \in Tasks \ {f} : task'[t] = task[t]
          /\ f \in Tasks /\ f # Cycle
      <3>1. AwaitRunning \in ForgetPhases
        BY DEF AwaitRunning, ForgetPhases
      <3>2. QED
        BY <2>1, <2>2, <3>1, AtIs, TasksAre DEF SyncTypeInv
    <2>6. ~ crossed' => \A t \in Tasks : ~ AtWork(t)
      BY <2>1 DEF Owing, AtWork
    <2>7. ~ crossed' /\ task[Cycle] # "idle" => \A t \in Tasks : ~ AtWork(t)'
      BY <2>5, <2>6 DEF AtWork, AwaitRunning
    <2>8. task'[Cycle] = task[Cycle]
      BY <2>5, TasksAre
    <2>9. ~ crossed' => \A t \in Tasks : task'[t] # "deleted" /\ task'[t] # "asking"
      BY <2>5, <2>6 DEF AtWork, AwaitRunning
    <2>10. QED
      BY <2>1, <2>3, <2>4, <2>7, <2>8, <2>9, ForgetTogether DEF BrowserIsFresh, ServerIsFresh
  <1>5. QED
    BY <1>1, <1>2, <1>3, <1>4

(* A forget's requests and their answers, the cycle's first among them. *)
LEMMA TaskForgets ==
    ASSUME SyncTypeInv, ForgetInv, NEW t \in Tasks, Answered(t) \/ BearerRefused(t) \/ Fail(t)
    PROVE  ForgetInv'
  <1>1. UNCHANGED <<session, positions, presses, crossed>> /\ AreTasks(task)
    BY DEF Answered, DeleteServed, AnonymousServed, Paid, StillOwed, BearerRefused, Fail, record, history,
           SyncTypeInv
  <1>2. Fresh(positions)' = Fresh(positions)
    BY <1>1 DEF Fresh
  <1>3. {"deleted", "refused", "asking"} \subseteq CyclePhases \cap ForgetPhases /\ "ask" \in CyclePhases
    BY DEF CyclePhases, ForgetPhases
  <1>4. CASE DeleteServed(t)
    <2>1. /\ UNCHANGED <<forgetPending, pulled>> /\ AtWork(t)
          /\ session => account' = NoPlaces /\ cursor' = NoPlaces /\ At(t, "deleted")
          /\ ~ session => UNCHANGED <<account, cursor>> /\ At(t, "refused")
      BY <1>4 DEF DeleteServed, AtWork, server
    <2>2. /\ \A x \in Tasks \ {t} : task'[x] = task[x]
          /\ task'[t] = (IF session THEN "deleted" ELSE "refused")
      BY <1>1, <1>3, <2>1, AtIs
    <2>3. /\ Fresh(account) => Fresh(account)'
          /\ Fresh(cursor) => Fresh(cursor)'
          /\ session => Fresh(account)' /\ Fresh(cursor)'
          /\ Fresh(pulled)' = Fresh(pulled)
      BY <1>1, <2>1, NoPlacesIs DEF Fresh
    <2>4. \A x \in Tasks : AtWork(x)' = AtWork(x)
      BY <2>1, <2>2 DEF AtWork
    <2>5. task'[Cycle] = task[Cycle] \/ task'[Cycle] \in {"deleted", "refused"}
      BY <2>2, TasksAre
    <2>6. QED
      BY <1>1, <1>2, <2>1, <2>2, <2>3, <2>4, <2>5, ForgetTogether DEF BrowserIsFresh, ServerIsFresh
  <1>5. CASE AnonymousServed(t)
    <2>1. /\ UNCHANGED <<forgetPending, pulled, account>> /\ AtWork(t)
          /\ cursor' = NoPlaces /\ At(t, "asking")
      BY <1>5 DEF AnonymousServed, AtWork
    <2>2. task'[t] = "asking" /\ \A x \in Tasks \ {t} : task'[x] = task[x]
      BY <1>1, <1>3, <2>1, AtIs
    <2>3. Fresh(account)' = Fresh(account) /\ Fresh(cursor)' /\ Fresh(pulled)' = Fresh(pulled)
      BY <1>1, <2>1, NoPlacesIs DEF Fresh
    <2>4. \A x \in Tasks : AtWork(x)' = AtWork(x)
      BY <2>1, <2>2 DEF AtWork
    <2>5. task'[Cycle] = task[Cycle] \/ task'[Cycle] = "asking"
      BY <2>2, TasksAre
    <2>6. QED
      BY <1>1, <1>2, <2>1, <2>2, <2>3, <2>4, <2>5, ForgetTogether DEF BrowserIsFresh, ServerIsFresh
  <1>6. CASE Paid(t)
    <2>1. /\ UNCHANGED <<pulled, account, cursor>> /\ forgetPending' = FALSE
          /\ RemoteGone(t) /\ IF t = Cycle THEN At(t, "ask") ELSE task' = Ended(t)
      BY <1>6 DEF Paid, server, notices
    <2>2. /\ task'[t] \in {"ask", "idle"} /\ \A x \in Tasks \ {t} : task'[x] = task[x]
      BY <1>1, <1>3, <2>1, AtIs, EndedIs
    <2>3. /\ Fresh(account)' = Fresh(account) /\ Fresh(cursor)' = Fresh(cursor)
          /\ Fresh(pulled)' = Fresh(pulled)
      BY <1>1, <2>1 DEF Fresh
    <2>4. ASSUME ServerIsFresh PROVE Fresh(account) /\ Fresh(cursor)
      BY <2>1, <2>4 DEF RemoteGone, ServerIsFresh
    <2>5. ASSUME BrowserIsFresh, task'[Cycle] = "pulled" PROVE Fresh(pulled)
      <3>1. task[Cycle] = "pulled" /\ AtWork(t)
        BY <2>1, <2>2, <2>5, TasksAre DEF RemoteGone, AtWork
      <3>2. QED
        BY <2>5, <3>1 DEF BrowserIsFresh
    <2>6. QED
      BY <1>1, <1>2, <2>1, <2>2, <2>3, <2>4, <2>5, ForgetTogether DEF BrowserIsFresh, ServerIsFresh
  <1>7. CASE StillOwed(t) \/ Fail(t)
    <2>1. /\ UNCHANGED <<account, cursor, forgetPending>> /\ task' = Ended(t)
          /\ pulled' = pulled \/ t = Cycle
      BY <1>7 DEF StillOwed, Fail, server
    <2>2. /\ task'[t] = "idle"
          /\ \A x \in Tasks \ {t} : task'[x] = task[x]
                                 \/ (t = Cycle /\ task[x] = "wait" /\ task'[x] = "delete")
      BY <1>1, <2>1, EndedIs
    <2>3. Fresh(account)' = Fresh(account) /\ Fresh(cursor)' = Fresh(cursor)
      BY <1>1, <2>1 DEF Fresh
    <2>4. CASE t = Cycle
      BY <1>1, <1>2, <2>1, <2>2, <2>3, <2>4, ForgetTogether DEF BrowserIsFresh, ServerIsFresh
    <2>5. CASE t # Cycle
      <3>1. \A x \in Tasks : AtWork(x)' => AtWork(x)
        BY <2>2, <2>5 DEF AtWork
      <3>2. task'[Cycle] = task[Cycle] /\ Fresh(pulled)' = Fresh(pulled)
        BY <1>1, <2>1, <2>2, <2>5, TasksAre DEF Fresh
      <3>3. QED
        BY <1>1, <1>2, <2>1, <2>2, <2>3, <2>5, <3>1, <3>2, ForgetTogether
           DEF BrowserIsFresh, ServerIsFresh
    <2>6. QED  BY <2>4, <2>5
  <1>8. CASE BearerRefused(t)
    <2>1. /\ UNCHANGED <<account, cursor, forgetPending, pulled>> /\ AtWork(t) /\ At(t, "refused")
      BY <1>8 DEF BearerRefused, server, AtWork
    <2>2. task'[t] = "refused" /\ \A x \in Tasks \ {t} : task'[x] = task[x]
      BY <1>1, <1>3, <2>1, AtIs
    <2>3. /\ Fresh(account)' = Fresh(account) /\ Fresh(cursor)' = Fresh(cursor)
          /\ Fresh(pulled)' = Fresh(pulled)
      BY <1>1, <2>1 DEF Fresh
    <2>4. \A x \in Tasks : AtWork(x)' = AtWork(x)
      BY <2>1, <2>2 DEF AtWork
    <2>5. task'[Cycle] = task[Cycle] \/ task'[Cycle] = "refused"
      BY <2>2, TasksAre
    <2>6. QED
      BY <1>1, <1>2, <2>1, <2>2, <2>3, <2>4, <2>5, ForgetTogether DEF BrowserIsFresh, ServerIsFresh
  <1>9. QED
    BY <1>4, <1>5, <1>6, <1>7, <1>8 DEF Answered

\* A cycle writes into the record what it pulled since the last press, or nothing.
LEMMA CycleForgets ==
    ASSUME SyncTypeInv, ForgetInv, Start \/ Ask \/ Pull \/ Land
    PROVE  ForgetInv'
  <1>1. /\ UNCHANGED <<account, cursor, session, forgetPending, presses, crossed>> /\ AreTasks(task)
        /\ \A t \in Tasks : t # Cycle => task'[t] = task[t] \/ (task[t] = "wait" /\ task'[t] = "delete")
    <2>1. UNCHANGED <<account, cursor, session, forgetPending, presses, crossed>> /\ AreTasks(task)
      BY DEF Start, Ask, Pull, Land, server, history, SyncTypeInv
    <2>2. {"delete", "ask", "pull", "pulled"} \subseteq CyclePhases /\ Cycle \in Tasks
      BY TasksAre DEF CyclePhases
    <2>3. (\E phase \in {"delete", "ask", "pull", "pulled"} : At(Cycle, phase)) \/ task' = Ended(Cycle)
      BY DEF Start, Ask, Pull, Land, At
    <2>4. QED
      BY <2>1, <2>2, <2>3, AtIs, EndedIs
  <1>2. Fresh(account)' = Fresh(account) /\ Fresh(cursor)' = Fresh(cursor)
    BY <1>1 DEF Fresh
  <1>3. task[Cycle] # "wait" /\ Cycle \in Tasks
    BY <1>1, TasksAre DEF AreTasks, CyclePhases
  <1>4. CASE Start
    <2>1. task' = [task EXCEPT ![Cycle] = IF forgetPending THEN "delete" ELSE "ask"]
          /\ UNCHANGED <<positions, pulled>>
      BY <1>4 DEF Start, At, record
    <2>2. /\ task'[Cycle] = (IF forgetPending THEN "delete" ELSE "ask")
          /\ \A t \in Tasks \ {Cycle} : task'[t] = task[t]
      BY <1>1, <1>3, <2>1 DEF AreTasks
    <2>3. Fresh(positions)' = Fresh(positions)
      BY <1>1, <2>1 DEF Fresh
    <2>4. QED
      BY <1>1, <1>2, <2>2, <2>3, ForgetTogether DEF BrowserIsFresh, ServerIsFresh
  <1>5. CASE (Ask \/ Pull) /\ task' = Ended(Cycle)
    <2>1. UNCHANGED positions /\ task'[Cycle] = "idle"
      BY <1>1, <1>3, <1>5, EndedIs DEF Ask, Pull, record
    <2>2. Fresh(positions)' = Fresh(positions)
      BY <1>1, <2>1 DEF Fresh
    <2>3. QED
      BY <1>1, <1>2, <2>1, <2>2, ForgetTogether DEF BrowserIsFresh, ServerIsFresh
  <1>6. CASE Ask /\ At(Cycle, "pull")
    <2>1. /\ UNCHANGED positions /\ task[Cycle] = "ask" /\ task' = [task EXCEPT ![Cycle] = "pull"]
      BY <1>6 DEF Ask, record, At
    <2>2. task'[Cycle] = "pull" /\ \A t \in Tasks \ {Cycle} : task'[t] = task[t]
      BY <1>1, <1>3, <2>1 DEF AreTasks
    <2>3. Fresh(positions)' = Fresh(positions) /\ \A t \in Tasks : AtWork(t)' = AtWork(t)
      BY <1>1, <2>1, <2>2 DEF Fresh, AtWork
    <2>4. QED
      BY <1>1, <1>2, <2>1, <2>2, <2>3, ForgetTogether DEF BrowserIsFresh, ServerIsFresh
  <1>7. CASE Pull /\ At(Cycle, "pulled") /\ pulled' = account
    <2>1. /\ UNCHANGED positions /\ task[Cycle] = "pull" /\ task' = [task EXCEPT ![Cycle] = "pulled"]
      BY <1>7 DEF Pull, record, At
    <2>2. task'[Cycle] = "pulled" /\ \A t \in Tasks \ {Cycle} : task'[t] = task[t]
      BY <1>1, <1>3, <2>1 DEF AreTasks
    <2>3. /\ Fresh(positions)' = Fresh(positions) /\ \A t \in Tasks : AtWork(t)' = AtWork(t)
          /\ Fresh(pulled)' = Fresh(account)
      BY <1>1, <1>7, <2>1, <2>2 DEF Fresh, AtWork
    <2>4. QED
      BY <1>1, <1>2, <2>1, <2>2, <2>3, ForgetTogether DEF BrowserIsFresh, ServerIsFresh
  <1>8. CASE Land
    <2>1. task'[Cycle] = "idle" /\ task[Cycle] = "pulled"
      BY <1>1, <1>3, <1>8, EndedIs DEF Land
    <2>2. ASSUME BrowserIsFresh PROVE Fresh(positions)'
      <3>1. CASE forgetPending
        BY <1>1, <1>8, <2>2, <3>1, LandDropped DEF BrowserIsFresh, Fresh, record
      <3>2. CASE ~ forgetPending
        <4>1. positions' = Merged(positions, pulled)
          BY <1>8, <3>2, LandIs
        <4>2. \A p \in Programs : positions'[p] \in {positions[p], pulled[p]}
          BY <4>1 DEF Merged
        <4>3. QED
          BY <1>1, <2>1, <2>2, <3>2, <4>2 DEF BrowserIsFresh, Fresh
      <3>3. QED  BY <3>1, <3>2
    <2>3. QED
      BY <1>1, <1>2, <2>1, <2>2, ForgetTogether DEF BrowserIsFresh, ServerIsFresh
  <1>9. QED
    BY <1>4, <1>5, <1>6, <1>7, <1>8 DEF Ask, Pull, At

\* Every step keeps the forget's invariant.
LEMMA ForgetNext == SyncTypeInv /\ ForgetInv /\ [Next]_vars => ForgetInv'
  <1>. SUFFICES ASSUME SyncTypeInv, ForgetInv, [Next]_vars PROVE ForgetInv'
    OBVIOUS
  <1>1. CASE UNCHANGED vars
    BY <1>1 DEF vars, server, record, history, ForgetInv, BrowserIsFresh, ServerIsFresh, Fresh, AtWork
  <1>2. CASE Next
    BY <1>2, ReadingForgets, SessionForgets, TaskForgets, CycleForgets, TasksAre
       DEF Next, Reader, Exchange
  <1>3. QED
    BY <1>1, <1>2

-----------------------------------------------------------------------------
(* The notice.                                                             *)

(* Steps that leave the record and what was shown, and add no line.        *)
LEMMA NewsStays ==
    ASSUME SyncTypeInv, NewsInv, UNCHANGED <<positions, shown>>, raised' \subseteq raised, held' \subseteq held
    PROVE  NewsInv'
  BY DEF NewsInv

(* As do the lines of a tab that ends, or of a press. *)
LEMMA NewsGone ==
    ASSUME NewsInv, UNCHANGED <<positions, shown>>, raised' = {}, held' = {}
    PROVE  NewsInv'
  BY DEF NewsInv

\* Every step keeps what a line says: the furthest frame, and new to this screen.
LEMMA NewsNext == SyncTypeInv /\ NewsInv /\ [Next]_vars => NewsInv'
  <1>. SUFFICES ASSUME SyncTypeInv, NewsInv, [Next]_vars PROVE NewsInv'
    OBVIOUS
  <1>1. /\ raised \subseteq Raised /\ held \subseteq Raised /\ positions \in Places /\ pulled \in Places
        /\ shown \in [Programs -> 0 .. MaxStep]
        /\ \A p \in Programs : shown[p] \in Nat /\ StepOf(positions[p]) \in Nat
    BY StepOfIs DEF SyncTypeInv, TypeOK, Places
  <1>2. CASE UNCHANGED vars
    BY <1>2, NewsStays DEF vars, record, history, notices
  <1>3. CASE \/ \E frame \in Frame : Open(frame)
             \/ \E lang \in Editions : Reveal(lang)
             \/ \E p \in Programs, lang \in Editions : Elsewhere(p, lang)
             \/ \E lines \in SUBSET raised : Dismiss(lines)
             \/ SignOut \/ Start \/ Ask \/ Pull
             \/ \E t \in Tasks : Answered(t) \/ BearerRefused(t) \/ Fail(t)
    BY <1>3, NewsStays
       DEF Open, Reveal, Elsewhere, Dismiss, SignOut, Start, Ask, Pull, Answered, DeleteServed,
           AnonymousServed, Paid, StillOwed, BearerRefused, Fail, record, notices, history
  <1>4. CASE Leave \/ \E adopted \in BOOLEAN : SignIn(adopted)
    BY <1>4, NewsGone, TabEndsIs DEF Leave, SignIn, record
  <1>5. CASE Forget
    <2>1. /\ positions' = NoPlaces /\ raised' = {} /\ shown' = [p \in Programs |-> 0]
          /\ held' \subseteq held
      BY <1>5 DEF Forget, Standing
    <2>2. \A p \in Programs : shown'[p] = 0 /\ StepOf(positions'[p]) = 0
      BY <2>1, NoPlacesIs DEF StepOf
    <2>3. \A e \in held' : e.prog \in Programs /\ e.to.step \in Nat /\ e.to.step > 0
      BY <1>1, <2>1, RaisedIs
    <2>4. QED
      BY <2>1, <2>2, <2>3 DEF NewsInv
  <1>6. ASSUME NEW entry \in held, HoldOver(entry) PROVE NewsInv'
    <2>1. /\ held' \subseteq held /\ UNCHANGED <<positions, shown>>
          /\ raised' \subseteq raised \cup {entry}
          /\ entry \in raised' \ raised => StepOf(positions[entry.prog]) = entry.to.step
      BY <1>6 DEF HoldOver, Published, StillNews, record
    <2>2. QED
      BY <2>1 DEF NewsInv
  <1>7. CASE Arrive
    <2>1. page \in Frame /\ page # None /\ Remember(page)
          /\ shown' = [shown EXCEPT ![page.prog] = IF page.step > @ THEN page.step ELSE @]
      BY <1>7 DEF Arrive, SyncTypeInv, TypeOK
    <2>2. /\ \A p \in Programs : StepOf(positions'[p]) >= StepOf(positions[p])
          /\ positions' \in Places
          /\ StepOf(positions'[page.prog]) >= page.step
          /\ raised' \subseteq raised /\ held' \subseteq held
          /\ \A e \in raised' \cup held' : StepOf(positions'[e.prog]) = e.to.step /\ ~ ShownHere(e, page)
      BY <2>1, RememberIs DEF SyncTypeInv
    <2>3. page.prog \in Programs /\ page.step \in Nat
      BY <2>1, FrameIs
    <2>4. \A p \in Programs : shown'[p] = IF p = page.prog /\ page.step > shown[p] THEN page.step ELSE shown[p]
      BY <1>1, <2>1, <2>3
    <2>5. \A p \in Programs : StepOf(positions'[p]) \in Nat
      BY <2>2, StepOfIs DEF Places
    <2>6. \A p \in Programs : shown'[p] <= StepOf(positions'[p])
      BY <1>1, <2>2, <2>3, <2>4, <2>5 DEF NewsInv
    <2>7. ASSUME NEW e \in raised' \cup held' PROVE e.to.step > shown'[e.prog]
      <3>1. e \in Raised /\ e.to.step > shown[e.prog] /\ ~ ShownHere(e, page)
        BY <1>1, <2>2, <2>7 DEF NewsInv
      <3>2. e.prog \in Programs /\ e.to.step \in Nat
        BY <3>1, RaisedIs
      <3>3. e.prog = page.prog => e.to.step > page.step
        BY <2>1, <2>3, <3>1, <3>2 DEF ShownHere
      <3>4. QED
        BY <2>3, <2>4, <3>1, <3>2, <3>3
    <2>8. QED
      BY <2>2, <2>6, <2>7 DEF NewsInv
  <1>8. CASE Land
    <2>1. CASE forgetPending
      BY <1>8, <2>1, LandDropped, NewsStays DEF Land, record, notices, history
    <2>2. CASE ~ forgetPending
      <3>. DEFINE merged == Merged(positions, pulled)
                  found == Raises(positions, pulled)
      <3>1. /\ positions' = merged /\ merged \in Places /\ UNCHANGED shown
            /\ \A p \in Programs : StepOf(merged[p]) >= StepOf(positions[p])
            /\ raised' \subseteq raised \cup found /\ held' \subseteq held \cup found
            /\ \A e \in raised' \ found : \/ StepOf(positions'[e.prog]) = e.to.step
                                         \/ \A p \in Programs : StepOf(positions'[p]) = StepOf(positions[p])
        BY <1>8, <2>2, LandIs DEF Land, history
      <3>2. \A e \in found : /\ e.prog \in Programs /\ e.to.step > StepOf(positions[e.prog])
                             /\ e.to.step = StepOf(pulled[e.prog]) /\ merged[e.prog] = pulled[e.prog]
                             /\ e.to.step \in Nat
        BY <1>1, RaisesIs, RaisedIs
      <3>. HIDE DEF merged, found
      <3>3. \A p \in Programs : StepOf(merged[p]) \in Nat
        BY <3>1, StepOfIs DEF Places
      <3>4. \A p \in Programs : shown'[p] <= StepOf(positions'[p])
        BY <1>1, <3>1, <3>3 DEF NewsInv
      <3>5. \A e \in raised' \cup held' : e.to.step > shown'[e.prog]
        BY <1>1, <3>1, <3>2 DEF NewsInv
      <3>6. ASSUME NEW e \in raised' PROVE StepOf(positions'[e.prog]) = e.to.step
        <4>1. CASE e \in found
          BY <3>1, <3>2, <4>1
        <4>2. CASE e \notin found
          <5>1. e \in raised /\ e.prog \in Programs /\ StepOf(positions[e.prog]) = e.to.step
            BY <1>1, <3>1, <4>2, RaisedIs DEF NewsInv
          <5>2. QED
            BY <3>1, <4>2, <5>1
        <4>3. QED  BY <4>1, <4>2
      <3>7. QED
        BY <3>4, <3>5, <3>6 DEF NewsInv
    <2>3. QED  BY <2>1, <2>2
  <1>9. QED
    BY <1>2, <1>3, <1>4, <1>5, <1>6, <1>7, <1>8, TasksAre DEF Next, Reader, Exchange

-----------------------------------------------------------------------------
(* Reading done here.                                                      *)

LEMMA HereTogether ==
    ASSUME HereInv, astray => astray', ~ astray' /\ HereKnown => HereKnown' PROVE HereInv'
  BY DEF HereInv, HereKnown

(* Rows that are kept, dropped, or replaced from elsewhere, while what was *)
(* on its way still is, or is here.                                        *)
LEMMA KnownStays ==
    ASSUME NEW rows \in Places, NEW now, HereIsKnown(rows),
           \A p \in Programs : now[p] \in {rows[p], None} \/ now[p].by = "elsewhere",
           positions \in Places, positions' \in Places,
           \A p \in Programs : StepOf(positions'[p]) >= StepOf(positions[p]),
           \A p \in Programs : \A step \in 1 .. MaxStep :
              OnItsWay(p, step) => step <= StepOf(positions'[p]) \/ (page' = page /\ last' = last)
    PROVE  \A p \in Programs : now[p] # None /\ now[p].by = "here" =>
              \/ now[p].step <= StepOf(positions'[p])
              \/ /\ page' # None /\ page'.prog = p /\ page'.step = now[p].step
                 /\ last' # None /\ last'.prog = p /\ last'.step + 1 = now[p].step
  <1>. SUFFICES ASSUME NEW p \in Programs, now[p] # None, now[p].by = "here"
                PROVE  \/ now[p].step <= StepOf(positions'[p])
                       \/ /\ page' # None /\ page'.prog = p /\ page'.step = now[p].step
                          /\ last' # None /\ last'.prog = p /\ last'.step + 1 = now[p].step
    OBVIOUS
  <1>1. now[p] = rows[p] /\ now[p] \in Place /\ now[p].step \in 1 .. MaxStep
    BY DEF Places, Place
  <1>2. StepOf(positions'[p]) \in Nat /\ StepOf(positions[p]) \in Nat
    BY StepOfIs DEF Places
  <1>3. CASE now[p].step <= StepOf(positions[p])
    BY <1>1, <1>2, <1>3
  <1>4. CASE OnItsWay(p, now[p].step)
    BY <1>1, <1>4 DEF OnItsWay
  <1>5. QED
    BY <1>1, <1>3, <1>4 DEF HereIsKnown

(* Steps that move no page and write nothing into the record. *)
LEMMA HereStays ==
    ASSUME SyncTypeInv, HereInv, UNCHANGED <<screen, page, positions, last, astray>>,
           \A p \in Programs :
              /\ account'[p] \in {account[p], None} \/ account'[p].by = "elsewhere"
              /\ cursor'[p] \in {cursor[p], None}
              /\ pulled'[p] \in {pulled[p], None} \/ pulled' = account,
           raised' \subseteq raised, held' \subseteq held
    PROVE  HereInv'
  <1>. SUFFICES ASSUME HereKnown PROVE HereKnown'
    BY HereTogether
  <1>1. /\ account \in Places /\ cursor \in Places /\ pulled \in Places
        /\ positions \in Places /\ positions' \in Places
        /\ \A p \in Programs : StepOf(positions[p]) \in Nat /\ StepOf(positions'[p]) = StepOf(positions[p])
    BY StepOfIs DEF SyncTypeInv, TypeOK, Places
  <1>2. HereIsKnown(account) /\ HereIsKnown(cursor) /\ HereIsKnown(pulled)
    BY DEF HereKnown
  <1>3. HereIsKnown(account)'
    BY <1>1, <1>2, KnownStays DEF HereIsKnown, OnItsWay
  <1>4. HereIsKnown(cursor)'
    BY <1>1, <1>2, KnownStays DEF HereIsKnown, OnItsWay
  <1>5. HereIsKnown(pulled)'
    <2>1. CASE pulled' = account
      BY <1>1, <1>2, <2>1, KnownStays DEF HereIsKnown, OnItsWay
    <2>2. CASE \A p \in Programs : pulled'[p] \in {pulled[p], None}
      BY <1>1, <1>2, <2>2, KnownStays DEF HereIsKnown, OnItsWay
    <2>3. QED  BY <2>1, <2>2
  <1>6. QED
    BY <1>3, <1>4, <1>5 DEF HereKnown, OnItsWay

\* Every step keeps what is known of this browser's own reading, unless the exceptions
\* that let its own reveal come back as news have occurred.
LEMMA HereNext == SyncTypeInv /\ SyncTypeInv' /\ HereInv /\ [Next]_vars => HereInv'
  <1>. SUFFICES ASSUME SyncTypeInv, SyncTypeInv', HereInv, [Next]_vars PROVE HereInv'
    OBVIOUS
  <1>1. /\ raised \subseteq Raised /\ held \subseteq Raised
        /\ positions \in Places /\ pulled \in Places /\ account \in Places /\ cursor \in Places
        /\ positions' \in Places
        /\ \A p \in Programs : StepOf(positions[p]) \in Nat /\ StepOf(positions'[p]) \in Nat
        /\ screen = None \/ screen \in Frame
        /\ page = None \/ page \in Frame
    BY StepOfIs DEF SyncTypeInv, TypeOK, Places
  <1>2. CASE UNCHANGED vars
    BY <1>2, HereStays DEF vars, server, record, reading, history, notices
  <1>3. CASE \/ \E lines \in SUBSET raised : Dismiss(lines)
             \/ SignOut \/ Start \/ Ask \/ Pull
    BY <1>3, HereStays DEF Dismiss, SignOut, Start, Ask, Pull, server, record, reading, notices, history
  <1>4. ASSUME NEW p \in Programs, NEW lang \in Editions, Elsewhere(p, lang) PROVE HereInv'
    <2>1. \A q \in Programs : account'[q] = account[q] \/ account'[q].by = "elsewhere"
      BY <1>1, <1>4 DEF Elsewhere, Places
    <2>2. QED
      BY <1>4, <2>1, HereStays DEF Elsewhere, record, reading, notices, history
  <1>5. ASSUME NEW t \in Tasks, Answered(t) \/ BearerRefused(t) \/ Fail(t) PROVE HereInv'
    <2>1. account' \in {account, NoPlaces} /\ cursor' \in {cursor, NoPlaces} /\ pulled' \in {pulled, NoPlaces}
      BY <1>5 DEF Answered, DeleteServed, AnonymousServed, Paid, StillOwed, BearerRefused, Fail, server
    <2>2. UNCHANGED <<screen, page, positions, last, astray, raised, held>>
      BY <1>5 DEF Answered, DeleteServed, AnonymousServed, Paid, StillOwed, BearerRefused, Fail,
                  record, reading, notices, history
    <2>3. QED
      BY <2>1, <2>2, NoPlacesIs, HereStays
  <1>6. CASE Forget
    BY <1>6, HereTogether DEF Forget
  <1>7. ASSUME page = None, HereKnown
        PROVE  /\ \A e \in held : e.to.by # "here"
               /\ \A p \in Programs :
                    /\ account[p] # None /\ account[p].by = "here" => account[p].step <= StepOf(positions[p])
                    /\ cursor[p] # None /\ cursor[p].by = "here" => cursor[p].step <= StepOf(positions[p])
                    /\ pulled[p] # None /\ pulled[p].by = "here" => pulled[p].step <= StepOf(positions[p])
    BY <1>7 DEF HereKnown, HereIsKnown, OnItsWay
  <1>8. ASSUME NEW frame \in Frame, Open(frame) PROVE HereInv'
    <2>1. UNCHANGED <<account, cursor, pulled, screen, positions, last, raised, held, astray>> /\ page = None
      BY <1>8 DEF Open, server, record, notices, history
    <2>2. HereKnown => HereKnown'
      BY <1>7, <2>1 DEF HereKnown, HereIsKnown
    <2>3. QED
      BY <2>1, <2>2, HereTogether
  <1>9. ASSUME NEW lang \in Editions, Reveal(lang) PROVE HereInv'
    <2>. DEFINE p == screen.prog
                next == [step |-> screen.step + 1, lang |-> lang, by |-> "here", after |-> presses]
                frame == [prog |-> p, step |-> screen.step + 1, lang |-> lang]
    <2>1. /\ UNCHANGED <<pulled, screen, positions, last, raised, held, astray>>
          /\ page = None /\ page' = frame /\ screen \in Frame /\ screen # None
          /\ account' \in {account, [account EXCEPT ![p] = next]}
          /\ cursor' \in {cursor, [cursor EXCEPT ![p] = next]}
      BY <1>1, <1>9 DEF Reveal, server, record, notices, history
    <2>2. /\ next.step = screen.step + 1 /\ frame.prog = p /\ frame.step = screen.step + 1
          /\ frame \in Frame
      BY <1>9, <2>1, FrameIs, StepsAssumption DEF Reveal, Frame
    <2>. HIDE DEF next
    <2>3. \A q \in Programs :
            /\ account'[q] = account[q] \/ (q = p /\ account'[q] = next)
            /\ cursor'[q] = cursor[q] \/ (q = p /\ cursor'[q] = next)
      BY <1>1, <2>1 DEF Places
    <2>4. ASSUME HereKnown PROVE OnItsWay(p, screen.step + 1)'
      BY <2>1, <2>2, <2>4, NoneAssumption DEF HereKnown, OnItsWay
    <2>5. ASSUME HereKnown PROVE HereKnown'
      <3>1. \A q \in Programs :
              /\ pulled'[q] # None /\ pulled'[q].by = "here" => pulled'[q].step <= StepOf(positions'[q])
              /\ account'[q] # None /\ account'[q].by = "here" =>
                    account'[q].step <= StepOf(positions'[q]) \/ (q = p /\ account'[q].step = screen.step + 1)
              /\ cursor'[q] # None /\ cursor'[q].by = "here" =>
                    cursor'[q].step <= StepOf(positions'[q]) \/ (q = p /\ cursor'[q].step = screen.step + 1)
        BY <1>7, <2>1, <2>2, <2>3, <2>5
      <3>2. HereIsKnown(account)' /\ HereIsKnown(cursor)' /\ HereIsKnown(pulled)'
        BY <2>1, <2>4, <2>5, <3>1 DEF HereIsKnown, OnItsWay
      <3>3. \A e \in held' : e.to.by # "here"
        BY <1>7, <2>1, <2>5
      <3>4. QED
        BY <2>1, <2>5, <3>2, <3>3 DEF HereKnown
    <2>6. QED
      BY <2>1, <2>5, HereTogether
  <1>10. ASSUME NEW entry \in held, HoldOver(entry) PROVE HereInv'
    <2>1. /\ UNCHANGED <<account, cursor, pulled, screen, page, positions, last>>
          /\ held' \subseteq held /\ raised' \subseteq raised \cup {entry}
          /\ astray' = (astray \/ page # None)
      BY <1>10 DEF HoldOver, Published, server, record, reading
    <2>2. ASSUME ~ astray', HereKnown PROVE HereKnown'
      <3>1. entry.to.by = "elsewhere"
        BY <1>1, <1>7, <2>1, <2>2, RaisedIs
      <3>2. QED
        BY <2>1, <2>2, <3>1 DEF HereKnown, HereIsKnown, OnItsWay
    <2>3. QED
      BY <2>1, <2>2, HereTogether
  <1>11. CASE Arrive
    <2>1. /\ page \in Frame /\ page # None /\ Remember(page) /\ screen' = page /\ page' = None
          /\ UNCHANGED <<account, cursor, pulled, astray>>
      BY <1>1, <1>11 DEF Arrive, server
    <2>2. /\ last' = page /\ raised' \subseteq raised /\ held' \subseteq held
          /\ \A p \in Programs : StepOf(positions'[p]) >= StepOf(positions[p])
          /\ StepOf(positions'[page.prog]) >= page.step
          /\ \A e \in raised' \cup held' : ~ ShownHere(e, page)
      BY <2>1, RememberIs DEF SyncTypeInv
    <2>3. ASSUME NEW p \in Programs, NEW step \in 1 .. MaxStep, OnItsWay(p, step)
          PROVE  step <= StepOf(positions'[p])
      BY <2>2, <2>3 DEF OnItsWay
    <2>4. ASSUME HereKnown PROVE HereKnown'
      <3>1. HereIsKnown(account)'
        BY <1>1, <2>1, <2>2, <2>3, <2>4, KnownStays DEF HereKnown, HereIsKnown, OnItsWay
      <3>2. HereIsKnown(cursor)'
        BY <1>1, <2>1, <2>2, <2>3, <2>4, KnownStays DEF HereKnown, HereIsKnown, OnItsWay
      <3>3. HereIsKnown(pulled)'
        BY <1>1, <2>1, <2>2, <2>3, <2>4, KnownStays DEF HereKnown, HereIsKnown, OnItsWay
      <3>4. ASSUME NEW e \in held' PROVE e.to.by # "here"
        <4>1. e \in held /\ ~ ShownHere(e, page) /\ e.to.step \in Nat
          BY <1>1, <2>2, <3>4, RaisedIs
        <4>2. ~ OnItsWay(e.prog, e.to.step)
          BY <2>1, <4>1 DEF OnItsWay, ShownHere
        <4>3. QED
          BY <2>4, <4>1, <4>2 DEF HereKnown
      <3>5. QED
        BY <2>1, <2>2, <2>4, <3>1, <3>2, <3>3, <3>4 DEF HereKnown
    <2>5. QED
      BY <2>1, <2>4, HereTogether
  <1>12. CASE Leave
    <2>1. /\ UNCHANGED <<account, cursor, positions>> /\ astray' = (astray \/ page # None)
          /\ screen' = None /\ raised' = {} /\ held' = {} /\ pulled' = NoPlaces
      BY <1>12, TabEndsIs DEF Leave, server, record
    <2>2. ASSUME ~ astray', HereKnown PROVE HereKnown'
      BY <1>7, <2>1, <2>2, NoPlacesIs DEF HereKnown, HereIsKnown
    <2>3. QED
      BY <2>1, <2>2, HereTogether
  <1>13. ASSUME NEW adopted \in BOOLEAN, SignIn(adopted) PROVE HereInv'
    <2>. DEFINE further == [p \in Programs |->
                              IF StepOf(cursor[p]) > StepOf(account[p]) THEN cursor[p] ELSE None]
    <2>1. /\ UNCHANGED <<cursor, positions, astray>> /\ page = None
          /\ account' \in {account, Merged(account, further)}
          /\ screen' = None /\ raised' = {} /\ held' = {} /\ pulled' = NoPlaces
      BY <1>13, TabEndsIs DEF SignIn, record
    <2>2. \A p \in Programs : account'[p] \in {account[p], cursor[p], None}
      BY <2>1 DEF Merged
    <2>3. ASSUME HereKnown PROVE HereKnown'
      BY <1>7, <2>1, <2>2, <2>3, NoPlacesIs DEF HereKnown, HereIsKnown
    <2>4. QED
      BY <2>1, <2>3, HereTogether
  <1>14. CASE Land
    <2>1. /\ UNCHANGED <<account, cursor, screen, page, astray>> /\ pulled' = NoPlaces
      BY <1>14 DEF Land, server, reading, history
    <2>2. CASE forgetPending
      BY <1>14, <2>1, <2>2, LandDropped, NoPlacesIs, HereStays DEF record, notices
    <2>3. CASE ~ forgetPending
      <3>. DEFINE found == Raises(positions, pulled)
      <3>1. /\ positions' = Merged(positions, pulled) /\ (last # None => last' = last)
            /\ \A p \in Programs : StepOf(positions'[p]) >= StepOf(positions[p])
            /\ raised' \subseteq raised \cup found /\ held' \subseteq held \cup found
            /\ \A e \in raised' \cap found : CouldBeOwnReveal(e, last') => e \in raised
            /\ \A e \in held' \ held : e \in found /\ CouldBeOwnReveal(e, last')
        BY <1>14, <2>3, LandIs
      <3>2. \A e \in found : /\ e \in Raised /\ e.prog \in Programs /\ e.to = pulled[e.prog]
                             /\ pulled[e.prog] # None /\ e.to.step > StepOf(positions[e.prog])
                             /\ e.to.step \in Nat
        BY <1>1, RaisesIs, RaisedIs
      <3>. HIDE DEF found
      <3>3. \A p \in Programs : \A step \in 1 .. MaxStep :
              OnItsWay(p, step) => page' = page /\ last' = last
        BY <2>1, <3>1 DEF OnItsWay
      <3>4. ASSUME HereKnown PROVE HereKnown'
        <4>1. HereIsKnown(account)'
          BY <1>1, <2>1, <3>1, <3>3, <3>4, KnownStays DEF HereKnown, HereIsKnown, OnItsWay
        <4>2. HereIsKnown(cursor)'
          BY <1>1, <2>1, <3>1, <3>3, <3>4, KnownStays DEF HereKnown, HereIsKnown, OnItsWay
        <4>3. HereIsKnown(pulled)'
          BY <2>1, NoPlacesIs DEF HereIsKnown
        <4>4. ASSUME NEW e \in found, e.to.by = "here"
              PROVE  OnItsWay(e.prog, e.to.step) /\ CouldBeOwnReveal(e, last) /\ last' = last
          <5>1. OnItsWay(e.prog, e.to.step)
            BY <1>1, <3>2, <3>4, <4>4 DEF HereKnown, HereIsKnown
          <5>2. QED
            BY <3>1, <5>1 DEF OnItsWay, CouldBeOwnReveal
        <4>5. \A e \in raised' : e.to.by = "elsewhere"
          <5>1. ASSUME NEW e \in raised' \ raised PROVE e.to.by # "here"
            BY <3>1, <4>4, <5>1
          <5>2. QED
            BY <3>1, <3>2, <3>4, <5>1, RaisedIs DEF HereKnown
        <4>6. ASSUME NEW e \in held', e.to.by = "here"
              PROVE  OnItsWay(e.prog, e.to.step) /\ page' = page /\ last' = last
          <5>1. OnItsWay(e.prog, e.to.step)
            BY <3>1, <3>4, <4>4, <4>6 DEF HereKnown
          <5>2. QED
            BY <2>1, <3>1, <5>1 DEF OnItsWay
        <4>7. screen' # None => last' = screen'
          BY <2>1, <3>1, <3>4 DEF HereKnown
        <4>8. QED
          BY <4>1, <4>2, <4>3, <4>5, <4>6, <4>7 DEF HereKnown, OnItsWay
      <3>5. QED
        BY <2>1, <3>4, HereTogether
    <2>4. QED  BY <2>2, <2>3
  <1>15. QED
    BY <1>2, <1>3, <1>4, <1>5, <1>6, <1>8, <1>9, <1>10, <1>11, <1>12, <1>13, <1>14, TasksAre
       DEF Next, Reader, Exchange

-----------------------------------------------------------------------------
(* The invariant, and what it says.                                        *)

LEMMA SyncInvInit == Init => SyncInv
  <1>. SUFFICES ASSUME Init PROVE ForgetInv /\ NewsInv /\ HereInv
    BY SyncTypeInit DEF SyncInv
  <1>1. /\ positions = NoPlaces /\ account = NoPlaces /\ cursor = NoPlaces /\ pulled = NoPlaces
        /\ raised = {} /\ held = {} /\ screen = None /\ ~ forgetPending
        /\ \A p \in Programs : shown[p] = 0
        /\ \A t \in Tasks : task[t] = "idle"
    BY DEF Init
  <1>2. Fresh(positions) /\ Fresh(account) /\ Fresh(cursor) /\ Fresh(pulled)
    BY <1>1, NoPlacesIs DEF Fresh
  <1>3. ForgetInv
    BY <1>1, <1>2, TasksAre DEF ForgetInv, BrowserIsFresh, ServerIsFresh
  <1>4. NewsInv
    BY <1>1, NoPlacesIs DEF NewsInv, StepOf
  <1>5. HereInv
    BY <1>1, NoPlacesIs DEF HereInv, HereKnown, HereIsKnown
  <1>6. QED
    BY <1>3, <1>4, <1>5

LEMMA SyncInvNext == SyncInv /\ [Next]_vars => SyncInv'
  BY SyncTypeNext, ForgetNext, NewsNext, HereNext DEF SyncInv

LEMMA SyncInvHolds == Spec => []SyncInv
  BY SyncInvInit, SyncInvNext, PTL DEF Spec

(* The record, the rows of the API, what is in flight and the notice keep  *)
(* their types, wherever a cycle and any number of forgets have come       *)
(* (lib/progress/store.ts, sync.ts).                                       *)
THEOREM SyncTypeCorrect == Spec => []TypeOK
  <1>1. SyncInv => TypeOK
    BY DEF SyncInv, SyncTypeInv
  <1>2. QED
    BY <1>1, SyncInvHolds, PTL

(* A forget takes at once in the browser and, once it is paid, at the API: *)
(* no pull that was on the wire, no lost answer, tab left or refused       *)
(* bearer brings a place back, unless another press or the session's       *)
(* beginning or end met it under way (forgetEverywhere and sync, sync.ts). *)
THEOREM ForgetsAreKept == Spec => []ForgetsHold
  <1>1. SyncInv => ForgetsHold
    BY DEF SyncInv, ForgetInv, BrowserIsFresh, ServerIsFresh, Fresh, ForgetsHold,
           ForgottenUnlessCrossed, ForgottenIsGone, PaidMeansGone
  <1>2. QED
    BY <1>1, SyncInvHolds, PTL

(* A line of the notice names the furthest frame of its program and one    *)
(* this screen has not shown, whatever was merged, shown or forgotten      *)
(* since; and it is about reading done elsewhere, while pages come before  *)
(* their hold is over (reconcile.ts, withdrawStale, couldBeOwnReveal).     *)
THEOREM NoticesAreTrue == Spec => []NoticeIsTrue
  <1>1. SyncInv => NoticeIsTrue
    BY DEF SyncInv, NewsInv, HereInv, HereKnown, NoticeIsTrue, LinesAreTrue, OnlyElsewhere
  <1>2. QED
    BY <1>1, SyncInvHolds, PTL

(* No merge, frame shown or sign-in lowers the furthest frame this browser *)
(* has recorded of a program: only a forget does (rememberHere, merge).    *)
THEOREM FurthestOnlyForgotten == Spec => OnlyForgetLowers
  <1>1. SyncInv /\ [Next]_vars =>
          [\A p \in Programs : StepOf(positions'[p]) >= StepOf(positions[p])
                                \/ presses' # presses]_vars
    <2>. SUFFICES ASSUME SyncInv, Next, NEW p \in Programs
                  PROVE  StepOf(positions'[p]) >= StepOf(positions[p]) \/ presses' # presses
      OBVIOUS
    <2>1. SyncTypeInv /\ TypeOK /\ StepOf(positions[p]) \in Nat /\ presses \in Nat
      BY StepOfIs DEF SyncInv, SyncTypeInv, TypeOK, Places
    <2>2. CASE UNCHANGED positions
      BY <2>1, <2>2
    <2>3. CASE Arrive
      <3>1. page \in Frame /\ Remember(page)
        BY <2>1, <2>3 DEF Arrive, TypeOK
      <3>2. QED
        BY <2>1, <3>1, RememberIs
    <2>4. CASE Land
      <3>1. CASE forgetPending
        BY <2>1, <2>4, <3>1, LandDropped DEF record
      <3>2. CASE ~ forgetPending
        BY <2>1, <2>4, <3>2, LandIs
      <3>3. QED  BY <3>1, <3>2
    <2>5. CASE Forget
      BY <2>1, <2>5 DEF Forget
    <2>6. CASE \E entry \in held : HoldOver(entry)
      BY <2>2, <2>6 DEF HoldOver, record
    <2>7. CASE Reader /\ ~ Forget
      BY <2>2, <2>7 DEF Reader, Open, Reveal, Elsewhere, Dismiss, Leave, SignOut, SignIn, record
    <2>8. CASE Start \/ Ask \/ Pull
      BY <2>2, <2>8 DEF Start, Ask, Pull, record
    <2>9. CASE \E t \in Tasks : Answered(t) \/ BearerRefused(t) \/ Fail(t)
      BY <2>2, <2>9 DEF Answered, DeleteServed, AnonymousServed, Paid, StillOwed, BearerRefused,
                        Fail, record
    <2>10. QED
      BY <2>3, <2>4, <2>5, <2>6, <2>7, <2>8, <2>9, TasksAre DEF Next, Exchange
  <1>2. QED
    BY <1>1, SyncInvHolds, PTL DEF Spec, OnlyForgetLowers

\* A press of Forget waits for a cycle that is there to end.
NoneWaitsInVain == \A f \in Forgets : task[f] = "wait" => task[Cycle] # "idle"

\* A cycle ends by Ended or with the tab, and both wake those that wait.
LEMMA WaitsNext == ASSUME SyncTypeInv, NoneWaitsInVain, [Next]_vars PROVE NoneWaitsInVain'
  <1>0. AreTasks(task) /\ Cycle \in Tasks /\ Cycle \notin Forgets /\ Forgets \subseteq Tasks
    BY TasksAre DEF SyncTypeInv
  <1>1. CASE UNCHANGED task
    BY <1>1 DEF NoneWaitsInVain
  <1>2. ASSUME NEW t \in Tasks, task' = Ended(t) PROVE NoneWaitsInVain'
    <2>1. \A x \in Tasks : task'[x] = IF x = t THEN "idle"
                                      ELSE IF t = Cycle /\ task[x] = "wait" THEN "delete" ELSE task[x]
      BY <1>2 DEF Ended
    <2>2. QED
      BY <1>0, <2>1 DEF NoneWaitsInVain
  <1>3. CASE TabEnds
    BY <1>0, <1>3, TabEndsIs DEF NoneWaitsInVain
  <1>4. ASSUME NEW t \in Tasks, NEW phase, phase \notin {"idle", "wait"}, At(t, phase)
        PROVE  NoneWaitsInVain'
    <2>1. \A x \in Tasks : task'[x] = IF x = t THEN phase ELSE task[x]
      BY <1>0, <1>4 DEF At, AreTasks
    <2>2. QED
      BY <1>0, <1>4, <2>1 DEF NoneWaitsInVain
  <1>5. CASE Forget
    <2>. DEFINE f == presses + 1
    <2>1. At(f, AwaitRunning)
      BY <1>5 DEF Forget
    <2>2. \A x \in Tasks : task'[x] = IF x = f THEN AwaitRunning ELSE task[x]
      BY <1>0, <2>1 DEF At, AreTasks
    <2>3. f # Cycle
      BY BoundsAssumption DEF SyncTypeInv, TypeOK, Cycle
    <2>. HIDE DEF f
    <2>4. QED
      BY <1>0, <2>2, <2>3 DEF NoneWaitsInVain, AwaitRunning
  <1>6. CASE UNCHANGED vars
    BY <1>1, <1>6 DEF vars
  <1>7. CASE Reader
    <2>1. CASE Leave \/ \E adopted \in BOOLEAN : SignIn(adopted)
      BY <1>3, <2>1 DEF Leave, SignIn
    <2>2. CASE Forget
      BY <1>5, <2>2
    <2>3. CASE SignOut \/ \E lines \in SUBSET raised : Dismiss(lines)
      BY <1>1, <2>3 DEF SignOut, Dismiss
    <2>4. CASE \E frame \in Frame : Open(frame)
      BY <1>1, <2>4 DEF Open
    <2>5. CASE \E lang \in Editions : Reveal(lang)
      BY <1>1, <2>5 DEF Reveal
    <2>6. CASE \E p \in Programs, lang \in Editions : Elsewhere(p, lang)
      BY <1>1, <2>6 DEF Elsewhere
    <2>7. QED
      BY <1>7, <2>1, <2>2, <2>3, <2>4, <2>5, <2>6 DEF Reader
  <1>8. CASE Arrive \/ \E entry \in held : HoldOver(entry)
    BY <1>1, <1>8 DEF Arrive, HoldOver
  <1>9. ASSUME NEW t \in Tasks, Answered(t) \/ BearerRefused(t) \/ Fail(t)
        PROVE  NoneWaitsInVain'
    <2>1. CASE DeleteServed(t) \/ BearerRefused(t) \/ AnonymousServed(t)
      BY <1>4, <2>1 DEF DeleteServed, BearerRefused, AnonymousServed
    <2>2. CASE Paid(t)
      BY <1>2, <1>4, <2>2 DEF Paid
    <2>3. CASE StillOwed(t) \/ Fail(t)
      BY <1>2, <2>3 DEF StillOwed, Fail
    <2>4. QED
      BY <1>9, <2>1, <2>2, <2>3 DEF Answered
  <1>10. CASE Start \/ Ask \/ Pull \/ Land
    <2>1. CASE Start \/ Pull
      BY <1>0, <1>2, <1>4, <2>1 DEF Start, Pull
    <2>2. CASE Ask
      BY <1>0, <1>2, <1>4, <2>2 DEF Ask, At
    <2>3. CASE Land
      BY <1>0, <1>2, <2>3 DEF Land
    <2>4. QED
      BY <1>10, <2>1, <2>2, <2>3
  <1>11. QED
    BY <1>0, <1>6, <1>7, <1>8, <1>9, <1>10 DEF Next, Exchange

(* No wake-up is lost: a press of Forget that waits for the tab's cycle    *)
(* waits for one that is still to end, whatever fails, is refused or is    *)
(* left (`await running', sync.ts).                                        *)
THEOREM NoForgetWaitsInVain == Spec => []NoneWaitsInVain
  <1>1. Init => NoneWaitsInVain
    BY TasksAre DEF Init, NoneWaitsInVain
  <1>2. SyncInv /\ NoneWaitsInVain /\ [Next]_vars => NoneWaitsInVain'
    BY WaitsNext DEF SyncInv
  <1>3. QED
    BY <1>1, <1>2, SyncInvHolds, PTL DEF Spec

=============================================================================

-------------------------------- MODULE LabPane --------------------------------
(***************************************************************************)
(* The lab: a pane, a Python worker it cannot interrupt but only end, and  *)
(* the report of each run (lib/lab/use-lab-runtime.ts, pyodide-worker.js,  *)
(* components/lab/lab-pane.tsx), posted to the tallies of Tally while      *)
(* other readers post to them.                                             *)
(*                                                                         *)
(* Stop changes the pane at once; the effect that ends the worker and      *)
(* boots another runs later, and what the abandoned worker says meanwhile  *)
(* still arrives.  The editor's text and leaving the page are left out.    *)
(***************************************************************************)
EXTENDS Tally

CONSTANTS MaxRuns, MaxStops,
          MaxDecisions,  \* presses on the consent control (bound)
          MaxElsewhere,  \* other readers' reports (bound)
          EarlierRuns,   \* how often its checks have been run on an earlier visit
          Docs,          \* the announced checks' docstrings
          Outputs,       \* what a run can print
          Elsewhere      \* what other readers report

ASSUME LabBounds ==
    /\ {MaxRuns, MaxStops, MaxDecisions, MaxElsewhere} \subseteq Nat
    /\ EarlierRuns \subseteq 0 .. MaxAttempt

Runs == 1 .. MaxRuns
ASSUME RunsAreCallers == Runs \subseteq Callers
ASSUME NoneAssumption == None \notin Runs

\* The announced checks are checks, and rest on frames; whoever else reports
\* reports as this page does.
ASSUME LabAssumption ==
    /\ \A check \in DOMAIN Docs : check \in Checks /\ FramesFrom(Docs[check]) \subseteq Steps
    /\ \A output \in Outputs : DOMAIN output \subseteq Nat
    /\ \A report \in Elsewhere : IsReport(report)

Generations == 0 .. MaxStops

VARIABLES
    status, stopped,
    generation,     \* React state: which interpreter the pane wants
    generationRef,  \* its twin, written at once
    listening,      \* the generation whose effect has run: its worker is the one alive
    worker,         \* that worker
    job,            \* the run it was posted
    mail,           \* what it said that the pane has not heard
    stub,           \* has the exercise file arrived?
    asked, result,  \* runs started; the run whose verdict is on the page
    consent, counts,
    outbox,         \* outbox[r]: the reports of run r not yet posted
    decisions, elsewhere,
    said,           \* history: the reader's last press on the consent control
    heard,          \* history: heard[r], `said' when run r's verdict was taken
    ended,          \* history: runs stopped while they ran
    unkept          \* history: storage refused an answer

pane == <<status, stopped, generation, generationRef, listening, worker, job, mail, stub,
          asked, result>>
browser == <<consent, counts, outbox>>
history == <<decisions, elsewhere, faults, said, heard, ended, unkept>>
vars == <<tally, pane, browser, history>>

Messages == [kind : {"ready", "boot-failed", "error"}]
            \cup [kind : {"result"}, run : Runs, output : Outputs]

TypeOK ==
    /\ TallyTypeOK
    /\ status \in {"loading", "ready", "running", "failed"}
    /\ stopped \in BOOLEAN /\ stub \in BOOLEAN
    /\ {generation, generationRef, listening} \subseteq Generations
    /\ worker \in {"booting", "up", "bad", "dead"}
    /\ job \in Runs \cup {None} /\ result \in Runs \cup {None}
    /\ asked \in 0 .. MaxRuns
    /\ mail \in Seq(Messages) /\ Len(mail) <= 2
    /\ consent \in Answers \cup {None}
    /\ counts \in [Steps -> 0 .. MaxAttempt]
    /\ DOMAIN outbox = Runs /\ \A r \in Runs : \A report \in outbox[r] : IsReport(report)
    /\ \A r \in Runs : outbox[r] # {} => heard[r] # "nothing"
    /\ ended \subseteq Runs

Init ==
    /\ TallyInit
    /\ status = "loading" /\ stopped = FALSE
    /\ generation = 0 /\ generationRef = 0 /\ listening = 0
    /\ worker = "booting" /\ job = None /\ mail = <<>> /\ stub = FALSE
    /\ asked = 0 /\ result = None
    /\ consent \in {None, Decided("granted"), [version |-> 1, consent |-> "granted"]}
    /\ counts \in {[s \in Steps |-> n] : n \in EarlierRuns}
    /\ outbox = [r \in Runs |-> {}]
    /\ decisions = 0 /\ elsewhere = 0
    /\ said = (IF consent = Decided("granted") THEN "granted" ELSE "nothing")
    /\ heard = [r \in Runs |-> "nothing"]
    /\ ended = {} /\ unkept = FALSE

-----------------------------------------------------------------------------
(* The worker.                                                             *)

Say(message) == mail' = Append(mail, message)

\* boot: the runtime and the engine load, or the first failure says why.
Boot ==
    /\ worker = "booting"
    /\ \/ worker' = "up" /\ Say([kind |-> "ready"])
       \/ worker' = "bad" /\ Say([kind |-> "boot-failed"])
    /\ UNCHANGED <<tally, browser, history, status, stopped, generation, generationRef,
                   listening, job, stub, asked, result>>

\* The script does not load, or the worker dies of what the reader ran.
Die ==
    /\ worker \in {"booting", "up"}
    /\ worker' = "dead" /\ job' = None /\ Say([kind |-> "error"])
    /\ UNCHANGED <<tally, browser, history, status, stopped, generation, generationRef,
                   listening, stub, asked, result>>

\* lab_run: a run that ends answers once.  One that loops never does.
Answer ==
    /\ worker = "up" /\ job # None
    /\ \E output \in Outputs : Say([kind |-> "result", run |-> job, output |-> output])
    /\ job' = None
    /\ UNCHANGED <<tally, browser, history, status, stopped, generation, generationRef,
                   listening, worker, stub, asked, result>>

-----------------------------------------------------------------------------
(* The pane.                                                               *)

StubArrives ==
    /\ ~ stub /\ stub' = TRUE
    /\ UNCHANGED <<tally, browser, history, status, stopped, generation, generationRef,
                   listening, worker, job, mail, asked, result>>

Check ==
    /\ status = "ready" /\ stub
    /\ asked < MaxRuns
    /\ asked' = asked + 1
    /\ result' = None
    /\ status' = "running"
    /\ job' = asked + 1
    /\ UNCHANGED <<tally, browser, history, stopped, generation, generationRef, listening,
                   worker, mail, stub>>

\* Slip: the twin moves on and the state that re-runs the effect does not.
MoveOnUnrendered ==
    generationRef' = generationRef + 1 /\ UNCHANGED generation

MoveOn ==
    /\ generationRef' = generationRef + 1
    /\ generation' = generationRef + 1

Stop ==
    /\ status = "running"
    /\ generationRef < MaxStops
    /\ stopped' = TRUE
    /\ status' = "loading"
    /\ MoveOn
    /\ ended' = ended \cup {asked}
    /\ UNCHANGED <<tally, browser, listening, worker, job, mail, stub, asked, result,
                   decisions, elsewhere, said, heard, unkept, faults>>

\* The effect runs again: its cleanup ends the worker, and another boots.
Replace ==
    /\ listening # generation
    /\ listening' = generation
    /\ worker' = "booting" /\ job' = None /\ mail' = <<>>
    /\ UNCHANGED <<tally, browser, history, status, stopped, generation, generationRef, stub,
                   asked, result>>

\* Slip: the listener reads the state it closed over.
ClosedOver == FALSE

\* The pane has moved on from the worker this listener belongs to.
Superseded == generationRef # listening

Drop == UNCHANGED <<browser, history, status, stopped, result>>

Learn(message) ==
    /\ IF message.kind = "ready"
         THEN stopped' = FALSE /\ status' = "ready"
         ELSE status' = "failed" /\ UNCHANGED stopped
    /\ UNCHANGED <<browser, history, result>>

\* reportRun: asked first; then every frame's attempt is taken, at once, and
\* the reports are ready to go.  Storage may keep none of the numbers.
ReportRun(message) ==
    LET reports == FramesOf(message.output, Docs, counts)
        frames == {report.step : report \in reports}
    IN IF MayContribute(consent)
         THEN /\ outbox' = [outbox EXCEPT ![message.run] = reports]
              /\ \/ counts' = Taken(counts, frames) /\ UNCHANGED faults
                 \/ Fault /\ UNCHANGED counts
         ELSE UNCHANGED <<outbox, counts, faults>>

Conclude(message) ==
    /\ result' = message.run
    /\ status' = "ready"
    /\ ReportRun(message)
    /\ heard' = [heard EXCEPT ![message.run] = said]
    /\ UNCHANGED <<stopped, consent, decisions, elsewhere, said, ended, unkept>>

Deliver ==
    /\ mail # <<>>
    /\ mail' = Tail(mail)
    /\ LET message == Head(mail) IN
         IF Superseded THEN Drop
         ELSE IF message.kind = "result" THEN Conclude(message) ELSE Learn(message)
    /\ UNCHANGED <<tally, generation, generationRef, listening, worker, job, stub, asked>>

-----------------------------------------------------------------------------
(* Consent and the posts.                                                  *)

\* decide: written, or refused and passed over.
Decide(choice) ==
    /\ decisions < MaxDecisions /\ decisions' = decisions + 1
    /\ said' = choice
    /\ \/ consent' = Decided(choice) /\ UNCHANGED <<faults, unkept>>
       \/ Fault /\ unkept' = TRUE /\ UNCHANGED consent
    /\ UNCHANGED <<tally, pane, counts, outbox, elsewhere, heard, ended>>

\* One frame's report at a time, in order; a failure costs that frame's and no more.
Post(r) ==
    /\ r \notin InService
    /\ \E report \in outbox[r] :
          /\ \A other \in outbox[r] : report.step <= other.step
          /\ outbox' = [outbox EXCEPT ![r] = outbox[r] \ {report}]
          /\ \/ Arrive(r, report)
             \/ Fault /\ UNCHANGED tally
    /\ UNCHANGED <<pane, consent, counts, decisions, elsewhere, said, heard, ended, unkept>>

PostElsewhere(c) ==
    /\ elsewhere < MaxElsewhere /\ elsewhere' = elsewhere + 1
    /\ \E report \in Elsewhere : Arrive(c, report)
    /\ UNCHANGED <<pane, browser, decisions, said, heard, ended, unkept>>

ServeOutcome(c) ==
    /\ Serve(c)
    /\ UNCHANGED <<pane, browser, decisions, elsewhere, said, heard, ended, unkept>>

\* What goes on of itself: the worker boots, the page runs effects and messages.
Run == Boot \/ Replace \/ Deliver

Next ==
    \/ Run \/ Die \/ Answer
    \/ StubArrives \/ Check \/ Stop
    \/ \E choice \in {"granted", "declined"} : Decide(choice)
    \/ \E r \in Runs : Post(r)
    \/ \E c \in Callers \ Runs : PostElsewhere(c)
    \/ \E c \in Callers : ServeOutcome(c)

\* Some of that is always done while there is any; nothing makes a run answer,
\* a reader press, or a request be served.
Spec == Init /\ [][Next]_vars /\ WF_<<listening, mail>>(Run)

-----------------------------------------------------------------------------
(* A stopped run is over: its verdict is neither shown nor counted, and    *)
(* Check is offered only on the interpreter that replaced it, never on one *)
(* about to be ended or still to boot (use-lab-runtime.ts, generationRef). *)
StoppedIsOver ==
    /\ \A r \in ended : result # r /\ heard[r] = "nothing" /\ outbox[r] = {}
    /\ status = "ready" => listening = generationRef /\ worker \in {"up", "dead"} /\ job = None

(* Nothing is reported of a run whose verdict came while the reader's last *)
(* answer was not a yes to this version of the question (store.ts, `what   *)
(* they lose is that the answer does not persist, which means they         *)
(* contribute nothing').                                                   *)
WithdrawalHolds ==
    \A r \in Runs : outbox[r] # {} \/ r \in InService => heard[r] = "granted"

(* And so it is, unless the browser would not keep an answer.              *)
NothingUnasked == WithdrawalHolds \/ unkept

(* A pane that is loading does not stay so: whatever was stopped and       *)
(* whenever, the replacement comes up or says why it cannot.               *)
ComesBack == status = "loading" ~> status # "loading"

=============================================================================

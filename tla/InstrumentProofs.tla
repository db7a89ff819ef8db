----------------------------- MODULE InstrumentProofs --------------------------
(***************************************************************************)
(* Theorems about the two things a page reports from: LabPane, with the    *)
(* tallies of Tally under it, for any number of runs, stops, callers,      *)
(* checks, frames and faults, and Worksheet, for any number of tabs, texts *)
(* and pads.  Both count attempts by the operators of Contribution.        *)
(*                                                                         *)
(* CountsAreTrue is carried by a bookkeeping that no row shows: for each   *)
(* cell, how many reports of it have arrived, and which requests have not  *)
(* saved theirs.  Neither is a variable of the model; the invariant says   *)
(* that there are such numbers and such a set.                             *)
(*                                                                         *)
(* StoppedIsOver is carried by what a worker can still have to say: while  *)
(* the pane is the worker's, nothing of a stopped run, and while it is     *)
(* not, anything, which is dropped.                                        *)
(*                                                                         *)
(* FieldsKeepApart is carried by what a field was seeded from: where       *)
(* nothing was stored, no reading of the record, old or new, differs from  *)
(* it, so there is nothing to adopt.  AnsweredOnce is carried by what      *)
(* every page knows of the record while no tab wrote behind another.       *)
(***************************************************************************)
EXTENDS LabPane, Worksheet, FiniteSetTheorems, NaturalsInduction, SequenceTheorems,
        WellFoundedInduction, TLAPS

-----------------------------------------------------------------------------
(* The parts of the tallies' inductive invariant.                          *)

TallyTypeInv == TallyTypeOK /\ request = [c \in InService |-> request[c]]

ToRead(c) == {request[c].todo[i] : i \in DOMAIN request[c].todo}
Mentioned(c) == ToRead(c) \cup DOMAIN request[c].seen

\* n reports of the cell have arrived, and those of `unsaved' are not written.
Bounded(cell, n, unsaved) ==
    /\ unsaved \subseteq InService /\ IsFiniteSet(unsaved)
    /\ rows[cell] + Cardinality(unsaved) <= n
    /\ \A c \in InService :
          /\ cell \in ToRead(c) => c \in unsaved
          /\ cell \in DOMAIN request[c].seen =>
                request[c].seen[cell] + Cardinality(unsaved) + (IF c \in unsaved THEN 0 ELSE 1) <= n

Fits(cell, n) == \E unsaved \in SUBSET InService : Bounded(cell, n, unsaved)

NoneTooMany ==
    \A q \in Questions : \E m, n \in 0 .. posted[q] :
        m + n = posted[q] /\ Fits(Cell(q, TRUE), m) /\ Fits(Cell(q, FALSE), n)

\* A request says one thing of a question.
SaysOne ==
    \A c \in InService : \A q \in Questions :
        ~ (Cell(q, TRUE) \in Mentioned(c) /\ Cell(q, FALSE) \in Mentioned(c))

Asks(c, q) == Cell(q, TRUE) \in Mentioned(c) \/ Cell(q, FALSE) \in Mentioned(c)

\* The one request in service before its save, and after.
BeforeSave(c) ==
    /\ \A cell \in DOMAIN request[c].seen : request[c].seen[cell] = rows[cell]
    /\ \A q \in Questions : Total(q) + (IF Asks(c, q) THEN 1 ELSE 0) = posted[q]

AfterSave(c) ==
    /\ Served(c)
    /\ \A cell \in DOMAIN request[c].seen : request[c].seen[cell] + 1 = rows[cell]
    /\ \A q \in Questions : Total(q) = posted[q]

NoneTooFew ==
    ~ overlapped /\ ~ abandoned =>
        /\ \A c, d \in InService : c = d
        /\ Idle => \A q \in Questions : Total(q) = posted[q]
        /\ \A c \in InService : BeforeSave(c) \/ AfterSave(c)

TallyInv == TallyTypeInv /\ SaysOne /\ NoneTooMany /\ NoneTooFew

-----------------------------------------------------------------------------
(* The parts of the pane's.                                                *)

Sayings == {"nothing", "granted", "declined"}

PaneTypes ==
    /\ status \in {"loading", "ready", "running", "failed"}
    /\ stopped \in BOOLEAN /\ stub \in BOOLEAN
    /\ generation \in Generations /\ generationRef \in Generations /\ listening \in Generations
    /\ worker \in {"booting", "up", "bad", "dead"}
    /\ job \in Runs \cup {None} /\ result \in Runs \cup {None}
    /\ asked \in 0 .. MaxRuns /\ ended \subseteq Runs

BrowserTypes ==
    /\ consent \in Answers \cup {None}
    /\ counts \in [Steps -> 0 .. MaxAttempt]
    /\ outbox = [r \in Runs |-> outbox[r]]
    /\ \A r \in Runs : \A report \in outbox[r] : IsReport(report)
    /\ heard \in [Runs -> Sayings] /\ said \in Sayings

Ready == [kind |-> "ready"]
BootFailed == [kind |-> "boot-failed"]
Error == [kind |-> "error"]
Result(r, output) == [kind |-> "result", run |-> r, output |-> output]

\* What a worker has said that is not heard, and how it stands then.
MailFits ==
    \/ mail = <<>>
    \/ mail = <<Ready>> /\ worker = "up" /\ job = None /\ status = "loading" /\ ~ Superseded
    \/ mail = <<Ready, Error>> /\ worker = "dead" /\ job = None /\ status = "loading" /\ ~ Superseded
    \/ mail = <<BootFailed>> /\ worker = "bad" /\ job = None /\ status = "loading" /\ ~ Superseded
    \/ mail = <<Error>> /\ worker = "dead"
    \/ \E output \in Outputs :
          /\ \/ mail = <<Result(asked, output)>> /\ worker = "up"
             \/ mail = <<Result(asked, output), Error>> /\ worker = "dead"
          /\ asked \in Runs /\ job = None
          /\ status = "running" \/ Superseded

WorkerFits ==
    /\ generation = generationRef /\ listening <= generationRef
    /\ worker = "booting" => mail = <<>> /\ job = None /\ status = "loading" /\ ~ Superseded
    /\ worker = "up" /\ job # None => job = asked /\ mail = <<>> /\ (status = "running" \/ Superseded)
    /\ worker = "up" /\ status = "ready" => mail = <<>>
    /\ worker = "bad" => job = None /\ status \in {"loading", "failed"} /\ ~ Superseded
    /\ status \in {"ready", "running"} => worker \in {"up", "dead"} /\ ~ Superseded
    /\ status = "ready" => job = None
    /\ status = "running" => asked \in Runs
    /\ Superseded => status = "loading"

\* Runs not started, running or ended have no verdict.
NoVerdict(r) == result # r /\ heard[r] = "nothing" /\ outbox[r] = {}

RunsFit ==
    /\ \A r \in ended : NoVerdict(r) /\ r <= asked
    /\ \A r \in Runs : r > asked => NoVerdict(r)
    /\ status = "running" => NoVerdict(asked) /\ asked \notin ended

ConsentFits ==
    ~ unkept => /\ MayContribute(consent) => said = "granted"
                /\ WithdrawalHolds

HeardFits ==
    /\ \A r \in Runs : outbox[r] # {} => heard[r] # "nothing"
    /\ MayContribute(consent) => said # "nothing"

WorkInv == PaneTypes /\ MailFits /\ WorkerFits
VerdictInv == BrowserTypes /\ RunsFit /\ ConsentFits /\ HeardFits

PaneInv == WorkInv /\ VerdictInv

LabInv == TallyInv /\ PaneInv

-----------------------------------------------------------------------------
(* What a report asks.                                                     *)

LEMMA CellIsACell ==
    ASSUME NEW q \in Questions
    PROVE  Cell(q, TRUE) \in Cells /\ Cell(q, FALSE) \in Cells
  BY DEF Questions, Cells, Cell

(* A check that is named is named a first time.                            *)
LEMMA FirstNaming ==
    ASSUME NEW results, DOMAIN results \subseteq Nat, NEW i \in DOMAIN results
    PROVE  \E k \in DOMAIN Collapsed(results) :
              Collapsed(results)[k].check = results[i].check
  <1>. DEFINE Naming(n) == {m \in DOMAIN results : results[m].check = results[n].check}
              R == OpToRel(<, Nat)
  <1>1. Naming(i) \subseteq Nat /\ Naming(i) # {}
    OBVIOUS
  <1>2. IsWellFoundedOn(R, Nat)
    BY NatLessThanWellFounded
  <1>3. PICK k \in Naming(i) : \A j \in Naming(i) : ~ (<<j, k>> \in R)
    BY <1>1, <1>2, WFMin
  <1>4. \A j \in Naming(i) : ~ (j < k)
    BY <1>1, <1>3 DEF OpToRel
  <1>5. k \in DOMAIN results /\ results[k].check = results[i].check
    BY <1>3
  <1>6. \A j \in Naming(k) : k <= j
    <2>1. Naming(k) = Naming(i)
      BY <1>5
    <2>2. \A j \in Naming(i) : j \in Nat /\ k \in Nat /\ ~ (j < k)
      BY <1>1, <1>3, <1>4
    <2>. HIDE DEF Naming
    <2>3. QED
      BY <2>1, <2>2
  <1>7. k \in DOMAIN Collapsed(results) /\ Collapsed(results)[k].check = results[k].check
    BY <1>5, <1>6 DEF Collapsed
  <1>8. QED
    BY <1>5, <1>7

(* The cells of a report: of the right type, one for each of its questions *)
(* and for no other, and never both verdicts of one.                       *)
LEMMA CellsOfReport ==
    ASSUME NEW report, IsReport(report)
    PROVE  LET cells == CellsOf(report)
           IN  /\ DOMAIN cells \subseteq Nat
               /\ \A i \in DOMAIN cells : cells[i] \in Cells
               /\ QuestionsOf(report) \subseteq Questions
               /\ \A q \in Questions :
                     /\ (\E i \in DOMAIN cells : cells[i] = Cell(q, TRUE) \/ cells[i] = Cell(q, FALSE))
                          <=> q \in QuestionsOf(report)
                     /\ \A i, j \in DOMAIN cells : ~ (cells[i] = Cell(q, TRUE) /\ cells[j] = Cell(q, FALSE))
  <1>. DEFINE results == report.results
              once == Collapsed(results)
              cells == CellsOf(report)
              Naming(n) == {m \in DOMAIN results : results[m].check = results[n].check}
  <1>1. /\ DOMAIN results \subseteq Nat
        /\ \A i \in DOMAIN results : results[i].check \in Checks
        /\ report.step \in Steps /\ report.attempt \in 1 .. MaxAttempt
    BY DEF IsReport
  <1>2. /\ DOMAIN once \subseteq DOMAIN results
        /\ \A i \in DOMAIN once :
              /\ once[i].check = results[i].check /\ once[i].passed \in BOOLEAN
              /\ \A j \in Naming(i) : i <= j
    BY DEF Collapsed
  <1>3. /\ DOMAIN cells = DOMAIN once
        /\ \A i \in DOMAIN cells :
              cells[i] = [step |-> report.step, attempt |-> report.attempt,
                          check |-> once[i].check, passed |-> once[i].passed]
    BY DEF CellsOf
  <1>4. \A i \in DOMAIN results : \E k \in DOMAIN once : once[k].check = results[i].check
    BY <1>1, FirstNaming
  <1>5. QuestionsOf(report) =
          {[step |-> report.step, attempt |-> report.attempt, check |-> results[i].check] :
             i \in DOMAIN results}
    BY DEF QuestionsOf
  <1>. HIDE DEF results, once, cells
  <1>6. DOMAIN cells \subseteq Nat /\ \A i \in DOMAIN cells : cells[i] \in Cells
    BY <1>1, <1>2, <1>3 DEF Cells
  <1>7. QuestionsOf(report) \subseteq Questions
    BY <1>1, <1>5 DEF Questions
  <1>8. ASSUME NEW q \in Questions, NEW i \in DOMAIN cells, NEW passed \in BOOLEAN
        PROVE  cells[i] = Cell(q, passed) <=>
                 /\ q.step = report.step /\ q.attempt = report.attempt
                 /\ q.check = once[i].check /\ once[i].passed = passed
    BY <1>3 DEF Cell
  <1>9. ASSUME NEW q \in Questions
        PROVE  q \in QuestionsOf(report) <=>
                 /\ q.step = report.step /\ q.attempt = report.attempt
                 /\ \E i \in DOMAIN results : q.check = results[i].check
    <2>1. q = [step |-> q.step, attempt |-> q.attempt, check |-> q.check]
      BY DEF Questions
    <2>2. \A i : q = [step |-> report.step, attempt |-> report.attempt, check |-> results[i].check]
                   <=> /\ q.step = report.step /\ q.attempt = report.attempt
                       /\ q.check = results[i].check
      BY <2>1
    <2>3. QED
      BY <1>5, <2>2
  <1>10. ASSUME NEW q \in Questions
         PROVE  (\E i \in DOMAIN cells : cells[i] = Cell(q, TRUE) \/ cells[i] = Cell(q, FALSE))
                  <=> q \in QuestionsOf(report)
    <2>1. ASSUME NEW i \in DOMAIN cells, cells[i] = Cell(q, TRUE) \/ cells[i] = Cell(q, FALSE)
          PROVE  q \in QuestionsOf(report)
      <3>1. /\ q.step = report.step /\ q.attempt = report.attempt /\ q.check = once[i].check
        BY <1>8, <2>1
      <3>2. i \in DOMAIN results /\ q.check = results[i].check
        BY <1>2, <1>3, <3>1
      <3>3. QED
        BY <1>9, <3>1, <3>2
    <2>2. ASSUME q \in QuestionsOf(report)
          PROVE  \E i \in DOMAIN cells : cells[i] = Cell(q, TRUE) \/ cells[i] = Cell(q, FALSE)
      <3>1. q.step = report.step /\ q.attempt = report.attempt
        BY <1>9, <2>2
      <3>2. PICK i \in DOMAIN results : q.check = results[i].check
        BY <1>9, <2>2
      <3>3. PICK k \in DOMAIN once : once[k].check = results[i].check
        BY <1>4
      <3>4. k \in DOMAIN cells /\ q.check = once[k].check /\ once[k].passed \in BOOLEAN
        BY <1>2, <1>3, <3>2, <3>3
      <3>5. once[k].passed = TRUE \/ once[k].passed = FALSE
        BY <3>4
      <3>6. CASE once[k].passed = TRUE
        BY <1>8, <3>1, <3>4, <3>6
      <3>7. CASE once[k].passed = FALSE
        BY <1>8, <3>1, <3>4, <3>7
      <3>8. QED  BY <3>5, <3>6, <3>7
    <2>3. QED  BY <2>1, <2>2
  <1>11. ASSUME NEW q \in Questions, NEW i \in DOMAIN cells, NEW j \in DOMAIN cells,
                cells[i] = Cell(q, TRUE), cells[j] = Cell(q, FALSE)
         PROVE  FALSE
    <2>1. q.check = once[i].check /\ once[i].passed = TRUE
      BY <1>8, <1>11
    <2>2. q.check = once[j].check /\ once[j].passed = FALSE
      BY <1>8, <1>11
    <2>3. once[i].check = once[j].check /\ once[i].passed # once[j].passed
      BY <2>1, <2>2
    <2>4. i \in DOMAIN results /\ j \in DOMAIN results /\ results[i].check = results[j].check
      BY <1>2, <1>3, <2>3
    <2>5. i <= j /\ j <= i
      BY <1>2, <1>3, <2>4
    <2>6. i \in Nat /\ j \in Nat
      BY <1>6
    <2>7. QED
      BY <2>3, <2>5, <2>6
  <1>12. QED
    BY <1>6, <1>7, <1>10, <1>11 DEF cells

-----------------------------------------------------------------------------
(* The three things that happen to a request.                              *)

LEMMA Arrived ==
    ASSUME TallyTypeInv, NEW c \in Callers, NEW report, IsReport(report), Arrive(c, report)
    PROVE  /\ TallyTypeInv'
           /\ InService' = InService \cup {c} /\ c \notin InService
           /\ \A d \in InService : request'[d] = request[d]
           /\ ToRead(c)' = {CellsOf(report)[i] : i \in DOMAIN CellsOf(report)}
           /\ DOMAIN request'[c].seen = {}
           /\ \A q \in Questions :
                 posted'[q] = IF q \in QuestionsOf(report) THEN posted[q] + 1 ELSE posted[q]
  <1>. DEFINE new == [todo |-> CellsOf(report), seen |-> <<>>]
  <1>1. /\ c \notin InService
        /\ request' = [d \in InService \cup {c} |-> IF d = c THEN new ELSE request[d]]
        /\ posted' = [q \in Questions |-> IF q \in QuestionsOf(report) THEN posted[q] + 1 ELSE posted[q]]
        /\ overlapped' = (overlapped \/ ~ Idle) /\ UNCHANGED <<rows, abandoned, faults>>
    BY DEF Arrive
  <1>2. new.todo = CellsOf(report) /\ DOMAIN new.seen = {}
    OBVIOUS
  <1>3. DOMAIN new.todo \subseteq Nat /\ \A i \in DOMAIN new.todo : new.todo[i] \in Cells
    BY <1>2, CellsOfReport
  <1>. HIDE DEF new
  <1>4. /\ InService' = InService \cup {c}
        /\ request'[c] = new /\ \A d \in InService : request'[d] = request[d]
        /\ request' = [d \in InService' |-> request'[d]]
    BY <1>1 DEF InService
  <1>5. posted' \in [Questions -> Nat]
    BY <1>1 DEF TallyTypeInv, TallyTypeOK
  <1>6. overlapped' \in BOOLEAN
    BY <1>1 DEF TallyTypeInv, TallyTypeOK
  <1>7. \A d \in InService' :
          /\ DOMAIN request'[d].todo \subseteq Nat
          /\ \A i \in DOMAIN request'[d].todo : request'[d].todo[i] \in Cells
          /\ DOMAIN request'[d].seen \subseteq Cells
          /\ \A cell \in DOMAIN request'[d].seen : request'[d].seen[cell] \in Nat
    BY <1>2, <1>3, <1>4 DEF TallyTypeInv, TallyTypeOK
  <1>8. TallyTypeInv'
    BY <1>1, <1>4, <1>5, <1>6, <1>7 DEF TallyTypeInv, TallyTypeOK
  <1>9. QED
    BY <1>1, <1>2, <1>4, <1>8 DEF ToRead

\* A request whose service ends leaves the others as they were.
LEMMA Ended ==
    ASSUME TallyTypeInv, NEW c, Ends(c)
    PROVE  /\ InService' = InService \ {c}
           /\ \A d \in InService' : request'[d] = request[d]
           /\ request' = [d \in InService' |-> request'[d]]
  BY DEF Ends, Restrict, InService

\* A read moves one cell from those still to read to those seen.
LEMMA Incremented ==
    ASSUME TallyTypeInv, NEW c \in Callers, Increment(c)
    PROVE  /\ TallyTypeInv'
           /\ c \in InService /\ InService' = InService
           /\ \A d \in InService \ {c} : request'[d] = request[d]
           /\ \E cell \in ToRead(c) :
                 /\ ToRead(c) = ToRead(c)' \cup {cell}
                 /\ DOMAIN request'[c].seen = DOMAIN request[c].seen \cup {cell}
                 /\ \A other \in DOMAIN request'[c].seen :
                       request'[c].seen[other] = IF other = cell THEN rows[cell] ELSE request[c].seen[other]
  <1>. DEFINE todo == request[c].todo
              had == request[c].seen
              read(i) == [todo |-> Restrict(todo, DOMAIN todo \ {i}),
                          seen |-> [cell \in DOMAIN had \cup {todo[i]} |->
                                      IF cell = todo[i] THEN rows[cell] ELSE had[cell]]]
  <1>1. PICK i \in DOMAIN todo : request' = [request EXCEPT ![c] = read(i)]
    BY DEF Increment
  <1>2. c \in InService /\ UNCHANGED <<rows, abandoned, faults, posted, overlapped>>
    BY DEF Increment
  <1>3. /\ read(i).todo = Restrict(todo, DOMAIN todo \ {i})
        /\ read(i).seen = [cell \in DOMAIN had \cup {todo[i]} |->
                             IF cell = todo[i] THEN rows[cell] ELSE had[cell]]
    OBVIOUS
  <1>. DEFINE after == read(i)
  <1>4. /\ DOMAIN after.todo = DOMAIN todo \ {i}
        /\ \A j \in DOMAIN after.todo : after.todo[j] = todo[j]
        /\ DOMAIN after.seen = DOMAIN had \cup {todo[i]}
        /\ \A cell \in DOMAIN after.seen :
              after.seen[cell] = IF cell = todo[i] THEN rows[cell] ELSE had[cell]
    BY <1>3 DEF Restrict
  <1>5. request' = [request EXCEPT ![c] = after]
    BY <1>1
  <1>. HIDE DEF read, after, todo, had
  <1>6. /\ InService' = InService /\ request'[c] = after
        /\ \A d \in InService \ {c} : request'[d] = request[d]
        /\ request' = [d \in InService' |-> request'[d]]
    BY <1>2, <1>5 DEF TallyTypeInv, InService
  <1>7. /\ DOMAIN todo \subseteq Nat /\ \A j \in DOMAIN todo : todo[j] \in Cells
        /\ DOMAIN had \subseteq Cells /\ \A cell \in DOMAIN had : had[cell] \in Nat
    BY <1>2 DEF TallyTypeInv, TallyTypeOK, todo, had
  <1>8. rows \in [Cells -> Nat]
    BY DEF TallyTypeInv, TallyTypeOK
  <1>9. /\ DOMAIN after.todo \subseteq Nat /\ \A j \in DOMAIN after.todo : after.todo[j] \in Cells
        /\ DOMAIN after.seen \subseteq Cells /\ \A cell \in DOMAIN after.seen : after.seen[cell] \in Nat
    BY <1>4, <1>7, <1>8
  <1>10. TallyTypeInv'
    BY <1>2, <1>6, <1>9 DEF TallyTypeInv, TallyTypeOK
  <1>11. ToRead(c)' = {todo[j] : j \in DOMAIN todo \ {i}}
    BY <1>4, <1>6 DEF ToRead
  <1>12. ToRead(c) = {todo[j] : j \in DOMAIN todo}
    BY DEF ToRead, todo
  <1>13. todo[i] \in ToRead(c) /\ ToRead(c) = ToRead(c)' \cup {todo[i]}
    BY <1>11, <1>12
  <1>14. QED
    BY <1>2, <1>4, <1>6, <1>10, <1>13 DEF had

\* One save writes every cell the request has read, one more than it read.
LEMMA SavedRows ==
    ASSUME TallyTypeInv, NEW c \in InService, rows' = Written(c)
    PROVE  /\ rows' \in [Cells -> Nat]
           /\ \A cell \in Cells :
                 rows'[cell] = IF cell \in DOMAIN request[c].seen
                               THEN request[c].seen[cell] + 1 ELSE rows[cell]
  BY DEF Written, TallyTypeInv, TallyTypeOK

LEMMA ServeTypes == ASSUME TallyTypeInv, NEW c \in Callers, Serve(c) PROVE TallyTypeInv'
  <1>1. CASE Increment(c)
    BY <1>1, Incremented
  <1>2. CASE SaveChanges(c)
    <2>1. rows' \in [Cells -> Nat]
      BY <1>2, SavedRows DEF SaveChanges, Served
    <2>2. faults' \in 0 .. MaxFaults
      BY <1>2, FaultsAssumption DEF SaveChanges, Fault, TallyTypeInv, TallyTypeOK
    <2>3. CASE Ends(c)
      BY <1>2, <2>1, <2>2, <2>3, Ended DEF SaveChanges, TallyTypeInv, TallyTypeOK
    <2>4. CASE UNCHANGED request
      BY <1>2, <2>1, <2>2, <2>4 DEF SaveChanges, TallyTypeInv, TallyTypeOK, InService
    <2>5. QED  BY <1>2, <2>3, <2>4 DEF SaveChanges
  <1>3. CASE SaveRefused(c)
    BY <1>3, Ended DEF SaveRefused, TallyTypeInv, TallyTypeOK
  <1>4. CASE Abandon(c)
    <2>1. faults' \in 0 .. MaxFaults
      BY <1>4, FaultsAssumption DEF Abandon, Fault, TallyTypeInv, TallyTypeOK
    <2>2. QED
      BY <1>4, <2>1, Ended DEF Abandon, TallyTypeInv, TallyTypeOK
  <1>5. QED  BY <1>1, <1>2, <1>3, <1>4 DEF Serve

-----------------------------------------------------------------------------
(* A request says one thing of a question.                                 *)

LEMMA SaysOneArrives ==
    ASSUME TallyTypeInv, SaysOne, NEW c \in Callers, NEW report, IsReport(report), Arrive(c, report)
    PROVE  SaysOne'
  <1>1. InService' = InService \cup {c} /\ \A d \in InService : request'[d] = request[d]
    BY Arrived
  <1>2. \A d \in InService : Mentioned(d)' = Mentioned(d)
    BY <1>1 DEF Mentioned, ToRead
  <1>3. Mentioned(c)' = {CellsOf(report)[i] : i \in DOMAIN CellsOf(report)}
    BY Arrived DEF Mentioned
  <1>4. \A q \in Questions : ~ (Cell(q, TRUE) \in Mentioned(c)' /\ Cell(q, FALSE) \in Mentioned(c)')
    BY <1>3, CellsOfReport
  <1>5. QED
    BY <1>1, <1>2, <1>4 DEF SaysOne

\* A report counts one outcome of a question, once: its cells never name both.
LEMMA SaysOneServes ==
    ASSUME TallyTypeInv, SaysOne, NEW c \in Callers, Serve(c) PROVE SaysOne'
  <1>1. CASE Increment(c)
    <2>1. \A d \in InService \ {c} : Mentioned(d)' = Mentioned(d)
      BY <1>1, Incremented DEF Mentioned, ToRead
    <2>2. Mentioned(c)' = Mentioned(c)
      BY <1>1, Incremented DEF Mentioned
    <2>3. InService' = InService
      BY <1>1, Incremented
    <2>4. QED
      BY <2>1, <2>2, <2>3 DEF SaysOne
  <1>2. CASE Ends(c)
    <2>1. \A d \in InService' : d \in InService /\ request'[d] = request[d]
      BY <1>2, Ended
    <2>2. \A d \in InService' : Mentioned(d)' = Mentioned(d)
      BY <2>1 DEF Mentioned, ToRead
    <2>3. QED
      BY <2>1, <2>2 DEF SaysOne
  <1>3. CASE UNCHANGED request
    BY <1>3 DEF SaysOne, Mentioned, ToRead, InService
  <1>4. QED
    BY <1>1, <1>2, <1>3 DEF Serve, SaveChanges, SaveRefused, Abandon

-----------------------------------------------------------------------------
(* A cell's count, its reports that have arrived and those not yet saved.  *)

LEMMA UnsavedCount ==
    ASSUME NEW n, NEW cell, NEW unsaved, Bounded(cell, n, unsaved)
    PROVE  /\ Cardinality(unsaved) \in Nat
           /\ \A c : /\ IsFiniteSet(unsaved \ {c}) /\ IsFiniteSet(unsaved \cup {c})
                     /\ Cardinality(unsaved \ {c}) =
                          IF c \in unsaved THEN Cardinality(unsaved) - 1 ELSE Cardinality(unsaved)
                     /\ Cardinality(unsaved \cup {c}) =
                          IF c \in unsaved THEN Cardinality(unsaved) ELSE Cardinality(unsaved) + 1
  BY FS_CardinalityType, FS_AddElement, FS_RemoveElement DEF Bounded

\* A tally fits n when the saves still to come raise neither its row, nor what a request
\* has read of it, past n. A report that arrives fits in n + 1 where it counts, and
\* changes nothing where it does not.
LEMMA FitsArrives ==
    ASSUME TallyTypeInv, NEW c \in Callers, NEW report, IsReport(report), Arrive(c, report),
           NEW cell \in Cells, NEW n \in Nat, Fits(cell, n)
    PROVE  /\ Fits(cell, n + 1)'
           /\ cell \notin {CellsOf(report)[i] : i \in DOMAIN CellsOf(report)} => Fits(cell, n)'
  <1>1. PICK unsaved \in SUBSET InService : Bounded(cell, n, unsaved)
    BY DEF Fits
  <1>. DEFINE u == Cardinality(unsaved)
              m == Cardinality(unsaved \cup {c})
  <1>2. u \in Nat /\ c \notin unsaved /\ IsFiniteSet(unsaved \cup {c}) /\ m = u + 1
    BY <1>1, UnsavedCount, Arrived
  <1>3. /\ InService' = InService \cup {c} /\ rows' = rows
        /\ \A d \in InService : request'[d] = request[d]
        /\ ToRead(c)' = {CellsOf(report)[i] : i \in DOMAIN CellsOf(report)}
        /\ DOMAIN request'[c].seen = {}
    BY Arrived DEF Arrive
  <1>4. rows[cell] \in Nat /\ rows[cell] + u <= n
    BY <1>1 DEF Bounded, TallyTypeInv, TallyTypeOK
  <1>5. \A d \in InService : cell \in DOMAIN request[d].seen =>
          request[d].seen[cell] \in Nat
          /\ request[d].seen[cell] + u + (IF d \in unsaved THEN 0 ELSE 1) <= n
    BY <1>1 DEF Bounded, TallyTypeInv, TallyTypeOK
  <1>6. \A d \in InService : ToRead(d)' = ToRead(d) /\ (cell \in ToRead(d) => d \in unsaved)
    BY <1>1, <1>3 DEF Bounded, ToRead
  <1>. HIDE DEF u, m
  <1>7. Bounded(cell, n + 1, unsaved \cup {c})'
    <2>1. unsaved \cup {c} \subseteq InService'
      BY <1>1, <1>3
    <2>2. rows'[cell] + m <= n + 1
      BY <1>2, <1>3, <1>4
    <2>3. \A d \in InService' : cell \in ToRead(d)' => d \in unsaved \cup {c}
      BY <1>3, <1>6
    <2>4. \A d \in InService' : cell \in DOMAIN request'[d].seen =>
            request'[d].seen[cell] + m + (IF d \in unsaved \cup {c} THEN 0 ELSE 1) <= n + 1
      <3>. SUFFICES ASSUME NEW d \in InService', cell \in DOMAIN request'[d].seen
                    PROVE  request'[d].seen[cell] + m
                             + (IF d \in unsaved \cup {c} THEN 0 ELSE 1) <= n + 1
        OBVIOUS
      <3>1. d \in InService /\ d # c /\ request'[d] = request[d]
        BY <1>3, Arrived
      <3>2. QED
        BY <1>2, <1>5, <3>1
    <2>5. QED
      BY <1>2, <2>1, <2>2, <2>3, <2>4 DEF Bounded, m
  <1>8. ASSUME cell \notin ToRead(c)' PROVE Bounded(cell, n, unsaved)'
    <2>1. unsaved \subseteq InService' /\ IsFiniteSet(unsaved)
      BY <1>1, <1>3 DEF Bounded
    <2>2. \A d \in InService' : cell \in ToRead(d)' => d \in unsaved
      BY <1>3, <1>6, <1>8
    <2>3. \A d \in InService' : cell \in DOMAIN request'[d].seen =>
            request'[d].seen[cell] + u + (IF d \in unsaved THEN 0 ELSE 1) <= n
      BY <1>3, <1>5
    <2>4. QED
      BY <1>3, <1>4, <2>1, <2>2, <2>3 DEF Bounded, u
  <1>9. QED
    BY <1>3, <1>7, <1>8 DEF Fits, Bounded

\* A read, a save, a conflict and an abandoned save keep a tally within its reports.
LEMMA FitsServes ==
    ASSUME TallyTypeInv, NEW c \in Callers, Serve(c), NEW cell \in Cells, NEW n \in Nat, Fits(cell, n)
    PROVE  Fits(cell, n)'
  <1>1. PICK unsaved \in SUBSET InService : Bounded(cell, n, unsaved)
    BY DEF Fits
  <1>. DEFINE u == Cardinality(unsaved)
              v == Cardinality(unsaved \ {c})
  <1>2. /\ u \in Nat /\ IsFiniteSet(unsaved) /\ IsFiniteSet(unsaved \ {c})
        /\ v \in Nat /\ v = IF c \in unsaved THEN u - 1 ELSE u
    BY <1>1, UnsavedCount, FS_CardinalityType DEF Bounded
  <1>3. rows[cell] \in Nat /\ rows[cell] + u <= n
    BY <1>1 DEF Bounded, TallyTypeInv, TallyTypeOK
  <1>4. \A d \in InService : cell \in DOMAIN request[d].seen =>
          request[d].seen[cell] \in Nat
          /\ request[d].seen[cell] + u + (IF d \in unsaved THEN 0 ELSE 1) <= n
    BY <1>1 DEF Bounded, TallyTypeInv, TallyTypeOK
  <1>5. \A d \in InService : cell \in ToRead(d) => d \in unsaved
    BY <1>1 DEF Bounded
  <1>. HIDE DEF u, v
  <1>6. CASE Increment(c)
    <2>1. PICK new \in ToRead(c) :
            /\ ToRead(c) = ToRead(c)' \cup {new}
            /\ DOMAIN request'[c].seen = DOMAIN request[c].seen \cup {new}
            /\ \A other \in DOMAIN request'[c].seen :
                  request'[c].seen[other] = IF other = new THEN rows[new] ELSE request[c].seen[other]
      BY <1>6, Incremented
    <2>2. /\ InService' = InService /\ rows' = rows /\ c \in InService
          /\ \A d \in InService \ {c} : request'[d] = request[d]
      BY <1>6, Incremented DEF Increment
    <2>3. \A d \in InService' : cell \in ToRead(d)' => d \in unsaved
      BY <1>5, <2>1, <2>2 DEF ToRead
    <2>4. \A d \in InService' : cell \in DOMAIN request'[d].seen =>
            request'[d].seen[cell] + u + (IF d \in unsaved THEN 0 ELSE 1) <= n
      <3>1. cell \in DOMAIN request'[c].seen =>
              request'[c].seen[cell] + u + (IF c \in unsaved THEN 0 ELSE 1) <= n
        <4>1. CASE cell = new
          BY <1>2, <1>3, <1>5, <2>1, <2>2, <4>1
        <4>2. CASE cell # new
          BY <1>4, <2>1, <2>2, <4>2
        <4>3. QED  BY <4>1, <4>2
      <3>2. QED
        BY <1>4, <2>2, <3>1
    <2>5. Bounded(cell, n, unsaved)'
      BY <1>1, <1>2, <1>3, <2>2, <2>3, <2>4 DEF Bounded, u
    <2>6. QED
      BY <1>1, <2>2, <2>5 DEF Fits
  <1>7. CASE ~ Increment(c)
    <2>1. /\ c \in InService
          /\ InService' = InService \/ InService' = InService \ {c}
          /\ \A d \in InService' : request'[d] = request[d]
          /\ c \in InService' => SaveChanges(c)
      BY <1>7, Ended DEF Serve, SaveChanges, SaveRefused, Abandon, Served, InService
    <2>2. \A d \in InService' : ToRead(d)' = ToRead(d)
      BY <2>1 DEF ToRead
    <2>3. SaveChanges(c) => ToRead(c) = {}
      BY DEF SaveChanges, Served, ToRead
    <2>4. rows'[cell] + v <= n
      <3>1. CASE rows' = rows
        BY <1>2, <1>3, <3>1
      <3>2. CASE rows' = Written(c)
        BY <1>2, <1>3, <1>4, <2>1, <3>2, SavedRows
      <3>3. QED
        BY <1>7, <3>1, <3>2 DEF Serve, SaveChanges, SaveRefused, Abandon
    <2>5. \A d \in InService' : cell \in ToRead(d)' => d \in unsaved \ {c}
      BY <1>5, <2>1, <2>2, <2>3
    <2>6. \A d \in InService' : cell \in DOMAIN request'[d].seen =>
            request'[d].seen[cell] + v + (IF d \in unsaved \ {c} THEN 0 ELSE 1) <= n
      <3>. SUFFICES ASSUME NEW d \in InService', cell \in DOMAIN request'[d].seen
                    PROVE  request'[d].seen[cell] + v
                             + (IF d \in unsaved \ {c} THEN 0 ELSE 1) <= n
        OBVIOUS
      <3>1. d \in InService /\ request'[d] = request[d]
        BY <2>1
      <3>2. QED
        BY <1>2, <1>4, <3>1
    <2>7. Bounded(cell, n, unsaved \ {c})' /\ unsaved \ {c} \subseteq InService'
      BY <1>1, <1>2, <2>1, <2>4, <2>5, <2>6 DEF Bounded, v
    <2>8. QED
      BY <2>7 DEF Fits
  <1>8. QED  BY <1>6, <1>7

\* The reports of a question that came split into its two outcomes, and each tally fits
\* its share: the report that arrives joins the share of its own outcome.
LEMMA NoneTooManyArrives ==
    ASSUME TallyTypeInv, NoneTooMany, NEW c \in Callers, NEW report, IsReport(report),
           Arrive(c, report)
    PROVE  NoneTooMany'
  <1>. SUFFICES ASSUME NEW q \in Questions
                PROVE  \E m, n \in 0 .. posted'[q] :
                          m + n = posted'[q] /\ Fits(Cell(q, TRUE), m)' /\ Fits(Cell(q, FALSE), n)'
    BY DEF NoneTooMany
  <1>. DEFINE cells == {CellsOf(report)[i] : i \in DOMAIN CellsOf(report)}
  <1>1. posted[q] \in Nat
    BY DEF TallyTypeInv, TallyTypeOK
  <1>2. PICK m \in 0 .. posted[q], n \in 0 .. posted[q] :
          m + n = posted[q] /\ Fits(Cell(q, TRUE), m) /\ Fits(Cell(q, FALSE), n)
    BY DEF NoneTooMany
  <1>3. m \in Nat /\ n \in Nat /\ Cell(q, TRUE) \in Cells /\ Cell(q, FALSE) \in Cells
    <2>1. m \in Nat /\ n \in Nat
      BY <1>1, <1>2
    <2>2. QED
      BY <2>1, CellIsACell
  <1>4. posted'[q] = IF q \in QuestionsOf(report) THEN posted[q] + 1 ELSE posted[q]
    BY Arrived
  <1>5. /\ (Cell(q, TRUE) \in cells \/ Cell(q, FALSE) \in cells) <=> q \in QuestionsOf(report)
        /\ ~ (Cell(q, TRUE) \in cells /\ Cell(q, FALSE) \in cells)
    BY CellsOfReport
  <1>6. /\ Fits(Cell(q, TRUE), m + 1)'
        /\ Cell(q, TRUE) \notin cells => Fits(Cell(q, TRUE), m)'
    BY <1>2, <1>3, FitsArrives
  <1>7. /\ Fits(Cell(q, FALSE), n + 1)'
        /\ Cell(q, FALSE) \notin cells => Fits(Cell(q, FALSE), n)'
    BY <1>2, <1>3, FitsArrives
  <1>. HIDE DEF cells
  <1>8. CASE Cell(q, TRUE) \in cells
    <2>1. posted'[q] = posted[q] + 1 /\ Cell(q, FALSE) \notin cells
      BY <1>4, <1>5, <1>8
    <2>2. m + 1 \in 0 .. posted'[q] /\ n \in 0 .. posted'[q] /\ m + 1 + n = posted'[q]
      BY <1>1, <1>2, <2>1
    <2>3. QED
      BY <1>6, <1>7, <2>1, <2>2
  <1>9. CASE Cell(q, FALSE) \in cells
    <2>1. posted'[q] = posted[q] + 1 /\ Cell(q, TRUE) \notin cells
      BY <1>4, <1>5, <1>9
    <2>2. m \in 0 .. posted'[q] /\ n + 1 \in 0 .. posted'[q] /\ m + (n + 1) = posted'[q]
      BY <1>1, <1>2, <2>1
    <2>3. QED
      BY <1>6, <1>7, <2>1, <2>2
  <1>10. CASE Cell(q, TRUE) \notin cells /\ Cell(q, FALSE) \notin cells
    <2>1. posted'[q] = posted[q]
      BY <1>4, <1>5, <1>10
    <2>2. QED
      BY <1>2, <1>6, <1>7, <1>10, <2>1
  <1>11. QED  BY <1>8, <1>9, <1>10

\* Serving moves no report from one share to the other.
LEMMA NoneTooManyServes ==
    ASSUME TallyTypeInv, NoneTooMany, NEW c \in Callers, Serve(c) PROVE NoneTooMany'
  <1>. SUFFICES ASSUME NEW q \in Questions
                PROVE  \E m, n \in 0 .. posted'[q] :
                          m + n = posted'[q] /\ Fits(Cell(q, TRUE), m)' /\ Fits(Cell(q, FALSE), n)'
    BY DEF NoneTooMany
  <1>1. posted[q] \in Nat
    BY DEF TallyTypeInv, TallyTypeOK
  <1>2. posted' = posted
    BY DEF Serve, Increment, SaveChanges, SaveRefused, Abandon
  <1>3. PICK m \in 0 .. posted[q], n \in 0 .. posted[q] :
          m + n = posted[q] /\ Fits(Cell(q, TRUE), m) /\ Fits(Cell(q, FALSE), n)
    BY DEF NoneTooMany
  <1>4. m \in Nat /\ n \in Nat /\ Cell(q, TRUE) \in Cells /\ Cell(q, FALSE) \in Cells
    <2>1. m \in Nat /\ n \in Nat
      BY <1>1, <1>3
    <2>2. QED
      BY <2>1, CellIsACell
  <1>5. Fits(Cell(q, TRUE), m)'
    BY <1>3, <1>4, FitsServes
  <1>6. Fits(Cell(q, FALSE), n)'
    BY <1>3, <1>4, FitsServes
  <1>7. QED
    BY <1>2, <1>3, <1>5, <1>6

-----------------------------------------------------------------------------
(* One request in service at a time: every report is counted.              *)

LEMMA TotalIsANumber ==
    ASSUME TallyTypeInv, NEW q \in Questions
    PROVE  /\ rows[Cell(q, TRUE)] \in Nat /\ rows[Cell(q, FALSE)] \in Nat
           /\ Total(q) \in Nat /\ posted[q] \in Nat
           /\ Total(q) = rows[Cell(q, TRUE)] + rows[Cell(q, FALSE)]
  <1>. DEFINE yes == Cell(q, TRUE)
              no == Cell(q, FALSE)
  <1>1. yes \in Cells /\ no \in Cells
    BY CellIsACell
  <1>2. Total(q) = rows[yes] + rows[no]
    BY DEF Total
  <1>. HIDE DEF yes, no
  <1>3. rows[yes] \in Nat /\ rows[no] \in Nat /\ posted[q] \in Nat
    BY <1>1 DEF TallyTypeInv, TallyTypeOK
  <1>4. Total(q) \in Nat
    BY <1>2, <1>3
  <1>5. QED
    BY <1>2, <1>3, <1>4 DEF yes, no

\* Without overlap or abandonment, one request at a time stands between the tallies and
\* the reports, and its save has not been.
LEMMA NoneTooFewArrives ==
    ASSUME TallyTypeInv, NoneTooFew, NEW c \in Callers, NEW report, IsReport(report),
           Arrive(c, report)
    PROVE  NoneTooFew'
  <1>. SUFFICES ASSUME ~ overlapped', ~ abandoned'
                PROVE  /\ \A d, e \in InService' : d = e
                       /\ InService' # {}
                       /\ \A d \in InService' : BeforeSave(d)'
    BY DEF NoneTooFew, Idle
  <1>1. Idle /\ ~ overlapped /\ ~ abandoned /\ rows' = rows
    BY DEF Arrive
  <1>2. InService' = {c} /\ DOMAIN request'[c].seen = {}
    BY <1>1, Arrived DEF Idle
  <1>3. Mentioned(c)' = {CellsOf(report)[i] : i \in DOMAIN CellsOf(report)}
    BY <1>2, Arrived DEF Mentioned
  <1>4. ASSUME NEW q \in Questions
        PROVE  Total(q)' + (IF Asks(c, q)' THEN 1 ELSE 0) = posted'[q]
    <2>1. Total(q) = posted[q] /\ Total(q)' = Total(q) /\ Total(q) \in Nat
      BY <1>1, TotalIsANumber DEF NoneTooFew, Total
    <2>2. Asks(c, q)' <=> q \in QuestionsOf(report)
      BY <1>3, CellsOfReport DEF Asks
    <2>3. posted'[q] = IF q \in QuestionsOf(report) THEN posted[q] + 1 ELSE posted[q]
      BY Arrived
    <2>4. QED
      BY <2>1, <2>2, <2>3
  <1>5. BeforeSave(c)'
    BY <1>2, <1>4 DEF BeforeSave
  <1>6. QED
    BY <1>2, <1>5

\* Its save, once, makes the tallies what was reported.
LEMMA NoneTooFewServes ==
    ASSUME TallyTypeInv, SaysOne, NoneTooFew, NEW c \in Callers, Serve(c) PROVE NoneTooFew'
  <1>0. posted' = posted /\ overlapped' = overlapped /\ c \in InService
    BY DEF Serve, Increment, SaveChanges, SaveRefused, Abandon, Served
  <1>. SUFFICES ASSUME ~ overlapped', ~ abandoned'
                PROVE  /\ \A d, e \in InService' : d = e
                       /\ Idle' => \A q \in Questions : Total(q)' = posted'[q]
                       /\ \A d \in InService' : BeforeSave(d)' \/ AfterSave(d)'
    BY DEF NoneTooFew
  <1>1. ~ overlapped /\ ~ abandoned /\ ~ Abandon(c)
    BY <1>0 DEF Serve, Increment, SaveChanges, SaveRefused, Abandon
  <1>2. InService = {c} /\ (BeforeSave(c) \/ AfterSave(c))
    BY <1>0, <1>1 DEF NoneTooFew
  <1>3. CASE Increment(c)
    <2>1. PICK new \in ToRead(c) :
            /\ ToRead(c) = ToRead(c)' \cup {new}
            /\ DOMAIN request'[c].seen = DOMAIN request[c].seen \cup {new}
            /\ \A other \in DOMAIN request'[c].seen :
                  request'[c].seen[other] = IF other = new THEN rows[new] ELSE request[c].seen[other]
      BY <1>3, Incremented
    <2>2. InService' = {c} /\ rows' = rows
      BY <1>2, <1>3, Incremented DEF Increment
    <2>3. BeforeSave(c)
      BY <1>2, <2>1 DEF AfterSave, Served, ToRead
    <2>4. Mentioned(c)' = Mentioned(c)
      BY <2>1 DEF Mentioned
    <2>5. \A q \in Questions : (Asks(c, q)' <=> Asks(c, q)) /\ Total(q)' = Total(q)
      BY <2>2, <2>4 DEF Asks, Total
    <2>6. \A cell \in DOMAIN request'[c].seen : request'[c].seen[cell] = rows'[cell]
      BY <2>1, <2>2, <2>3 DEF BeforeSave
    <2>7. \A q \in Questions : Total(q)' + (IF Asks(c, q)' THEN 1 ELSE 0) = posted'[q]
      BY <1>0, <2>3, <2>5 DEF BeforeSave
    <2>8. BeforeSave(c)'
      BY <2>6, <2>7 DEF BeforeSave
    <2>9. QED
      BY <2>2, <2>8 DEF Idle
  <1>4. CASE SaveChanges(c)
    <2>1. /\ \A cell \in Cells :
                rows'[cell] = IF cell \in DOMAIN request[c].seen
                              THEN request[c].seen[cell] + 1 ELSE rows[cell]
          /\ Served(c)
      BY <1>0, <1>4, SavedRows DEF SaveChanges
    <2>2. Mentioned(c) = DOMAIN request[c].seen
      BY <2>1 DEF Mentioned, ToRead, Served
    <2>3. ASSUME NEW q \in Questions PROVE Total(q)' = posted'[q]
      <3>. DEFINE yes == Cell(q, TRUE)
                  no == Cell(q, FALSE)
      <3>1. /\ rows[yes] \in Nat /\ rows[no] \in Nat /\ yes \in Cells /\ no \in Cells
            /\ Total(q) = rows[yes] + rows[no] /\ Total(q)' = rows'[yes] + rows'[no]
        BY CellIsACell, TotalIsANumber DEF Total
      <3>2. /\ ~ (yes \in DOMAIN request[c].seen /\ no \in DOMAIN request[c].seen)
            /\ Asks(c, q) <=> yes \in DOMAIN request[c].seen \/ no \in DOMAIN request[c].seen
        BY <1>0, <2>2 DEF SaysOne, Asks
      <3>. HIDE DEF yes, no
      <3>3. CASE BeforeSave(c)
        <4>1. /\ \A cell \in DOMAIN request[c].seen : request[c].seen[cell] = rows[cell]
              /\ Total(q) + (IF Asks(c, q) THEN 1 ELSE 0) = posted[q]
          BY <3>3 DEF BeforeSave
        <4>2. QED
          BY <1>0, <2>1, <3>1, <3>2, <4>1
      <3>4. CASE AfterSave(c)
        <4>1. /\ \A cell \in DOMAIN request[c].seen : request[c].seen[cell] + 1 = rows[cell]
              /\ Total(q) = posted[q]
          BY <3>4 DEF AfterSave
        <4>2. rows'[yes] = rows[yes] /\ rows'[no] = rows[no]
          BY <2>1, <3>1, <4>1
        <4>3. QED
          BY <1>0, <3>1, <4>1, <4>2
      <3>5. QED  BY <1>2, <3>3, <3>4
    <2>4. CASE Ends(c)
      BY <1>2, <2>3, <2>4, Ended
    <2>5. CASE UNCHANGED request
      <3>1. InService' = {c} /\ Served(c)'
        BY <1>2, <2>1, <2>5 DEF InService, Served
      <3>2. \A cell \in DOMAIN request[c].seen : cell \in Cells /\ request[c].seen[cell] \in Nat
        BY <1>0 DEF TallyTypeInv, TallyTypeOK
      <3>3. \A cell \in DOMAIN request'[c].seen : request'[c].seen[cell] + 1 = rows'[cell]
        BY <2>1, <2>5, <3>2
      <3>4. AfterSave(c)'
        BY <2>3, <3>1, <3>3 DEF AfterSave
      <3>5. QED
        BY <3>1, <3>4 DEF Idle
    <2>6. QED  BY <1>4, <2>4, <2>5 DEF SaveChanges
  <1>5. CASE SaveRefused(c)
    <2>1. AfterSave(c)
      BY <1>2, <1>5 DEF SaveRefused, KeyTaken, BeforeSave
    <2>2. \A q \in Questions : Total(q)' = posted'[q]
      BY <1>0, <1>5, <2>1 DEF AfterSave, SaveRefused, Total
    <2>3. QED
      BY <1>2, <1>5, <2>2, Ended DEF SaveRefused
  <1>6. QED  BY <1>1, <1>3, <1>4, <1>5 DEF Serve

-----------------------------------------------------------------------------
LEMMA TallyInvInit == TallyInit => TallyInv
  <1>. SUFFICES ASSUME TallyInit PROVE TallyInv
    OBVIOUS
  <1>1. InService = {} /\ request = [c \in InService |-> request[c]]
    BY DEF TallyInit, InService
  <1>2. rows \in [Cells -> Nat] /\ posted \in [Questions -> Nat]
    BY DEF TallyInit
  <1>3. faults \in 0 .. MaxFaults
    BY FaultsAssumption DEF TallyInit
  <1>4. TallyTypeInv
    BY <1>1, <1>2, <1>3 DEF TallyInit, TallyTypeInv, TallyTypeOK
  <1>5. SaysOne
    BY <1>1 DEF SaysOne
  <1>6. ASSUME NEW q \in Questions
        PROVE  /\ posted[q] = 0 /\ Total(q) = 0
               /\ rows[Cell(q, TRUE)] = 0 /\ rows[Cell(q, FALSE)] = 0
    <2>1. \A cell \in Cells : rows[cell] = 0
      BY DEF TallyInit
    <2>2. rows[Cell(q, TRUE)] = 0 /\ rows[Cell(q, FALSE)] = 0
      BY <2>1, CellIsACell
    <2>3. Total(q) = rows[Cell(q, TRUE)] + rows[Cell(q, FALSE)]
      BY <1>4, TotalIsANumber
    <2>4. posted[q] = 0 /\ Total(q) = 0
      BY <2>2, <2>3 DEF TallyInit
    <2>5. QED
      BY <2>2, <2>4
  <1>7. IsFiniteSet({}) /\ Cardinality({}) = 0
    BY FS_EmptySet
  <1>8. \A cell : rows[cell] = 0 => Fits(cell, 0)
    BY <1>1, <1>7 DEF Fits, Bounded
  <1>9. NoneTooMany
    <2>. SUFFICES ASSUME NEW q \in Questions
                  PROVE  \E m, n \in 0 .. posted[q] :
                            m + n = posted[q] /\ Fits(Cell(q, TRUE), m) /\ Fits(Cell(q, FALSE), n)
      BY DEF NoneTooMany
    <2>. DEFINE yes == Cell(q, TRUE)
                no == Cell(q, FALSE)
    <2>1. posted[q] = 0 /\ rows[yes] = 0 /\ rows[no] = 0
      BY <1>6
    <2>. HIDE DEF yes, no
    <2>2. Fits(yes, 0) /\ Fits(no, 0)
      BY <1>8, <2>1
    <2>3. 0 \in 0 .. posted[q] /\ 0 + 0 = posted[q]
      BY <2>1
    <2>4. \E m, n \in 0 .. posted[q] : m + n = posted[q] /\ Fits(yes, m) /\ Fits(no, n)
      BY <2>2, <2>3
    <2>5. QED
      BY <2>4 DEF yes, no
  <1>10. NoneTooFew
    BY <1>1, <1>6 DEF NoneTooFew
  <1>11. QED
    BY <1>4, <1>5, <1>9, <1>10 DEF TallyInv

LEMMA TallyInvArrives ==
    ASSUME TallyInv, NEW c \in Callers, NEW report, IsReport(report), Arrive(c, report)
    PROVE  TallyInv'
  BY Arrived, SaysOneArrives, NoneTooManyArrives, NoneTooFewArrives DEF TallyInv

LEMMA TallyInvServes == ASSUME TallyInv, NEW c \in Callers, Serve(c) PROVE TallyInv'
  BY ServeTypes, SaysOneServes, NoneTooManyServes, NoneTooFewServes DEF TallyInv

\* The bookkeeping gives the property: both shares together are the reports.
LEMMA CountsFollow == TallyInv => CountsAreTrue
  <1>. SUFFICES ASSUME TallyInv, NEW q \in Questions
                PROVE  /\ Total(q) <= posted[q]
                       /\ Idle /\ ~ overlapped /\ ~ abandoned => Total(q) = posted[q]
    BY DEF CountsAreTrue
  <1>1. PICK m \in 0 .. posted[q], n \in 0 .. posted[q] :
          m + n = posted[q] /\ Fits(Cell(q, TRUE), m) /\ Fits(Cell(q, FALSE), n)
    BY DEF TallyInv, NoneTooMany
  <1>2. PICK u : Bounded(Cell(q, TRUE), m, u)
    BY <1>1 DEF Fits
  <1>3. PICK v : Bounded(Cell(q, FALSE), n, v)
    BY <1>1 DEF Fits
  <1>4. Cardinality(u) \in Nat /\ Cardinality(v) \in Nat
    BY <1>2, <1>3, UnsavedCount
  <1>5. /\ rows[Cell(q, TRUE)] \in Nat /\ rows[Cell(q, FALSE)] \in Nat /\ posted[q] \in Nat
        /\ Total(q) = rows[Cell(q, TRUE)] + rows[Cell(q, FALSE)]
    BY TotalIsANumber DEF TallyInv, Total
  <1>. DEFINE yes == rows[Cell(q, TRUE)]
              no == rows[Cell(q, FALSE)]
  <1>6. yes + Cardinality(u) <= m /\ no + Cardinality(v) <= n
    BY <1>2, <1>3 DEF Bounded
  <1>. HIDE DEF yes, no
  <1>7. Total(q) <= posted[q]
    <2>1. yes \in Nat /\ no \in Nat /\ Total(q) = yes + no
      BY <1>5 DEF yes, no
    <2>2. m \in Nat /\ n \in Nat /\ m + n = posted[q]
      BY <1>1, <1>5
    <2>. DEFINE uu == Cardinality(u)
                vv == Cardinality(v)
    <2>3. uu \in Nat /\ vv \in Nat /\ yes + uu <= m /\ no + vv <= n
      BY <1>4, <1>6
    <2>. HIDE DEF uu, vv
    <2>4. QED
      BY <2>1, <2>2, <2>3
  <1>8. Idle /\ ~ overlapped /\ ~ abandoned => Total(q) = posted[q]
    BY DEF TallyInv, NoneTooFew
  <1>9. QED  BY <1>7, <1>8

LEMMA TallyInvIdles ==
    ASSUME TallyInv, UNCHANGED tally, UNCHANGED faults \/ Fault
    PROVE  TallyInv'
  <1>1. faults' \in 0 .. MaxFaults
    <2>1. MaxFaults \in Nat /\ faults \in 0 .. MaxFaults
      BY FaultsAssumption DEF TallyInv, TallyTypeInv, TallyTypeOK
    <2>2. QED
      BY <2>1 DEF Fault
  <1>2. /\ rows' = rows /\ request' = request /\ abandoned' = abandoned
        /\ posted' = posted /\ overlapped' = overlapped
    BY DEF tally
  <1>3. TallyTypeInv'
    BY <1>1, <1>2 DEF TallyInv, TallyTypeInv, TallyTypeOK, InService
  <1>4. SaysOne'
    BY <1>2 DEF TallyInv, SaysOne, InService, Mentioned, ToRead
  <1>5. NoneTooMany'
    <2>1. \A cell, n : Fits(cell, n) => Fits(cell, n)'
      BY <1>2 DEF Fits, Bounded, InService, ToRead
    <2>. SUFFICES ASSUME NEW q \in Questions
                  PROVE  \E m, n \in 0 .. posted'[q] :
                             m + n = posted'[q] /\ Fits(Cell(q, TRUE), m)' /\ Fits(Cell(q, FALSE), n)'
      BY DEF NoneTooMany
    <2>3. PICK m \in 0 .. posted[q], n \in 0 .. posted[q] :
            m + n = posted[q] /\ Fits(Cell(q, TRUE), m) /\ Fits(Cell(q, FALSE), n)
      BY DEF TallyInv, NoneTooMany
    <2>4. Fits(Cell(q, TRUE), m)' /\ Fits(Cell(q, FALSE), n)'
      BY <2>1, <2>3
    <2>5. m \in 0 .. posted'[q] /\ n \in 0 .. posted'[q] /\ m + n = posted'[q]
      BY <1>2, <2>3
    <2>6. QED
      BY <1>2, <2>3, <2>4
  <1>6. NoneTooFew'
    <2>1. \A q \in Questions : Total(q)' = Total(q)
      BY <1>2 DEF Total
    <2>2. \A c : Mentioned(c)' = Mentioned(c)
      BY <1>2 DEF Mentioned, ToRead
    <2>3. \A c : \A q \in Questions : Asks(c, q)' <=> Asks(c, q)
      BY <2>2 DEF Asks
    <2>4. \A c : BeforeSave(c) => BeforeSave(c)'
      BY <1>2, <2>1, <2>3 DEF BeforeSave
    <2>5. \A c : AfterSave(c) => AfterSave(c)'
      BY <1>2, <2>1 DEF AfterSave, Served, InService
    <2>6. QED
      BY <1>2, <2>1, <2>4, <2>5 DEF TallyInv, NoneTooFew, Idle, InService
  <1>7. QED
    BY <1>3, <1>4, <1>5, <1>6 DEF TallyInv

-----------------------------------------------------------------------------
(* What a run says, and what is made of it.                                *)

LEMMA Mails ==
    ASSUME NEW m, NEW n
    PROVE  /\ Append(<<>>, m) = <<m>> /\ Append(<<m>>, n) = <<m, n>>
           /\ Head(<<m>>) = m /\ Head(<<m, n>>) = m
           /\ Tail(<<m>>) = <<>> /\ Tail(<<m, n>>) = <<n>>
           /\ <<m>> # <<>> /\ <<m, n>> # <<>>
  <1>. DEFINE S == {m, n}
  <1>1. <<>> \in Seq(S) /\ <<m>> \in Seq(S) /\ <<m, n>> \in Seq(S)
    OBVIOUS
  <1>2. Append(<<>>, m) = <<m>>
    OBVIOUS
  <1>3. Append(<<m>>, n) = <<m, n>>
    <2>. DEFINE s == Append(<<m>>, n)
                t == <<m, n>>
    <2>1. s \in Seq(S) /\ t \in Seq(S) /\ Len(s) = 2 /\ Len(t) = 2
      BY <1>1
    <2>2. s[1] = m /\ s[2] = n
      OBVIOUS
    <2>3. t[1] = m /\ t[2] = n
      OBVIOUS
    <2>. HIDE DEF s, t, S
    <2>4. \A i \in 1 .. Len(s) : s[i] = t[i]
      BY <2>1, <2>2, <2>3
    <2>5. s = t
      BY <2>1, <2>4, SeqEqual
    <2>6. QED
      BY <2>5 DEF s, t
  <1>4. Head(<<m>>) = m /\ Head(<<m, n>>) = m
    OBVIOUS
  <1>5. Tail(<<m>>) = <<>>
    <2>1. Tail(<<m>>) \in Seq(S) /\ Len(Tail(<<m>>)) = 0
      BY <1>1
    <2>2. \A s \in Seq(S) : Len(s) = 0 => s = <<>>
      <3>1. SUFFICES ASSUME NEW s \in Seq(S), s # <<>> PROVE Len(s) \in Nat \ {0}
        OBVIOUS
      <3>2. QED
        BY <3>1, EmptySeq
    <2>3. QED
      BY <2>1, <2>2
  <1>6. Tail(<<m, n>>) = <<n>>
    OBVIOUS
  <1>7. QED
    BY <1>2, <1>3, <1>4, <1>5, <1>6

\* An attempt number is between one and the cap.
LEMMA NextAttemptIsOne ==
    ASSUME NEW frames, NEW numbers \in [frames -> 0 .. MaxAttempt], NEW step \in frames
    PROVE  NextAttempt(numbers, step) \in 1 .. MaxAttempt
  BY AttemptAssumption DEF NextAttempt

\* Taking a frame's attempt leaves counts.
LEMMA TakenAreCounts ==
    ASSUME NEW steps, NEW numbers \in [steps -> 0 .. MaxAttempt], NEW frames
    PROVE  Taken(numbers, frames) \in [steps -> 0 .. MaxAttempt]
  <1>1. \A f \in steps : NextAttempt(numbers, f) \in 0 .. MaxAttempt
    BY NextAttemptIsOne
  <1>2. QED
    BY <1>1 DEF Taken

\* Each thing a run's output makes of the frames it is about is a report.
LEMMA FramesOfAreReports ==
    ASSUME NEW numbers \in [Steps -> 0 .. MaxAttempt], NEW output \in Outputs,
           NEW report \in FramesOf(output, Docs, numbers)
    PROVE  IsReport(report)
  <1>. DEFINE outcomes == OutcomesFrom(output)
              Rests(check) == IF check \in DOMAIN Docs THEN FramesFrom(Docs[check]) ELSE {}
              About(step) == {i \in DOMAIN outcomes : step \in Rests(outcomes[i].check)}
  <1>1. DOMAIN outcomes \subseteq Nat /\ \A i \in DOMAIN outcomes : outcomes[i].passed \in BOOLEAN
    BY LabAssumption DEF OutcomesFrom
  <1>2. \A check : \A step \in Rests(check) : check \in Checks /\ step \in Steps
    BY LabAssumption
  <1>3. PICK step \in UNION {Rests(outcomes[i].check) : i \in DOMAIN outcomes} :
          report = [step |-> step, attempt |-> NextAttempt(numbers, step),
                    results |-> Restrict(outcomes, About(step))]
    BY DEF FramesOf
  <1>. HIDE DEF outcomes, Rests
  <1>4. step \in Steps
    BY <1>2, <1>3
  <1>5. NextAttempt(numbers, step) \in 1 .. MaxAttempt
    BY <1>4, NextAttemptIsOne
  <1>6. /\ DOMAIN report.results = About(step)
        /\ \A i \in About(step) : report.results[i] = outcomes[i]
    BY <1>3 DEF Restrict
  <1>7. \A i \in About(step) :
          i \in Nat /\ outcomes[i].check \in Checks /\ outcomes[i].passed \in BOOLEAN
    BY <1>1, <1>2
  <1>8. report.step \in Steps /\ report.attempt \in 1 .. MaxAttempt
    BY <1>3, <1>4, <1>5
  <1>9. QED
    BY <1>6, <1>7, <1>8 DEF IsReport

-----------------------------------------------------------------------------
(* What a worker has said that is not heard, step by step.                 *)

LEMMA BootFits == ASSUME WorkInv, Boot PROVE WorkInv'
  <1>1. worker = "booting" /\ mail = <<>> /\ job = None /\ status = "loading" /\ ~ Superseded
    BY DEF Boot, WorkInv, WorkerFits
  <1>2. \/ worker' = "up" /\ mail' = <<Ready>>
        \/ worker' = "bad" /\ mail' = <<BootFailed>>
    BY <1>1, Mails DEF Boot, Say, Ready, BootFailed
  <1>3. PaneTypes'
    BY <1>2 DEF Boot, WorkInv, PaneTypes, history
  <1>4. MailFits'
    BY <1>1, <1>2 DEF Boot, MailFits, Superseded
  <1>5. WorkerFits'
    BY <1>1, <1>2 DEF Boot, WorkInv, WorkerFits, Superseded
  <1>6. QED  BY <1>3, <1>4, <1>5 DEF WorkInv

\* How the worker, its messages and the pane fit each other, action by action.
LEMMA DieFits == ASSUME WorkInv, Die PROVE WorkInv'
  <1>1. worker' = "dead" /\ job' = None /\ Superseded' = Superseded /\ status' = status
        /\ asked' = asked
    BY DEF Die, Superseded
  <1>2. \/ mail = <<>> /\ mail' = <<Error>>
        \/ /\ mail = <<Ready>> /\ mail' = <<Ready, Error>>
           /\ status = "loading" /\ ~ Superseded
        \/ \E output \in Outputs :
              /\ mail = <<Result(asked, output)>> /\ mail' = <<Result(asked, output), Error>>
              /\ asked \in Runs /\ (status = "running" \/ Superseded)
    BY Mails DEF Die, Say, Error, WorkInv, MailFits
  <1>3. PaneTypes'
    BY <1>1 DEF Die, WorkInv, PaneTypes, history
  <1>4. MailFits'
    BY <1>1, <1>2 DEF MailFits
  <1>5. WorkerFits'
    BY <1>1 DEF Die, WorkInv, WorkerFits, Superseded
  <1>6. QED  BY <1>3, <1>4, <1>5 DEF WorkInv

LEMMA AnswerFits == ASSUME WorkInv, Answer PROVE WorkInv'
  <1>1. /\ worker = "up" /\ job = asked /\ asked \in Runs /\ mail = <<>>
        /\ status = "running" \/ Superseded
    BY DEF Answer, WorkInv, WorkerFits, PaneTypes
  <1>2. /\ worker' = "up" /\ job' = None /\ Superseded' = Superseded /\ status' = status
        /\ asked' = asked
    BY <1>1 DEF Answer, Superseded
  <1>3. \E output \in Outputs : mail' = <<Result(asked, output)>>
    BY <1>1, Mails DEF Answer, Say, Result
  <1>4. PaneTypes'
    BY <1>2 DEF Answer, WorkInv, PaneTypes, history
  <1>5. MailFits'
    BY <1>1, <1>2, <1>3 DEF MailFits
  <1>6. WorkerFits'
    BY <1>1, <1>2 DEF Answer, WorkInv, WorkerFits, Superseded
  <1>7. QED  BY <1>4, <1>5, <1>6 DEF WorkInv

LEMMA CheckFits == ASSUME WorkInv, Check PROVE WorkInv'
  <1>1. /\ status = "ready" /\ worker \in {"up", "dead"} /\ ~ Superseded
        /\ asked < MaxRuns /\ asked' = asked + 1 /\ asked \in 0 .. MaxRuns
        /\ status' = "running" /\ job' = asked' /\ result' = None
        /\ UNCHANGED <<stopped, generation, generationRef, listening, worker, mail, stub, ended>>
    BY DEF Check, WorkInv, WorkerFits, PaneTypes, history
  <1>2. asked' \in Runs
    <2>1. MaxRuns \in Nat
      BY LabBounds
    <2>2. QED
      BY <1>1, <2>1 DEF Runs
  <1>3. asked' \in 0 .. MaxRuns
    BY <1>2 DEF Runs
  <1>4. PaneTypes'
    BY <1>1, <1>2, <1>3 DEF WorkInv, PaneTypes
  <1>5. \/ mail = <<>>
        \/ mail = <<Error>> /\ worker = "dead"
    BY <1>1 DEF WorkInv, MailFits
  <1>6. MailFits'
    BY <1>1, <1>5 DEF MailFits
  <1>7. WorkerFits'
    BY <1>1, <1>2, <1>5 DEF WorkInv, WorkerFits, Superseded
  <1>8. QED  BY <1>4, <1>6, <1>7 DEF WorkInv

LEMMA StopFits == ASSUME WorkInv, Stop PROVE WorkInv'
  <1>1. /\ status = "running" /\ worker \in {"up", "dead"} /\ ~ Superseded /\ asked \in Runs
        /\ generationRef < MaxStops /\ generationRef \in 0 .. MaxStops /\ listening = generationRef
        /\ stopped' = TRUE /\ status' = "loading"
        /\ generation' = generationRef + 1 /\ generationRef' = generationRef + 1
        /\ ended' = ended \cup {asked}
        /\ UNCHANGED <<listening, worker, job, mail, stub, asked, result>>
    BY DEF Stop, MoveOn, WorkInv, WorkerFits, PaneTypes, Generations, Superseded
  <1>2. generationRef' \in Generations
    BY <1>1, LabBounds DEF Generations
  <1>3. Superseded' /\ listening' <= generationRef'
    BY <1>1 DEF Superseded
  <1>4. PaneTypes'
    BY <1>1, <1>2 DEF WorkInv, PaneTypes
  <1>5. MailFits'
    BY <1>1, <1>3 DEF WorkInv, MailFits
  <1>6. WorkerFits'
    BY <1>1, <1>3 DEF WorkInv, WorkerFits
  <1>7. QED  BY <1>4, <1>5, <1>6 DEF WorkInv

LEMMA ReplaceFits == ASSUME WorkInv, Replace PROVE WorkInv'
  <1>1. /\ generation = generationRef /\ status = "loading" /\ listening' = generationRef'
        /\ worker' = "booting" /\ job' = None /\ mail' = <<>>
        /\ UNCHANGED <<status, stopped, generation, generationRef, stub, asked, result, ended>>
    BY DEF Replace, WorkInv, WorkerFits, Superseded, history
  <1>2. PaneTypes'
    BY <1>1 DEF WorkInv, PaneTypes
  <1>3. WorkerFits'
    BY <1>1 DEF WorkInv, WorkerFits, PaneTypes, Generations, Superseded
  <1>4. MailFits'
    BY <1>1 DEF MailFits
  <1>5. QED  BY <1>2, <1>3, <1>4 DEF WorkInv

(* No two of the things a worker can have said are the same. *)
LEMMA SaidOnce ==
    ASSUME NEW r, NEW o, NEW s, NEW p
    PROVE  /\ <<Ready>> # <<BootFailed>> /\ <<Ready>> # <<Error>> /\ <<BootFailed>> # <<Error>>
           /\ <<Ready>> # <<Ready, Error>> /\ <<BootFailed>> # <<Ready, Error>>
           /\ <<Error>> # <<Ready, Error>>
           /\ <<Result(r, o)>> \notin {<<Ready>>, <<BootFailed>>, <<Error>>, <<Ready, Error>>}
           /\ <<Result(r, o), Error>> \notin {<<Ready>>, <<BootFailed>>, <<Error>>, <<Ready, Error>>}
           /\ <<Result(r, o)>> # <<Result(s, p), Error>>
  BY DEF Ready, BootFailed, Error, Result

(* What the pane hears next, and what is left to hear then. *)
LEMMA HeardNext ==
    ASSUME WorkInv, mail # <<>>
    PROVE  \/ /\ Head(mail) = Ready /\ status = "loading" /\ ~ Superseded /\ job = None
              /\ \/ Tail(mail) = <<>> /\ worker = "up"
                 \/ Tail(mail) = <<Error>> /\ worker = "dead"
           \/ /\ Head(mail) = BootFailed /\ Tail(mail) = <<>>
              /\ worker = "bad" /\ job = None /\ status = "loading" /\ ~ Superseded
           \/ Head(mail) = Error /\ Tail(mail) = <<>> /\ worker = "dead"
           \/ /\ \E output \in Outputs : Head(mail) = Result(asked, output)
              /\ asked \in Runs /\ job = None
              /\ status = "running" \/ Superseded
              /\ \/ Tail(mail) = <<>> /\ worker = "up"
                 \/ Tail(mail) = <<Error>> /\ worker = "dead"
  <1>1. CASE mail = <<Ready>> \/ mail = <<Ready, Error>>
    <2>1. Head(mail) = Ready
      BY <1>1, Mails
    <2>2. mail = <<Ready>> => Tail(mail) = <<>>
      BY Mails
    <2>3. mail = <<Ready, Error>> => Tail(mail) = <<Error>>
      BY Mails
    <2>4. /\ status = "loading" /\ ~ Superseded /\ job = None
          /\ \/ mail = <<Ready>> /\ worker = "up"
             \/ mail = <<Ready, Error>> /\ worker = "dead"
      BY <1>1, SaidOnce DEF WorkInv, MailFits
    <2>5. QED
      BY <2>1, <2>2, <2>3, <2>4
  <1>2. CASE mail = <<BootFailed>> \/ mail = <<Error>>
    <2>1. mail = <<BootFailed>> => Head(mail) = BootFailed /\ Tail(mail) = <<>>
      BY Mails
    <2>2. mail = <<Error>> => Head(mail) = Error /\ Tail(mail) = <<>>
      BY Mails
    <2>3. \/ mail = <<BootFailed>> /\ worker = "bad" /\ job = None /\ status = "loading" /\ ~ Superseded
          \/ mail = <<Error>> /\ worker = "dead"
      BY <1>2, SaidOnce DEF WorkInv, MailFits
    <2>4. QED
      BY <2>1, <2>2, <2>3
  <1>3. CASE \E output \in Outputs :
               mail = <<Result(asked, output)>> \/ mail = <<Result(asked, output), Error>>
    <2>1. PICK output \in Outputs :
            mail = <<Result(asked, output)>> \/ mail = <<Result(asked, output), Error>>
      BY <1>3
    <2>2. Head(mail) = Result(asked, output)
      BY <2>1, Mails
    <2>3. mail = <<Result(asked, output)>> => Tail(mail) = <<>>
      BY Mails
    <2>4. mail = <<Result(asked, output), Error>> => Tail(mail) = <<Error>>
      BY Mails
    <2>5. /\ asked \in Runs /\ job = None
          /\ status = "running" \/ Superseded
          /\ \/ mail = <<Result(asked, output)>> /\ worker = "up"
             \/ mail = <<Result(asked, output), Error>> /\ worker = "dead"
      BY <2>1, SaidOnce DEF WorkInv, MailFits
    <2>6. QED
      BY <2>2, <2>3, <2>4, <2>5
  <1>4. QED
    BY <1>1, <1>2, <1>3 DEF WorkInv, MailFits

LEMMA DeliverFits == ASSUME WorkInv, Deliver PROVE WorkInv'
  <1>1. /\ mail # <<>> /\ mail' = Tail(mail)
        /\ UNCHANGED <<generation, generationRef, listening, worker, job, stub, asked>>
        /\ Superseded' = Superseded
    BY DEF Deliver, Superseded
  <1>2. CASE Superseded
    <2>1. UNCHANGED <<status, stopped, result, ended>>
      BY <1>2 DEF Deliver, Drop, history
    <2>2. PaneTypes'
      BY <1>1, <2>1 DEF WorkInv, PaneTypes
    <2>3. \/ mail' = <<>>
          \/ mail' = <<Error>> /\ worker = "dead"
      BY <1>1, <1>2, HeardNext
    <2>4. MailFits'
      BY <1>1, <2>3 DEF MailFits
    <2>5. WorkerFits'
      BY <1>1, <2>1 DEF WorkInv, WorkerFits
    <2>6. QED  BY <2>2, <2>4, <2>5 DEF WorkInv
  <1>3. CASE ~ Superseded /\ Head(mail) = Ready
    <2>1. stopped' = FALSE /\ status' = "ready" /\ UNCHANGED <<result, ended>>
      BY <1>3 DEF Deliver, Learn, history, Ready
    <2>2. /\ job = None
          /\ \/ mail' = <<>> /\ worker = "up"
             \/ mail' = <<Error>> /\ worker = "dead"
      BY <1>1, <1>3, HeardNext DEF Ready, BootFailed, Error, Result
    <2>3. PaneTypes'
      BY <1>1, <2>1 DEF WorkInv, PaneTypes
    <2>4. MailFits'
      BY <1>1, <2>2 DEF MailFits
    <2>5. WorkerFits'
      BY <1>1, <1>3, <2>1, <2>2 DEF WorkInv, WorkerFits
    <2>6. QED  BY <2>3, <2>4, <2>5 DEF WorkInv
  <1>4. CASE ~ Superseded /\ (Head(mail) = BootFailed \/ Head(mail) = Error)
    <2>1. status' = "failed" /\ UNCHANGED <<stopped, result, ended>>
      BY <1>4 DEF Deliver, Learn, history, BootFailed, Error
    <2>2. /\ mail' = <<>>
          /\ \/ worker = "bad" /\ job = None
             \/ worker = "dead"
      BY <1>1, <1>4, HeardNext DEF Ready, BootFailed, Error, Result
    <2>3. PaneTypes'
      BY <1>1, <2>1 DEF WorkInv, PaneTypes
    <2>4. MailFits'
      BY <2>2 DEF MailFits
    <2>5. WorkerFits'
      BY <1>1, <1>4, <2>1, <2>2 DEF WorkInv, WorkerFits
    <2>6. QED  BY <2>3, <2>4, <2>5 DEF WorkInv
  <1>5. CASE ~ Superseded /\ \E output \in Outputs : Head(mail) = Result(asked, output)
    <2>1. status' = "ready" /\ result' = asked /\ UNCHANGED <<stopped, ended>>
      BY <1>5 DEF Deliver, Conclude, Result
    <2>2. /\ job = None /\ asked \in Runs
          /\ \/ mail' = <<>> /\ worker = "up"
             \/ mail' = <<Error>> /\ worker = "dead"
      BY <1>1, <1>5, HeardNext DEF Ready, BootFailed, Error, Result
    <2>3. PaneTypes'
      BY <1>1, <2>1, <2>2 DEF WorkInv, PaneTypes
    <2>4. MailFits'
      BY <1>1, <2>2 DEF MailFits
    <2>5. WorkerFits'
      BY <1>1, <1>5, <2>1, <2>2 DEF WorkInv, WorkerFits
    <2>6. QED  BY <2>3, <2>4, <2>5 DEF WorkInv
  <1>6. QED
    BY <1>1, <1>2, <1>3, <1>4, <1>5, HeardNext

\* Steps outside the pane leave the fit.
LEMMA WorkIdles == ASSUME WorkInv, UNCHANGED <<pane, ended>> PROVE WorkInv'
  BY DEF WorkInv, PaneTypes, MailFits, WorkerFits, Superseded, pane

-----------------------------------------------------------------------------
(* Verdicts and what is reported of them, step by step.                    *)

LEMMA VerdictIdles ==
    ASSUME PaneInv, UNCHANGED <<asked, browser, said, heard, ended, unkept>>,
           result' \in {result, None}, status' # "running" \/ status' = status,
           \A r \in Runs : r \in InService' => r \in InService
    PROVE  VerdictInv'
  <1>1. /\ asked' = asked /\ consent' = consent /\ counts' = counts /\ outbox' = outbox
        /\ said' = said /\ heard' = heard /\ ended' = ended /\ unkept' = unkept
    BY DEF browser
  <1>2. BrowserTypes'
    BY <1>1 DEF PaneInv, VerdictInv, BrowserTypes
  <1>3. \A r \in Runs : NoVerdict(r) => NoVerdict(r)'
    BY <1>1, NoneAssumption DEF NoVerdict
  <1>4. RunsFit'
    BY <1>1, <1>3 DEF PaneInv, VerdictInv, RunsFit, WorkInv, PaneTypes, WorkerFits
  <1>5. ConsentFits' /\ HeardFits'
    BY <1>1 DEF PaneInv, VerdictInv, ConsentFits, HeardFits, WithdrawalHolds
  <1>6. QED  BY <1>2, <1>4, <1>5 DEF VerdictInv

(* The run about to start has no verdict, as none after it has.  *)
LEMMA CheckVerdicts == ASSUME PaneInv, Check PROVE VerdictInv'
  <1>1. /\ asked' = asked + 1 /\ asked \in 0 .. MaxRuns /\ asked < MaxRuns /\ result' = None
        /\ UNCHANGED <<consent, counts, outbox, said, heard, ended, unkept, InService>>
    BY DEF Check, PaneInv, WorkInv, PaneTypes, browser, history, tally, InService
  <1>2. asked' \in Runs
    <2>1. MaxRuns \in Nat
      BY LabBounds
    <2>2. QED
      BY <1>1, <2>1 DEF Runs
  <1>3. BrowserTypes'
    BY <1>1 DEF PaneInv, VerdictInv, BrowserTypes
  <1>4. \A r \in Runs : NoVerdict(r) => NoVerdict(r)'
    BY <1>1, NoneAssumption DEF NoVerdict
  <1>5. /\ ended \subseteq Runs /\ \A r \in ended : NoVerdict(r) /\ r <= asked
        /\ \A r \in Runs : r > asked => NoVerdict(r)
    BY DEF PaneInv, WorkInv, PaneTypes, VerdictInv, RunsFit
  <1>6. \A r \in ended : NoVerdict(r)' /\ r <= asked' /\ r # asked'
    <2>1. \A r \in ended : r \in Int /\ r <= asked
      BY <1>5 DEF Runs
    <2>2. QED
      BY <1>1, <1>4, <1>5, <2>1
  <1>7. \A r \in Runs : r > asked' => NoVerdict(r)'
    BY <1>1, <1>4, <1>5 DEF Runs
  <1>8. NoVerdict(asked')
    BY <1>1, <1>2, <1>5
  <1>9. NoVerdict(asked)'
    BY <1>1, <1>2, <1>8, NoneAssumption DEF NoVerdict
  <1>10. RunsFit'
    BY <1>1, <1>6, <1>7, <1>9 DEF RunsFit
  <1>11. ConsentFits' /\ HeardFits'
    BY <1>1 DEF PaneInv, VerdictInv, ConsentFits, HeardFits, WithdrawalHolds
  <1>12. QED  BY <1>3, <1>10, <1>11 DEF VerdictInv

(* The run that is stopped had none yet. *)
LEMMA StopVerdicts == ASSUME PaneInv, Stop PROVE VerdictInv'
  <1>1. /\ status = "running" /\ status' = "loading" /\ ended' = ended \cup {asked}
        /\ UNCHANGED <<consent, counts, outbox, said, heard, unkept, asked, result, InService>>
    BY DEF Stop, browser, history, tally, InService
  <1>2. asked \in Nat
    BY DEF PaneInv, WorkInv, PaneTypes
  <1>3. BrowserTypes'
    BY <1>1 DEF PaneInv, VerdictInv, BrowserTypes
  <1>4. \A r : NoVerdict(r) => NoVerdict(r)'
    BY <1>1 DEF NoVerdict
  <1>5. RunsFit'
    BY <1>1, <1>2, <1>4 DEF PaneInv, VerdictInv, RunsFit
  <1>6. ConsentFits' /\ HeardFits'
    BY <1>1 DEF PaneInv, VerdictInv, ConsentFits, HeardFits, WithdrawalHolds
  <1>7. QED  BY <1>3, <1>5, <1>6 DEF VerdictInv

(* A verdict taken is of the run that was running, and is reported if the  *)
(* slot holds a yes.                                                       *)
LEMMA ConcludeVerdicts ==
    ASSUME PaneInv, status = "running", asked \in Runs, NEW output \in Outputs,
           Conclude(Result(asked, output)), UNCHANGED <<asked, InService>>
    PROVE  VerdictInv'
  <1>. DEFINE reports == FramesOf(output, Docs, counts)
  <1>1. /\ result' = asked /\ status' = "ready"
        /\ heard' = [heard EXCEPT ![asked] = said]
        /\ UNCHANGED <<consent, said, ended, unkept>>
        /\ \/ /\ MayContribute(consent) /\ outbox' = [outbox EXCEPT ![asked] = reports]
              /\ counts' = counts \/ \E frames : counts' = Taken(counts, frames)
           \/ UNCHANGED <<outbox, counts>>
    BY DEF Conclude, ReportRun, Result
  <1>2. counts \in [Steps -> 0 .. MaxAttempt] /\ \A report \in reports : IsReport(report)
    BY FramesOfAreReports DEF PaneInv, VerdictInv, BrowserTypes
  <1>3. counts' \in [Steps -> 0 .. MaxAttempt]
    BY <1>1, <1>2, TakenAreCounts
  <1>. HIDE DEF reports
  <1>4. BrowserTypes'
    <2>1. outbox' = [r \in Runs |-> outbox'[r]] /\ \A r \in Runs : \A report \in outbox'[r] : IsReport(report)
      BY <1>1, <1>2 DEF PaneInv, VerdictInv, BrowserTypes
    <2>2. heard' \in [Runs -> Sayings] /\ said' \in Sayings /\ consent' \in Answers \cup {None}
      BY <1>1 DEF PaneInv, VerdictInv, BrowserTypes
    <2>3. QED
      BY <1>3, <2>1, <2>2 DEF BrowserTypes
  <1>5. /\ heard'[asked] = said
        /\ \A r \in Runs \ {asked} : heard'[r] = heard[r] /\ outbox'[r] = outbox[r]
        /\ outbox'[asked] = outbox[asked] \/ MayContribute(consent)
    BY <1>1 DEF PaneInv, VerdictInv, BrowserTypes
  <1>6. NoVerdict(asked) /\ asked \notin ended
    BY DEF PaneInv, VerdictInv, RunsFit
  <1>7. \A r \in Runs \ {asked} : NoVerdict(r) => NoVerdict(r)'
    BY <1>1, <1>5 DEF NoVerdict
  <1>8. RunsFit'
    <2>1. \A r \in ended' : r \in Runs \ {asked} /\ NoVerdict(r) /\ r <= asked'
      BY <1>1, <1>6 DEF PaneInv, WorkInv, PaneTypes, VerdictInv, RunsFit
    <2>2. \A r \in Runs : r > asked' => r \in Runs \ {asked} /\ NoVerdict(r)
      BY <1>6 DEF PaneInv, VerdictInv, RunsFit, Runs
    <2>3. QED
      BY <1>1, <1>7, <2>1, <2>2 DEF RunsFit
  <1>9. ConsentFits'
    <2>. SUFFICES ASSUME ~ unkept
                  PROVE  /\ MayContribute(consent) => said = "granted"
                         /\ WithdrawalHolds'
      BY <1>1 DEF ConsentFits
    <2>1. (MayContribute(consent) => said = "granted") /\ WithdrawalHolds
      BY DEF PaneInv, VerdictInv, ConsentFits
    <2>2. asked \notin InService /\ outbox[asked] = {}
      BY <1>6, <2>1 DEF NoVerdict, WithdrawalHolds
    <2>3. outbox'[asked] # {} => heard'[asked] = "granted"
      BY <1>5, <2>1, <2>2
    <2>4. WithdrawalHolds'
      BY <1>5, <2>1, <2>2, <2>3 DEF WithdrawalHolds
    <2>5. QED  BY <2>1, <2>4
  <1>10. HeardFits'
    BY <1>1, <1>5, <1>6 DEF PaneInv, VerdictInv, HeardFits, NoVerdict
  <1>11. QED  BY <1>4, <1>8, <1>9, <1>10 DEF VerdictInv

\* A verdict delivered is of the run the pane asked for last, and not of a stopped one;
\* what is reported of it is what consent allows at that moment.
LEMMA DeliverVerdicts == ASSUME PaneInv, Deliver PROVE VerdictInv'
  <1>1. mail # <<>> /\ WorkInv /\ UNCHANGED <<asked, InService>>
    BY DEF Deliver, PaneInv, tally, InService
  <1>2. CASE Superseded
    <2>1. UNCHANGED <<browser, said, heard, ended, unkept, status, result>>
      BY <1>2 DEF Deliver, Drop, history
    <2>2. QED
      BY <1>1, <2>1, VerdictIdles
  <1>3. CASE ~ Superseded /\ Head(mail).kind # "result"
    <2>1. /\ UNCHANGED <<browser, said, heard, ended, unkept, result>>
          /\ status' \in {"ready", "failed"}
      BY <1>3 DEF Deliver, Learn, history
    <2>2. QED
      BY <1>1, <2>1, VerdictIdles
  <1>4. CASE ~ Superseded /\ Head(mail).kind = "result"
    <2>1. /\ \E output \in Outputs : Head(mail) = Result(asked, output)
          /\ asked \in Runs /\ status = "running"
      BY <1>1, <1>4, HeardNext DEF Ready, BootFailed, Error
    <2>2. PICK output \in Outputs : Head(mail) = Result(asked, output)
      BY <2>1
    <2>3. Conclude(Result(asked, output))
      BY <1>4, <2>2 DEF Deliver
    <2>4. QED
      BY <1>1, <2>1, <2>3, ConcludeVerdicts
  <1>5. QED  BY <1>2, <1>3, <1>4

(* An answer kept is the reader's last; one not kept is so for good. *)
LEMMA DecideVerdicts ==
    ASSUME PaneInv, NEW choice \in {"granted", "declined"}, Decide(choice)
    PROVE  VerdictInv'
  <1>1. /\ said' = choice /\ UNCHANGED <<counts, outbox, heard, ended, asked, status, result, InService>>
        /\ \/ consent' = Decided(choice) /\ unkept' = unkept
           \/ unkept' = TRUE /\ consent' = consent
    BY DEF Decide, pane, tally, InService
  <1>2. Decided(choice) \in Answers /\ (MayContribute(Decided(choice)) => choice = "granted")
    BY DEF Decided, Answers, CONSENT_VERSION, MayContribute, Read
  <1>3. BrowserTypes'
    BY <1>1, <1>2 DEF PaneInv, VerdictInv, BrowserTypes, Sayings
  <1>4. RunsFit'
    BY <1>1 DEF PaneInv, VerdictInv, RunsFit, NoVerdict
  <1>5. HeardFits'
    BY <1>1 DEF PaneInv, VerdictInv, HeardFits
  <1>6. ConsentFits'
    BY <1>1, <1>2 DEF PaneInv, VerdictInv, ConsentFits, WithdrawalHolds
  <1>7. QED  BY <1>3, <1>4, <1>5, <1>6 DEF VerdictInv

(* What is posted was in the outbox. *)
LEMMA PostVerdicts ==
    ASSUME PaneInv, TallyTypeInv, NEW r \in Runs, Post(r)
    PROVE  VerdictInv' /\ (UNCHANGED tally \/ \E report : IsReport(report) /\ Arrive(r, report))
  <1>1. PICK report \in outbox[r] :
          /\ outbox' = [outbox EXCEPT ![r] = outbox[r] \ {report}]
          /\ Arrive(r, report) \/ UNCHANGED tally
    BY DEF Post
  <1>2. IsReport(report) /\ r \in Callers
    BY <1>1, RunsAreCallers DEF PaneInv, VerdictInv, BrowserTypes
  <1>3. \A c : c \in InService' => c \in InService \/ c = r
    BY <1>1, <1>2, Arrived DEF tally, InService
  <1>4. UNCHANGED <<asked, status, result, consent, counts, said, heard, ended, unkept>>
    BY DEF Post, pane
  <1>5. /\ outbox' = [q \in Runs |-> outbox'[q]]
        /\ \A q \in Runs : outbox'[q] \subseteq outbox[q]
    BY <1>1 DEF PaneInv, VerdictInv, BrowserTypes
  <1>6. BrowserTypes'
    BY <1>4, <1>5 DEF PaneInv, VerdictInv, BrowserTypes
  <1>7. \A q \in Runs : NoVerdict(q) => NoVerdict(q)'
    BY <1>4, <1>5 DEF NoVerdict
  <1>8. RunsFit'
    BY <1>4, <1>7 DEF PaneInv, VerdictInv, RunsFit, WorkInv, PaneTypes, WorkerFits
  <1>9. ConsentFits'
    BY <1>1, <1>3, <1>4, <1>5 DEF PaneInv, VerdictInv, ConsentFits, WithdrawalHolds
  <1>10. HeardFits'
    BY <1>4, <1>5 DEF PaneInv, VerdictInv, HeardFits
  <1>11. QED
    BY <1>1, <1>2, <1>6, <1>8, <1>9, <1>10 DEF VerdictInv

-----------------------------------------------------------------------------
LEMMA LabInvInit == Init => LabInv
  <1>. SUFFICES ASSUME Init PROVE LabInv
    OBVIOUS
  <1>1. TallyInv /\ InService = {}
    BY TallyInvInit DEF Init, TallyInit, InService
  <1>2. 0 \in Generations /\ 0 \in 0 .. MaxRuns
    BY LabBounds DEF Generations
  <1>3. PaneTypes
    BY <1>2 DEF Init, PaneTypes
  <1>4. MailFits /\ WorkerFits
    BY <1>2 DEF Init, MailFits, WorkerFits, Superseded, Generations
  <1>5. consent \in Answers \cup {None} /\ (MayContribute(consent) => said = "granted")
    BY DEF Init, Answers, Decided, CONSENT_VERSION, MayContribute, Read
  <1>6. counts \in [Steps -> 0 .. MaxAttempt]
    BY LabBounds DEF Init
  <1>7. BrowserTypes
    BY <1>5, <1>6 DEF Init, BrowserTypes, Sayings
  <1>8. RunsFit
    BY NoneAssumption DEF Init, RunsFit, NoVerdict
  <1>9. ConsentFits /\ HeardFits
    BY <1>1, <1>5 DEF Init, ConsentFits, HeardFits, WithdrawalHolds
  <1>10. QED
    BY <1>1, <1>3, <1>4, <1>7, <1>8, <1>9 DEF LabInv, PaneInv, WorkInv, VerdictInv

LEMMA LabInvNext == LabInv /\ [Next]_vars => LabInv'
  <1>. SUFFICES ASSUME LabInv, [Next]_vars PROVE LabInv'
    OBVIOUS
  <1>. USE DEF LabInv
  <1>1. WorkInv /\ VerdictInv /\ TallyTypeInv
    BY DEF PaneInv, TallyInv
  <1>2. CASE Boot
    <2>1. TallyInv' /\ InService' = InService
      BY <1>2, TallyInvIdles DEF Boot, history, tally, InService
    <2>2. VerdictInv'
      BY <1>2, <2>1, VerdictIdles DEF Boot, history
    <2>3. QED
      BY <1>1, <1>2, <2>1, <2>2, BootFits DEF PaneInv
  <1>3. CASE Die
    <2>1. TallyInv' /\ InService' = InService
      BY <1>3, TallyInvIdles DEF Die, history, tally, InService
    <2>2. VerdictInv'
      BY <1>3, <2>1, VerdictIdles DEF Die, history
    <2>3. QED
      BY <1>1, <1>3, <2>1, <2>2, DieFits DEF PaneInv
  <1>4. CASE Answer
    <2>1. TallyInv' /\ InService' = InService
      BY <1>4, TallyInvIdles DEF Answer, history, tally, InService
    <2>2. VerdictInv'
      BY <1>4, <2>1, VerdictIdles DEF Answer, history
    <2>3. QED
      BY <1>1, <1>4, <2>1, <2>2, AnswerFits DEF PaneInv
  <1>5. CASE StubArrives
    <2>1. TallyInv' /\ InService' = InService
      BY <1>5, TallyInvIdles DEF StubArrives, history, tally, InService
    <2>2. VerdictInv'
      BY <1>5, <2>1, VerdictIdles DEF StubArrives, history
    <2>3. WorkInv'
      BY <1>1, <1>5 DEF StubArrives, WorkInv, PaneTypes, MailFits, WorkerFits, Superseded, history
    <2>4. QED
      BY <2>1, <2>2, <2>3 DEF PaneInv
  <1>6. CASE Check
    <2>1. TallyInv'
      BY <1>6, TallyInvIdles DEF Check, history
    <2>2. QED
      BY <1>1, <1>6, <2>1, CheckFits, CheckVerdicts DEF PaneInv
  <1>7. CASE Stop
    <2>1. TallyInv'
      BY <1>7, TallyInvIdles DEF Stop
    <2>2. QED
      BY <1>1, <1>7, <2>1, StopFits, StopVerdicts DEF PaneInv
  <1>8. CASE Replace
    <2>1. TallyInv' /\ InService' = InService
      BY <1>8, TallyInvIdles DEF Replace, history, tally, InService
    <2>2. VerdictInv'
      BY <1>8, <2>1, VerdictIdles DEF Replace, history
    <2>3. QED
      BY <1>1, <1>8, <2>1, <2>2, ReplaceFits DEF PaneInv
  <1>9. CASE Deliver
    <2>1. UNCHANGED faults \/ Fault
      BY <1>9 DEF Deliver, Drop, Learn, Conclude, ReportRun, history
    <2>2. TallyInv'
      BY <1>9, <2>1, TallyInvIdles DEF Deliver
    <2>3. QED
      BY <1>1, <1>9, <2>2, DeliverFits, DeliverVerdicts DEF PaneInv
  <1>10. CASE \E choice \in {"granted", "declined"} : Decide(choice)
    <2>1. PICK choice \in {"granted", "declined"} : Decide(choice)
      BY <1>10
    <2>2. TallyInv'
      BY <2>1, TallyInvIdles DEF Decide
    <2>3. WorkInv'
      BY <1>1, <2>1, WorkIdles DEF Decide
    <2>4. QED
      BY <2>1, <2>2, <2>3, DecideVerdicts DEF PaneInv
  <1>11. CASE \E r \in Runs : Post(r)
    <2>1. PICK r \in Runs : Post(r)
      BY <1>11
    <2>2. VerdictInv' /\ (UNCHANGED tally \/ \E report : IsReport(report) /\ Arrive(r, report))
      BY <1>1, <2>1, PostVerdicts
    <2>3. UNCHANGED tally => UNCHANGED faults \/ Fault
      BY <2>1 DEF Post, Arrive, tally
    <2>4. TallyInv'
      BY <2>2, <2>3, TallyInvIdles, TallyInvArrives, RunsAreCallers
    <2>5. WorkInv'
      BY <1>1, <2>1, WorkIdles DEF Post
    <2>6. QED
      BY <2>2, <2>4, <2>5 DEF PaneInv
  <1>12. CASE \E c \in Callers \ Runs : PostElsewhere(c)
    <2>1. PICK c \in Callers \ Runs : PostElsewhere(c)
      BY <1>12
    <2>2. PICK report \in Elsewhere : Arrive(c, report)
      BY <2>1 DEF PostElsewhere
    <2>3. TallyInv' /\ InService' = InService \cup {c}
      BY <1>1, <2>2, LabAssumption, TallyInvArrives, Arrived
    <2>4. UNCHANGED <<pane, browser, said, heard, ended, unkept>>
      BY <2>1 DEF PostElsewhere
    <2>5. VerdictInv'
      BY <2>1, <2>3, <2>4, VerdictIdles DEF pane
    <2>6. QED
      BY <1>1, <2>3, <2>4, <2>5, WorkIdles DEF PaneInv
  <1>13. CASE \E c \in Callers : ServeOutcome(c)
    <2>1. PICK c \in Callers : ServeOutcome(c)
      BY <1>13
    <2>2. TallyInv' /\ \A r : r \in InService' => r \in InService
      BY <1>1, <2>1, TallyInvServes, Incremented, Ended
         DEF ServeOutcome, Serve, SaveChanges, SaveRefused, Abandon, InService
    <2>3. UNCHANGED <<pane, browser, said, heard, ended, unkept>>
      BY <2>1 DEF ServeOutcome
    <2>4. VerdictInv'
      BY <2>2, <2>3, VerdictIdles DEF pane
    <2>5. QED
      BY <1>1, <2>2, <2>3, <2>4, WorkIdles DEF PaneInv
  <1>14. CASE UNCHANGED vars
    <2>1. TallyInv' /\ InService' = InService
      BY <1>14, TallyInvIdles DEF vars, history, tally, InService
    <2>2. UNCHANGED <<pane, browser, said, heard, ended, unkept>>
      BY <1>14 DEF vars, history
    <2>3. VerdictInv'
      BY <2>1, <2>2, VerdictIdles DEF pane
    <2>4. QED
      BY <1>1, <2>1, <2>2, <2>3, WorkIdles DEF PaneInv
  <1>15. QED
    BY <1>2, <1>3, <1>4, <1>5, <1>6, <1>7, <1>8, <1>9, <1>10, <1>11, <1>12, <1>13, <1>14
       DEF Next, Run

LEMMA LabInvHolds == Spec => []LabInv
  BY LabInvInit, LabInvNext, PTL DEF Spec

-----------------------------------------------------------------------------
(* TypeOK: what a worker has said is at most two of the messages it can    *)
(* say, in the order a booting, an answer and a death can come; every      *)
(* report that waits, and every tally and request of the service, is one.  *)
THEOREM LabTypeCorrect == Spec => []TypeOK
  <1>1. LabInv => TypeOK
    <2>. SUFFICES ASSUME LabInv PROVE TypeOK
      OBVIOUS
    <2>1. /\ TallyTypeOK /\ PaneTypes /\ BrowserTypes /\ MailFits
          /\ \A r \in Runs : outbox[r] # {} => heard[r] # "nothing"
      BY DEF LabInv, TallyInv, TallyTypeInv, PaneInv, WorkInv, VerdictInv, HeardFits
    <2>2. /\ Ready \in Messages /\ BootFailed \in Messages /\ Error \in Messages
          /\ \A output \in Outputs : \A r \in Runs : Result(r, output) \in Messages
      BY DEF Messages, Ready, BootFailed, Error, Result
    <2>3. \A m \in Messages : <<m>> \in Seq(Messages) /\ Len(<<m>>) = 1
      OBVIOUS
    <2>4. \A m, n \in Messages : <<m, n>> \in Seq(Messages) /\ Len(<<m, n>>) = 2
      OBVIOUS
    <2>5. mail \in Seq(Messages) /\ Len(mail) <= 2
      <3>1. CASE mail = <<>>
        BY <3>1, EmptySeq
      <3>2. CASE \E m \in Messages : mail = <<m>>
        BY <2>3, <3>2
      <3>3. CASE \E m, n \in Messages : mail = <<m, n>>
        BY <2>4, <3>3
      <3>4. QED
        BY <2>1, <2>2, <3>1, <3>2, <3>3 DEF MailFits
    <2>6. DOMAIN outbox = Runs /\ {generation, generationRef, listening} \subseteq Generations
      BY <2>1 DEF PaneTypes, BrowserTypes
    <2>7. QED
      BY <2>1, <2>5, <2>6 DEF TypeOK, PaneTypes, BrowserTypes
  <1>2. QED
    BY <1>1, LabInvHolds, PTL

(* StoppedIsOver: what an abandoned worker says of a stopped run is never  *)
(* shown and never counted, whatever it says and whenever it arrives, and  *)
(* Check is offered on no interpreter but the one that stays.              *)
THEOREM StoppedRunsAreOver == Spec => []StoppedIsOver
  <1>1. LabInv => StoppedIsOver
    BY DEF LabInv, PaneInv, WorkInv, VerdictInv, RunsFit, NoVerdict, WorkerFits, Superseded,
           StoppedIsOver
  <1>2. QED
    BY <1>1, LabInvHolds, PTL

(* NothingUnasked: unless storage refused an answer, no report waits or is *)
(* in service of a run whose verdict came while the reader's last press    *)
(* was not a yes.                                                          *)
THEOREM NothingIsUnasked == Spec => []NothingUnasked
  <1>1. LabInv => NothingUnasked
    BY DEF LabInv, PaneInv, VerdictInv, ConsentFits, NothingUnasked
  <1>2. QED
    BY <1>1, LabInvHolds, PTL

(* CountsAreTrue: a question's tallies never hold more than the reports of *)
(* it that came, however requests overlap and saves are repeated, and hold *)
(* all of them when none overlapped and none was given up.                 *)
THEOREM TalliesAreTrue == Spec => []CountsAreTrue
  <1>1. LabInv => CountsAreTrue
    BY CountsFollow DEF LabInv
  <1>2. QED
    BY <1>1, LabInvHolds, PTL

\* What a pane that waits is waiting for: an effect to run, a worker to boot, a
\* message to be heard, or a living worker's answer to the run it asked for.
NeverStranded ==
    /\ status = "loading" => listening # generation \/ worker = "booting" \/ mail # <<>>
    /\ status = "running" => job = asked \/ mail # <<>>
    /\ status \in {"ready", "running"} /\ worker = "dead" => mail # <<>>

\* Every step that takes what a pane waits for away answers it.
LEMMA StrandsNone == ASSUME PaneInv, NeverStranded, [Next]_vars PROVE NeverStranded'
  <1>1. CASE UNCHANGED pane
    BY <1>1 DEF NeverStranded, pane, Superseded
  <1>2. CASE Boot
    BY <1>2, Mails DEF Boot, Say, NeverStranded, PaneInv, WorkInv, WorkerFits
  <1>3. CASE Die
    <2>1. mail' # <<>>
      <3>1. \/ mail = <<>> /\ mail' = <<Error>>
            \/ mail = <<Ready>> /\ mail' = <<Ready, Error>>
            \/ \E output \in Outputs :
                  mail = <<Result(asked, output)>> /\ mail' = <<Result(asked, output), Error>>
        BY <1>3, Mails DEF Die, Say, Error, PaneInv, WorkInv, MailFits
      <3>2. QED
        BY <3>1, Mails
    <2>2. QED
      BY <2>1 DEF NeverStranded
  <1>4. CASE Answer
    <2>1. mail = <<>> /\ \E message : mail' = Append(mail, message)
      BY <1>4 DEF Answer, Say, PaneInv, WorkInv, WorkerFits
    <2>2. mail' # <<>>
      BY <2>1, Mails
    <2>3. QED
      BY <2>2 DEF NeverStranded
  <1>5. CASE StubArrives
    BY <1>5 DEF StubArrives, NeverStranded, Superseded
  <1>6. CASE Check
    BY <1>6 DEF Check, NeverStranded
  <1>7. CASE Stop
    BY <1>7 DEF Stop, MoveOn, NeverStranded, Superseded, PaneInv, WorkInv, WorkerFits, PaneTypes, Generations
  <1>8. CASE Replace
    BY <1>8 DEF Replace, NeverStranded, PaneInv, WorkInv, WorkerFits, Superseded
  <1>9. CASE Deliver
    <2>1. CASE Superseded
      BY <1>9, <2>1 DEF Deliver, Drop, history, NeverStranded, Superseded, PaneInv, WorkInv, WorkerFits
    <2>2. CASE ~ Superseded
      <3>1. status' \in {"ready", "failed"} /\ mail' = Tail(mail) /\ worker' = worker
        BY <1>9, <2>2 DEF Deliver, Conclude, Learn
      <3>2. status' = "ready" => Head(mail) = Ready \/ \E output \in Outputs : Head(mail) = Result(asked, output)
        BY <1>9, <2>2, HeardNext DEF Deliver, Learn, Ready, BootFailed, Error, PaneInv
      <3>3. status' = "ready" /\ worker = "dead" => Tail(mail) = <<Error>>
        BY <1>9, <2>2, <3>2, HeardNext DEF Deliver, Ready, BootFailed, Error, Result, PaneInv
      <3>4. QED
        BY <3>1, <3>3, Mails DEF NeverStranded
    <2>3. QED
      BY <2>1, <2>2
  <1>10. QED
    BY <1>1, <1>2, <1>3, <1>4, <1>5, <1>6, <1>7, <1>8, <1>9
       DEF Next, Run, Decide, Post, PostElsewhere, ServeOutcome, vars

(* A pane never waits for nothing.  While it loads, its effect, its worker *)
(* or a message is still to come; while it runs, a living worker has the   *)
(* run or a message is; whatever was stopped, died or was superseded.      *)
(* With the page's fairness this is why ComesBack holds                    *)
(* (use-lab-runtime.ts).                                                   *)
THEOREM PanesAreNeverStranded == Spec => []NeverStranded
  <1>1. Init => NeverStranded
    BY DEF Init, NeverStranded
  <1>2. LabInv /\ NeverStranded /\ [Next]_vars => NeverStranded'
    BY StrandsNone DEF LabInv
  <1>3. QED
    BY <1>1, <1>2, LabInvHolds, PTL DEF Spec

-----------------------------------------------------------------------------
(* The worksheet's: what is kept of a page, and of the record.             *)

Stored == Sheets \cup {None}
TextsOf(field) == IF field = "line" THEN Texts ELSE Pads
RevealedNow == store # None /\ store.revealed
SheetReports ==
    {AnswerReport(Frame, outcome, numbers) :
        outcome \in {"blank", "matched", "missed"}, numbers \in [{Frame} -> 0 .. MaxAttempt]}

TabTypes ==
    [at : {"away", "cue", "answer"}, snap : Stored \cup {Unread},
     text : [Fields -> Texts \cup Pads], seed : [Fields -> Stored],
     focus : Fields \cup {None}, offer : BOOLEAN, shown : Stored, due : BOOLEAN]

\* A page's state, each field holding what such a field can.
IsTab(b) ==
    /\ b \in TabTypes
    /\ \A f \in Fields : b.text[f] \in TextsOf(f)
    /\ b.due => b.at = "answer"
    /\ b.offer => b.at = "cue"

SheetTypeInv ==
    /\ store \in Stored
    /\ tab = [t \in Tabs |-> tab[t]] /\ \A t \in Tabs : IsTab(tab[t])
    /\ event \in [Tabs -> BOOLEAN]
    /\ attempts \in [{Frame} -> 0 .. MaxAttempt] /\ reported \in Seq(SheetReports)
    /\ clears \in Nat
    /\ hand \in [Tabs -> [Fields -> Texts \cup Pads]]
    /\ rewritten \in [Tabs -> SUBSET Fields]
    /\ crossed \in BOOLEAN /\ seen \in BOOLEAN

\* A field nothing was stored into has what the hand left in it, and no reading
\* of the record, old or new, would put anything else there.
HandKept(t) ==
    tab[t].at = "cue" =>
        \A f \in Fields \ rewritten[t] :
            /\ tab[t].text[f] = hand[t][f]
            /\ TextOf(f, store) = TextOf(f, tab[t].seed[f])
            /\ TextOf(f, Snapshot(tab[t])) = TextOf(f, tab[t].seed[f])
            /\ f = "line" /\ tab[t].offer => AnswerOf(tab[t].seed[f]) # 0

PadIsKept ==
    /\ store # None => store.working = padKept /\ (seen => store.revealed)
    /\ store = None => padKept = 0 /\ ~ seen

\* While no tab wrote behind another's back, every page knows the record.
UpToDate(t) ==
    LET b == tab[t] IN
      /\ b.snap \in {Unread, store}
      /\ b.due => b.shown \in {None, store}
      /\ b.at = "answer" /\ ~ b.due => store = None \/ RevealedNow
      /\ b.at = "cue" /\ RevealedNow => b.seed["line"] # None /\ b.seed["line"].revealed
      /\ b.at = "cue" /\ RevealedNow /\ AnswerOf(store) # 0 => b.text["line"] = AnswerOf(store)

\* Of each worksheet begun, one report: before it is revealed none has been made.
ReportsCounted ==
    /\ Len(reported) + (IF RevealedNow THEN 0 ELSE 1) <= 1 + clears
    /\ held # None => RevealedNow /\ AnswerOf(store) = held /\ held # 0

SheetInv ==
    /\ SheetTypeInv /\ PadIsKept
    /\ \A t \in Tabs : HandKept(t)
    /\ ~ crossed => ReportsCounted /\ \A t \in Tabs : UpToDate(t)

-----------------------------------------------------------------------------
(* The record and a page's fields.                                         *)

LEMMA TextOfIsText ==
    ASSUME NEW sheet \in Stored
    PROVE  /\ \A f \in Fields : TextOf(f, sheet) \in TextsOf(f)
           /\ TextOf("line", sheet) = AnswerOf(sheet) /\ TextOf("pad", sheet) = WorkingOf(sheet)
           /\ "line" \in Fields /\ "pad" \in Fields
           /\ sheet # None => AnswerOf(sheet) = sheet.answer /\ WorkingOf(sheet) = sheet.working
  BY SheetAssumption DEF Stored, Sheets, Fields, TextOf, TextsOf, AnswerOf, WorkingOf

\* A page's snapshot is the stored sheet, taken now or when it was last told.
LEMMA SnapshotIsStored ==
    ASSUME store \in Stored, NEW b \in TabTypes
    PROVE  Snapshot(b) \in Stored /\ (b.snap = Unread => Snapshot(b) = store)
           /\ (b.snap # Unread => Snapshot(b) = b.snap)
  BY DEF Snapshot, TabTypes

(* A field that is rendered reads the record, adopts it or does not, and   *)
(* nothing else of the page changes.                                       *)
LEMMA RenderedIs ==
    ASSUME store \in Stored, NEW b, IsTab(b), NEW field \in Fields, NEW text \in TextsOf(field)
    PROVE  LET r == Rendered(b, field, text)
               s == Snapshot(b)
               was == TextOf(field, b.seed[field])
           IN  /\ IsTab(r)
               /\ r.at = b.at /\ r.focus = b.focus /\ r.offer = b.offer
               /\ r.shown = b.shown /\ r.due = b.due /\ r.snap = s
               /\ r.seed[field] = s
               /\ r.text[field] = IF s # b.seed[field] /\ TextOf(field, s) # was /\ TextOf(field, s) # text
                                  THEN TextOf(field, s) ELSE text
               /\ \A g \in Fields \ {field} : r.seed[g] = b.seed[g] /\ r.text[g] = b.text[g]
  <1>. DEFINE r == Rendered(b, field, text)
              s == Snapshot(b)
              was == TextOf(field, b.seed[field])
              new == IF s # b.seed[field] /\ TextOf(field, s) # was /\ TextOf(field, s) # text
                     THEN TextOf(field, s) ELSE text
  <1>1. b \in TabTypes /\ s \in Stored
    BY SnapshotIsStored DEF IsTab
  <1>2. r = [b EXCEPT !.snap = s, !.seed[field] = s, !.text[field] = new]
    BY DEF Rendered, Adopts
  <1>3. new \in TextsOf(field) /\ new \in Texts \cup Pads
    BY <1>1, TextOfIsText DEF TextsOf
  <1>. HIDE DEF s, new, r
  <1>4. /\ r.at = b.at /\ r.focus = b.focus /\ r.offer = b.offer /\ r.shown = b.shown /\ r.due = b.due
        /\ r.snap = s
        /\ r.seed = [b.seed EXCEPT ![field] = s] /\ r.text = [b.text EXCEPT ![field] = new]
    BY <1>1, <1>2 DEF TabTypes
  <1>5. b.seed \in [Fields -> Stored] /\ b.text \in [Fields -> Texts \cup Pads]
    BY <1>1 DEF TabTypes
  <1>6. r.seed \in [Fields -> Stored] /\ r.text \in [Fields -> Texts \cup Pads]
    BY <1>1, <1>3, <1>4, <1>5
  <1>7. r \in TabTypes
    BY <1>1, <1>2, <1>6, <1>4 DEF TabTypes
  <1>8. \A g \in Fields \ {field} : r.seed[g] = b.seed[g] /\ r.text[g] = b.text[g]
    BY <1>4, <1>5
  <1>9. r.seed[field] = s /\ r.text[field] = new
    BY <1>4, <1>5
  <1>10. IsTab(r)
    BY <1>3, <1>4, <1>7, <1>8, <1>9 DEF IsTab
  <1>11. QED
    BY <1>4, <1>8, <1>9, <1>10 DEF r, s, new

\* A page that is left has no field, seed, focus or report due.
LEMMA AwayIs ==
    ASSUME NEW snap \in Stored \cup {Unread}
    PROVE  LET b == Away(snap) IN
             /\ IsTab(b) /\ b.at = "away" /\ b.snap = snap /\ b.focus = None /\ ~ b.offer
             /\ b.shown = None /\ ~ b.due
             /\ b.text = [f \in Fields |-> 0] /\ b.seed = [f \in Fields |-> None]
  BY SheetAssumption DEF Away, IsTab, TabTypes, TextsOf, Stored, Fields

(* The page of the fields, opened. *)
LEMMA MountedIs ==
    ASSUME store \in Stored, NEW b, IsTab(b)
    PROVE  LET r == Mounted(b)
               s == Snapshot(b)
           IN  /\ IsTab(r) /\ r.at = "cue" /\ r.snap = s /\ ~ r.due
               /\ r.offer = (AnswerOf(s) # 0)
               /\ \A f \in Fields : r.text[f] = TextOf(f, s) /\ r.seed[f] = s
  <1>. DEFINE s == Snapshot(b)
              r == Mounted(b)
              text == [f \in Fields |-> TextOf(f, s)]
              seed == [f \in Fields |-> s]
  <1>1. s \in Stored
    BY SnapshotIsStored DEF IsTab
  <1>2. \A f \in Fields : TextOf(f, s) \in TextsOf(f) /\ TextOf(f, s) \in Texts \cup Pads
    BY <1>1, TextOfIsText DEF TextsOf
  <1>3. text \in [Fields -> Texts \cup Pads] /\ seed \in [Fields -> Stored]
    BY <1>1, <1>2
  <1>4. LET a == Away(s) IN
          /\ a \in TabTypes /\ a.snap = s /\ a.due = FALSE
          /\ r = [a EXCEPT !.at = "cue", !.text = text, !.seed = seed, !.offer = (AnswerOf(s) # 0)]
    BY <1>1, AwayIs DEF Mounted, IsTab, TabTypes
  <1>. HIDE DEF s, r, text, seed
  <1>5. /\ r \in TabTypes /\ r.at = "cue" /\ r.snap = s /\ r.due = FALSE
        /\ r.offer = (AnswerOf(s) # 0) /\ r.text = text /\ r.seed = seed
    BY <1>1, <1>3, <1>4 DEF TabTypes
  <1>6. \A f \in Fields : r.text[f] = TextOf(f, s) /\ r.seed[f] = s
    BY <1>5 DEF text, seed
  <1>7. IsTab(r)
    BY <1>2, <1>5, <1>6 DEF IsTab
  <1>8. QED
    BY <1>5, <1>6, <1>7 DEF s, r

(* The next frame, arrived at. *)
LEMMA AnswerPageIs ==
    ASSUME NEW snap \in Stored, NEW shown \in Stored
    PROVE  LET r == [Away(snap) EXCEPT !.at = "answer", !.shown = shown, !.due = TRUE] IN
             /\ IsTab(r) /\ r.at = "answer" /\ r.snap = snap /\ r.shown = shown /\ r.due
  <1>. DEFINE r == [Away(snap) EXCEPT !.at = "answer", !.shown = shown, !.due = TRUE]
              a == Away(snap)
  <1>1. IsTab(a) /\ a \in TabTypes /\ a.snap = snap /\ a.offer = FALSE
    BY AwayIs DEF IsTab
  <1>. HIDE DEF a
  <1>2. r = [a EXCEPT !.at = "answer", !.shown = shown, !.due = TRUE]
    BY DEF a
  <1>. HIDE DEF r
  <1>3. /\ r \in TabTypes /\ r.at = "answer" /\ r.snap = snap /\ r.shown = shown /\ r.due = TRUE
        /\ r.text = a.text /\ r.offer = FALSE
    BY <1>1, <1>2 DEF TabTypes
  <1>4. IsTab(r)
    BY <1>1, <1>3 DEF IsTab
  <1>5. QED
    BY <1>3, <1>4 DEF r

(* A page that drops what it has read, or takes another reading. *)
LEMMA ResnappedIs ==
    ASSUME NEW b, IsTab(b), NEW snap \in Stored \cup {Unread}
    PROVE  LET r == [b EXCEPT !.snap = snap] IN
             /\ IsTab(r) /\ r.snap = snap
             /\ r.at = b.at /\ r.focus = b.focus /\ r.offer = b.offer /\ r.shown = b.shown
             /\ r.due = b.due /\ r.text = b.text /\ r.seed = b.seed
  BY DEF IsTab, TabTypes

(* A page that is told of a write. *)
LEMMA AnnouncedIs ==
    ASSUME store \in Stored, NEW b, IsTab(b), b.at = "cue", NEW sheet \in Stored
    PROVE  LET r == Announced(b, sheet) IN
             /\ IsTab(r) /\ r.at = "cue" /\ r.focus = b.focus /\ r.shown = b.shown /\ r.due = b.due
             /\ r.snap = sheet /\ r.offer = (AnswerOf(sheet) # 0)
             /\ \A f \in Fields :
                   /\ r.seed[f] = sheet
                   /\ r.text[f] = IF sheet # b.seed[f] /\ TextOf(f, sheet) # TextOf(f, b.seed[f])
                                     /\ TextOf(f, sheet) # b.text[f]
                                  THEN TextOf(f, sheet) ELSE b.text[f]
  <1>. DEFINE fresh == [b EXCEPT !.snap = sheet]
              line == Rendered(fresh, "line", b.text["line"])
              both == Rendered(line, "pad", b.text["pad"])
              r == Announced(b, sheet)
  <1>1. /\ "line" \in Fields /\ "pad" \in Fields /\ Fields = {"line", "pad"}
        /\ sheet # Unread /\ sheet \in Stored \cup {Unread}
    BY NoSheetAssumption DEF Fields, Stored
  <1>2. /\ IsTab(fresh) /\ fresh.snap = sheet /\ fresh.at = "cue" /\ fresh.focus = b.focus
        /\ fresh.shown = b.shown /\ fresh.due = b.due /\ fresh.text = b.text /\ fresh.seed = b.seed
    BY <1>1, ResnappedIs
  <1>. HIDE DEF fresh
  <1>3. Snapshot(fresh) = sheet /\ b.text["line"] \in TextsOf("line") /\ b.text["pad"] \in TextsOf("pad")
    BY <1>1, <1>2 DEF Snapshot, IsTab
  <1>4. /\ IsTab(line) /\ line.at = "cue" /\ line.focus = b.focus /\ line.shown = b.shown
        /\ line.due = b.due /\ line.snap = sheet /\ line.seed["line"] = sheet
        /\ line.text["line"] = IF sheet # b.seed["line"]
                                  /\ TextOf("line", sheet) # TextOf("line", b.seed["line"])
                                  /\ TextOf("line", sheet) # b.text["line"]
                               THEN TextOf("line", sheet) ELSE b.text["line"]
        /\ line.seed["pad"] = b.seed["pad"] /\ line.text["pad"] = b.text["pad"]
    BY <1>1, <1>2, <1>3, RenderedIs
  <1>. HIDE DEF line
  <1>5. Snapshot(line) = sheet
    BY <1>1, <1>4 DEF Snapshot
  <1>6. /\ IsTab(both) /\ both.at = "cue" /\ both.focus = b.focus /\ both.shown = b.shown
        /\ both.due = b.due /\ both.snap = sheet /\ both.seed["pad"] = sheet
        /\ both.text["pad"] = IF sheet # b.seed["pad"]
                                  /\ TextOf("pad", sheet) # TextOf("pad", b.seed["pad"])
                                  /\ TextOf("pad", sheet) # b.text["pad"]
                               THEN TextOf("pad", sheet) ELSE b.text["pad"]
        /\ both.seed["line"] = line.seed["line"] /\ both.text["line"] = line.text["line"]
    BY <1>1, <1>3, <1>4, <1>5, RenderedIs
  <1>7. r = [both EXCEPT !.offer = AnswerOf(sheet) # 0]
    BY DEF Announced, fresh, line
  <1>. HIDE DEF both, r
  <1>8. /\ IsTab(r) /\ r.at = both.at /\ r.focus = both.focus /\ r.shown = both.shown
        /\ r.due = both.due /\ r.snap = both.snap /\ r.seed = both.seed /\ r.text = both.text
        /\ r.offer = (AnswerOf(sheet) # 0)
    BY <1>6, <1>7 DEF IsTab, TabTypes
  <1>9. QED
    BY <1>1, <1>4, <1>6, <1>8 DEF r

(* What a write leaves of the record. *)
LEMMA UpsertIs ==
    ASSUME store \in Stored, NEW b, NEW field \in Fields, NEW text \in TextsOf(field)
    PROVE  LET sheet == Upsert(b, field, text) IN
             /\ sheet \in Sheets /\ sheet # None
             /\ TextOf(field, sheet) = text
             /\ \A g \in Fields \ {field} : TextOf(g, sheet) = TextOf(g, store)
             /\ sheet.revealed = RevealedNow
             /\ sheet.working = (IF field = "pad" THEN text ELSE WorkingOf(store))
  <1>. DEFINE sheet == Upsert(b, field, text)
              answer == IF field = "line" THEN text ELSE AnswerOf(store)
              working == IF field = "pad" THEN text ELSE WorkingOf(store)
  <1>1. AnswerOf(store) \in Texts /\ WorkingOf(store) \in Pads
    BY SheetAssumption DEF AnswerOf, WorkingOf, Stored, Sheets
  <1>2. answer \in Texts /\ working \in Pads
    BY <1>1 DEF TextsOf, Fields
  <1>3. RevealedNow \in BOOLEAN
    BY DEF RevealedNow, Stored, Sheets
  <1>4. sheet = [answer |-> answer, working |-> working, revealed |-> RevealedNow]
    BY DEF Upsert, RevealedNow
  <1>. HIDE DEF answer, working, sheet
  <1>5. /\ sheet \in Sheets /\ sheet.revealed = RevealedNow
        /\ sheet.answer = answer /\ sheet.working = working
    BY <1>2, <1>3, <1>4 DEF Sheets
  <1>6. sheet # None
    BY <1>5, NoSheetAssumption
  <1>7. TextOf("line", sheet) = answer /\ TextOf("pad", sheet) = working
    BY <1>5, <1>6 DEF TextOf, AnswerOf, WorkingOf
  <1>8. TextOf(field, sheet) = text
    BY <1>7 DEF Fields, answer, working
  <1>9. \A g \in Fields \ {field} : TextOf(g, sheet) = TextOf(g, store)
    BY <1>7 DEF Fields, TextOf, answer, working
  <1>10. QED
    BY <1>5, <1>6, <1>8, <1>9 DEF sheet, working

\* Marking the answer as shown changes no text; on no sheet it makes none.
LEMMA PatchedIs ==
    ASSUME store \in Stored
    PROVE  /\ Patched \in Stored /\ \A f \in Fields : TextOf(f, Patched) = TextOf(f, store)
           /\ AnswerOf(Patched) = AnswerOf(store)
           /\ store = None => Patched = None
           /\ store # None => Patched # None /\ Patched.revealed /\ Patched.working = store.working
           /\ store # None /\ store.revealed => Patched = store
  <1>1. CASE store = None
    BY <1>1 DEF Patched
  <1>2. CASE store # None
    <2>1. store \in Sheets /\ Patched = [store EXCEPT !.revealed = TRUE]
      BY <1>2 DEF Stored, Patched
    <2>2. /\ Patched \in Sheets /\ Patched.revealed = TRUE
          /\ Patched.answer = store.answer /\ Patched.working = store.working
      BY <2>1 DEF Sheets
    <2>3. Patched # None
      BY <2>2, NoSheetAssumption
    <2>4. store.revealed => Patched = store
      BY <2>1 DEF Sheets
    <2>5. QED
      BY <1>2, <2>2, <2>3, <2>4 DEF Stored, TextOf, AnswerOf, WorkingOf
  <1>3. QED  BY <1>1, <1>2

\* Clearing the answer leaves the pad, and no mark that the answer was shown.
LEMMA ClearedIs ==
    ASSUME store \in Stored
    PROVE  /\ Cleared \in Stored /\ AnswerOf(Cleared) = 0 /\ WorkingOf(Cleared) = WorkingOf(store)
           /\ Cleared # None => ~ Cleared.revealed
           /\ AnswerOf(store) # 0 => Cleared # store
  <1>1. CASE WorkingOf(store) = 0
    BY <1>1 DEF Cleared, Stored, AnswerOf, WorkingOf
  <1>2. CASE WorkingOf(store) # 0
    <2>1. store \in Sheets /\ store # None /\ store.working = WorkingOf(store)
      BY <1>2 DEF Stored, WorkingOf
    <2>2. Cleared = [answer |-> 0, working |-> store.working, revealed |-> FALSE]
      BY <1>2 DEF Cleared
    <2>3. /\ Cleared \in Sheets /\ Cleared.answer = 0 /\ Cleared.working = store.working
          /\ Cleared.revealed = FALSE
      BY <2>1, <2>2, SheetAssumption DEF Sheets
    <2>4. Cleared # None
      BY <2>3, NoSheetAssumption
    <2>5. QED
      BY <2>1, <2>3, <2>4 DEF Stored, AnswerOf, WorkingOf
  <1>3. QED  BY <1>1, <1>2

-----------------------------------------------------------------------------
(* The pages that have no part in a step.                                  *)

LEMMA HandStays ==
    ASSUME NEW t \in Tabs, HandKept(t), tab'[t] = tab[t], hand'[t] = hand[t],
           tab[t].at = "cue" => /\ rewritten[t] \subseteq rewritten'[t]
                                /\ \A f \in Fields \ rewritten'[t] : TextOf(f, store') = TextOf(f, store)
    PROVE  HandKept(t)'
  BY DEF HandKept, Snapshot

\* A page that another one's write does not reach sees what is stored.
LEMMA StaysUpToDate ==
    ASSUME NEW t \in Tabs, UpToDate(t), IsTab(tab[t]), tab'[t] = tab[t],
           store' = store \/ (tab[t].at = "away" /\ tab[t].snap = Unread)
    PROVE  UpToDate(t)'
  BY DEF UpToDate, IsTab, RevealedNow

\* A write that another page makes costs a page's hand nothing, but in a field that page
\* has committed.
LEMMA OtherPages ==
    ASSUME SheetInv, NEW t \in Tabs, NEW sheet, Write(t, sheet),
           \A u \in Tabs \ {t} :
              /\ tab'[u] = tab[u] /\ hand'[u] = hand[u]
              /\ tab[u].at = "cue" => /\ rewritten[u] \subseteq rewritten'[u]
                                     /\ \A f \in Fields \ rewritten'[u] :
                                            TextOf(f, sheet) = TextOf(f, store)
    PROVE  /\ \A u \in Tabs \ {t} : HandKept(u)'
           /\ ~ crossed' => ~ crossed /\ \A u \in Tabs \ {t} : UpToDate(u)'
           /\ store' = sheet /\ event' \in [Tabs -> BOOLEAN] /\ crossed' \in BOOLEAN
  <1>1. /\ store' = sheet
        /\ crossed' = (crossed \/ (sheet # store /\ \E u \in Tabs \ {t} :
                                     tab[u].at # "away" \/ tab[u].snap # Unread))
        /\ event' \in [Tabs -> BOOLEAN]
    BY DEF Write
  <1>2. \A u \in Tabs \ {t} : HandKept(u)'
    BY <1>1, HandStays DEF SheetInv
  <1>3. ASSUME ~ crossed', NEW u \in Tabs \ {t} PROVE UpToDate(u)'
    BY <1>1, <1>3, StaysUpToDate DEF SheetInv, SheetTypeInv
  <1>4. crossed' \in BOOLEAN
    BY <1>1 DEF SheetInv, SheetTypeInv
  <1>5. QED
    BY <1>1, <1>2, <1>3, <1>4

\* A step of one page leaves the others' pages.
LEMMA PagePut ==
    ASSUME SheetTypeInv, NEW t \in Tabs, NEW page, IsTab(page), tab' = [tab EXCEPT ![t] = page]
    PROVE  /\ tab' = [u \in Tabs |-> tab'[u]] /\ \A u \in Tabs : IsTab(tab'[u])
           /\ tab'[t] = page /\ \A u \in Tabs \ {t} : tab'[u] = tab[u]
  BY DEF SheetTypeInv

(* A field stored: what it held, beside what the record had of the other.  *)
LEMMA Committed ==
    ASSUME SheetInv, NEW t \in Tabs, NEW field \in Fields, tab[t].at = "cue", tab[t].focus = field,
           Commit(t), \A u \in Tabs \ {t} : tab'[u] = tab[u], UNCHANGED <<reported, clears>>
    PROVE  /\ store' \in Stored /\ event' \in [Tabs -> BOOLEAN] /\ crossed' \in BOOLEAN
           /\ rewritten' \in [Tabs -> SUBSET Fields] /\ UNCHANGED <<hand, seen, held>>
           /\ TextOf(field, store') = tab[t].text[field]
           /\ \A g \in Fields \ {field} : TextOf(g, store') = TextOf(g, store)
           /\ RevealedNow' = RevealedNow /\ store' # None
           /\ \A f \in Fields \ rewritten'[t] :
                 f \notin rewritten[t] /\ TextOf(f, store') = TextOf(f, store)
           /\ PadIsKept'
           /\ \A u \in Tabs \ {t} : HandKept(u)'
           /\ ~ crossed' => ~ crossed /\ ReportsCounted' /\ \A u \in Tabs \ {t} : UpToDate(u)'
  <1>. DEFINE text == tab[t].text[field]
              sheet == Upsert(tab[t], field, text)
              changed == {f \in Fields : TextOf(f, sheet) # TextOf(f, store)}
  <1>1. SheetTypeInv /\ IsTab(tab[t]) /\ store \in Stored /\ text \in TextsOf(field)
    BY DEF SheetInv, SheetTypeInv, IsTab
  <1>2. /\ Write(t, sheet)
        /\ rewritten' = [u \in Tabs |-> IF tab[u].at # "cue" THEN {} ELSE rewritten[u] \cup changed]
        /\ padKept' = IF field = "pad" THEN sheet.working ELSE padKept
        /\ UNCHANGED <<hand, seen, held>>
    BY DEF Commit
  <1>3. /\ sheet \in Sheets /\ sheet # None /\ TextOf(field, sheet) = text
        /\ \A g \in Fields \ {field} : TextOf(g, sheet) = TextOf(g, store)
        /\ sheet.revealed = RevealedNow
        /\ sheet.working = (IF field = "pad" THEN text ELSE WorkingOf(store))
    BY <1>1, UpsertIs
  <1>. HIDE DEF sheet, text
  <1>4. rewritten' \in [Tabs -> SUBSET Fields]
    BY <1>1, <1>2 DEF SheetTypeInv
  <1>5. \A u \in Tabs : tab[u].at = "cue" =>
          /\ rewritten'[u] = rewritten[u] \cup changed
          /\ \A f \in Fields \ rewritten'[u] : f \notin rewritten[u] /\ TextOf(f, sheet) = TextOf(f, store)
    BY <1>2
  <1>6. /\ \A u \in Tabs \ {t} : HandKept(u)'
        /\ ~ crossed' => ~ crossed /\ \A u \in Tabs \ {t} : UpToDate(u)'
        /\ store' = sheet /\ event' \in [Tabs -> BOOLEAN] /\ crossed' \in BOOLEAN
    <2>1. \A u \in Tabs \ {t} :
            /\ tab'[u] = tab[u] /\ hand'[u] = hand[u]
            /\ tab[u].at = "cue" => /\ rewritten[u] \subseteq rewritten'[u]
                                   /\ \A f \in Fields \ rewritten'[u] :
                                          TextOf(f, sheet) = TextOf(f, store)
      BY <1>2, <1>5
    <2>2. QED
      BY <1>2, <2>1, OtherPages
  <1>7. RevealedNow' = RevealedNow
    BY <1>3, <1>6 DEF RevealedNow
  <1>8. PadIsKept'
    <2>1. store' # None /\ store'.working = padKept'
      BY <1>2, <1>3, <1>6 DEF SheetInv, PadIsKept, WorkingOf
    <2>2. seen' => store'.revealed
      BY <1>2, <1>3, <1>6 DEF SheetInv, PadIsKept, RevealedNow
    <2>3. QED
      BY <2>1, <2>2 DEF PadIsKept
  <1>9. ASSUME ~ crossed' PROVE ReportsCounted'
    <2>1. ReportsCounted /\ UpToDate(t)
      BY <1>6, <1>9 DEF SheetInv
    <2>2. AnswerOf(store') = (IF field = "line" THEN text ELSE AnswerOf(store))
      BY <1>3, <1>6 DEF TextOf, Fields
    <2>3. held # None => AnswerOf(store') = held
      BY <2>1, <2>2 DEF ReportsCounted, UpToDate, text
    <2>4. QED
      BY <1>2, <1>7, <2>1, <2>3 DEF ReportsCounted
  <1>10. QED
    BY <1>2, <1>3, <1>4, <1>5, <1>6, <1>7, <1>8, <1>9 DEF Stored, text

\* What has to be shown of a step of one page.
LEMMA Together ==
    ASSUME NEW t \in Tabs, SheetTypeInv', PadIsKept', HandKept(t)',
           \A u \in Tabs \ {t} : HandKept(u)',
           ~ crossed' => ReportsCounted' /\ UpToDate(t)' /\ \A u \in Tabs \ {t} : UpToDate(u)'
    PROVE  SheetInv'
  BY DEF SheetInv

-----------------------------------------------------------------------------
(* The worksheet's steps.                                                  *)

LEMMA FocusKeeps ==
    ASSUME SheetInv, NEW t \in Tabs, NEW field \in Fields, Focus(t, field) PROVE SheetInv'
  <1>. DEFINE page == [tab[t] EXCEPT !.focus = field]
  <1>1. SheetTypeInv /\ IsTab(tab[t])
    BY DEF SheetInv, SheetTypeInv
  <1>2. /\ IsTab(page) /\ page.at = tab[t].at /\ page.snap = tab[t].snap /\ page.text = tab[t].text
        /\ page.seed = tab[t].seed /\ page.offer = tab[t].offer /\ page.due = tab[t].due
        /\ page.shown = tab[t].shown
    BY <1>1 DEF IsTab, TabTypes
  <1>3. /\ tab' = [tab EXCEPT ![t] = page]
        /\ UNCHANGED <<store, event, attempts, reported, clears, sheetHistory>>
    BY <1>1 DEF Focus, SheetTypeInv
  <1>. HIDE DEF page
  <1>4. /\ tab' = [u \in Tabs |-> tab'[u]] /\ \A u \in Tabs : IsTab(tab'[u])
        /\ tab'[t] = page /\ \A u \in Tabs \ {t} : tab'[u] = tab[u]
    BY <1>1, <1>2, <1>3, PagePut
  <1>5. SheetTypeInv'
    BY <1>1, <1>3, <1>4 DEF SheetTypeInv, sheetHistory
  <1>6. PadIsKept'
    BY <1>3 DEF SheetInv, PadIsKept, sheetHistory
  <1>7. \A u \in Tabs : HandKept(u)'
    BY <1>2, <1>3, <1>4 DEF SheetInv, HandKept, Snapshot, sheetHistory
  <1>8. ~ crossed' => ReportsCounted' /\ \A u \in Tabs : UpToDate(u)'
    BY <1>2, <1>3, <1>4 DEF SheetInv, ReportsCounted, UpToDate, RevealedNow, sheetHistory
  <1>9. QED
    BY <1>5, <1>6, <1>7, <1>8, Together

\* The inductive step, action by action.
LEMMA BlurKeeps == ASSUME SheetInv, NEW t \in Tabs, Blur(t) PROVE SheetInv'
  <1>. DEFINE page == [Unsnapped(tab[t]) EXCEPT !.focus = None]
              field == tab[t].focus
  <1>1. SheetTypeInv /\ IsTab(tab[t]) /\ tab[t].at = "cue" /\ field \in Fields
    BY DEF Blur, SheetInv, SheetTypeInv, IsTab, TabTypes
  <1>2. /\ IsTab(page) /\ page.at = tab[t].at /\ page.snap = Unread /\ page.text = tab[t].text
        /\ page.seed = tab[t].seed /\ page.offer = tab[t].offer /\ page.due = tab[t].due
        /\ page.shown = tab[t].shown
    BY <1>1 DEF Unsnapped, IsTab, TabTypes
  <1>3. /\ tab' = [tab EXCEPT ![t] = page] /\ Commit(t)
        /\ UNCHANGED <<attempts, reported, clears>>
    BY <1>1 DEF Blur, SheetTypeInv
  <1>. HIDE DEF page, field
  <1>4. /\ tab' = [u \in Tabs |-> tab'[u]] /\ \A u \in Tabs : IsTab(tab'[u])
        /\ tab'[t] = page /\ \A u \in Tabs \ {t} : tab'[u] = tab[u]
    BY <1>1, <1>2, <1>3, PagePut
  <1>5. /\ store' \in Stored /\ event' \in [Tabs -> BOOLEAN] /\ crossed' \in BOOLEAN
        /\ rewritten' \in [Tabs -> SUBSET Fields] /\ UNCHANGED <<hand, seen, held>>
        /\ TextOf(field, store') = tab[t].text[field]
        /\ \A g \in Fields \ {field} : TextOf(g, store') = TextOf(g, store)
        /\ RevealedNow' = RevealedNow /\ store' # None
        /\ \A f \in Fields \ rewritten'[t] :
              f \notin rewritten[t] /\ TextOf(f, store') = TextOf(f, store)
        /\ PadIsKept'
        /\ \A u \in Tabs \ {t} : HandKept(u)'
        /\ ~ crossed' => ~ crossed /\ ReportsCounted' /\ \A u \in Tabs \ {t} : UpToDate(u)'
    BY <1>1, <1>3, <1>4, Committed DEF field
  <1>6. SheetTypeInv'
    BY <1>1, <1>3, <1>4, <1>5 DEF SheetTypeInv
  <1>7. HandKept(t)'
    BY <1>1, <1>2, <1>4, <1>5 DEF SheetInv, HandKept, Snapshot
  <1>8. ~ crossed' => UpToDate(t)'
    <2>. SUFFICES ASSUME ~ crossed' PROVE UpToDate(t)'
      OBVIOUS
    <2>1. UpToDate(t)
      BY <1>5 DEF SheetInv
    <2>2. AnswerOf(store') = (IF field = "line" THEN tab[t].text["line"] ELSE AnswerOf(store))
      BY <1>1, <1>5 DEF TextOf, Fields
    <2>3. QED
      BY <1>1, <1>2, <1>4, <1>5, <2>1, <2>2 DEF UpToDate, IsTab
  <1>9. QED
    BY <1>4, <1>5, <1>6, <1>7, <1>8, Together

LEMMA TypeKeeps ==
    ASSUME SheetInv, NEW t \in Tabs, NEW text, Type(t, text) PROVE SheetInv'
  <1>. DEFINE b == tab[t]
              field == b.focus
              s == Snapshot(b)
              page == Rendered(b, field, text)
  <1>1. /\ SheetTypeInv /\ IsTab(b) /\ b.at = "cue" /\ field \in Fields /\ store \in Stored
        /\ text \in TextsOf(field) /\ (field = "line" => ~ Locked(b))
    BY DEF Type, SheetInv, SheetTypeInv, IsTab, TabTypes, TextsOf
  <1>2. /\ IsTab(page)
        /\ page.at = b.at /\ page.focus = field /\ page.offer = b.offer
        /\ page.shown = b.shown /\ page.due = b.due /\ page.snap = s
        /\ page.seed[field] = s
        /\ page.text[field] = IF /\ s # b.seed[field]
                                 /\ TextOf(field, s) # TextOf(field, b.seed[field])
                                 /\ TextOf(field, s) # text
                              THEN TextOf(field, s) ELSE text
        /\ \A g \in Fields \ {field} : page.seed[g] = b.seed[g] /\ page.text[g] = b.text[g]
    BY <1>1, RenderedIs
  <1>3. /\ tab' = [tab EXCEPT ![t] = page] /\ hand' = [hand EXCEPT ![t][field] = text]
        /\ UNCHANGED <<store, event, attempts, reported, clears, rewritten, crossed, padKept, seen, held>>
    BY <1>1 DEF Type, SheetTypeInv
  <1>4. s \in Stored /\ s # Unread /\ (b.snap = Unread => s = store) /\ (b.snap # Unread => s = b.snap)
    BY <1>1, SnapshotIsStored, NoSheetAssumption DEF IsTab, Stored
  <1>. HIDE DEF page, b, field, s
  <1>5. /\ tab' = [u \in Tabs |-> tab'[u]] /\ \A u \in Tabs : IsTab(tab'[u])
        /\ tab'[t] = page /\ \A u \in Tabs \ {t} : tab'[u] = tab[u]
    BY <1>1, <1>2, <1>3, PagePut
  <1>6. /\ hand' \in [Tabs -> [Fields -> Texts \cup Pads]]
        /\ hand'[t][field] = text /\ \A g \in Fields \ {field} : hand'[t][g] = hand[t][g]
        /\ \A u \in Tabs \ {t} : hand'[u] = hand[u]
    <2>1. text \in Texts \cup Pads
      BY <1>1 DEF TextsOf
    <2>2. QED
      BY <1>1, <1>3, <2>1 DEF SheetTypeInv
  <1>7. SheetTypeInv'
    BY <1>1, <1>3, <1>5, <1>6 DEF SheetTypeInv
  <1>8. PadIsKept'
    BY <1>3 DEF SheetInv, PadIsKept
  <1>9. \A u \in Tabs \ {t} : HandKept(u)'
    BY <1>3, <1>5, <1>6, HandStays DEF SheetInv
  <1>10. HandKept(t)'
    <2>1. \A f \in Fields \ rewritten[t] :
            /\ b.text[f] = hand[t][f] /\ TextOf(f, store) = TextOf(f, b.seed[f])
            /\ TextOf(f, s) = TextOf(f, b.seed[f])
            /\ f = "line" /\ b.offer => AnswerOf(b.seed[f]) # 0
      BY <1>1 DEF SheetInv, HandKept, b, s
    <2>2. Snapshot(tab[t])' = s
      BY <1>2, <1>4, <1>5 DEF Snapshot
    <2>3. ASSUME NEW f \in Fields \ rewritten[t]
          PROVE  /\ page.text[f] = hand'[t][f]
                 /\ TextOf(f, store) = TextOf(f, page.seed[f])
                 /\ TextOf(f, s) = TextOf(f, page.seed[f])
                 /\ f = "line" /\ page.offer => AnswerOf(page.seed[f]) # 0
      <3>1. CASE f = field
        <4>1. f = "line" => AnswerOf(s) = AnswerOf(b.seed[f])
          BY <2>1 DEF TextOf
        <4>2. QED
          BY <1>2, <1>6, <2>1, <3>1, <4>1
      <3>2. CASE f # field
        BY <1>2, <1>6, <2>1, <3>2
      <3>3. QED  BY <3>1, <3>2
    <2>4. QED
      BY <1>3, <1>5, <2>2, <2>3 DEF HandKept
  <1>11. ASSUME ~ crossed' PROVE ReportsCounted' /\ \A u \in Tabs : UpToDate(u)'
    <2>1. ReportsCounted /\ \A u \in Tabs : UpToDate(u)
      BY <1>3, <1>11 DEF SheetInv
    <2>2. ReportsCounted'
      BY <1>3, <2>1 DEF ReportsCounted, RevealedNow
    <2>3. \A u \in Tabs \ {t} : UpToDate(u)'
      BY <1>1, <1>3, <1>5, <2>1, StaysUpToDate DEF SheetTypeInv
    <2>4. s = store /\ (RevealedNow => b.seed["line"] # None /\ b.seed["line"].revealed)
      BY <1>1, <1>4, <2>1 DEF UpToDate, b
    <2>5. RevealedNow /\ AnswerOf(store) # 0 => page.text["line"] = AnswerOf(store)
      <3>1. CASE field # "line"
        BY <1>1, <1>2, <2>1, <3>1 DEF UpToDate, b, Fields
      <3>2. CASE field = "line" /\ RevealedNow /\ AnswerOf(store) # 0
        <4>1. AnswerOf(b.seed["line"]) = 0
          BY <1>1, <2>4, <3>2 DEF Locked
        <4>2. s # b.seed["line"] /\ TextOf("line", s) = AnswerOf(store)
              /\ TextOf("line", b.seed["line"]) = 0
          BY <2>4, <3>2, <4>1 DEF TextOf
        <4>3. QED
          BY <1>2, <3>2, <4>2
      <3>3. QED  BY <3>1, <3>2
    <2>6. RevealedNow => page.seed["line"] # None /\ page.seed["line"].revealed
      BY <1>1, <1>2, <2>4 DEF Fields, RevealedNow
    <2>7. UpToDate(t)'
      BY <1>1, <1>2, <1>3, <1>5, <2>4, <2>5, <2>6 DEF UpToDate, RevealedNow, IsTab
    <2>8. QED  BY <2>2, <2>3, <2>7
  <1>12. QED
    BY <1>7, <1>8, <1>9, <1>10, <1>11, Together

LEMMA EvaluateKeeps == ASSUME SheetInv, NEW t \in Tabs, Evaluate(t) PROVE SheetInv'
  <1>. DEFINE b == tab[t]
              field == "pad"
              fresh == [b EXCEPT !.snap = store']
              page == Rendered(fresh, field, b.text[field])
  <1>1. /\ SheetTypeInv /\ IsTab(b) /\ b.at = "cue" /\ field \in Fields /\ b.focus = field
        /\ store \in Stored /\ b.text[field] \in TextsOf(field)
        /\ Commit(t) /\ tab' = [tab EXCEPT ![t] = page] /\ UNCHANGED <<attempts, reported, clears>>
    BY DEF Evaluate, SheetInv, SheetTypeInv, Fields, IsTab
  <1>2. \A u \in Tabs \ {t} : tab'[u] = tab[u]
    BY <1>1 DEF SheetTypeInv
  <1>3. /\ store' \in Stored /\ event' \in [Tabs -> BOOLEAN] /\ crossed' \in BOOLEAN
        /\ rewritten' \in [Tabs -> SUBSET Fields] /\ UNCHANGED <<hand, seen, held>>
        /\ TextOf(field, store') = b.text[field]
        /\ \A g \in Fields \ {field} : TextOf(g, store') = TextOf(g, store)
        /\ RevealedNow' = RevealedNow /\ store' # None
        /\ \A f \in Fields \ rewritten'[t] :
              f \notin rewritten[t] /\ TextOf(f, store') = TextOf(f, store)
        /\ PadIsKept'
        /\ \A u \in Tabs \ {t} : HandKept(u)'
        /\ ~ crossed' => ~ crossed /\ ReportsCounted' /\ \A u \in Tabs \ {t} : UpToDate(u)'
    BY <1>1, <1>2, Committed
  <1>4. /\ IsTab(fresh) /\ fresh.snap = store' /\ fresh.at = b.at /\ fresh.focus = b.focus
        /\ fresh.offer = b.offer /\ fresh.shown = b.shown /\ fresh.due = b.due
        /\ fresh.text = b.text /\ fresh.seed = b.seed
    BY <1>1, <1>3, ResnappedIs
  <1>. HIDE DEF fresh
  <1>5. Snapshot(fresh) = store' /\ store' # Unread
    BY <1>3, <1>4, NoSheetAssumption DEF Snapshot, Stored
  <1>6. /\ IsTab(page) /\ page.at = b.at /\ page.offer = b.offer
        /\ page.shown = b.shown /\ page.due = b.due /\ page.snap = store'
        /\ page.seed[field] = store' /\ page.text[field] = b.text[field]
        /\ page.seed["line"] = b.seed["line"] /\ page.text["line"] = b.text["line"]
    <2>1. "line" \in Fields \ {field}
      BY DEF Fields
    <2>2. QED
      BY <1>1, <1>3, <1>4, <1>5, <2>1, RenderedIs
  <1>. HIDE DEF page, b
  <1>7. /\ tab' = [u \in Tabs |-> tab'[u]] /\ \A u \in Tabs : IsTab(tab'[u])
        /\ tab'[t] = page /\ \A u \in Tabs \ {t} : tab'[u] = tab[u]
    BY <1>1, <1>6, PagePut
  <1>8. SheetTypeInv'
    BY <1>1, <1>3, <1>7 DEF SheetTypeInv
  <1>9. HandKept(t)'
    <2>1. Snapshot(tab[t])' = store'
      BY <1>6, <1>7 DEF Snapshot
    <2>2. ASSUME NEW f \in Fields \ rewritten'[t]
          PROVE  /\ page.text[f] = hand'[t][f]
                 /\ TextOf(f, store') = TextOf(f, page.seed[f])
                 /\ f = "line" /\ page.offer => AnswerOf(page.seed[f]) # 0
      <3>1. /\ f \notin rewritten[t] /\ TextOf(f, store') = TextOf(f, store)
            /\ b.text[f] = hand[t][f] /\ TextOf(f, store) = TextOf(f, b.seed[f])
            /\ f = "line" /\ b.offer => AnswerOf(b.seed[f]) # 0
        BY <1>1, <1>3 DEF SheetInv, HandKept, b
      <3>2. f \in {"line", field}
        BY DEF Fields
      <3>3. QED
        BY <1>3, <1>6, <3>1, <3>2
    <2>3. QED
      BY <1>7, <2>1, <2>2 DEF HandKept
  <1>10. ASSUME ~ crossed' PROVE UpToDate(t)'
    <2>1. UpToDate(t)
      BY <1>3, <1>10 DEF SheetInv
    <2>2. AnswerOf(store') = AnswerOf(store)
      BY <1>3 DEF TextOf, Fields
    <2>3. QED
      BY <1>1, <1>3, <1>6, <1>7, <2>1, <2>2 DEF UpToDate, IsTab, b
  <1>11. QED
    BY <1>3, <1>7, <1>8, <1>9, <1>10, Together

LEMMA CommitAndTurnKeeps == ASSUME SheetInv, NEW t \in Tabs, CommitAndTurn(t) PROVE SheetInv'
  <1>. DEFINE page == [Away(store') EXCEPT !.at = "answer", !.shown = store', !.due = TRUE]
              field == "line"
  <1>1. /\ SheetTypeInv /\ tab[t].at = "cue" /\ field \in Fields /\ tab[t].focus = field
        /\ Commit(t) /\ tab' = [tab EXCEPT ![t] = page] /\ UNCHANGED <<attempts, reported, clears>>
    BY DEF CommitAndTurn, SheetInv, Fields
  <1>2. \A u \in Tabs \ {t} : tab'[u] = tab[u]
    BY <1>1 DEF SheetTypeInv
  <1>3. /\ store' \in Stored /\ event' \in [Tabs -> BOOLEAN] /\ crossed' \in BOOLEAN
        /\ rewritten' \in [Tabs -> SUBSET Fields] /\ UNCHANGED <<hand, seen, held>>
        /\ PadIsKept'
        /\ \A u \in Tabs \ {t} : HandKept(u)'
        /\ ~ crossed' => ReportsCounted' /\ \A u \in Tabs \ {t} : UpToDate(u)'
    BY <1>1, <1>2, Committed
  <1>4. IsTab(page) /\ page.at = "answer" /\ page.snap = store' /\ page.shown = store' /\ page.due
    BY <1>3, AnswerPageIs
  <1>. HIDE DEF page
  <1>5. /\ tab' = [u \in Tabs |-> tab'[u]] /\ \A u \in Tabs : IsTab(tab'[u]) /\ tab'[t] = page
    BY <1>1, <1>4, PagePut
  <1>6. SheetTypeInv'
    BY <1>1, <1>3, <1>5 DEF SheetTypeInv
  <1>7. HandKept(t)' /\ UpToDate(t)'
    BY <1>4, <1>5 DEF HandKept, UpToDate
  <1>8. QED
    BY <1>3, <1>6, <1>7, Together

(* A page left or opened: the record stays as it is. *)
LEMMA OpenKeeps ==
    ASSUME SheetInv, NEW t \in Tabs, NEW page \in {"away", "cue", "answer"}, NEW how \in {"link", "load"},
           Open(t, page, how)
    PROVE  SheetInv'
  <1>. DEFINE b == IF how = "load" THEN Away(Unread) ELSE tab[t]
              s == Snapshot(b)
              new == CASE page = "cue" -> Mounted(b)
                       [] page = "answer" -> Revealing(b, how)
                       [] OTHER -> Away(b.snap)
  <1>1. /\ SheetTypeInv /\ store \in Stored
        /\ tab' = [tab EXCEPT ![t] = new] /\ hand' = [hand EXCEPT ![t] = tab'[t].text]
        /\ rewritten' = [rewritten EXCEPT ![t] = IF page = "cue" /\ s # store THEN Fields ELSE {}]
        /\ event' = (IF how = "load" THEN [event EXCEPT ![t] = FALSE] ELSE event)
        /\ UNCHANGED <<store, attempts, reported, clears, crossed, padKept, seen, held>>
    BY DEF Open, SheetInv, SheetTypeInv
  <1>2. /\ IsTab(b) /\ b.snap \in Stored \cup {Unread}
        /\ ~ crossed => b.snap \in {Unread, store}
    BY <1>1, AwayIs DEF SheetInv, SheetTypeInv, UpToDate, IsTab, TabTypes
  <1>3. s \in Stored /\ (~ crossed => s = store)
    BY <1>1, <1>2, SnapshotIsStored DEF IsTab
  <1>. HIDE DEF s, b
  <1>4. /\ page = "cue" =>
             /\ IsTab(new) /\ new.at = "cue" /\ new.snap = s /\ ~ new.due
             /\ new.offer = (AnswerOf(s) # 0)
             /\ \A f \in Fields : new.text[f] = TextOf(f, s) /\ new.seed[f] = s
        /\ page = "answer" =>
             /\ IsTab(new) /\ new.at = "answer" /\ new.snap = s /\ new.due /\ new.shown \in {None, s}
        /\ page = "away" => IsTab(new) /\ new.at = "away" /\ new.snap = b.snap /\ ~ new.due
    <2>1. CASE page = "cue"
      BY <1>1, <1>2, <2>1, MountedIs DEF s
    <2>2. CASE page = "answer"
      <3>. DEFINE shown == IF how = "load" THEN None ELSE s
      <3>1. shown \in Stored /\ shown \in {None, s}
        BY <1>3 DEF Stored
      <3>2. new = [Away(s) EXCEPT !.at = "answer", !.shown = shown, !.due = TRUE]
        BY <2>2 DEF Revealing, s
      <3>. HIDE DEF new, shown
      <3>3. IsTab(new) /\ new.at = "answer" /\ new.snap = s /\ new.shown = shown /\ new.due
        BY <1>3, <3>1, <3>2, AnswerPageIs
      <3>4. QED
        BY <2>2, <3>1, <3>3
    <2>3. CASE page = "away"
      BY <1>2, <2>3, AwayIs
    <2>4. QED  BY <2>1, <2>2, <2>3
  <1>. HIDE DEF new
  <1>5. IsTab(new)
    BY <1>4
  <1>6. /\ tab' = [u \in Tabs |-> tab'[u]] /\ \A u \in Tabs : IsTab(tab'[u])
        /\ tab'[t] = new /\ \A u \in Tabs \ {t} : tab'[u] = tab[u]
    BY <1>1, <1>5, PagePut
  <1>7. /\ hand' \in [Tabs -> [Fields -> Texts \cup Pads]]
        /\ hand'[t] = new.text /\ \A u \in Tabs \ {t} : hand'[u] = hand[u]
    BY <1>1, <1>5, <1>6 DEF SheetTypeInv, IsTab, TabTypes
  <1>8. /\ rewritten' \in [Tabs -> SUBSET Fields] /\ event' \in [Tabs -> BOOLEAN]
        /\ page = "cue" /\ s # store => rewritten'[t] = Fields
        /\ \A u \in Tabs \ {t} : rewritten'[u] = rewritten[u]
    BY <1>1 DEF SheetTypeInv
  <1>9. SheetTypeInv'
    BY <1>1, <1>6, <1>7, <1>8 DEF SheetTypeInv
  <1>10. PadIsKept'
    BY <1>1 DEF SheetInv, PadIsKept
  <1>11. \A u \in Tabs \ {t} : HandKept(u)'
    BY <1>1, <1>6, <1>7, <1>8, HandStays DEF SheetInv
  <1>12. HandKept(t)'
    <2>. SUFFICES ASSUME page = "cue" PROVE HandKept(t)'
      BY <1>4, <1>6 DEF HandKept
    <2>1. CASE s # store
      BY <1>8, <2>1 DEF HandKept
    <2>2. CASE s = store
      <3>1. Snapshot(tab[t])' = s
        BY <1>1, <1>4, <1>6, <2>2 DEF Snapshot
      <3>2. \A f \in Fields :
              /\ new.text[f] = hand'[t][f] /\ TextOf(f, store') = TextOf(f, new.seed[f])
              /\ TextOf(f, s) = TextOf(f, new.seed[f])
              /\ f = "line" /\ new.offer => AnswerOf(new.seed[f]) # 0
        BY <1>1, <1>4, <1>7, <2>2
      <3>3. QED
        BY <1>6, <3>1, <3>2 DEF HandKept
    <2>3. QED  BY <2>1, <2>2
  <1>13. ASSUME ~ crossed' PROVE ReportsCounted' /\ UpToDate(t)' /\ \A u \in Tabs \ {t} : UpToDate(u)'
    <2>1. ~ crossed /\ ReportsCounted /\ \A u \in Tabs : UpToDate(u)
      BY <1>1, <1>13 DEF SheetInv
    <2>2. ReportsCounted'
      BY <1>1, <2>1 DEF ReportsCounted, RevealedNow
    <2>3. \A u \in Tabs \ {t} : UpToDate(u)'
      BY <1>1, <1>6, <2>1, StaysUpToDate DEF SheetTypeInv
    <2>4. s = store /\ b.snap \in {Unread, store} /\ store' = store
      BY <1>1, <1>2, <1>3, <2>1
    <2>5. TextOf("line", s) = AnswerOf(s) /\ "line" \in Fields
      BY DEF TextOf, Fields
    <2>6. UpToDate(t)'
      BY <1>4, <1>6, <2>4, <2>5 DEF UpToDate, RevealedNow
    <2>7. QED  BY <2>2, <2>3, <2>6
  <1>14. QED
    BY <1>9, <1>10, <1>11, <1>12, <1>13, Together

(* What the next frame reports: nothing, or one answer. *)
LEMMA ReportIs ==
    ASSUME SheetTypeInv, NEW sheet \in Stored, ReportOf(sheet)
    PROVE  /\ attempts' \in [{Frame} -> 0 .. MaxAttempt] /\ reported' \in Seq(SheetReports)
           /\ Reports(sheet) => Len(reported') = Len(reported) + 1
           /\ ~ Reports(sheet) => reported' = reported
  <1>1. CASE Reports(sheet)
    <2>1. /\ reported' = Append(reported, AnswerReport(Frame, Outcome(sheet), attempts))
          /\ attempts' = Taken(attempts, {Frame})
      BY <1>1 DEF ReportOf
    <2>2. AnswerReport(Frame, Outcome(sheet), attempts) \in SheetReports
      <3>1. Outcome(sheet) \in {"blank", "matched", "missed"}
        BY DEF Outcome
      <3>2. attempts \in [{Frame} -> 0 .. MaxAttempt]
        BY DEF SheetTypeInv
      <3>3. QED
        BY <3>1, <3>2 DEF SheetReports
    <2>3. QED
      BY <1>1, <2>1, <2>2, TakenAreCounts DEF SheetTypeInv
  <1>2. CASE ~ Reports(sheet)
    BY <1>2 DEF ReportOf, SheetTypeInv
  <1>3. QED  BY <1>1, <1>2

LEMMA EffectsKeeps == ASSUME SheetInv, NEW t \in Tabs, Effects(t) PROVE SheetInv'
  <1>. DEFINE b == tab[t]
              plain == [Unsnapped(b) EXCEPT !.due = FALSE]
              shown == [plain EXCEPT !.snap = store', !.shown = store']
              page == IF plain.shown = None /\ store # None THEN shown ELSE plain
  <1>1. /\ SheetTypeInv /\ store \in Stored /\ IsTab(b) /\ b.due /\ b.at = "answer"
        /\ Write(t, Patched) /\ ReportOf(b.shown) /\ b.shown \in Stored
        /\ tab' = [tab EXCEPT ![t] = page]
        /\ seen' = (seen \/ store # None)
        /\ held' = (IF held = None /\ AnswerOf(store) # 0 THEN AnswerOf(store) ELSE held)
        /\ UNCHANGED <<clears, hand, rewritten, padKept>>
    BY DEF Effects, SheetInv, SheetTypeInv, IsTab, TabTypes
  <1>2. /\ Patched \in Stored /\ \A f \in Fields : TextOf(f, Patched) = TextOf(f, store)
        /\ AnswerOf(Patched) = AnswerOf(store)
        /\ store = None => Patched = None
        /\ store # None => Patched # None /\ Patched.revealed /\ Patched.working = store.working
        /\ store # None /\ store.revealed => Patched = store
    BY <1>1, PatchedIs
  <1>3. \A u \in Tabs \ {t} :
          /\ tab'[u] = tab[u] /\ hand'[u] = hand[u]
          /\ tab[u].at = "cue" => /\ rewritten[u] \subseteq rewritten'[u]
                                 /\ \A f \in Fields \ rewritten'[u] :
                                        TextOf(f, Patched) = TextOf(f, store)
    BY <1>1, <1>2 DEF SheetTypeInv
  <1>4. /\ \A u \in Tabs \ {t} : HandKept(u)'
        /\ ~ crossed' => ~ crossed /\ \A u \in Tabs \ {t} : UpToDate(u)'
        /\ store' = Patched /\ event' \in [Tabs -> BOOLEAN] /\ crossed' \in BOOLEAN
    BY <1>1, <1>3, OtherPages
  <1>5. /\ IsTab(plain) /\ plain.at = "answer" /\ plain.snap = Unread /\ ~ plain.due
        /\ plain.shown = b.shown
    BY <1>1 DEF Unsnapped, IsTab, TabTypes
  <1>6. IsTab(shown) /\ shown.at = "answer" /\ shown.snap = store' /\ ~ shown.due
    <2>. HIDE DEF plain
    <2>1. QED
      BY <1>2, <1>4, <1>5 DEF IsTab, TabTypes
  <1>7. IsTab(page) /\ page.at = "answer" /\ page.snap \in {Unread, store'} /\ ~ page.due
    BY <1>5, <1>6
  <1>. HIDE DEF page, shown, plain, b
  <1>8. /\ tab' = [u \in Tabs |-> tab'[u]] /\ \A u \in Tabs : IsTab(tab'[u]) /\ tab'[t] = page
    BY <1>1, <1>7, PagePut
  <1>9. /\ attempts' \in [{Frame} -> 0 .. MaxAttempt] /\ reported' \in Seq(SheetReports)
        /\ Reports(b.shown) => Len(reported') = Len(reported) + 1
        /\ ~ Reports(b.shown) => reported' = reported
    BY <1>1, ReportIs
  <1>10. SheetTypeInv'
    BY <1>1, <1>2, <1>4, <1>8, <1>9 DEF SheetTypeInv
  <1>11. PadIsKept'
    BY <1>1, <1>2, <1>4 DEF SheetInv, PadIsKept
  <1>12. HandKept(t)'
    BY <1>7, <1>8 DEF HandKept
  <1>13. RevealedNow' = (store # None)
    BY <1>2, <1>4 DEF RevealedNow
  <1>14. ASSUME ~ crossed' PROVE ReportsCounted' /\ UpToDate(t)'
    <2>1. ReportsCounted /\ UpToDate(t) /\ SheetTypeInv
      BY <1>4, <1>14 DEF SheetInv
    <2>2. Reports(b.shown) => store # None /\ ~ RevealedNow
      BY <1>1, <2>1 DEF UpToDate, Reports, RevealedNow, b
    <2>3. Len(reported) \in Nat /\ clears \in Nat /\ clears' = clears
      BY <1>1, <2>1 DEF SheetTypeInv
    <2>4. Len(reported') + (IF RevealedNow' THEN 0 ELSE 1) <= 1 + clears'
      <3>1. CASE Reports(b.shown)
        <4>1. Len(reported) + 1 <= 1 + clears
          BY <2>1, <2>2, <3>1 DEF ReportsCounted
        <4>2. RevealedNow' /\ Len(reported') = Len(reported) + 1
          BY <1>9, <1>13, <2>2, <3>1
        <4>3. QED
          BY <2>3, <4>1, <4>2
      <3>2. CASE ~ Reports(b.shown)
        BY <1>9, <1>13, <2>1, <2>3, <3>2 DEF ReportsCounted, RevealedNow
      <3>3. QED  BY <3>1, <3>2
    <2>5. held' # None => RevealedNow' /\ AnswerOf(store') = held' /\ held' # 0
      <3>1. CASE held = None /\ AnswerOf(store) # 0
        <4>1. store # None
          BY <3>1 DEF AnswerOf
        <4>2. held' = AnswerOf(store)
          BY <1>1, <3>1
        <4>3. QED
          BY <1>2, <1>4, <1>13, <3>1, <4>1, <4>2
      <3>2. CASE ~ (held = None /\ AnswerOf(store) # 0)
        BY <1>1, <1>2, <1>4, <1>13, <2>1, <3>2 DEF ReportsCounted, RevealedNow
      <3>3. QED  BY <3>1, <3>2
    <2>6. UpToDate(t)'
      BY <1>2, <1>4, <1>7, <1>8, <1>13 DEF UpToDate
    <2>7. QED
      BY <2>4, <2>5, <2>6 DEF ReportsCounted
  <1>15. QED
    BY <1>4, <1>10, <1>11, <1>12, <1>14, Together

LEMMA HearKeeps == ASSUME SheetInv, NEW t \in Tabs, Hear(t) PROVE SheetInv'
  <1>. DEFINE b == tab[t]
  <1>1. /\ SheetTypeInv /\ store \in Stored /\ IsTab(b) /\ ~ b.due
        /\ event' = [event EXCEPT ![t] = FALSE]
        /\ rewritten' = [rewritten EXCEPT ![t] = IF b.at = "cue" THEN Fields ELSE {}]
        /\ UNCHANGED <<store, clears, hand, crossed, padKept, seen, held>>
    BY DEF Hear, SheetInv, SheetTypeInv
  <1>2. PICK page :
          /\ IsTab(page) /\ page.at = b.at /\ ~ page.due /\ tab' = [tab EXCEPT ![t] = page]
          /\ b.at # "cue" => page.snap \in {b.snap, Unread, store}
          /\ b.at = "cue" =>
                /\ page.snap = store
                /\ \A f \in Fields :
                      /\ page.seed[f] = store
                      /\ page.text[f] = IF store # b.seed[f] /\ TextOf(f, store) # TextOf(f, b.seed[f])
                                           /\ TextOf(f, store) # b.text[f]
                                        THEN TextOf(f, store) ELSE b.text[f]
          /\ UNCHANGED <<reported, attempts>> \/ (b.at = "answer" /\ ReportOf(store))
    <2>1. CASE b.at = "away" /\ \E p \in {b, Unsnapped(b)} : tab' = [tab EXCEPT ![t] = p]
                             /\ UNCHANGED <<reported, attempts>>
      <3>1. PICK p \in {b, Unsnapped(b)} : tab' = [tab EXCEPT ![t] = p]
        BY <2>1
      <3>2. IsTab(p) /\ p.at = b.at /\ ~ p.due /\ p.snap \in {b.snap, Unread}
        <4>1. CASE p = b
          BY <1>1, <4>1
        <4>2. CASE p = [b EXCEPT !.snap = Unread]
          BY <1>1, <4>2, ResnappedIs
        <4>3. QED  BY <4>1, <4>2 DEF Unsnapped
      <3>. HIDE DEF b
      <3>3. QED
        BY <2>1, <3>1, <3>2
    <2>2. CASE /\ b.at = "cue" /\ tab' = [tab EXCEPT ![t] = Announced(b, store)]
               /\ UNCHANGED <<reported, attempts>>
      <3>. DEFINE p == Announced(b, store)
      <3>1. /\ IsTab(p) /\ p.at = b.at /\ ~ p.due /\ p.snap = store
            /\ \A f \in Fields :
                  /\ p.seed[f] = store
                  /\ p.text[f] = IF store # b.seed[f] /\ TextOf(f, store) # TextOf(f, b.seed[f])
                                       /\ TextOf(f, store) # b.text[f]
                                    THEN TextOf(f, store) ELSE b.text[f]
        BY <1>1, <2>2, AnnouncedIs
      <3>. HIDE DEF p
      <3>2. tab' = [tab EXCEPT ![t] = p]
        BY <2>2 DEF p
      <3>3. QED
        BY <2>2, <3>1, <3>2
    <2>3. CASE /\ b.at = "answer" /\ tab' = [tab EXCEPT ![t].snap = store, ![t].shown = store]
               /\ ReportOf(store)
      <3>. DEFINE p == [b EXCEPT !.snap = store, !.shown = store]
      <3>1. IsTab(p) /\ p.at = b.at /\ ~ p.due /\ p.snap = store
        BY <1>1 DEF IsTab, TabTypes
      <3>2. tab' = [tab EXCEPT ![t] = p]
        BY <1>1, <2>3 DEF SheetTypeInv
      <3>. HIDE DEF p
      <3>3. QED
        BY <2>3, <3>1, <3>2
    <2>4. QED
      BY <2>1, <2>2, <2>3 DEF Hear
  <1>. HIDE DEF b
  <1>3. /\ tab' = [u \in Tabs |-> tab'[u]] /\ \A u \in Tabs : IsTab(tab'[u])
        /\ tab'[t] = page /\ \A u \in Tabs \ {t} : tab'[u] = tab[u]
    BY <1>1, <1>2, PagePut
  <1>4. /\ attempts' \in [{Frame} -> 0 .. MaxAttempt] /\ reported' \in Seq(SheetReports)
        /\ reported' = reported \/ (b.at = "answer" /\ Reports(store))
    BY <1>1, <1>2, ReportIs DEF SheetTypeInv
  <1>5. /\ rewritten' \in [Tabs -> SUBSET Fields] /\ (b.at = "cue" => rewritten'[t] = Fields)
        /\ \A u \in Tabs \ {t} : rewritten'[u] = rewritten[u]
        /\ event' \in [Tabs -> BOOLEAN]
    BY <1>1 DEF SheetTypeInv
  <1>6. SheetTypeInv'
    BY <1>1, <1>3, <1>4, <1>5 DEF SheetTypeInv
  <1>7. PadIsKept'
    BY <1>1 DEF SheetInv, PadIsKept
  <1>8. \A u \in Tabs \ {t} : HandKept(u)'
    BY <1>1, <1>3, <1>5, HandStays DEF SheetInv
  <1>9. HandKept(t)'
    BY <1>2, <1>3, <1>5 DEF HandKept
  <1>10. ASSUME ~ crossed' PROVE ReportsCounted' /\ UpToDate(t)' /\ \A u \in Tabs \ {t} : UpToDate(u)'
    <2>1. ~ crossed /\ ReportsCounted /\ \A u \in Tabs : UpToDate(u)
      BY <1>1, <1>10 DEF SheetInv
    <2>2. reported' = reported
      BY <1>1, <1>4, <2>1 DEF UpToDate, Reports, RevealedNow, b
    <2>3. ReportsCounted'
      BY <1>1, <2>1, <2>2 DEF ReportsCounted, RevealedNow
    <2>4. \A u \in Tabs \ {t} : UpToDate(u)'
      BY <1>1, <1>3, <2>1, StaysUpToDate DEF SheetTypeInv
    <2>5. TextOf("line", store) = AnswerOf(store) /\ "line" \in Fields
      BY DEF TextOf, Fields
    <2>6. UpToDate(t)'
      BY <1>1, <1>2, <1>3, <2>1, <2>5 DEF UpToDate, RevealedNow, b
    <2>7. QED  BY <2>3, <2>4, <2>6
  <1>11. QED
    BY <1>6, <1>7, <1>8, <1>9, <1>10, Together

(* A clear: nothing of the line is left, and every page of fields is told, *)
(* unless nothing changed.                                                 *)
LEMMA ClearLeaves ==
    ASSUME SheetInv, NEW t \in Tabs, NEW sheet \in Stored, ClearTo(t, sheet),
           \A u \in Tabs \ {t} : tab'[u] = tab[u],
           WorkingOf(sheet) = 0 => sheet = None, sheet # None => ~ sheet.revealed
    PROVE  /\ store' = sheet /\ event' \in [Tabs -> BOOLEAN] /\ crossed' \in BOOLEAN
           /\ rewritten' \in [Tabs -> SUBSET Fields] /\ seen' = FALSE
           /\ clears' \in Nat /\ UNCHANGED <<attempts, reported>>
           /\ hand' = [hand EXCEPT ![t]["line"] = 0]
           /\ hand' \in [Tabs -> [Fields -> Texts \cup Pads]]
           /\ rewritten'[t] = IF sheet # store /\ tab[t].at = "cue" THEN Fields ELSE rewritten[t]
           /\ PadIsKept'
           /\ \A u \in Tabs \ {t} : HandKept(u)'
           /\ ~ crossed' => ~ crossed /\ ReportsCounted' /\ \A u \in Tabs \ {t} : UpToDate(u)'
  <1>1. /\ SheetTypeInv /\ store \in Stored
        /\ clears' = clears + 1 /\ Write(t, sheet)
        /\ rewritten' = [u \in Tabs |-> IF sheet # store /\ tab[u].at = "cue" THEN Fields ELSE rewritten[u]]
        /\ hand' = [hand EXCEPT ![t]["line"] = 0]
        /\ padKept' = WorkingOf(sheet) /\ seen' = FALSE /\ held' = None
        /\ UNCHANGED <<attempts, reported>>
    BY DEF ClearTo, SheetInv, SheetTypeInv
  <1>2. /\ hand' \in [Tabs -> [Fields -> Texts \cup Pads]]
        /\ \A u \in Tabs \ {t} : hand'[u] = hand[u]
    BY <1>1, SheetAssumption DEF SheetTypeInv, Fields
  <1>3. rewritten' \in [Tabs -> SUBSET Fields]
    BY <1>1 DEF SheetTypeInv
  <1>4. \A u \in Tabs \ {t} :
          /\ tab'[u] = tab[u] /\ hand'[u] = hand[u]
          /\ tab[u].at = "cue" => /\ rewritten[u] \subseteq rewritten'[u]
                                 /\ \A f \in Fields \ rewritten'[u] :
                                        TextOf(f, sheet) = TextOf(f, store)
    <2>. SUFFICES ASSUME NEW u \in Tabs \ {t}, tab[u].at = "cue"
                  PROVE  /\ rewritten[u] \subseteq rewritten'[u]
                         /\ \A f \in Fields \ rewritten'[u] : TextOf(f, sheet) = TextOf(f, store)
      BY <1>2
    <2>1. CASE sheet # store
      BY <1>1, <2>1 DEF SheetTypeInv
    <2>2. CASE sheet = store
      BY <1>1, <2>2
    <2>3. QED  BY <2>1, <2>2
  <1>5. /\ \A u \in Tabs \ {t} : HandKept(u)'
        /\ ~ crossed' => ~ crossed /\ \A u \in Tabs \ {t} : UpToDate(u)'
        /\ store' = sheet /\ event' \in [Tabs -> BOOLEAN] /\ crossed' \in BOOLEAN
    BY <1>1, <1>4, OtherPages
  <1>6. PadIsKept'
    BY <1>1, <1>5 DEF PadIsKept, WorkingOf
  <1>7. ASSUME ~ crossed' PROVE ReportsCounted'
    <2>1. ReportsCounted
      BY <1>5, <1>7 DEF SheetInv
    <2>2. Len(reported) \in Nat /\ clears \in Nat
      BY <1>1 DEF SheetTypeInv
    <2>3. Len(reported) <= 1 + clears
      BY <2>1, <2>2 DEF ReportsCounted
    <2>4. QED
      BY <1>1, <2>2, <2>3 DEF ReportsCounted
  <1>8. clears' \in Nat
    BY <1>1 DEF SheetTypeInv
  <1>9. QED
    BY <1>1, <1>2, <1>3, <1>5, <1>6, <1>7, <1>8

LEMMA ClearAnswerKeeps == ASSUME SheetInv, NEW t \in Tabs, ClearAnswer(t) PROVE SheetInv'
  <1>. DEFINE b == tab[t]
              page == Announced(b, Cleared)
  <1>1. /\ SheetTypeInv /\ store \in Stored /\ IsTab(b) /\ b.at = "cue" /\ b.offer
        /\ ClearTo(t, Cleared) /\ tab' = [tab EXCEPT ![t] = page]
    BY DEF ClearAnswer, SheetInv, SheetTypeInv
  <1>2. /\ Cleared \in Stored /\ AnswerOf(Cleared) = 0 /\ WorkingOf(Cleared) = WorkingOf(store)
        /\ Cleared # None => ~ Cleared.revealed
        /\ AnswerOf(store) # 0 => Cleared # store
        /\ WorkingOf(Cleared) = 0 => Cleared = None
    BY <1>1, ClearedIs DEF Cleared
  <1>3. /\ IsTab(page) /\ page.at = "cue" /\ page.due = b.due
        /\ page.snap = Cleared
        /\ \A f \in Fields :
              /\ page.seed[f] = Cleared
              /\ page.text[f] = IF Cleared # b.seed[f] /\ TextOf(f, Cleared) # TextOf(f, b.seed[f])
                                   /\ TextOf(f, Cleared) # b.text[f]
                                THEN TextOf(f, Cleared) ELSE b.text[f]
    BY <1>1, <1>2, AnnouncedIs
  <1>. HIDE DEF page
  <1>4. /\ tab' = [u \in Tabs |-> tab'[u]] /\ \A u \in Tabs : IsTab(tab'[u])
        /\ tab'[t] = page /\ \A u \in Tabs \ {t} : tab'[u] = tab[u]
    BY <1>1, <1>3, PagePut
  <1>5. /\ store' = Cleared /\ event' \in [Tabs -> BOOLEAN] /\ crossed' \in BOOLEAN
        /\ rewritten' \in [Tabs -> SUBSET Fields] /\ seen' = FALSE
        /\ clears' \in Nat /\ UNCHANGED <<attempts, reported>>
        /\ hand' = [hand EXCEPT ![t]["line"] = 0]
        /\ hand' \in [Tabs -> [Fields -> Texts \cup Pads]]
        /\ rewritten'[t] = IF Cleared # store /\ b.at = "cue" THEN Fields ELSE rewritten[t]
        /\ PadIsKept'
        /\ \A u \in Tabs \ {t} : HandKept(u)'
        /\ ~ crossed' => ~ crossed /\ ReportsCounted' /\ \A u \in Tabs \ {t} : UpToDate(u)'
    BY <1>1, <1>2, <1>4, ClearLeaves
  <1>6. SheetTypeInv'
    BY <1>1, <1>2, <1>4, <1>5 DEF SheetTypeInv
  <1>7. HandKept(t)'
    <2>1. CASE Cleared # store
      BY <1>1, <1>5, <2>1 DEF HandKept
    <2>2. CASE Cleared = store
      <3>1. \A f \in Fields \ rewritten[t] :
              /\ b.text[f] = hand[t][f] /\ TextOf(f, store) = TextOf(f, b.seed[f])
              /\ f = "line" => AnswerOf(b.seed[f]) # 0
        BY <1>1 DEF SheetInv, HandKept
      <3>2. "line" \in rewritten[t]
        BY <1>2, <2>2, <3>1 DEF TextOf, Fields
      <3>3. Snapshot(tab[t])' = store
        BY <1>3, <1>4, <1>5, <2>2 DEF Snapshot
      <3>4. \A f \in Fields \ rewritten'[t] :
              /\ f # "line" /\ page.text[f] = hand'[t][f]
              /\ TextOf(f, store) = TextOf(f, page.seed[f])
        BY <1>1, <1>3, <1>5, <2>2, <3>1, <3>2 DEF SheetTypeInv
      <3>5. QED
        BY <1>4, <1>5, <2>2, <3>3, <3>4 DEF HandKept
    <2>3. QED  BY <2>1, <2>2
  <1>8. UpToDate(t)'
    <2>1. ~ RevealedNow'
      BY <1>2, <1>5 DEF RevealedNow
    <2>2. QED
      BY <1>1, <1>3, <1>4, <1>5, <2>1 DEF UpToDate, IsTab
  <1>9. QED
    BY <1>5, <1>6, <1>7, <1>8, Together

LEMMA ClearEverythingKeeps == ASSUME SheetInv, NEW t \in Tabs, ClearEverything(t) PROVE SheetInv'
  <1>. DEFINE page == Unsnapped(tab[t])
  <1>1. /\ SheetTypeInv /\ IsTab(tab[t]) /\ tab[t].at = "away"
        /\ ClearTo(t, None) /\ tab' = [tab EXCEPT ![t] = page]
    BY DEF ClearEverything, SheetInv, SheetTypeInv
  <1>2. IsTab(page) /\ page.at = "away" /\ page.snap = Unread /\ ~ page.due
    BY <1>1, ResnappedIs DEF Unsnapped, IsTab
  <1>. HIDE DEF page
  <1>3. /\ tab' = [u \in Tabs |-> tab'[u]] /\ \A u \in Tabs : IsTab(tab'[u])
        /\ tab'[t] = page /\ \A u \in Tabs \ {t} : tab'[u] = tab[u]
    BY <1>1, <1>2, PagePut
  <1>4. None \in Stored
    BY DEF Stored
  <1>5. /\ store' = None /\ event' \in [Tabs -> BOOLEAN] /\ crossed' \in BOOLEAN
        /\ rewritten' \in [Tabs -> SUBSET Fields] /\ seen' = FALSE
        /\ clears' \in Nat /\ UNCHANGED <<attempts, reported>>
        /\ hand' \in [Tabs -> [Fields -> Texts \cup Pads]]
        /\ PadIsKept'
        /\ \A u \in Tabs \ {t} : HandKept(u)'
        /\ ~ crossed' => ReportsCounted' /\ \A u \in Tabs \ {t} : UpToDate(u)'
    BY <1>1, <1>3, <1>4, ClearLeaves
  <1>6. SheetTypeInv'
    BY <1>1, <1>3, <1>4, <1>5 DEF SheetTypeInv
  <1>7. HandKept(t)' /\ UpToDate(t)'
    BY <1>2, <1>3 DEF HandKept, UpToDate
  <1>8. QED
    BY <1>5, <1>6, <1>7, Together

LEMMA SheetInvInit == SheetInit => SheetInv
  <1>. SUFFICES ASSUME SheetInit PROVE SheetInv
    OBVIOUS
  <1>1. store \in Stored
    <2>1. CASE store = None
      BY <2>1 DEF Stored
    <2>2. CASE store = [answer |-> 1, working |-> 0, revealed |-> FALSE]
      BY <2>2, SheetAssumption DEF SheetInit, Stored, Sheets
    <2>3. QED
      BY <2>1, <2>2 DEF SheetInit
  <1>2. /\ tab = [t \in Tabs |-> Away(Unread)] /\ rewritten = [t \in Tabs |-> {}]
        /\ event = [t \in Tabs |-> FALSE] /\ hand = [t \in Tabs |-> [f \in Fields |-> 0]]
        /\ attempts = [f \in {Frame} |-> 0] /\ reported = <<>> /\ clears = 0
        /\ crossed = FALSE /\ padKept = 0 /\ seen = FALSE /\ held = None
        /\ store \in {None, [answer |-> 1, working |-> 0, revealed |-> FALSE]}
    BY DEF SheetInit
  <1>3. \A t \in Tabs : IsTab(tab[t]) /\ tab[t].at = "away" /\ tab[t].snap = Unread /\ ~ tab[t].due
    BY <1>2, AwayIs
  <1>4. tab = [t \in Tabs |-> tab[t]]
    BY <1>2
  <1>5. hand \in [Tabs -> [Fields -> Texts \cup Pads]] /\ rewritten \in [Tabs -> SUBSET Fields]
    BY <1>2, SheetAssumption
  <1>6. attempts \in [{Frame} -> 0 .. MaxAttempt] /\ reported \in Seq(SheetReports)
    BY <1>2, AttemptAssumption
  <1>7. SheetTypeInv
    BY <1>1, <1>2, <1>3, <1>4, <1>5, <1>6 DEF SheetTypeInv
  <1>8. PadIsKept /\ ~ RevealedNow
    BY <1>2 DEF PadIsKept, RevealedNow
  <1>9. \A t \in Tabs : HandKept(t) /\ UpToDate(t)
    BY <1>3 DEF HandKept, UpToDate
  <1>10. ReportsCounted
    BY <1>2, <1>8 DEF ReportsCounted
  <1>11. QED
    BY <1>7, <1>8, <1>9, <1>10 DEF SheetInv

LEMMA SheetInvNext == SheetInv /\ [SheetNext]_sheetVars => SheetInv'
  <1>. SUFFICES ASSUME SheetInv, [SheetNext]_sheetVars PROVE SheetInv'
    OBVIOUS
  <1>1. ASSUME NEW t \in Tabs, \E field \in Fields : Focus(t, field) PROVE SheetInv'
    BY <1>1, FocusKeeps
  <1>2. ASSUME NEW t \in Tabs, \E text \in Texts \cup Pads : Type(t, text) PROVE SheetInv'
    BY <1>2, TypeKeeps
  <1>3. ASSUME NEW t \in Tabs, Blur(t) \/ Evaluate(t) \/ CommitAndTurn(t) \/ Effects(t) \/ Hear(t)
        PROVE  SheetInv'
    BY <1>3, BlurKeeps, EvaluateKeeps, CommitAndTurnKeeps, EffectsKeeps, HearKeeps
  <1>4. ASSUME NEW t \in Tabs,
               \E page \in {"away", "cue", "answer"}, how \in {"link", "load"} : Open(t, page, how)
        PROVE  SheetInv'
    BY <1>4, OpenKeeps
  <1>5. ASSUME NEW t \in Tabs, ClearAnswer(t) \/ ClearEverything(t) PROVE SheetInv'
    BY <1>5, ClearAnswerKeeps, ClearEverythingKeeps
  <1>6. CASE UNCHANGED sheetVars
    BY <1>6 DEF sheetVars, sheetHistory, SheetInv, SheetTypeInv, PadIsKept, HandKept, UpToDate,
                ReportsCounted, RevealedNow, Snapshot
  <1>7. QED
    BY <1>1, <1>2, <1>3, <1>4, <1>5, <1>6 DEF SheetNext

LEMMA SheetIsInvariant == SheetSpec => []SheetInv
  BY SheetInvInit, SheetInvNext, PTL DEF SheetSpec

-----------------------------------------------------------------------------

(* The record, both fields of every page, what each page has read and what *)
(* the frame reports keep their types, for any number of tabs, texts and   *)
(* pads: no attempt is reported as less than one or past the cap.          *)
THEOREM SheetTypeCorrect == SheetSpec => []SheetTypeOK
  <1>1. SheetInv => SheetTypeOK
    <2>. SUFFICES ASSUME SheetInv PROVE SheetTypeOK
      OBVIOUS
    <2>1. SheetTypeInv
      BY DEF SheetInv
    <2>2. \A i \in DOMAIN reported : reported[i].attempt \in 1 .. MaxAttempt
      <3>1. \A r \in SheetReports : r.attempt \in 1 .. MaxAttempt
        BY NextAttemptIsOne DEF SheetReports, AnswerReport
      <3>2. QED
        BY <2>1, <3>1 DEF SheetTypeInv
    <2>3. \A t \in Tabs :
            LET b == tab[t] IN
              /\ b.at \in {"away", "cue", "answer"}
              /\ {b.snap, b.shown, b.seed["line"], b.seed["pad"]} \subseteq Sheets \cup {None, Unread}
              /\ b.text["line"] \in Texts /\ b.text["pad"] \in Pads
              /\ b.focus \in Fields \cup {None}
              /\ b.due => b.at = "answer"
              /\ b.offer => b.at = "cue"
              /\ rewritten[t] \subseteq Fields
      <3>. SUFFICES ASSUME NEW t \in Tabs
                    PROVE  LET b == tab[t] IN
                             /\ b.at \in {"away", "cue", "answer"}
                             /\ {b.snap, b.shown, b.seed["line"], b.seed["pad"]}
                                   \subseteq Sheets \cup {None, Unread}
                             /\ b.text["line"] \in Texts /\ b.text["pad"] \in Pads
                             /\ b.focus \in Fields \cup {None}
                             /\ b.due => b.at = "answer"
                             /\ b.offer => b.at = "cue"
                             /\ rewritten[t] \subseteq Fields
        OBVIOUS
      <3>1. IsTab(tab[t]) /\ tab[t] \in TabTypes /\ "line" \in Fields /\ "pad" \in Fields
        BY <2>1 DEF SheetTypeInv, IsTab, Fields
      <3>2. tab[t].text["line"] \in Texts /\ tab[t].text["pad"] \in Pads
        BY <3>1 DEF IsTab, TextsOf
      <3>3. QED
        BY <2>1, <3>1, <3>2 DEF SheetTypeInv, IsTab, TabTypes, Stored
    <2>4. QED
      BY <2>1, <2>2, <2>3 DEF SheetTypeInv, SheetTypeOK, Stored
  <1>2. QED
    BY <1>1, SheetIsInvariant, PTL

(* Neither field costs the other anything, for any number of tabs and      *)
(* whatever each has read: what the hand left in a field nobody stored     *)
(* into is in it (answer-line.tsx, working.tsx), and a commit of the line  *)
(* loses neither the pad's last commit nor the mark that the answer was    *)
(* shown (store.ts, upsertSheet).                                          *)
THEOREM FieldsAreKeptApart == SheetSpec => []FieldsKeepApart
  <1>1. SheetInv => FieldsKeepApart
    BY DEF SheetInv, PadIsKept, HandKept, FieldsKeepApart
  <1>2. QED
    BY <1>1, SheetIsInvariant, PTL

(* While no tab writes behind another's back, an answer is reported at     *)
(* most once for each time the worksheet is begun, and the line keeps what *)
(* it held when the book's answer was shown, however often the reader      *)
(* turns back, reloads or is told of a write (you-wrote.tsx, answer-line). *)
THEOREM AnswersAreReportedOnce == SheetSpec => []AnsweredOnce
  <1>1. SheetInv => AnsweredOnce
    <2>. SUFFICES ASSUME SheetInv, ~ crossed PROVE AnsweredOnce
      BY DEF AnsweredOnce
    <2>1. /\ ReportsCounted /\ Len(reported) \in Nat /\ clears \in Nat
      BY DEF SheetInv, SheetTypeInv
    <2>2. Len(reported) <= 1 + clears
      BY <2>1 DEF ReportsCounted
    <2>3. held # None => store # None /\ store.answer = held
      BY <2>1 DEF ReportsCounted, RevealedNow, AnswerOf
    <2>4. QED
      BY <2>2, <2>3 DEF AnsweredOnce
  <1>2. QED
    BY <1>1, SheetIsInvariant, PTL

=============================================================================

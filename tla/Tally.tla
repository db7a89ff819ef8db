--------------------------------- MODULE Tally ---------------------------------
(***************************************************************************)
(* POST /outcomes (OutcomeEndpoints.cs): a report of one frame's checks    *)
(* becomes one more on each of its tallies, read and written back without  *)
(* a lock.  Requests are in service together, each reading one row at a    *)
(* time and saving all of them at once; a save whose acknowledgement is    *)
(* lost is repeated by the database's retry strategy.                      *)
(***************************************************************************)
EXTENDS Contribution, FiniteSets

CONSTANTS Callers,      \* whoever can have one request in service
          Steps, Checks,
          MaxFaults     \* saves repeated, requests ended early, and what else fails (bound)

ASSUME FaultsAssumption == MaxFaults \in Nat

\* FrameOutcome's key, less the bundle tag, track and unit, which are one here.
Cells == [step : Steps, attempt : 1 .. MaxAttempt, check : Checks, passed : BOOLEAN]

VARIABLES
    rows,       \* rows[cell]: its row's Count, 0 where there is no row
    request,    \* request[c], of each caller in service: the cells still to
                \* read, in order, and what was read of the rest
    faults,
    abandoned,  \* history: a request ended before its save
    posted,     \* history: reports that reached the service, of each question
    overlapped  \* history: two requests were in service at once

tally == <<rows, request, abandoned, posted, overlapped>>

\* What a row's count is of, less how it went.
Questions == [step : Steps, attempt : 1 .. MaxAttempt, check : Checks]

\* What a post carries: what is said of the frame's checks, in some order.
IsReport(report) ==
    /\ report.step \in Steps /\ report.attempt \in 1 .. MaxAttempt
    /\ DOMAIN report.results \subseteq Nat
    /\ \A i \in DOMAIN report.results :
          report.results[i].check \in Checks /\ report.results[i].passed \in BOOLEAN

Fault == faults < MaxFaults /\ faults' = faults + 1

InService == DOMAIN request
Idle == InService = {}

TallyTypeOK ==
    /\ rows \in [Cells -> Nat] /\ posted \in [Questions -> Nat]
    /\ InService \subseteq Callers
    /\ \A c \in InService :
          /\ DOMAIN request[c].todo \subseteq Nat
          /\ \A i \in DOMAIN request[c].todo : request[c].todo[i] \in Cells
          /\ DOMAIN request[c].seen \subseteq Cells
          /\ \A cell \in DOMAIN request[c].seen : request[c].seen[cell] \in Nat
    /\ faults \in 0 .. MaxFaults
    /\ abandoned \in BOOLEAN /\ overlapped \in BOOLEAN

TallyInit ==
    /\ rows = [cell \in Cells |-> 0]
    /\ request = <<>>
    /\ faults = 0 /\ abandoned = FALSE
    /\ posted = [q \in Questions |-> 0]
    /\ overlapped = FALSE

\* Each check once, where it is first named, with what is said of it last.
Collapsed(results) ==
    LET Naming(i) == {j \in DOMAIN results : results[j].check = results[i].check}
        firsts == {i \in DOMAIN results : \A j \in Naming(i) : i <= j}
        IsLast(j) == \A k \in Naming(j) : k <= j
    IN [i \in firsts |->
          [check |-> results[i].check,
           passed |-> \E j \in Naming(i) : IsLast(j) /\ results[j].passed]]

CellsOf(report) ==
    LET results == Collapsed(report.results)
    IN [i \in DOMAIN results |->
          [step |-> report.step, attempt |-> report.attempt,
           check |-> results[i].check, passed |-> results[i].passed]]

QuestionsOf(report) ==
    {[step |-> report.step, attempt |-> report.attempt, check |-> report.results[i].check] :
        i \in DOMAIN report.results}

Arrive(c, report) ==
    /\ c \notin InService
    /\ request' = [d \in InService \cup {c} |->
                     IF d = c THEN [todo |-> CellsOf(report), seen |-> <<>>] ELSE request[d]]
    /\ posted' = [q \in Questions |->
                    IF q \in QuestionsOf(report) THEN posted[q] + 1 ELSE posted[q]]
    /\ overlapped' = (overlapped \/ ~ Idle)
    /\ UNCHANGED <<rows, abandoned, faults>>

\* Increment: SingleOrDefaultAsync of the next result's row.
Increment(c) ==
    /\ c \in InService
    /\ LET todo == request[c].todo
           seen == request[c].seen
       IN \E i \in DOMAIN todo :
            /\ \A j \in DOMAIN todo : i <= j
            /\ request' = [request EXCEPT ![c] =
                 [todo |-> Restrict(todo, DOMAIN todo \ {i}),
                  seen |-> [cell \in DOMAIN seen \cup {todo[i]} |->
                              IF cell = todo[i] THEN rows[cell] ELSE seen[cell]]]]
    /\ UNCHANGED <<rows, abandoned, faults, posted, overlapped>>

Served(c) == c \in InService /\ DOMAIN request[c].todo = {}

\* An insert meets a row that is there by now.
KeyTaken(c) == \E cell \in DOMAIN request[c].seen : request[c].seen[cell] = 0 /\ rows[cell] # 0

\* Slip: the database adds one to what the row holds.
AddedThere(c) ==
    [cell \in Cells |-> IF cell \in DOMAIN request[c].seen THEN rows[cell] + 1 ELSE rows[cell]]

\* Count = 1 for a new row, else one more than was read, written as it stands.
Written(c) ==
    [cell \in Cells |->
       IF cell \in DOMAIN request[c].seen THEN request[c].seen[cell] + 1 ELSE rows[cell]]

Ends(c) == request' = Restrict(request, InService \ {c})

\* SaveChangesAsync: everything, answered 204; or everything, and once more.
SaveChanges(c) ==
    /\ Served(c) /\ ~ KeyTaken(c)
    /\ rows' = Written(c)
    /\ \/ Ends(c) /\ UNCHANGED faults
       \/ Fault /\ UNCHANGED request
    /\ UNCHANGED <<abandoned, posted, overlapped>>

\* The key is taken: nothing of the report is written.
SaveRefused(c) ==
    /\ Served(c) /\ KeyTaken(c)
    /\ Ends(c)
    /\ UNCHANGED <<rows, abandoned, faults, posted, overlapped>>

\* The caller went away or the service stopped: the save is not reached.
Abandon(c) ==
    /\ c \in InService /\ Fault
    /\ Ends(c)
    /\ abandoned' = TRUE
    /\ UNCHANGED <<rows, posted, overlapped>>

Serve(c) == Increment(c) \/ SaveChanges(c) \/ SaveRefused(c) \/ Abandon(c)

-----------------------------------------------------------------------------
Cell(q, passed) == [step |-> q.step, attempt |-> q.attempt, check |-> q.check, passed |-> passed]

Total(q) == rows[Cell(q, TRUE)] + rows[Cell(q, FALSE)]

(* Over both verdicts, a question's tallies never hold more than the       *)
(* reports of it, whatever meets whatever, however often a save is         *)
(* repeated and whatever a report names twice; and they hold exactly that  *)
(* when no two reports were in service together and none was given up.     *)
CountsAreTrue ==
    \A q \in Questions :
        /\ Total(q) <= posted[q]
        /\ Idle /\ ~ overlapped /\ ~ abandoned => Total(q) = posted[q]

=============================================================================

------------------------------ MODULE ProgressApi ------------------------------
(***************************************************************************)
(* The progress table of AbOvo.Api and every handler that reads or writes  *)
(* it: GET step, GET summary, POST open, POST advance, PUT and DELETE      *)
(* /progress, POST /progress/adopt, DELETE /progress/anonymous.            *)
(*                                                                         *)
(* A handler reads rows, decides, and saves once.  Between its read and    *)
(* its SaveChanges any other request may save: the table has no            *)
(* concurrency token.  A request in flight is a record in `job'; what EF's *)
(* change tracker would save is its `plan', one change per row:            *)
(*   insert  fails when the key exists meanwhile (DbUpdateException);      *)
(*   update  writes the columns that changed since the read, and only      *)
(*           those, and fails when the row is gone                         *)
(*           (DbUpdateConcurrencyException);                               *)
(*   delete  fails when the row is gone.                                   *)
(* A failed SaveChanges writes nothing: it is one transaction.  One that   *)
(* committed may still be repeated: the relational providers retry when    *)
(* the connection is lost before the answer.                               *)
(*                                                                         *)
(* Left out: UpdatedAt (no rule of the server reads it), the shape checks  *)
(* on identifiers, rate limits, and what a step's content is.              *)
(***************************************************************************)
EXTENDS Naturals

CONSTANTS Accounts,     \* subjects a bearer token carries
          Anons,        \* anonymous reader ids ("anon:<uuid>")
          Units,        \* programs of the track
          Languages,    \* editions
          Requests,     \* slots for requests in flight (bound)
          Lengths,      \* lengths bundles give a program, 0: not in the bundle
          MaxStep,      \* longest program of any bundle (bound)
          Overlapping,  \* may requests that name one reader overlap?
          None          \* no reader, no unit, no language, no value

ASSUME MaxStepAssumption == MaxStep \in Nat \ {0} /\ Lengths \subseteq 0 .. MaxStep
ASSUME ReadersAssumption ==
    Accounts \cap Anons = {} /\ None \notin Accounts \cup Anons \cup Units \cup Languages
ASSUME OverlappingAssumption == Overlapping \in BOOLEAN

Readers == Accounts \cup Anons

\* Reveal.FirstStep: a reader who has opened nothing is at step 1, not 0.
FirstStep == 1

\* ReaderProgress: at most one row for a (Subject, Unit).
NoRow == [step |-> 0, lang |-> None]
Row == [step : Nat \ {0}, lang : Languages] \cup {NoRow}

\* A tracked entity when SaveChanges runs.  An update with lang = None does
\* not write the column: the value equalled the one read.
Keep == [kind |-> "keep", step |-> 0, lang |-> None]
Delete == [kind |-> "delete", step |-> 0, lang |-> None]
Change == {Keep, Delete}
          \cup [kind : {"insert"}, step : Nat \ {0}, lang : Languages]
          \cup [kind : {"update"}, step : Nat \ {0}, lang : Languages \cup {None}]
NoPlan == [r \in Readers |-> [u \in Units |-> Keep]]

VARIABLES
    rows,      \* rows[reader][unit]
    job,       \* job[request]
    answered,  \* history: the steps a reader's committed advances answered
    adopted    \* history: the anonymous readers an account has adopted from

vars == <<rows, job, answered, adopted>>

Phases == {"idle", "second", "save"}
Ops == {"none", "insert", "advance", "adopt", "delete"}

Job == [phase : Phases, op : Ops,
        subject : Readers \cup {None},   \* the reader written to
        other : Anons \cup {None},       \* the anonymous header, when it counts
        unit : Units \cup {None},        \* the program, when the request names one
        answering : 0 .. MaxStep,        \* advance: the step the request answers
        theirs : [Units -> Row],         \* adopt: the anonymous rows read
        plan : [Readers -> [Units -> Change]]]

NoRows == [u \in Units |-> NoRow]
Idle == [phase |-> "idle", op |-> "none", subject |-> None, other |-> None,
         unit |-> None, answering |-> 0, theirs |-> NoRows, plan |-> NoPlan]

TypeOK ==
    /\ rows \in [Readers -> [Units -> Row]]
    /\ job \in [Requests -> Job]
    /\ answered \in [Readers -> [Units -> SUBSET Nat]]
    /\ adopted \in [Readers -> SUBSET Anons]

Init ==
    /\ rows = [r \in Readers |-> NoRows]
    /\ job = [q \in Requests |-> Idle]
    /\ answered = [r \in Readers |-> [u \in Units |-> {}]]
    /\ adopted = [r \in Readers |-> {}]

-----------------------------------------------------------------------------
(* The gate's arithmetic and the identity a request carries.               *)

\* existing?.Step ?? Reveal.FirstStep
Cursor(row) == IF row = NoRow THEN FirstStep ELSE row.step

\* ReaderIdentity.Resolve: a bearer's subject wins over the anonymous header.
Identity(account, anon) == IF account # None THEN account ELSE anon

\* Slip: one step past the furthest is served too.
ServesOneAhead(total, cursor, k) == k \in FirstStep .. total /\ k <= cursor + 1

\* Reveal.Serve: the program's bound first, then the reader's.
Serves(total, cursor, k) == k \in FirstStep .. total /\ k <= cursor

\* Reveal.Advance: refused at the end (ProgramComplete), else one step on.
CanAdvance(total, cursor) == cursor < total

\* GET /content/{track}/{unit}/{step}, and /summary with k the last step
\* (ServeReturnIndex): what a read answers, which moves nothing.  A caller with
\* no identity is at the first step.
CanRead(reader, u, total, k) ==
    Serves(total, IF reader = None THEN FirstStep ELSE Cursor(rows[reader][u]), k)

\* One row's change in an otherwise empty unit of work.
PlanFor(reader, u, change) == [NoPlan EXCEPT ![reader][u] = change]

\* Every row a query found, removed (RemoveRange).
Removal(found) ==
    [u \in Units |-> IF found[u] = NoRow THEN Keep ELSE Delete]

\* The language column, if the assignment changed what was read.
Written(read, lang) == IF read = lang THEN None ELSE lang

\* Slip: on a tie the anonymous copy replaces the account's.
AdoptedOnTie(place, held) ==
    IF place = NoRow THEN Keep
    ELSE IF held = NoRow
         THEN [kind |-> "insert", step |-> place.step, lang |-> place.lang]
    ELSE IF place.step >= held.step
         THEN [kind |-> "update", step |-> place.step,
               lang |-> Written(held.lang, place.lang)]
    ELSE Keep

\* Adoption of one place onto what the account was read to hold.
AdoptedChange(place, held) ==
    IF place = NoRow THEN Keep
    ELSE IF held = NoRow
         THEN [kind |-> "insert", step |-> place.step, lang |-> place.lang]
    ELSE IF place.step > held.step
         THEN [kind |-> "update", step |-> place.step,
               lang |-> Written(held.lang, place.lang)]
    ELSE Keep

\* Slip: an update stores the language it was not given.
AfterEveryColumn(row, change) ==
    IF change.kind = "keep" THEN row
    ELSE IF change.kind = "delete" THEN NoRow
    ELSE [step |-> change.step, lang |-> change.lang]

\* What the database holds at a key after a change is applied to it.
After(row, change) ==
    CASE change.kind = "keep"   -> row
      [] change.kind = "delete" -> NoRow
      [] change.kind = "insert" -> [step |-> change.step, lang |-> change.lang]
      [] change.kind = "update" ->
            [step |-> change.step,
             lang |-> IF change.lang = None THEN row.lang ELSE change.lang]

\* Slip: an insert replaces a row that appeared since the read.
AppliesOverRows(row, change) ==
    change.kind \in {"update", "delete"} => row # NoRow

\* Slip: an update puts back a row that was deleted since the read.
AppliesToNothing(row, change) ==
    /\ change.kind = "insert" => row = NoRow
    /\ change.kind = "delete" => row # NoRow

\* The keys are as the statements need them: free to insert, there to change.
Applies(row, change) ==
    /\ change.kind = "insert" => row = NoRow
    /\ change.kind \in {"update", "delete"} => row # NoRow

-----------------------------------------------------------------------------
(* Requests.                                                               *)

\* The slot is free and, unless requests may overlap, no request in flight
\* names a reader this one names.
CanStart(q, names) ==
    /\ job[q] = Idle
    /\ Overlapping \/ \A p \in Requests :
                        {job[p].subject, job[p].other} \cap (names \ {None}) = {}

\* A request whose reads are done: SaveChanges is all that is left.
Saving(op, subject, other, plan) ==
    [phase |-> "save", op |-> op, subject |-> subject, other |-> other,
     unit |-> None, answering |-> 0, theirs |-> NoRows, plan |-> plan]

\* A new place at the program's first step, in an edition.
Opening(reader, u, lang) ==
    [Saving("insert", reader, None, PlanFor(reader, u,
               [kind |-> "insert", step |-> FirstStep, lang |-> lang]))
        EXCEPT !.unit = u]

\* PUT /progress/{track}/{unit}.  A step past the furthest reached is a 409 and
\* nothing is written; a row that exists is answered as it stands.
Put(q, account, u, step, lang) ==
    LET existing == rows[account][u]
    IN  /\ CanStart(q, {account})
        /\ step <= Cursor(existing)
        /\ existing = NoRow
        /\ job' = [job EXCEPT ![q] = Opening(account, u, lang)]
        /\ UNCHANGED <<rows, answered, adopted>>

\* POST /content/{track}/{unit}/open: 400 with no identity, 404 for a unit the
\* bundle does not hold, and nothing written where there is a place.
OpenProgram(q, reader, u, total, lang) ==
    /\ total > 0
    /\ CanStart(q, {reader})
    /\ rows[reader][u] = NoRow
    /\ job' = [job EXCEPT ![q] = Opening(reader, u, lang)]
    /\ UNCHANGED <<rows, answered, adopted>>

\* POST /content/{track}/{unit}/advance, answering the step the reader is on.
\* Naming another step (a retry of what was answered before, a client that is
\* behind) records nothing: the current step is served.
Advance(q, reader, u, total, answering, lang) ==
    LET existing == rows[reader][u]
        cursor   == Cursor(existing)
        change   == IF existing = NoRow
                    THEN [kind |-> "insert", step |-> cursor + 1, lang |-> lang]
                    ELSE [kind |-> "update", step |-> cursor + 1,
                          lang |-> Written(existing.lang, lang)]
    IN  /\ total > 0
        /\ CanStart(q, {reader})
        /\ answering = cursor
        /\ CanAdvance(total, cursor)
        /\ job' = [job EXCEPT ![q] =
              [Saving("advance", reader, None, PlanFor(reader, u, change))
                  EXCEPT !.unit = u, !.answering = answering]]
        /\ UNCHANGED <<rows, answered, adopted>>

\* POST /progress/adopt needs a bearer and the header.  First the anonymous
\* reader's rows are read; with none there is nothing to do.
AdoptTheirs(q, account, anon) ==
    /\ CanStart(q, {account, anon})
    /\ rows[anon] # NoRows
    /\ job' = [job EXCEPT ![q] = [Idle EXCEPT !.phase = "second", !.op = "adopt",
                  !.subject = account, !.other = anon, !.theirs = rows[anon]]]
    /\ UNCHANGED <<rows, answered, adopted>>

\* Then the account's, and the two are merged: the furthest frame wins, a tie
\* keeps the account's copy whole.
AdoptHeld(q) ==
    LET account == job[q].subject
        merged  == [u \in Units |-> AdoptedChange(job[q].theirs[u], rows[account][u])]
    IN  /\ job[q].phase = "second" /\ job[q].op = "adopt"
        /\ job' = [job EXCEPT ![q] = Saving("adopt", account, job[q].other,
                                            [NoPlan EXCEPT ![account] = merged])]
        /\ UNCHANGED <<rows, answered, adopted>>

\* DELETE /progress: the account's rows are read first ...
ForgetAccount(q, account, anon) ==
    LET found == Saving("delete", account, anon,
                        [NoPlan EXCEPT ![account] = Removal(rows[account])])
    IN  /\ CanStart(q, {account, anon})
        /\ job' = [job EXCEPT ![q] =
              IF anon = None THEN found ELSE [found EXCEPT !.phase = "second"]]
        /\ UNCHANGED <<rows, answered, adopted>>

\* ... then those of the anonymous reader the header names, for one SaveChanges.
ForgetTheirs(q) ==
    LET anon == job[q].other
    IN  /\ job[q].phase = "second" /\ job[q].op = "delete"
        /\ job' = [job EXCEPT ![q] = Saving("delete", job[q].subject, anon,
                        [job[q].plan EXCEPT ![anon] = Removal(rows[anon])])]
        /\ UNCHANGED <<rows, answered, adopted>>

\* DELETE /progress/anonymous.
ForgetAnonymous(q, anon) ==
    /\ CanStart(q, {anon})
    /\ job' = [job EXCEPT ![q] = Saving("delete", anon, None,
                                        [NoPlan EXCEPT ![anon] = Removal(rows[anon])])]
    /\ UNCHANGED <<rows, answered, adopted>>

-----------------------------------------------------------------------------
(* SaveChanges.                                                            *)

\* Every statement of the unit of work finds its key as it needs it.
Saveable(plan) == \A r \in Readers, u \in Units : Applies(rows[r][u], plan[r][u])

\* The rows as the plan leaves them.
Saved(plan) == [r \in Readers |-> [u \in Units |-> After(rows[r][u], plan[r][u])]]

\* The request is answered; or the answer to its commit is lost on the way, and
\* EnableRetryOnFailure has EF send the same statements again.
Committed(q, lost) == job' = IF lost THEN job ELSE [job EXCEPT ![q] = Idle]

\* The save of a place, an adoption or a forget, all of it.
Save(q, lost) ==
    /\ job[q].phase = "save" /\ job[q].op \in {"insert", "adopt", "delete"}
    /\ Saveable(job[q].plan)
    /\ rows' = Saved(job[q].plan)
    /\ adopted' = IF job[q].op = "adopt"
                  THEN [adopted EXCEPT ![job[q].subject] = @ \cup {job[q].other}]
                  ELSE adopted
    /\ Committed(q, lost)
    /\ UNCHANGED answered

\* The save of an advance; its answer carries the step it moved to.
SaveAdvance(q, lost) ==
    LET reader == job[q].subject
        plan   == job[q].plan
    IN  /\ job[q].phase = "save" /\ job[q].op = "advance"
        /\ Saveable(plan)
        /\ rows' = Saved(plan)
        /\ answered' = [answered EXCEPT ![reader][job[q].unit] = @ \cup {job[q].answering}]
        /\ Committed(q, lost)
        /\ UNCHANGED adopted

\* SaveChanges throws (a conflict found by the database, also by a repetition
\* of what was committed), or the request is cancelled, or the database cannot
\* be reached: nothing more is written.
Abandon(q) ==
    /\ job[q].phase # "idle"
    /\ job' = [job EXCEPT ![q] = Idle]
    /\ UNCHANGED <<rows, answered, adopted>>

-----------------------------------------------------------------------------
Writes(q, reader) ==
    \E u \in Units, lang \in Languages :
        \/ \E total \in Lengths : OpenProgram(q, reader, u, total, lang)
        \/ \E total \in Lengths, k \in 1 .. MaxStep :
              Advance(q, reader, u, total, k, lang)
        \/ reader \in Accounts /\ \E k \in 1 .. MaxStep : Put(q, reader, u, k, lang)

\* The identities requests resolve to; a write with none is a 400.
Identities ==
    {Identity(a, x) : a \in Accounts \cup {None}, x \in Anons \cup {None}} \ {None}

Requested ==
    \E q \in Requests :
        \/ \E reader \in Identities : Writes(q, reader)
        \/ \E account \in Accounts, anon \in Anons : AdoptTheirs(q, account, anon)
        \/ \E account \in Accounts, anon \in Anons \cup {None} :
              ForgetAccount(q, account, anon)
        \/ \E anon \in Anons : ForgetAnonymous(q, anon)

Continued ==
    \E q \in Requests :
        \/ AdoptHeld(q)
        \/ ForgetTheirs(q)
        \/ \E lost \in BOOLEAN : Save(q, lost) \/ SaveAdvance(q, lost)
        \/ Abandon(q)

Next == Requested \/ Continued

Spec == Init /\ [][Next]_vars

-----------------------------------------------------------------------------
(* Properties.                                                             *)

Gate == INSTANCE RevealGate WITH
            Programs <- Units,
            Steps    <- 0 .. MaxStep,
            place    <- [r \in Readers |-> [u \in Units |-> rows[r][u].step]]

\* Every place was earned: however requests overlap, retry, fail or adopt, a row
\* at step k means that each step before k was answered through the gate by this
\* reader or by an anonymous reader the account adopted (Reveal.cs: submitting an
\* answer is the only way to see the next step).
PlaceEarned ==
    \A r \in Readers, u \in Units : Gate!Earned(r, u, rows[r][u].step)

\* Nothing is handed out that was not earned: whatever the bundle in force, a
\* step GET or a summary GET would serve now, past the first, is one the
\* reader's answers lead up to (a caller with no identity gets the first only).
ServedEarned ==
    \A r \in Readers \cup {None}, u \in Units, total \in Lengths, k \in 1 .. MaxStep :
        CanRead(r, u, total, k) /\ k > FirstStep => r # None /\ Gate!Earned(r, u, k)

\* What is stored and what is served, together: no reader sees a step before the
\* ones that lead up to it were answered.
NothingAhead == PlaceEarned /\ ServedEarned

\* The steps before k of a program, each answered by one of some readers.
AnsweredBy(sources, u, k) ==
    \A j \in FirstStep .. (k - 1) : \E s \in sources : j \in answered[s][u]

\* What the request j would write was earned when it read, and stays so: an
\* opening names the first step of its program, an advance the step after one
\* that may be answered, an adoption steps the anonymous reader earned, a forget
\* none; and what a request writes, it writes for its own reader.
WritesEarned(j) ==
    \A r \in Readers, u \in Units :
        LET change == j.plan[r][u]
        IN  \/ change = Keep
            \/ change = Delete /\ j.op = "delete"
            \/ /\ change.kind \in {"insert", "update"} /\ r = j.subject
               /\ \/ /\ j.op = "insert" /\ u = j.unit
                     /\ change.kind = "insert" /\ change.step = FirstStep
                  \/ /\ j.op = "advance" /\ u = j.unit
                     /\ change.step = j.answering + 1
                     /\ AnsweredBy({r} \cup adopted[r], u, j.answering)
                  \/ /\ j.op = "adopt"
                     /\ AnsweredBy({j.other}, u, change.step)

\* No request in flight could ever store a step that was not earned.
InFlightEarned == \A q \in Requests : WritesEarned(job[q])

\* Every handler, with its races, does what the abstract gate allows.
ImplementsGate == Gate!GateSpec

Places == INSTANCE FurthestWins WITH
            Programs <- Units, Editions <- Languages, NoPlace <- NoRow, place <- rows

\* As long as requests that name one reader do not overlap, each handler is one
\* atomic step of the product's description: the furthest frame wins and its
\* edition travels with it, a tie keeps the account's copy, adoption leaves the
\* anonymous places as they were, and a forget takes the account's and the
\* cursor's places together.
ImplementsPlaces == Places!PlacesSpec

\* A forgotten place does not come back by itself: where there was no row, one
\* appears at the first step, or at the second for a first answer, or because an
\* adoption brought it; an answer that was in flight when its row was deleted
\* cannot restore it.
AppearsAtTheStart ==
    [][\A r \in Readers, u \in Units :
          rows[r][u] = NoRow /\ rows'[r][u] # NoRow =>
              \/ rows'[r][u].step <= FirstStep + 1
              \/ \E q \in Requests : job[q].op = "adopt" /\ job[q].subject = r
                                     /\ rows'[r] = Saved(job[q].plan)[r]]_vars

\* A row is monotone: while it exists no step of any handler lowers it.
Monotone ==
    [][\A r \in Readers, u \in Units :
          rows[r][u] # NoRow /\ rows'[r][u] # NoRow =>
              rows'[r][u].step >= rows[r][u].step]_vars

=============================================================================

------------------------------- MODULE ApiProofs -------------------------------
(***************************************************************************)
(* Proofs about the two parts of AbOvo.Api that requests race on.          *)
(*                                                                         *)
(* ProgressApi, for any number of readers, programs, editions, requests in *)
(* flight and steps, whether or not requests overlap.  PlaceEarned is not  *)
(* inductive: what a row is about to become is in the plan of a request,   *)
(* and what a plan is about to become is in the rows an adoption has read. *)
(* IInv says of each of the three that it was earned.  When requests that  *)
(* name one reader do not overlap, SerialInv says that what a request has  *)
(* in hand is still what the rows call for, so that its save is one step   *)
(* of the product's description.                                           *)
(*                                                                         *)
(* ContentCache, for any number of tags, bodies, clock readings, reads and *)
(* ingestions.  What CacheTypeOK and StaleOnlyWhenLate leave out of the    *)
(* induction is the read in flight: Store puts into the entry what Query   *)
(* found before it, so a read that no save has overtaken must still hold a *)
(* newest bundle.                                                          *)
(***************************************************************************)
EXTENDS ProgressApi, ContentCache, TLAPS

\* The fields of a request in flight fit together.
CoherentJob(j) ==
    /\ j.op = "none" <=> j.phase = "idle"
    /\ j.phase = "idle" => j = Idle
    /\ j.phase # "idle" => j.subject \in Readers
    /\ j.op = "adopt" => j.subject \in Accounts /\ j.other \in Anons
    /\ j.op = "advance" => j.unit \in Units /\ j.plan[j.subject][j.unit] # Keep
    /\ j.phase = "second" => j.other \in Anons

\* What an adoption has read of the anonymous reader was that reader's own.
TheirsEarned(j) ==
    \A u \in Units :
        j.theirs[u] # NoRow =>
            j.other \in Anons /\ AnsweredBy({j.other}, u, j.theirs[u].step)

GoodJob(j) == j \in Job /\ CoherentJob(j) /\ TheirsEarned(j) /\ WritesEarned(j)

\* Adoption is an account's: no anonymous reader ever adopts.
OnlyAccountsAdopt == \A x \in Anons : adopted[x] = {}

\* A row's step was earned by its reader and those the reader adopted.
RowsEarned ==
    \A r \in Readers, u \in Units :
        AnsweredBy({r} \cup adopted[r], u, rows[r][u].step)

IInv ==
    /\ TypeOK
    /\ OnlyAccountsAdopt
    /\ RowsEarned
    /\ \A q \in Requests : GoodJob(job[q])

-----------------------------------------------------------------------------
(* What the operators of the module return.                                *)

USE DEF FirstStep

\* The rows and changes the module builds have the types it says.
LEMMA ConstantsTyped ==
    /\ NoRow \in Row
    /\ Keep \in Change /\ Delete \in Change
    /\ NoRows \in [Units -> Row]
    /\ NoPlan \in [Readers -> [Units -> Change]]
    /\ Idle \in Job
BY MaxStepAssumption DEF NoRow, Row, Keep, Delete, Change, NoRows, NoPlan, Idle, Job, Phases, Ops

\* A cursor is a step of the program: the stored one, or the first.
LEMMA CursorTyped ==
    ASSUME NEW row \in Row
    PROVE  Cursor(row) \in Nat \ {0}
BY DEF Cursor, Row, NoRow

\* One program of an adoption: it keeps what is held, or takes the other's step.
LEMMA AdoptedChangeTyped ==
    ASSUME NEW place \in Row, NEW held \in Row
    PROVE  /\ AdoptedChange(place, held) \in Change
           /\ \/ AdoptedChange(place, held) = Keep
              \/ /\ AdoptedChange(place, held).kind \in {"insert", "update"}
                 /\ AdoptedChange(place, held).step = place.step
                 /\ place # NoRow
BY ReadersAssumption DEF AdoptedChange, Change, Keep, Delete, Row, NoRow, Written

\* A removal deletes or keeps, and writes no step.
LEMMA RemovalTyped ==
    ASSUME NEW found \in [Units -> Row]
    PROVE  /\ Removal(found) \in [Units -> Change]
           /\ \A u \in Units : Removal(found)[u] \in {Keep, Delete}
BY DEF Removal, Change

\* A change that applies leaves a row; its step is the old one or the change's.
LEMMA AfterTyped ==
    ASSUME NEW row \in Row, NEW change \in Change, Applies(row, change)
    PROVE  /\ After(row, change) \in Row
           /\ change.kind = "keep" => After(row, change) = row
           /\ change.kind = "delete" => After(row, change) = NoRow
           /\ change.kind \in {"insert", "update"} =>
                 After(row, change).step = change.step
           /\ change.kind \in {"keep", "delete", "insert", "update"}
BY ReadersAssumption DEF After, Applies, Change, Keep, Delete, Row, NoRow

\* A request that is ready to save is typed and coherent.
LEMMA SavingTyped ==
    ASSUME NEW op \in Ops \ {"none"}, NEW subject \in Readers,
           NEW other \in Anons \cup {None},
           NEW plan \in [Readers -> [Units -> Change]]
    PROVE  Saving(op, subject, other, plan) \in Job
BY ConstantsTyped, MaxStepAssumption DEF Saving, Job, Phases, Ops

\* A plan for one row changes that row and keeps every other.
LEMMA PlanForTyped ==
    ASSUME NEW reader \in Readers, NEW unit \in Units, NEW change \in Change
    PROVE  /\ PlanFor(reader, unit, change) \in [Readers -> [Units -> Change]]
           /\ \A r \in Readers, u \in Units :
                 PlanFor(reader, unit, change)[r][u] =
                    IF r = reader /\ u = unit THEN change ELSE Keep
BY ConstantsTyped DEF PlanFor, NoPlan

\* A plan that replaces one reader's changes.
LEMMA ReplacedPlanTyped ==
    ASSUME NEW plan \in [Readers -> [Units -> Change]], NEW reader \in Readers,
           NEW changes \in [Units -> Change]
    PROVE  /\ [plan EXCEPT ![reader] = changes] \in [Readers -> [Units -> Change]]
           /\ \A r \in Readers, u \in Units :
                 [plan EXCEPT ![reader] = changes][r][u] =
                    IF r = reader THEN changes[u] ELSE plan[r][u]
OBVIOUS

-----------------------------------------------------------------------------
(* Requests that read: rows, answered and adopted stay as they are.        *)

\* The record a request starts from writes nothing.
LEMMA IdleGood == GoodJob(Idle)
BY ConstantsTyped DEF GoodJob, CoherentJob, TheirsEarned, WritesEarned, Idle, NoRows,
                      NoPlan, Keep

\* Replacing one request's record by a good one keeps the invariant.
LEMMA JobReplaced ==
    ASSUME IInv, NEW q \in Requests, NEW rec, GoodJob(rec),
           job' = [job EXCEPT ![q] = rec],
           UNCHANGED <<rows, answered, adopted>>
    PROVE  IInv'
<1>1. rec \in Job /\ job \in [Requests -> Job]
  BY DEF IInv, TypeOK, GoodJob
<1>2. TypeOK'
  BY <1>1 DEF IInv, TypeOK
<1>3. \A p \in Requests : GoodJob(job'[p])
  BY <1>1 DEF IInv
<1>4. \A p \in Requests : GoodJob(job[p])'
  BY <1>3 DEF GoodJob, CoherentJob, TheirsEarned, WritesEarned, AnsweredBy
<1>5. OnlyAccountsAdopt' /\ RowsEarned'
  BY DEF IInv, Readers, OnlyAccountsAdopt, RowsEarned, AnsweredBy
<1>6. QED
  BY <1>2, <1>4, <1>5 DEF IInv

\* Put and OpenProgram: a place at the first step, which anybody may have.
LEMMA InsertGood ==
    ASSUME NEW r \in Readers, NEW u \in Units, NEW lang \in Languages
    PROVE  GoodJob(Opening(r, u, lang))
<1> DEFINE change == [kind |-> "insert", step |-> FirstStep, lang |-> lang]
           plan == PlanFor(r, u, change)
           rec == [Saving("insert", r, None, plan) EXCEPT !.unit = u]
<1>1. change \in Change /\ change.kind = "insert" /\ change.step = FirstStep
  BY DEF Change
<1>2. rec = Opening(r, u, lang)
  BY DEF Opening
<1> HIDE DEF change
<1>3. /\ plan \in [Readers -> [Units -> Change]]
      /\ \A s \in Readers, v \in Units :
            plan[s][v] = IF s = r /\ v = u THEN change ELSE Keep
  BY <1>1, PlanForTyped
<1> HIDE DEF plan
<1>4. Saving("insert", r, None, plan) \in Job
  BY <1>3, SavingTyped DEF Ops
<1>5. /\ rec \in Job /\ rec.op = "insert" /\ rec.phase = "save" /\ rec.subject = r
      /\ rec.unit = u /\ rec.theirs = NoRows /\ rec.plan = plan
  BY <1>4 DEF Saving, Job
<1> HIDE DEF rec
<1>6. WritesEarned(rec)
  BY <1>1, <1>3, <1>5 DEF WritesEarned
<1>7. TheirsEarned(rec) /\ CoherentJob(rec)
  BY <1>5 DEF TheirsEarned, CoherentJob, NoRows
<1>8. QED
  BY <1>2, <1>5, <1>6, <1>7 DEF GoodJob

\* Advance: the step after the one the reader is on, which it may answer.
LEMMA AdvanceGood ==
    ASSUME IInv, NEW q \in Requests, NEW r \in Readers, NEW u \in Units,
           NEW total \in Lengths, NEW k \in 1 .. MaxStep, NEW lang \in Languages,
           Advance(q, r, u, total, k, lang)
    PROVE  IInv'
<1> DEFINE existing == rows[r][u]
           change == IF existing = NoRow
                     THEN [kind |-> "insert", step |-> Cursor(existing) + 1, lang |-> lang]
                     ELSE [kind |-> "update", step |-> Cursor(existing) + 1,
                           lang |-> Written(existing.lang, lang)]
           base == Saving("advance", r, None, PlanFor(r, u, change))
           rec == [base EXCEPT !.unit = u, !.answering = k]
<1>1. existing \in Row /\ k = Cursor(existing)
  BY DEF IInv, TypeOK, Advance
<1>2. /\ change \in Change /\ change.step = k + 1 /\ k \in Nat \ {0}
      /\ change.kind \in {"insert", "update"}
  <2>1. Cursor(existing) \in Nat \ {0}
    BY <1>1, CursorTyped
  <2>2. existing # NoRow => Written(existing.lang, lang) \in Languages \cup {None}
    BY <1>1 DEF Row, Written
  <2> HIDE DEF existing
  <2>3. QED
    BY <1>1, <2>1, <2>2 DEF Change
<1>3. AnsweredBy({r} \cup adopted[r], u, k)
  <2>1. CASE existing = NoRow
    BY <2>1, <1>1 DEF AnsweredBy, Cursor
  <2>2. CASE existing # NoRow
    BY <2>2, <1>1 DEF IInv, RowsEarned, Cursor
  <2>3. QED BY <2>1, <2>2
<1>4. job' = [job EXCEPT ![q] = rec] /\ UNCHANGED <<rows, answered, adopted>>
  BY DEF Advance
<1> HIDE DEF change
<1>5. PlanFor(r, u, change) \in [Readers -> [Units -> Change]]
  BY <1>2, PlanForTyped
<1>6. base \in Job
  BY <1>5, SavingTyped DEF Ops
<1>7. /\ rec \in Job /\ rec.op = "advance" /\ rec.phase = "save" /\ rec.subject = r
      /\ rec.unit = u /\ rec.answering = k /\ rec.theirs = NoRows
      /\ rec.plan = PlanFor(r, u, change)
  <2>1. /\ base.op = "advance" /\ base.phase = "save" /\ base.subject = r
        /\ base.theirs = NoRows /\ base.plan = PlanFor(r, u, change)
    BY DEF Saving
  <2>2. k \in 0 .. MaxStep /\ u \in Units \cup {None}
    BY MaxStepAssumption
  <2> HIDE DEF base
  <2>3. QED BY <1>6, <2>1, <2>2 DEF Job
<1> HIDE DEF rec
<1>p. \A s \in Readers, v \in Units :
         rec.plan[s][v] = IF s = r /\ v = u THEN change ELSE Keep
  BY <1>2, <1>7, PlanForTyped
<1>8. CoherentJob(rec) /\ TheirsEarned(rec)
  BY <1>2, <1>7, <1>p DEF CoherentJob, TheirsEarned, NoRows, Keep
<1>9. WritesEarned(rec)
  BY <1>2, <1>3, <1>7, <1>p DEF WritesEarned
<1>10. PICK j : j = rec
  OBVIOUS
<1>11. QED
  BY <1>4, <1>7, <1>8, <1>9, <1>10, JobReplaced DEF GoodJob

\* AdoptTheirs: what is read of the anonymous reader is that reader's own.
LEMMA AdoptTheirsGood ==
    ASSUME IInv, NEW q \in Requests, NEW account \in Accounts, NEW anon \in Anons,
           AdoptTheirs(q, account, anon)
    PROVE  IInv'
<1> DEFINE rec == [Idle EXCEPT !.phase = "second", !.op = "adopt",
                      !.subject = account, !.other = anon, !.theirs = rows[anon]]
<1>1. rows[anon] \in [Units -> Row] /\ account \in Readers /\ anon \in Readers
  BY DEF IInv, TypeOK, Readers
<1>2. /\ rec \in Job /\ rec.op = "adopt" /\ rec.phase = "second" /\ rec.plan = NoPlan
      /\ rec.subject = account /\ rec.other = anon /\ rec.theirs = rows[anon]
  BY <1>1, ConstantsTyped DEF Job, Phases, Ops, Idle
<1>3. job' = [job EXCEPT ![q] = rec] /\ UNCHANGED <<rows, answered, adopted>>
  BY DEF AdoptTheirs
<1> HIDE DEF rec
<1>4. CoherentJob(rec) /\ WritesEarned(rec)
  BY <1>1, <1>2 DEF CoherentJob, WritesEarned, NoPlan
<1>5. TheirsEarned(rec)
  BY <1>1, <1>2 DEF TheirsEarned, IInv, RowsEarned, OnlyAccountsAdopt, AnsweredBy
<1>6. PICK j : j = rec
  OBVIOUS
<1>7. QED
  BY <1>2, <1>3, <1>4, <1>5, <1>6, JobReplaced DEF GoodJob

\* AdoptHeld: a step that is written is one the anonymous reader earned.
LEMMA AdoptHeldGood ==
    ASSUME IInv, NEW q \in Requests, AdoptHeld(q)
    PROVE  IInv'
<1> DEFINE account == job[q].subject
           merged == [u \in Units |-> AdoptedChange(job[q].theirs[u], rows[account][u])]
           plan == [NoPlan EXCEPT ![account] = merged]
           rec == Saving("adopt", account, job[q].other, plan)
<1>1. /\ account \in Accounts /\ account \in Readers /\ job[q].other \in Anons
      /\ job[q].theirs \in [Units -> Row] /\ rows[account] \in [Units -> Row]
      /\ TheirsEarned(job[q])
  BY DEF IInv, TypeOK, GoodJob, CoherentJob, Job, AdoptHeld, Readers
<1>2. job' = [job EXCEPT ![q] = rec] /\ UNCHANGED <<rows, answered, adopted>>
  BY DEF AdoptHeld
<1>3. /\ merged \in [Units -> Change]
      /\ \A u \in Units :
            \/ merged[u] = Keep
            \/ /\ merged[u].kind \in {"insert", "update"}
               /\ merged[u].step = job[q].theirs[u].step
               /\ job[q].theirs[u] # NoRow
  BY <1>1, AdoptedChangeTyped
<1> HIDE DEF merged
<1>4. /\ plan \in [Readers -> [Units -> Change]]
      /\ \A r \in Readers, u \in Units :
            plan[r][u] = IF r = account THEN merged[u] ELSE NoPlan[r][u]
  BY <1>1, <1>3, ConstantsTyped, ReplacedPlanTyped
<1> HIDE DEF plan
<1>5. rec \in Job
  BY <1>1, <1>4, SavingTyped DEF Ops
<1>6. /\ rec.op = "adopt" /\ rec.phase = "save" /\ rec.subject = account
      /\ rec.other = job[q].other /\ rec.theirs = NoRows /\ rec.plan = plan
  BY DEF Saving
<1> HIDE DEF rec
<1>7. CoherentJob(rec) /\ TheirsEarned(rec)
  BY <1>1, <1>6 DEF CoherentJob, TheirsEarned, NoRows
<1>8. WritesEarned(rec)
  <2>1. ASSUME NEW r \in Readers, NEW u \in Units, rec.plan[r][u] # Keep
        PROVE  /\ rec.plan[r][u].kind \in {"insert", "update"} /\ r = account
               /\ AnsweredBy({rec.other}, u, rec.plan[r][u].step)
    <3>1. r = account
      BY <1>4, <1>6, <2>1 DEF NoPlan
    <3>2. rec.plan[r][u] = merged[u]
      BY <1>4, <1>6, <3>1
    <3>3. QED
      BY <1>1, <1>3, <1>6, <2>1, <3>1, <3>2 DEF TheirsEarned
  <2>2. QED
    BY <1>6, <2>1 DEF WritesEarned
<1>9. PICK j : j = rec
  OBVIOUS
<1>10. QED
  BY <1>2, <1>5, <1>7, <1>8, <1>9, JobReplaced DEF GoodJob

\* A forget writes no step, whatever it read.
LEMMA DeleteGood ==
    ASSUME NEW reader \in Readers, NEW other \in Anons \cup {None},
           NEW plan \in [Readers -> [Units -> Change]], NEW phase \in {"save", "second"},
           phase = "second" => other \in Anons,
           \A r \in Readers, u \in Units : plan[r][u] \in {Keep, Delete}
    PROVE  GoodJob([Saving("delete", reader, other, plan) EXCEPT !.phase = phase])
<1> DEFINE rec == [Saving("delete", reader, other, plan) EXCEPT !.phase = phase]
<1>1. Saving("delete", reader, other, plan) \in Job
  BY SavingTyped DEF Ops
<1>2. /\ rec \in Job /\ rec.op = "delete" /\ rec.phase = phase /\ rec.subject = reader
      /\ rec.other = other /\ rec.theirs = NoRows /\ rec.plan = plan
  BY <1>1 DEF Saving, Job, Phases
<1> HIDE DEF rec
<1>3. CoherentJob(rec) /\ TheirsEarned(rec) /\ WritesEarned(rec)
  BY <1>2 DEF CoherentJob, TheirsEarned, NoRows, WritesEarned
<1>4. QED
  BY <1>2, <1>3 DEF GoodJob, rec

\* WritesEarned, read at one key of a request's plan.
LEMMA WriteIs ==
    ASSUME NEW j, WritesEarned(j), NEW r \in Readers, NEW u \in Units
    PROVE  \/ j.plan[r][u] = Keep
           \/ j.plan[r][u] = Delete /\ j.op = "delete"
           \/ /\ j.plan[r][u].kind \in {"insert", "update"} /\ r = j.subject
              /\ \/ /\ j.op = "insert" /\ u = j.unit
                    /\ j.plan[r][u].kind = "insert" /\ j.plan[r][u].step = FirstStep
                 \/ /\ j.op = "advance" /\ u = j.unit
                    /\ j.plan[r][u].step = j.answering + 1
                    /\ AnsweredBy({r} \cup adopted[r], u, j.answering)
                 \/ /\ j.op = "adopt"
                    /\ AnsweredBy({j.other}, u, j.plan[r][u].step)
BY DEF WritesEarned

\* The three handlers that forget.
LEMMA ForgetGood ==
    ASSUME IInv, NEW q \in Requests,
           \/ \E account \in Accounts, anon \in Anons \cup {None} :
                 ForgetAccount(q, account, anon)
           \/ ForgetTheirs(q)
           \/ \E anon \in Anons : ForgetAnonymous(q, anon)
    PROVE  IInv'
<1>r. \A r \in Readers :
         /\ Removal(rows[r]) \in [Units -> Change]
         /\ \A u \in Units : Removal(rows[r])[u] \in {Keep, Delete}
  BY RemovalTyped DEF IInv, TypeOK
<1>n. /\ NoPlan \in [Readers -> [Units -> Change]]
      /\ \A r \in Readers, u \in Units : NoPlan[r][u] \in {Keep, Delete}
  BY ConstantsTyped DEF NoPlan
\* Replacing one reader's changes by a removal leaves a plan that writes no step.
<1>p. ASSUME NEW plan \in [Readers -> [Units -> Change]], NEW r \in Readers,
             \A s \in Readers, u \in Units : plan[s][u] \in {Keep, Delete}
      PROVE  LET removed == [plan EXCEPT ![r] = Removal(rows[r])]
             IN  /\ removed \in [Readers -> [Units -> Change]]
                 /\ \A s \in Readers, u \in Units :
                       removed[s][u] \in {Keep, Delete}
  <2>1. [plan EXCEPT ![r] = Removal(rows[r])] \in [Readers -> [Units -> Change]]
    BY <1>r
  <2>2. ASSUME NEW s \in Readers, NEW u \in Units
        PROVE  [plan EXCEPT ![r] = Removal(rows[r])][s][u] \in {Keep, Delete}
    BY <1>r, <1>p
  <2>3. QED BY <2>1, <2>2
\* The record such a plan is kept in.
<1>g. ASSUME NEW plan, NEW reader \in Readers, NEW other \in Anons \cup {None},
             NEW phase \in {"save", "second"}, phase = "second" => other \in Anons,
             plan \in [Readers -> [Units -> Change]],
             \A s \in Readers, u \in Units : plan[s][u] \in {Keep, Delete},
             job' = [job EXCEPT ![q] =
                        [Saving("delete", reader, other, plan) EXCEPT !.phase = phase]],
             UNCHANGED <<rows, answered, adopted>>
      PROVE  IInv'
  <2>1. GoodJob([Saving("delete", reader, other, plan) EXCEPT !.phase = phase])
    BY <1>g, DeleteGood
  <2>2. QED BY <1>g, <2>1, JobReplaced
<1>h. ASSUME NEW plan, NEW reader \in Readers, NEW other \in Anons \cup {None},
             plan \in [Readers -> [Units -> Change]],
             \A s \in Readers, u \in Units : plan[s][u] \in {Keep, Delete},
             job' = [job EXCEPT ![q] = Saving("delete", reader, other, plan)],
             UNCHANGED <<rows, answered, adopted>>
      PROVE  IInv'
  <2>1. [Saving("delete", reader, other, plan) EXCEPT !.phase = "save"] =
           Saving("delete", reader, other, plan)
    BY DEF Saving
  <2>2. GoodJob([Saving("delete", reader, other, plan) EXCEPT !.phase = "save"])
    BY <1>h, DeleteGood
  <2>3. GoodJob(Saving("delete", reader, other, plan))
    BY <2>1, <2>2
  <2>4. QED BY <1>h, <2>3, JobReplaced
<1>1. ASSUME NEW account \in Accounts, NEW anon \in Anons \cup {None},
             ForgetAccount(q, account, anon)
      PROVE  IInv'
  <2> DEFINE plan == [NoPlan EXCEPT ![account] = Removal(rows[account])]
  <2>1. account \in Readers
    BY DEF Readers
  <2>2. /\ plan \in [Readers -> [Units -> Change]]
        /\ \A s \in Readers, u \in Units : plan[s][u] \in {Keep, Delete}
    BY <1>n, <1>p, <2>1
  <2>3. /\ job' = [job EXCEPT ![q] =
              IF anon = None THEN Saving("delete", account, anon, plan)
              ELSE [Saving("delete", account, anon, plan) EXCEPT !.phase = "second"]]
        /\ UNCHANGED <<rows, answered, adopted>>
    BY <1>1 DEF ForgetAccount
  <2> HIDE DEF plan
  <2>5. CASE anon = None
    BY <1>h, <2>1, <2>2, <2>3, <2>5
  <2>6. CASE anon # None
    BY <1>g, <2>1, <2>2, <2>3, <2>6
  <2>7. QED BY <2>5, <2>6
<1>2. CASE ForgetTheirs(q)
  <2> DEFINE anon == job[q].other
             plan == [job[q].plan EXCEPT ![anon] = Removal(rows[anon])]
  <2>1. /\ job[q].plan \in [Readers -> [Units -> Change]]
        /\ job[q].subject \in Readers /\ anon \in Anons /\ anon \in Readers
        /\ job[q].op = "delete" /\ WritesEarned(job[q])
    BY <1>2 DEF ForgetTheirs, IInv, GoodJob, Job, CoherentJob, Readers
  <2>w. \A s \in Readers, u \in Units : job[q].plan[s][u] \in {Keep, Delete}
    BY <2>1, WriteIs
  <2>3. /\ plan \in [Readers -> [Units -> Change]]
        /\ \A s \in Readers, u \in Units : plan[s][u] \in {Keep, Delete}
    BY <1>p, <2>1, <2>w
  <2>4. /\ job' = [job EXCEPT ![q] = Saving("delete", job[q].subject, anon, plan)]
        /\ UNCHANGED <<rows, answered, adopted>>
    BY <1>2 DEF ForgetTheirs
  <2> HIDE DEF plan, anon
  <2>6. QED
    BY <1>h, <2>1, <2>3, <2>4
<1>3. ASSUME NEW anon \in Anons, ForgetAnonymous(q, anon)
      PROVE  IInv'
  <2> DEFINE plan == [NoPlan EXCEPT ![anon] = Removal(rows[anon])]
  <2>1. anon \in Readers
    BY DEF Readers
  <2>2. /\ plan \in [Readers -> [Units -> Change]]
        /\ \A s \in Readers, u \in Units : plan[s][u] \in {Keep, Delete}
    BY <1>n, <1>p, <2>1
  <2>3. /\ job' = [job EXCEPT ![q] = Saving("delete", anon, None, plan)]
        /\ UNCHANGED <<rows, answered, adopted>>
    BY <1>3 DEF ForgetAnonymous
  <2> HIDE DEF plan
  <2>5. QED
    BY <1>h, <2>1, <2>2, <2>3
<1>4. QED
  BY <1>1, <1>2, <1>3

-----------------------------------------------------------------------------
(* Requests that save.                                                     *)

\* The requests a save leaves in flight stay good, and its own ends.
LEMMA OthersStayGood ==
    ASSUME IInv, NEW q \in Requests, NEW lost, Committed(q, lost),
           \A r \in Readers, u \in Units : answered[r][u] \subseteq answered'[r][u],
           \A r \in Readers : adopted[r] \subseteq adopted'[r],
           adopted' \in [Readers -> SUBSET Anons]
    PROVE  /\ job' \in [Requests -> Job]
           /\ \A p \in Requests : GoodJob(job[p])'
<1>1. job' \in [Requests -> Job]
  BY ConstantsTyped DEF IInv, TypeOK, Committed
<1>2. ASSUME NEW p \in Requests
      PROVE  GoodJob(job[p])'
  <2>1. CASE job'[p] = Idle
    <3>1. job'[p] = Idle
      BY <2>1
    <3>2. QED
      BY <3>1, ConstantsTyped DEF GoodJob, CoherentJob, TheirsEarned, WritesEarned,
                                  Idle, NoRows, NoPlan, Keep
  <2>2. CASE job'[p] = job[p]
    <3>1. job'[p] = job[p] /\ GoodJob(job[p])
      BY <2>2 DEF IInv
    <3>2. (job[p] \in Job)' /\ CoherentJob(job[p])'
      BY <3>1 DEF GoodJob, CoherentJob
    <3>3. TheirsEarned(job[p])'
      BY <3>1 DEF GoodJob, TheirsEarned, AnsweredBy, Readers
    <3>4. WritesEarned(job[p])'
      <4>1. job[p].op = "adopt" => job[p].other \in Readers
        BY <3>1 DEF GoodJob, CoherentJob, Readers
      <4>2. \A r \in Readers, u \in Units :
               AnsweredBy({r} \cup adopted[r], u, job[p].answering) =>
               AnsweredBy({r} \cup adopted[r], u, job[p].answering)'
        BY <3>1 DEF AnsweredBy, IInv, TypeOK, Readers
      <4>3. job[p].op = "adopt" =>
               \A r \in Readers, u \in Units :
                  AnsweredBy({job[p].other}, u, job[p].plan[r][u].step) =>
                  AnsweredBy({job[p].other}, u, job[p].plan[r][u].step)'
        BY <3>1, <4>1 DEF AnsweredBy
      <4>4. PICK j : j = job[p]
        OBVIOUS
      <4>5. job'[p] = j /\ WritesEarned(j)
        BY <3>1, <4>4 DEF GoodJob
      <4>6. /\ \A r \in Readers, u \in Units :
                  AnsweredBy({r} \cup adopted[r], u, j.answering) =>
                  AnsweredBy({r} \cup adopted[r], u, j.answering)'
            /\ j.op = "adopt" =>
                  \A r \in Readers, u \in Units :
                     AnsweredBy({j.other}, u, j.plan[r][u].step) =>
                     AnsweredBy({j.other}, u, j.plan[r][u].step)'
        BY <3>1, <4>2, <4>3, <4>4
      <4>7. WritesEarned(j)'
        BY <4>5, <4>6 DEF WritesEarned
      <4>8. QED BY <4>5, <4>7 DEF WritesEarned, AnsweredBy
    <3>5. QED
      BY <3>2, <3>3, <3>4 DEF GoodJob
  <2>3. QED BY <2>1, <2>2 DEF IInv, TypeOK, Committed
<1>3. QED BY <1>1, <1>2

\* What a save leaves at each key: the row as it was, no row, or the change's step.
LEMMA SavedTyped ==
    ASSUME TypeOK, NEW plan \in [Readers -> [Units -> Change]], Saveable(plan),
           rows' = Saved(plan)
    PROVE  /\ rows' \in [Readers -> [Units -> Row]]
           /\ \A r \in Readers, u \in Units :
                 \/ rows'[r][u] = rows[r][u]
                 \/ rows'[r][u] = NoRow
                 \/ /\ plan[r][u].kind \in {"insert", "update"}
                    /\ rows'[r][u].step = plan[r][u].step
<1>1. ASSUME NEW r \in Readers, NEW u \in Units
      PROVE  /\ After(rows[r][u], plan[r][u]) \in Row
             /\ \/ After(rows[r][u], plan[r][u]) = rows[r][u]
                \/ After(rows[r][u], plan[r][u]) = NoRow
                \/ /\ plan[r][u].kind \in {"insert", "update"}
                   /\ After(rows[r][u], plan[r][u]).step = plan[r][u].step
  <2>1. rows[r][u] \in Row /\ plan[r][u] \in Change /\ Applies(rows[r][u], plan[r][u])
    BY DEF TypeOK, Saveable
  <2>2. PICK row, change : row = rows[r][u] /\ change = plan[r][u]
    OBVIOUS
  <2>3. QED
    BY <2>1, <2>2, AfterTyped
<1>2. QED
  BY <1>1 DEF Saved

\* A row that did not change stays earned, and no row needs no answer.
LEMMA RowStaysEarned ==
    ASSUME TypeOK, RowsEarned, NEW r \in Readers, NEW u \in Units,
           \A s \in Readers, v \in Units : answered[s][v] \subseteq answered'[s][v],
           \A s \in Readers : adopted[s] \subseteq adopted'[s],
           rows'[r][u] = rows[r][u] \/ rows'[r][u] = NoRow
    PROVE  AnsweredBy({r} \cup adopted[r], u, rows[r][u].step)'
<1>1. CASE rows'[r][u] = NoRow
  BY <1>1 DEF AnsweredBy, NoRow
<1>2. CASE rows'[r][u] = rows[r][u]
  BY <1>2 DEF AnsweredBy, RowsEarned, TypeOK, Readers
<1>3. QED BY <1>1, <1>2

\* Save: an opening writes the first step, an adoption what the reader adopted earned.
LEMMA SaveGood ==
    ASSUME IInv, NEW q \in Requests, NEW lost, Save(q, lost)
    PROVE  IInv'
<1>1. /\ job[q] \in Job /\ CoherentJob(job[q]) /\ WritesEarned(job[q])
      /\ TypeOK /\ RowsEarned /\ OnlyAccountsAdopt
      /\ adopted \in [Readers -> SUBSET Anons]
  BY DEF IInv, GoodJob, TypeOK
<1>2. /\ Committed(q, lost) /\ answered' = answered
      /\ rows' = Saved(job[q].plan) /\ Saveable(job[q].plan)
      /\ job[q].phase = "save" /\ job[q].op \in {"insert", "adopt", "delete"}
      /\ job[q].op # "adopt" => adopted' = adopted
      /\ job[q].op = "adopt" =>
            adopted' = [adopted EXCEPT ![job[q].subject] = @ \cup {job[q].other}]
  BY DEF Save
<1>3. job[q].op = "adopt" => job[q].subject \in Accounts /\ job[q].other \in Anons
  BY <1>1 DEF CoherentJob
<1>4. /\ adopted' \in [Readers -> SUBSET Anons]
      /\ \A r \in Readers : adopted[r] \subseteq adopted'[r]
      /\ \A x \in Anons : adopted'[x] = {}
      /\ job[q].op = "adopt" => job[q].other \in adopted'[job[q].subject]
  BY <1>1, <1>2, <1>3, ReadersAssumption DEF Readers, OnlyAccountsAdopt
<1>5. /\ job' \in [Requests -> Job]
      /\ \A p \in Requests : GoodJob(job[p])'
  BY <1>2, <1>4, OthersStayGood
<1>6. job[q].plan \in [Readers -> [Units -> Change]]
  BY <1>1 DEF Job
<1>7. /\ rows' \in [Readers -> [Units -> Row]]
      /\ \A r \in Readers, u \in Units :
            \/ rows'[r][u] = rows[r][u]
            \/ rows'[r][u] = NoRow
            \/ /\ job[q].plan[r][u].kind \in {"insert", "update"}
               /\ rows'[r][u].step = job[q].plan[r][u].step
  <2>1. PICK plan : plan = job[q].plan
    OBVIOUS
  <2>2. QED BY <1>1, <1>2, <1>6, <2>1, SavedTyped
<1>8. ASSUME NEW r \in Readers, NEW u \in Units
      PROVE  AnsweredBy({r} \cup adopted[r], u, rows[r][u].step)'
  <2>1. CASE rows'[r][u] = rows[r][u] \/ rows'[r][u] = NoRow
    BY <1>1, <1>2, <1>4, <2>1, RowStaysEarned
  <2>2. CASE /\ job[q].plan[r][u].kind \in {"insert", "update"}
             /\ rows'[r][u].step = job[q].plan[r][u].step
    <3>1. /\ r = job[q].subject
          /\ \/ job[q].op = "insert" /\ job[q].plan[r][u].step = FirstStep
             \/ /\ job[q].op = "adopt"
                /\ AnsweredBy({job[q].other}, u, job[q].plan[r][u].step)
      <4>1. PICK j : j = job[q]
        OBVIOUS
      <4>2. j.plan[r][u] # Keep /\ j.plan[r][u] # Delete
        BY <2>2, <4>1 DEF Keep, Delete
      <4>3. WritesEarned(j) /\ j.op \in {"insert", "adopt", "delete"}
        BY <1>1, <1>2, <4>1
      <4>4. /\ r = j.subject
            /\ \/ j.op = "insert" /\ j.plan[r][u].step = FirstStep
               \/ j.op = "adopt" /\ AnsweredBy({j.other}, u, j.plan[r][u].step)
        BY <4>2, <4>3, WriteIs
      <4>5. QED BY <4>1, <4>4
    <3>2. CASE job[q].op = "insert" /\ job[q].plan[r][u].step = FirstStep
      BY <2>2, <3>2 DEF AnsweredBy
    <3>3. CASE job[q].op = "adopt" /\ AnsweredBy({job[q].other}, u, job[q].plan[r][u].step)
      BY <1>2, <1>4, <2>2, <3>1, <3>3 DEF AnsweredBy
    <3>4. QED BY <3>1, <3>2, <3>3
  <2>3. QED BY <1>7, <2>1, <2>2
<1>9. QED
  BY <1>1, <1>2, <1>4, <1>5, <1>7, <1>8 DEF IInv, TypeOK, OnlyAccountsAdopt, RowsEarned

\* SaveAdvance: the step after the answered one, whose answer is now recorded.
LEMMA SaveAdvanceGood ==
    ASSUME IInv, NEW q \in Requests, NEW lost, SaveAdvance(q, lost)
    PROVE  IInv'
<1> DEFINE reader == job[q].subject
           unit == job[q].unit
           k == job[q].answering
<1>1. /\ job[q] \in Job /\ CoherentJob(job[q]) /\ WritesEarned(job[q])
      /\ TypeOK /\ RowsEarned /\ OnlyAccountsAdopt
      /\ answered \in [Readers -> [Units -> SUBSET Nat]]
  BY DEF IInv, GoodJob, TypeOK
<1>2. /\ Committed(q, lost) /\ adopted' = adopted
      /\ rows' = Saved(job[q].plan) /\ Saveable(job[q].plan)
      /\ job[q].phase = "save" /\ job[q].op = "advance"
      /\ answered' = [answered EXCEPT ![reader][unit] = @ \cup {k}]
  BY DEF SaveAdvance
<1>3. reader \in Readers /\ unit \in Units /\ k \in Nat
  BY <1>1, <1>2 DEF CoherentJob, Job
<1>4. /\ answered' \in [Readers -> [Units -> SUBSET Nat]]
      /\ \A r \in Readers, u \in Units : answered[r][u] \subseteq answered'[r][u]
      /\ k \in answered'[reader][unit]
  BY <1>1, <1>2, <1>3
<1>5. /\ job' \in [Requests -> Job]
      /\ \A p \in Requests : GoodJob(job[p])'
  <2>1. adopted' \in [Readers -> SUBSET Anons]
    BY <1>1, <1>2 DEF TypeOK
  <2>2. QED BY <1>2, <1>4, <2>1, OthersStayGood
<1>6. job[q].plan \in [Readers -> [Units -> Change]]
  BY <1>1 DEF Job
<1>7. /\ rows' \in [Readers -> [Units -> Row]]
      /\ \A r \in Readers, u \in Units :
            \/ rows'[r][u] = rows[r][u]
            \/ rows'[r][u] = NoRow
            \/ /\ job[q].plan[r][u].kind \in {"insert", "update"}
               /\ rows'[r][u].step = job[q].plan[r][u].step
  <2>1. PICK plan : plan = job[q].plan
    OBVIOUS
  <2>2. QED BY <1>1, <1>2, <1>6, <2>1, SavedTyped
<1>8. ASSUME NEW r \in Readers, NEW u \in Units
      PROVE  AnsweredBy({r} \cup adopted[r], u, rows[r][u].step)'
  <2>1. CASE rows'[r][u] = rows[r][u] \/ rows'[r][u] = NoRow
    BY <1>1, <1>2, <1>4, <2>1, RowStaysEarned
  <2>2. CASE /\ job[q].plan[r][u].kind \in {"insert", "update"}
             /\ rows'[r][u].step = job[q].plan[r][u].step
    <3>1. /\ r = reader /\ u = unit /\ job[q].plan[r][u].step = k + 1
          /\ AnsweredBy({r} \cup adopted[r], u, k)
      <4>1. PICK j : j = job[q]
        OBVIOUS
      <4>2. j.plan[r][u] # Keep /\ j.plan[r][u] # Delete
        BY <2>2, <4>1 DEF Keep, Delete
      <4>3. QED BY <1>1, <1>2, <4>1, <4>2, WriteIs
    <3>2. ASSUME NEW j \in FirstStep .. k
          PROVE  \E s \in {r} \cup adopted[r] : j \in answered'[s][u]
      <4>1. CASE j = k
        BY <1>4, <3>1, <4>1
      <4>2. CASE j # k
        <5>1. j \in FirstStep .. (k - 1)
          BY <1>3, <4>2
        <5>2. PICK s \in {r} \cup adopted[r] : j \in answered[s][u]
          BY <3>1, <5>1 DEF AnsweredBy
        <5>3. s \in Readers
          BY <1>1 DEF TypeOK, Readers
        <5>4. QED BY <1>4, <5>2, <5>3
      <4>3. QED BY <4>1, <4>2
    <3>3. rows'[r][u].step - 1 = k
      BY <1>3, <2>2, <3>1
    <3>4. QED BY <1>2, <3>2, <3>3 DEF AnsweredBy
  <2>3. QED BY <1>7, <2>1, <2>2
<1>9. QED
  BY <1>1, <1>2, <1>4, <1>5, <1>7, <1>8 DEF IInv, TypeOK, OnlyAccountsAdopt, RowsEarned

-----------------------------------------------------------------------------
(* The invariant, and what follows from it.                                *)

LEMMA InvInit == Init => IInv
<1> SUFFICES ASSUME Init PROVE IInv
  OBVIOUS
<1>1. TypeOK
  BY ConstantsTyped DEF Init, TypeOK
<1>2. OnlyAccountsAdopt
  BY DEF Init, OnlyAccountsAdopt, Readers
<1>3. RowsEarned
  BY DEF Init, RowsEarned, AnsweredBy, NoRows, NoRow
<1>4. \A q \in Requests : GoodJob(job[q])
  BY IdleGood DEF Init
<1>5. QED BY <1>1, <1>2, <1>3, <1>4 DEF IInv

\* Every step keeps the invariant of the gate.
LEMMA InvStep == IInv /\ [Next]_vars => IInv'
<1> SUFFICES ASSUME IInv, [Next]_vars PROVE IInv'
  OBVIOUS
<1>1. ASSUME NEW q \in Requests, NEW r \in Identities, Writes(q, r) PROVE IInv'
  <2>1. r \in Readers
    BY DEF Identities, Identity, Readers
  <2>2. PICK u \in Units, lang \in Languages :
           \/ \E total \in Lengths : OpenProgram(q, r, u, total, lang)
           \/ \E total \in Lengths, k \in 1 .. MaxStep : Advance(q, r, u, total, k, lang)
           \/ r \in Accounts /\ \E k \in 1 .. MaxStep : Put(q, r, u, k, lang)
    BY <1>1 DEF Writes
  <2>3. GoodJob(Opening(r, u, lang))
    BY <2>1, InsertGood
  <2>4. CASE \E total \in Lengths : OpenProgram(q, r, u, total, lang)
    BY <2>3, <2>4, JobReplaced DEF OpenProgram
  <2>5. CASE \E total \in Lengths, k \in 1 .. MaxStep : Advance(q, r, u, total, k, lang)
    BY <2>1, <2>5, AdvanceGood
  <2>6. CASE r \in Accounts /\ \E k \in 1 .. MaxStep : Put(q, r, u, k, lang)
    BY <2>3, <2>6, JobReplaced DEF Put
  <2>7. QED BY <2>2, <2>4, <2>5, <2>6
<1>2. CASE Requested
  BY <1>1, <1>2, AdoptTheirsGood, ForgetGood DEF Requested
<1>3. ASSUME NEW q \in Requests, Abandon(q) PROVE IInv'
  BY <1>3, IdleGood, JobReplaced DEF Abandon
<1>4. CASE Continued
  BY <1>3, <1>4, AdoptHeldGood, ForgetGood, SaveGood, SaveAdvanceGood DEF Continued
<1>5. CASE UNCHANGED vars
  <2>1. rows' = rows /\ job' = job /\ answered' = answered /\ adopted' = adopted
    BY <1>5 DEF vars
  <2>2. TypeOK' /\ OnlyAccountsAdopt' /\ RowsEarned'
    BY <2>1 DEF IInv, TypeOK, OnlyAccountsAdopt, RowsEarned, AnsweredBy
  <2>3. ASSUME NEW q \in Requests PROVE GoodJob(job[q])'
    BY <2>1 DEF IInv, GoodJob, CoherentJob, TheirsEarned, WritesEarned, AnsweredBy
  <2>4. QED BY <2>2, <2>3 DEF IInv
<1>6. QED BY <1>2, <1>4, <1>5 DEF Next

\* Every reachable state is typed: rows, plans and records of requests.
THEOREM TypeCorrect == Spec => []TypeOK
<1>1. IInv => TypeOK
  BY DEF IInv
<1>2. QED BY <1>1, InvInit, InvStep, PTL DEF Spec

\* No row, however requests overlap, is past what its reader's answers earned.
THEOREM PlacesAreEarned == Spec => []PlaceEarned
<1>1. IInv => PlaceEarned
  BY DEF IInv, RowsEarned, PlaceEarned, AnsweredBy, Gate!Earned, Gate!CountsFor,
         Gate!FirstStep
<1>2. QED BY <1>1, InvInit, InvStep, PTL DEF Spec

\* No request in flight could store a step that was not earned.
THEOREM RequestsInFlightAreEarned == Spec => []InFlightEarned
<1>1. IInv => InFlightEarned
  BY DEF IInv, InFlightEarned, GoodJob
<1>2. QED BY <1>1, InvInit, InvStep, PTL DEF Spec

\* What the gate may be asked: the earned steps, spelled out.
LEMMA EarnedIsAnswered ==
    ASSUME NEW r \in Readers, NEW u \in Units, NEW k
    PROVE  Gate!Earned(r, u, k) <=> AnsweredBy({r} \cup adopted[r], u, k)
BY DEF Gate!Earned, Gate!CountsFor, Gate!FirstStep, AnsweredBy

\* Nothing past the first step is served that the reader's answers do not earn.
THEOREM ServedStepsAreEarned == Spec => []ServedEarned
<1>1. ASSUME IInv, NEW r \in Readers \cup {None}, NEW u \in Units, NEW total \in Lengths,
             NEW k \in 1 .. MaxStep, CanRead(r, u, total, k), k > FirstStep
      PROVE  r # None /\ Gate!Earned(r, u, k)
  <2>1. r # None
    BY <1>1 DEF CanRead, Serves
  <2>2. r \in Readers /\ k <= Cursor(rows[r][u])
    BY <1>1, <2>1 DEF CanRead, Serves
  <2>3. rows[r][u] # NoRow /\ rows[r][u] \in Row
    BY <1>1, <2>2 DEF Cursor, IInv, TypeOK
  <2>4. k <= rows[r][u].step /\ rows[r][u].step \in Nat /\ k \in Nat
    BY <2>2, <2>3, MaxStepAssumption DEF Cursor, Row, NoRow
  <2>5. AnsweredBy({r} \cup adopted[r], u, rows[r][u].step)
    BY <1>1, <2>2 DEF IInv, RowsEarned
  <2>6. FirstStep .. (k - 1) \subseteq FirstStep .. (rows[r][u].step - 1)
    BY <2>4
  <2>7. AnsweredBy({r} \cup adopted[r], u, k)
    BY <2>5, <2>6 DEF AnsweredBy
  <2>8. QED BY <2>1, <2>2, <2>7, EarnedIsAnswered
<1>2. IInv => ServedEarned
  BY <1>1 DEF ServedEarned
<1>3. QED BY <1>2, InvInit, InvStep, PTL DEF Spec

\* Nothing ahead of the reader's answers is stored, and none of it is served.
THEOREM NothingIsAhead == Spec => []NothingAhead
<1>1. PlaceEarned /\ ServedEarned => NothingAhead
  BY DEF NothingAhead
<1>2. QED BY <1>1, PlacesAreEarned, ServedStepsAreEarned, PTL

-----------------------------------------------------------------------------
(* The handlers implement the abstract gate.                               *)

\* What a save does at each key, read off its plan.
LEMMA SavedKeys ==
    ASSUME TypeOK, NEW plan \in [Readers -> [Units -> Change]], Saveable(plan),
           rows' = Saved(plan), NEW r \in Readers, NEW u \in Units
    PROVE  /\ plan[r][u] = Keep => rows'[r][u] = rows[r][u]
           /\ plan[r][u] = Delete => rows'[r][u] = NoRow
           /\ plan[r][u].kind = "insert" => rows[r][u] = NoRow
           /\ plan[r][u].kind \in {"insert", "update"} =>
                 rows'[r][u].step = plan[r][u].step
<1>1. rows[r][u] \in Row /\ plan[r][u] \in Change /\ Applies(rows[r][u], plan[r][u])
  BY DEF TypeOK, Saveable
<1>2. PICK row, change : row = rows[r][u] /\ change = plan[r][u]
  OBVIOUS
<1>3. /\ change.kind = "keep" => After(row, change) = row
      /\ change.kind = "delete" => After(row, change) = NoRow
      /\ change.kind \in {"insert", "update"} => After(row, change).step = change.step
  BY <1>1, <1>2, AfterTyped
<1>4. rows'[r][u] = After(row, change)
  BY <1>2 DEF Saved
<1>5. change.kind = "insert" => row = NoRow
  BY <1>1, <1>2 DEF Applies
<1>6. QED
  BY <1>2, <1>3, <1>4, <1>5 DEF Keep, Delete

\* A table of tables that differs at one key is an EXCEPT of the other.
LEMMA OneKey ==
    ASSUME NEW S, NEW f \in [Readers -> [Units -> S]], NEW g \in [Readers -> [Units -> S]],
           NEW r \in Readers, NEW u \in Units, NEW x,
           \A s \in Readers, v \in Units :
              g[s][v] = IF s = r /\ v = u THEN x ELSE f[s][v]
    PROVE  g = [f EXCEPT ![r][u] = x]
<1>1. \A s \in Readers : g[s] = [f EXCEPT ![r][u] = x][s]
  OBVIOUS
<1>2. QED BY <1>1

\* The steps of a typed table.
LEMMA StepsTyped ==
    ASSUME NEW table \in [Readers -> [Units -> Row]]
    PROVE  [s \in Readers |-> [v \in Units |-> table[s][v].step]] \in
              [Readers -> [Units -> Nat]]
BY DEF Row, NoRow

\* A save that puts one row at the first step is the gate's Open.
LEMMA GateOpens ==
    ASSUME TypeOK, TypeOK', NEW r \in Readers, NEW u \in Units, rows[r][u].step = 0,
           rows'[r][u].step = FirstStep,
           \A s \in Readers, v \in Units :
              s # r \/ v # u => rows'[s][v].step = rows[s][v].step,
           UNCHANGED <<answered, adopted>>
    PROVE  Gate!Open(r, u)
<1> DEFINE before == [s \in Readers |-> [v \in Units |-> rows[s][v].step]]
           after == [s \in Readers |-> [v \in Units |-> rows'[s][v].step]]
<1>1. before \in [Readers -> [Units -> Nat]] /\ after \in [Readers -> [Units -> Nat]]
  BY StepsTyped DEF TypeOK
<1>2. \A s \in Readers, v \in Units :
         after[s][v] = IF s = r /\ v = u THEN FirstStep ELSE before[s][v]
  OBVIOUS
<1>3. after = [before EXCEPT ![r][u] = FirstStep]
  <2> HIDE DEF before, after
  <2> PICK f, g : f = before /\ g = after
    OBVIOUS
  <2>1. QED BY <1>1, <1>2, OneKey
<1>4. before[r][u] = 0
  OBVIOUS
<1>5. QED BY <1>3, <1>4 DEF Gate!Open, Gate!FirstStep

\* A save that moves one row past an earned step, and records the answer, is
\* the gate's Answer.
LEMMA GateAnswers ==
    ASSUME TypeOK, TypeOK', NEW r \in Readers, NEW u \in Units, NEW k,
           AnsweredBy({r} \cup adopted[r], u, k),
           rows'[r][u].step = k + 1,
           \A s \in Readers, v \in Units :
              s # r \/ v # u => rows'[s][v].step = rows[s][v].step,
           answered' = [answered EXCEPT ![r][u] = @ \cup {k}],
           UNCHANGED adopted
    PROVE  Gate!Answer(r, u, k)
<1>1. Gate!Earned(r, u, k)
  BY EarnedIsAnswered
<1> DEFINE before == [s \in Readers |-> [v \in Units |-> rows[s][v].step]]
           after == [s \in Readers |-> [v \in Units |-> rows'[s][v].step]]
<1>2. before \in [Readers -> [Units -> Nat]] /\ after \in [Readers -> [Units -> Nat]]
  BY StepsTyped DEF TypeOK
<1>3. \A s \in Readers, v \in Units :
         after[s][v] = IF s = r /\ v = u THEN k + 1 ELSE before[s][v]
  OBVIOUS
<1>4. after = [before EXCEPT ![r][u] = k + 1]
  <2> HIDE DEF before, after
  <2> PICK f, g : f = before /\ g = after
    OBVIOUS
  <2>1. QED BY <1>2, <1>3, OneKey
<1>5. QED
  BY <1>1, <1>4 DEF Gate!Answer

\* A save whose account's rows changed only to steps earned with the adopted
\* reader's answers is the gate's Adopt.
LEMMA GateAdopts ==
    ASSUME NEW account \in Readers, NEW anon \in Readers,
           adopted' = [adopted EXCEPT ![account] = @ \cup {anon}],
           \A s \in Readers, v \in Units :
              s # account => rows'[s][v].step = rows[s][v].step,
           \A v \in Units :
              AnsweredBy({account} \cup adopted[account], v, rows[account][v].step)',
           UNCHANGED answered
    PROVE  Gate!Adopt(account, anon)
BY DEF Gate!Adopt, Gate!Earned, Gate!CountsFor, Gate!FirstStep, AnsweredBy

\* A save that only removes rows is the gate's Forget.
LEMMA GateForgets ==
    ASSUME \A s \in Readers, v \in Units :
              rows'[s][v] = rows[s][v] \/ rows'[s][v] = NoRow,
           UNCHANGED <<answered, adopted>>
    PROVE  Gate!Forget
BY DEF Gate!Forget, NoRow

\* Save, read as a step of the gate.
LEMMA SaveIsOfTheGate ==
    ASSUME IInv, IInv', NEW q \in Requests, NEW lost, Save(q, lost)
    PROVE  [Gate!GateNext]_(Gate!gateVars)
<1> PICK j : j = job[q]
  OBVIOUS
<1>1. /\ j \in Job /\ CoherentJob(j) /\ WritesEarned(j)
      /\ TypeOK /\ TypeOK' /\ RowsEarned'
  BY DEF IInv, GoodJob
<1>2. /\ answered' = answered /\ rows' = Saved(j.plan) /\ Saveable(j.plan)
      /\ j.op \in {"insert", "adopt", "delete"} /\ j.phase = "save"
      /\ j.op # "adopt" => adopted' = adopted
      /\ j.op = "adopt" => adopted' = [adopted EXCEPT ![j.subject] = @ \cup {j.other}]
  BY DEF Save
<1>3. PICK plan \in [Readers -> [Units -> Change]] : plan = j.plan
  BY <1>1 DEF Job
<1>4. \A r \in Readers, u \in Units :
         /\ plan[r][u] = Keep => rows'[r][u] = rows[r][u]
         /\ plan[r][u] = Delete => rows'[r][u] = NoRow
         /\ plan[r][u].kind = "insert" => rows[r][u] = NoRow
         /\ plan[r][u].kind \in {"insert", "update"} =>
               rows'[r][u].step = plan[r][u].step
  BY <1>1, <1>2, <1>3, SavedKeys
<1>5. \A r \in Readers, u \in Units :
         \/ plan[r][u] = Keep
         \/ plan[r][u] = Delete /\ j.op = "delete"
         \/ /\ plan[r][u].kind \in {"insert", "update"} /\ r = j.subject
            /\ \/ /\ j.op = "insert" /\ u = j.unit
                  /\ plan[r][u].kind = "insert" /\ plan[r][u].step = FirstStep
               \/ j.op = "advance"
               \/ j.op = "adopt"
  <2>1. ASSUME NEW r \in Readers, NEW u \in Units
        PROVE  \/ j.plan[r][u] = Keep
               \/ j.plan[r][u] = Delete /\ j.op = "delete"
               \/ /\ j.plan[r][u].kind \in {"insert", "update"} /\ r = j.subject
                  /\ \/ /\ j.op = "insert" /\ u = j.unit
                        /\ j.plan[r][u].kind = "insert"
                        /\ j.plan[r][u].step = FirstStep
                     \/ j.op = "advance"
                     \/ j.op = "adopt"
    <3>1. CASE j.plan[r][u] = Keep
      BY <3>1
    <3>2. CASE j.plan[r][u] # Keep
      BY <1>1, <1>2, <3>2 DEF WritesEarned
    <3>3. QED BY <3>1, <3>2
  <2>2. QED BY <1>3, <2>1
<1>6. CASE j.op = "insert"
  <2>1. CASE \A r \in Readers, u \in Units : plan[r][u] = Keep
    <3>1. UNCHANGED Gate!gateVars
      BY <1>2, <1>4, <1>6, <2>1 DEF Gate!gateVars
    <3>2. QED BY <3>1
  <2>2. CASE \E r \in Readers, u \in Units : plan[r][u] # Keep
    <3>1. PICK r \in Readers, u \in Units : plan[r][u] # Keep
      BY <2>2
    <3>2. /\ r = j.subject /\ u = j.unit
          /\ plan[r][u].kind = "insert" /\ plan[r][u].step = FirstStep
      BY <1>5, <1>6, <3>1
    <3>3. rows[r][u].step = 0 /\ rows'[r][u].step = FirstStep
      BY <1>4, <3>2 DEF NoRow
    <3>4. \A s \in Readers, v \in Units :
             s # r \/ v # u => rows'[s][v].step = rows[s][v].step
      BY <1>4, <1>5, <1>6, <3>2
    <3>5. Gate!Open(r, u)
      BY <1>1, <1>2, <1>6, <3>3, <3>4, GateOpens
    <3>6. QED BY <3>5 DEF Gate!GateNext
  <2>3. QED BY <2>1, <2>2
<1>7. CASE j.op = "adopt"
  <2>1. j.subject \in Readers /\ j.other \in Readers
    BY <1>1, <1>7 DEF CoherentJob, Readers
  <2>2. \A s \in Readers, v \in Units :
           s # j.subject => rows'[s][v].step = rows[s][v].step
    BY <1>4, <1>5, <1>7
  <2>3. PICK account \in Readers, anon \in Readers :
           account = j.subject /\ anon = j.other
    BY <2>1
  <2>4. \A v \in Units :
           AnsweredBy({account} \cup adopted[account], v, rows[account][v].step)'
    BY <1>1 DEF RowsEarned
  <2>5. Gate!Adopt(account, anon)
    BY <1>2, <1>7, <2>2, <2>3, <2>4, GateAdopts
  <2>6. QED BY <2>5 DEF Gate!GateNext
<1>8. CASE j.op = "delete"
  <2>1. \A s \in Readers, v \in Units :
           rows'[s][v] = rows[s][v] \/ rows'[s][v] = NoRow
    BY <1>4, <1>5, <1>8
  <2>2. Gate!Forget
    BY <1>2, <1>8, <2>1, GateForgets
  <2>3. QED BY <2>2 DEF Gate!GateNext
<1>9. QED BY <1>2, <1>6, <1>7, <1>8

\* SaveAdvance, read as a step of the gate.
LEMMA SaveAdvanceIsOfTheGate ==
    ASSUME IInv, IInv', NEW q \in Requests, NEW lost, SaveAdvance(q, lost)
    PROVE  [Gate!GateNext]_(Gate!gateVars)
<1> PICK j : j = job[q]
  OBVIOUS
<1>1. j \in Job /\ CoherentJob(j) /\ WritesEarned(j) /\ TypeOK /\ TypeOK'
  BY DEF IInv, GoodJob
<1>2. /\ adopted' = adopted /\ rows' = Saved(j.plan) /\ Saveable(j.plan)
      /\ j.op = "advance" /\ j.phase = "save"
      /\ answered' = [answered EXCEPT ![j.subject][j.unit] = @ \cup {j.answering}]
  BY DEF SaveAdvance
<1>3. PICK plan \in [Readers -> [Units -> Change]],
           r \in Readers, u \in Units, k \in 0 .. MaxStep :
         plan = j.plan /\ r = j.subject /\ u = j.unit /\ k = j.answering
  BY <1>1, <1>2 DEF Job, CoherentJob
<1>4. \A s \in Readers, v \in Units :
         /\ plan[s][v] = Keep => rows'[s][v] = rows[s][v]
         /\ plan[s][v].kind \in {"insert", "update"} =>
               rows'[s][v].step = plan[s][v].step
  BY <1>1, <1>2, <1>3, SavedKeys
<1>5. ASSUME NEW s \in Readers, NEW v \in Units, plan[s][v] # Keep
      PROVE  /\ plan[s][v].kind \in {"insert", "update"} /\ s = r /\ v = u
             /\ plan[s][v].step = k + 1 /\ AnsweredBy({r} \cup adopted[r], u, k)
  BY <1>1, <1>2, <1>3, <1>5 DEF WritesEarned
<1>6. plan[r][u] # Keep
  BY <1>1, <1>2, <1>3 DEF CoherentJob
<1>7. rows'[r][u].step = k + 1 /\ AnsweredBy({r} \cup adopted[r], u, k)
  BY <1>4, <1>5, <1>6
<1>8. \A s \in Readers, v \in Units :
         s # r \/ v # u => rows'[s][v].step = rows[s][v].step
  BY <1>4, <1>5
<1>9. Gate!Answer(r, u, k)
  BY <1>1, <1>2, <1>3, <1>7, <1>8, GateAnswers
<1>10. QED BY <1>9 DEF Gate!GateNext

\* The ImplementsGate refinement: every initial state and every step of the
\* handlers is one of the abstract gate, or changes nothing it can see.
THEOREM HandlersImplementGate == Spec => ImplementsGate
<1>1. Init => Gate!GateInit
  BY DEF Init, Gate!GateInit, NoRows, NoRow
<1>2. IInv /\ IInv' /\ [Next]_vars => [Gate!GateNext]_(Gate!gateVars)
  <2> SUFFICES ASSUME IInv, IInv', [Next]_vars
               PROVE  [Gate!GateNext]_(Gate!gateVars)
    OBVIOUS
  <2>1. CASE UNCHANGED <<rows, answered, adopted>>
    BY <2>1 DEF Gate!gateVars
  <2>2. CASE \E q \in Requests, lost \in BOOLEAN : Save(q, lost) \/ SaveAdvance(q, lost)
    BY <2>2, SaveIsOfTheGate, SaveAdvanceIsOfTheGate
  <2>3. \/ UNCHANGED <<rows, answered, adopted>>
        \/ \E q \in Requests, lost \in BOOLEAN : Save(q, lost) \/ SaveAdvance(q, lost)
    <3>1. CASE Requested
      <4>1. ASSUME NEW q \in Requests, NEW r, Writes(q, r)
            PROVE  UNCHANGED <<rows, answered, adopted>>
        BY <4>1 DEF Writes, OpenProgram, Advance, Put
      <4>2. QED
        BY <3>1, <4>1 DEF Requested, AdoptTheirs, ForgetAccount, ForgetAnonymous
    <3>2. CASE Continued
      BY <3>2 DEF Continued, AdoptHeld, ForgetTheirs, Abandon
    <3>3. CASE UNCHANGED vars
      BY <3>3 DEF vars
    <3>4. QED BY <3>1, <3>2, <3>3 DEF Next
  <2>4. QED BY <2>1, <2>2, <2>3
<1>3. QED
  BY <1>1, <1>2, InvInit, InvStep, PTL DEF Spec, ImplementsGate, Gate!GateSpec

-----------------------------------------------------------------------------
(* Where a place may appear.                                               *)

\* An advance that found no row stores the second step.
FirstAnswer(j) ==
    j.op = "advance" =>
        \A r \in Readers, u \in Units :
            j.plan[r][u].kind = "insert" => j.plan[r][u].step = FirstStep + 1

AppearInv == IInv /\ \A q \in Requests : FirstAnswer(job[q])

\* Only Advance makes an advance's plan.
LEMMA AdvanceIsFirst ==
    ASSUME IInv, NEW q \in Requests, NEW r \in Readers, NEW u \in Units, NEW total, NEW k,
           NEW lang \in Languages, Advance(q, r, u, total, k, lang), NEW p \in Requests,
           FirstAnswer(job[p])
    PROVE  FirstAnswer(job'[p])
<1> DEFINE existing == rows[r][u]
           change == IF existing = NoRow
                     THEN [kind |-> "insert", step |-> Cursor(existing) + 1, lang |-> lang]
                     ELSE [kind |-> "update", step |-> Cursor(existing) + 1,
                           lang |-> Written(existing.lang, lang)]
           rec == [Saving("advance", r, None, PlanFor(r, u, change))
                      EXCEPT !.unit = u, !.answering = k]
<1>1. existing \in Row /\ job \in [Requests -> Job]
  BY DEF IInv, TypeOK
<1>2. job' = [job EXCEPT ![q] = rec]
  BY DEF Advance
<1>3. CASE p # q
  BY <1>1, <1>2, <1>3 DEF FirstAnswer
<1>4. CASE p = q
  <2>1. job'[p] = rec
    BY <1>1, <1>2, <1>4
  <2>2. change \in Change /\ (change.kind = "insert" => change.step = FirstStep + 1)
    BY <1>1, CursorTyped DEF Change, Written, Cursor
  <2> HIDE DEF change
  <2>3. \A s \in Readers, v \in Units :
           PlanFor(r, u, change)[s][v] = IF s = r /\ v = u THEN change ELSE Keep
    BY <2>2, PlanForTyped
  <2>4. rec.plan = PlanFor(r, u, change)
    BY DEF Saving
  <2> HIDE DEF rec
  <2>5. QED
    BY <2>1, <2>2, <2>3, <2>4 DEF FirstAnswer, Keep
<1>5. QED BY <1>3, <1>4

\* Every other step leaves a request as it was, ends it, or has it do something else.
LEMMA FirstAnswerNext ==
    ASSUME IInv, [Next]_vars, NEW p \in Requests, FirstAnswer(job[p])
    PROVE  FirstAnswer(job'[p])
<1>1. job \in [Requests -> Job]
  BY DEF IInv, TypeOK
<1>2. CASE \/ job'[p] = job[p]
           \/ job'[p] = Idle
           \/ \E op \in {"insert", "adopt", "delete"} : job'[p].op = op
  BY <1>2 DEF FirstAnswer, Idle
<1>3. ASSUME NEW q \in Requests, NEW r \in Identities, Writes(q, r)
      PROVE  FirstAnswer(job'[p])
  <2>1. r \in Readers
    BY DEF Identities, Identity, Readers
  <2>2. PICK u \in Units, lang \in Languages :
           \/ \E total \in Lengths : OpenProgram(q, r, u, total, lang)
           \/ \E total \in Lengths, k \in 1 .. MaxStep : Advance(q, r, u, total, k, lang)
           \/ r \in Accounts /\ \E k \in 1 .. MaxStep : Put(q, r, u, k, lang)
    BY <1>3 DEF Writes
  <2>3. CASE \E total \in Lengths, k \in 1 .. MaxStep : Advance(q, r, u, total, k, lang)
    BY <2>1, <2>3, AdvanceIsFirst
  <2>4. CASE job' = [job EXCEPT ![q] = Opening(r, u, lang)]
    BY <1>1, <1>2, <2>4 DEF Opening, Saving
  <2>5. QED
    BY <2>2, <2>3, <2>4 DEF OpenProgram, Put
<1>4. CASE Requested
  <2>1. ASSUME NEW q \in Requests, NEW account, NEW anon,
               \/ AdoptTheirs(q, account, anon) \/ ForgetAccount(q, account, anon)
               \/ ForgetAnonymous(q, anon)
        PROVE  FirstAnswer(job'[p])
    <3>1. CASE p # q
      BY <1>1, <1>2, <2>1, <3>1 DEF AdoptTheirs, ForgetAccount, ForgetAnonymous
    <3>2. CASE p = q
      <4>1. CASE AdoptTheirs(q, account, anon)
        BY <1>1, <1>2, <3>2, <4>1 DEF AdoptTheirs, Idle
      <4>2. CASE ForgetAnonymous(q, anon)
        BY <1>1, <1>2, <3>2, <4>2 DEF ForgetAnonymous, Saving
      <4>3. CASE ForgetAccount(q, account, anon)
        <5>1. \E plan : job'[p] \in {Saving("delete", account, anon, plan),
                                    [Saving("delete", account, anon, plan) EXCEPT !.phase = "second"]}
          BY <1>1, <3>2, <4>3 DEF ForgetAccount
        <5>2. QED
          BY <1>2, <5>1 DEF Saving
      <4>4. QED BY <2>1, <4>1, <4>2, <4>3
    <3>3. QED BY <3>1, <3>2
  <2>2. QED
    BY <1>3, <1>4, <2>1 DEF Requested
<1>5. CASE Continued
  <2>1. ASSUME NEW q \in Requests, NEW lost \in BOOLEAN, Committed(q, lost)
        PROVE  FirstAnswer(job'[p])
    BY <1>1, <1>2, <2>1 DEF Committed
  <2>2. ASSUME NEW q \in Requests, AdoptHeld(q) \/ ForgetTheirs(q) \/ Abandon(q)
        PROVE  FirstAnswer(job'[p])
    BY <1>1, <1>2, <2>2 DEF AdoptHeld, ForgetTheirs, Abandon, Saving
  <2>3. QED
    BY <1>5, <2>1, <2>2 DEF Continued, Save, SaveAdvance
<1>6. CASE UNCHANGED vars
  BY <1>2, <1>6 DEF vars
<1>7. QED BY <1>4, <1>5, <1>6 DEF Next

\* Where there was no row and is one, its save inserted it.
LEMMA AppearsBySave ==
    ASSUME AppearInv, NEW q \in Requests, NEW lost, Save(q, lost) \/ SaveAdvance(q, lost),
           NEW r \in Readers, NEW u \in Units, rows[r][u] = NoRow, rows'[r][u] # NoRow
    PROVE  \/ rows'[r][u].step <= FirstStep + 1
           \/ job[q].op = "adopt" /\ job[q].subject = r /\ rows'[r] = Saved(job[q].plan)[r]
<1> PICK j : j = job[q]
  OBVIOUS
<1>1. /\ j \in Job /\ WritesEarned(j) /\ FirstAnswer(j) /\ TypeOK
      /\ rows' = Saved(j.plan) /\ Saveable(j.plan)
  BY DEF AppearInv, IInv, GoodJob, Save, SaveAdvance
<1>2. PICK plan \in [Readers -> [Units -> Change]] : plan = j.plan
  BY <1>1 DEF Job
<1>3. plan[r][u] \in Change /\ Applies(rows[r][u], plan[r][u])
  BY <1>1, <1>2 DEF Saveable
<1>4. plan[r][u] # Keep /\ plan[r][u] # Delete
  BY <1>1, <1>2, SavedKeys
<1>5. plan[r][u].kind = "insert" /\ rows'[r][u].step = plan[r][u].step
  <2>1. plan[r][u].kind # "update"
    BY <1>3 DEF Applies
  <2>2. plan[r][u].kind = "insert"
    BY <1>3, <1>4, <2>1 DEF Change
  <2>3. QED
    BY <1>1, <1>2, <2>2, SavedKeys
<1>6. /\ r = j.subject
      /\ \/ j.op = "insert" /\ plan[r][u].step = FirstStep
         \/ j.op = "advance"
         \/ j.op = "adopt"
  <2>1. j.plan[r][u] # Keep /\ j.plan[r][u] # Delete
    BY <1>2, <1>4
  <2>2. WritesEarned(j)
    BY <1>1
  <2>3. /\ r = j.subject
        /\ \/ j.op = "insert" /\ j.plan[r][u].step = FirstStep
           \/ j.op = "advance"
           \/ j.op = "adopt"
    BY <2>1, <2>2, WriteIs
  <2>4. QED
    BY <1>2, <2>3
<1>7. j.op = "advance" => plan[r][u].step = FirstStep + 1
  BY <1>1, <1>2, <1>5 DEF FirstAnswer
<1>8. QED
  BY <1>1, <1>5, <1>6, <1>7

\* Only a save changes a row.
LEMMA RowsAreSaved ==
    ASSUME [Next]_vars
    PROVE  \/ UNCHANGED rows
           \/ \E q \in Requests, lost \in BOOLEAN : Save(q, lost) \/ SaveAdvance(q, lost)
<1>1. CASE Requested
  <2>1. ASSUME NEW q \in Requests, NEW r, Writes(q, r) PROVE UNCHANGED rows
    BY <2>1 DEF Writes, OpenProgram, Advance, Put
  <2>2. QED
    BY <1>1, <2>1 DEF Requested, AdoptTheirs, ForgetAccount, ForgetAnonymous
<1>2. CASE Continued
  BY <1>2 DEF Continued, AdoptHeld, ForgetTheirs, Abandon
<1>3. QED BY <1>1, <1>2 DEF Next, vars

\* A place that was forgotten appears again at the first step, as a first answer,
\* or by an adoption: a request that was in flight when its row was deleted does
\* not bring it back, however requests overlap (ContentEndpoints, ProgressEndpoints).
THEOREM ForgottenStaysForgotten == Spec => AppearsAtTheStart
<1>1. Init => AppearInv
  BY InvInit DEF Init, AppearInv, FirstAnswer, Idle
<1>2. AppearInv /\ [Next]_vars => AppearInv'
  BY InvStep, FirstAnswerNext DEF AppearInv
<1>3. AppearInv /\ [Next]_vars =>
         [\A r \in Readers, u \in Units :
             rows[r][u] = NoRow /\ rows'[r][u] # NoRow =>
                 \/ rows'[r][u].step <= FirstStep + 1
                 \/ \E q \in Requests : job[q].op = "adopt" /\ job[q].subject = r
                                        /\ rows'[r] = Saved(job[q].plan)[r]]_vars
  <2> SUFFICES ASSUME AppearInv, [Next]_vars, NEW r \in Readers, NEW u \in Units,
                      rows[r][u] = NoRow, rows'[r][u] # NoRow
               PROVE  \/ rows'[r][u].step <= FirstStep + 1
                      \/ \E q \in Requests : job[q].op = "adopt" /\ job[q].subject = r
                                             /\ rows'[r] = Saved(job[q].plan)[r]
    OBVIOUS
  <2>1. PICK q \in Requests, lost \in BOOLEAN : Save(q, lost) \/ SaveAdvance(q, lost)
    BY RowsAreSaved
  <2>2. QED BY <2>1, AppearsBySave
<1>4. QED BY <1>1, <1>2, <1>3, PTL DEF Spec, AppearsAtTheStart

-----------------------------------------------------------------------------
(* One request of a reader at a time.                                      *)

Names(j) == {j.subject, j.other} \ {None}

InFlight == {job[q] : q \in Requests}

\* The change an answer in an edition makes to a row.
AnswerOf(row, lang) ==
    IF row = NoRow THEN [kind |-> "insert", step |-> Cursor(row) + 1, lang |-> lang]
    ELSE [kind |-> "update", step |-> Cursor(row) + 1, lang |-> Written(row.lang, lang)]

\* What a request would write is still what the rows it has read call for.
AsRead(j) ==
    /\ j.phase = "second" /\ j.op = "adopt" => j.theirs = rows[j.other]
    /\ j.phase = "second" /\ j.op = "delete" =>
          \A u \in Units : /\ j.plan[j.subject][u] = Removal(rows[j.subject])[u]
                           /\ j.plan[j.other][u] = Keep
    /\ j.phase = "save" /\ j.op = "insert" =>
          \E lang \in Languages : \A u \in Units :
              j.plan[j.subject][u] =
                  IF u = j.unit THEN [kind |-> "insert", step |-> FirstStep, lang |-> lang] ELSE Keep
    /\ j.phase = "save" /\ j.op = "advance" =>
          \E lang \in Languages : \A u \in Units :
              j.plan[j.subject][u] =
                  IF u = j.unit THEN AnswerOf(rows[j.subject][u], lang) ELSE Keep
    /\ j.phase = "save" /\ j.op = "adopt" =>
          \A u \in Units :
              /\ j.plan[j.subject][u] = AdoptedChange(rows[j.other][u], rows[j.subject][u])
              /\ j.plan[j.other][u] = Keep
    /\ j.phase = "save" /\ j.op = "delete" =>
          \A r \in Names(j), u \in Units : j.plan[r][u] = Removal(rows[r])[u]

\* What was committed and is sent again changes nothing.
Repeats(j) ==
    \A r \in Readers, u \in Units :
        Applies(rows[r][u], j.plan[r][u]) => After(rows[r][u], j.plan[r][u]) = rows[r][u]

OnlyNamed(j) ==
    /\ j.subject \in Readers /\ j.other \in Anons \cup {None}
    /\ \A r \in Readers \ Names(j), u \in Units : j.plan[r][u] = Keep
    /\ j.other # None => j.subject \in Accounts
    /\ j.op = "adopt" \/ j.phase = "second" => j.other # None
    /\ j.op \in {"insert", "advance"} => j.unit \in Units /\ j.other = None

SerialJob(j) ==
    j.phase # "idle" => OnlyNamed(j) /\ (AsRead(j) \/ (j.phase = "save" /\ Repeats(j)))

SerialInv ==
    /\ \A p, q \in Requests : p # q => Names(job[p]) \cap Names(job[q]) = {}
    /\ \A j \in InFlight : SerialJob(j)

\* A change that was applied and still applies changes nothing more.
LEMMA AfterTwice ==
    ASSUME NEW row \in Row, NEW change \in Change, Applies(row, change),
           Applies(After(row, change), change)
    PROVE  After(After(row, change), change) = After(row, change)
<1>1. CASE change.kind = "update"
  BY <1>1 DEF After
<1>2. CASE change.kind = "insert"
  BY <1>2, AfterTyped, MaxStepAssumption DEF Applies, After, Row, NoRow, Change, Keep, Delete
<1>3. CASE change.kind \in {"keep", "delete"}
  BY <1>3 DEF After, Applies
<1>4. QED BY <1>1, <1>2, <1>3, AfterTyped

\* A request goes by the rows of the readers it names, and by no other.
LEMMA Undisturbed ==
    ASSUME NEW j, SerialJob(j), \A r \in Names(j) : rows'[r] = rows[r]
    PROVE  SerialJob(j)'
<1> SUFFICES ASSUME j.phase # "idle" PROVE SerialJob(j)'
  BY DEF SerialJob
<1>1. /\ OnlyNamed(j) /\ (AsRead(j) \/ (j.phase = "save" /\ Repeats(j)))
      /\ j.subject \in Names(j) /\ rows'[j.subject] = rows[j.subject]
      /\ j.other # None => j.other \in Names(j) /\ rows'[j.other] = rows[j.other]
  BY ReadersAssumption DEF SerialJob, OnlyNamed, Names, Readers
<1>2. OnlyNamed(j)'
  BY <1>1 DEF OnlyNamed, Names
<1>3. CASE j.phase = "save" /\ Repeats(j)
  <2>1. ASSUME NEW r \in Readers, NEW u \in Units
        PROVE  Applies(rows'[r][u], j.plan[r][u]) => After(rows'[r][u], j.plan[r][u]) = rows'[r][u]
    <3>1. CASE r \in Names(j)
      BY <1>3, <3>1 DEF Repeats
    <3>2. CASE r \notin Names(j)
      BY <1>1, <3>2 DEF OnlyNamed, After, Keep
    <3>3. QED BY <3>1, <3>2
  <2>2. QED BY <1>2, <1>3, <2>1 DEF SerialJob, Repeats
<1>4. CASE AsRead(j)
  <2>1. j.op = "adopt" \/ j.phase = "second" => rows'[j.other] = rows[j.other]
    BY <1>1 DEF OnlyNamed
  <2>2. AsRead(j)'
    BY <1>1, <1>4, <2>1 DEF AsRead, Names
  <2>3. QED BY <1>2, <2>2 DEF SerialJob
<1>5. QED BY <1>1, <1>3, <1>4

\* A request is replaced by one that names readers no other request names.
LEMMA RequestReplaced ==
    ASSUME IInv, SerialInv, NEW q \in Requests, NEW rec, job' = [job EXCEPT ![q] = rec],
           UNCHANGED rows, SerialJob(rec),
           \A p \in Requests : p # q => Names(job[p]) \cap Names(rec) = {}
    PROVE  SerialInv'
<1>1. \A p \in Requests : job'[p] = IF p = q THEN rec ELSE job[p]
  BY DEF IInv, TypeOK
<1>2. ASSUME NEW j \in InFlight' PROVE SerialJob(j)'
  <2>1. j = rec \/ j \in InFlight
    BY <1>1 DEF InFlight
  <2>2. SerialJob(j)
    BY <2>1 DEF SerialInv
  <2>3. QED BY <2>2, Undisturbed
<1>3. \A p, r \in Requests : p # r => Names(job'[p]) \cap Names(job'[r]) = {}
  BY <1>1 DEF SerialInv
<1>4. (\A p, r \in Requests : p # r => Names(job[p]) \cap Names(job[r]) = {})'
  BY <1>3 DEF Names
<1>5. QED BY <1>2, <1>4 DEF SerialInv

\* A request that starts names nobody another names, when requests do not overlap.
LEMMA RequestStarts ==
    ASSUME ~ Overlapping, IInv, SerialInv, NEW q \in Requests, NEW rec, NEW names,
           CanStart(q, names), Names(rec) \subseteq names, SerialJob(rec),
           job' = [job EXCEPT ![q] = rec], UNCHANGED rows
    PROVE  SerialInv'
<1>1. \A p \in Requests : Names(job[p]) \cap Names(rec) = {}
  BY DEF CanStart, Names
<1>2. QED BY <1>1, RequestReplaced

\* A request goes on, naming whom it named.
LEMMA RequestGoesOn ==
    ASSUME IInv, SerialInv, NEW q \in Requests, NEW rec,
           Names(rec) \subseteq Names(job[q]), SerialJob(rec),
           job' = [job EXCEPT ![q] = rec], UNCHANGED rows
    PROVE  SerialInv'
<1>1. \A p \in Requests : p # q => Names(job[p]) \cap Names(rec) = {}
  BY DEF SerialInv
<1>2. QED BY <1>1, RequestReplaced

\* An opening writes what the description's Open writes, for its reader alone.
LEMMA OpeningIsSerial ==
    ASSUME NEW r \in Readers, NEW u \in Units, NEW lang \in Languages
    PROVE  SerialJob(Opening(r, u, lang)) /\ Names(Opening(r, u, lang)) \subseteq {r}
<1> DEFINE change == [kind |-> "insert", step |-> FirstStep, lang |-> lang]
           rec == Opening(r, u, lang)
<1>1. change \in Change
  BY DEF Change
<1>2. /\ rec.phase = "save" /\ rec.op = "insert" /\ rec.subject = r /\ rec.other = None
      /\ rec.unit = u /\ rec.plan = PlanFor(r, u, change)
  BY DEF Opening, Saving
<1> HIDE DEF rec, change
<1>3. \A s \in Readers, v \in Units : rec.plan[s][v] = IF s = r /\ v = u THEN change ELSE Keep
  BY <1>1, <1>2, PlanForTyped
<1>4. Names(rec) = {r}
  BY <1>2, ReadersAssumption DEF Names, Readers
<1>5. OnlyNamed(rec)
  BY <1>2, <1>3, <1>4 DEF OnlyNamed
<1>6. AsRead(rec)
  BY <1>2, <1>3 DEF AsRead, change
<1>7. QED BY <1>4, <1>5, <1>6 DEF SerialJob, rec

\* An advance begins on the row as it stands, and names its reader.
LEMMA AdvanceIsSerial ==
    ASSUME ~ Overlapping, IInv, SerialInv, NEW q \in Requests, NEW r \in Readers, NEW u \in Units,
           NEW total, NEW k, NEW lang \in Languages, Advance(q, r, u, total, k, lang)
    PROVE  SerialInv'
<1> DEFINE change == AnswerOf(rows[r][u], lang)
           rec == [Saving("advance", r, None, PlanFor(r, u, change))
                      EXCEPT !.unit = u, !.answering = k]
<1>1. rows[r][u] \in Row
  BY DEF IInv, TypeOK
<1>2. change \in Change
  BY <1>1, CursorTyped DEF AnswerOf, Change, Written, Row, NoRow
<1>3. job' = [job EXCEPT ![q] = rec] /\ CanStart(q, {r}) /\ UNCHANGED rows
  BY DEF Advance, AnswerOf
<1>4. /\ rec.phase = "save" /\ rec.op = "advance" /\ rec.subject = r /\ rec.other = None
      /\ rec.unit = u /\ rec.plan = PlanFor(r, u, change)
  BY DEF Saving
<1> HIDE DEF rec
<1>5. \A s \in Readers, v \in Units : rec.plan[s][v] = IF s = r /\ v = u THEN change ELSE Keep
  <2> HIDE DEF change
  <2>1. QED BY <1>2, <1>4, PlanForTyped
<1>6. Names(rec) = {r}
  BY <1>4, ReadersAssumption DEF Names, Readers
<1>7. OnlyNamed(rec)
  BY <1>4, <1>5, <1>6 DEF OnlyNamed
<1>8. AsRead(rec)
  BY <1>4, <1>5 DEF AsRead
<1>9. SerialJob(rec)
  BY <1>7, <1>8 DEF SerialJob
<1>10. QED BY <1>3, <1>6, <1>9, RequestStarts

\* An adoption's two reads, which nothing comes between, name the account and its cursor.
LEMMA AdoptionIsSerial ==
    ASSUME ~ Overlapping, IInv, SerialInv, NEW q \in Requests,
           \/ \E account \in Accounts, anon \in Anons : AdoptTheirs(q, account, anon)
           \/ AdoptHeld(q)
    PROVE  SerialInv'
<1>1. ASSUME NEW account \in Accounts, NEW anon \in Anons, AdoptTheirs(q, account, anon)
      PROVE  SerialInv'
  <2> DEFINE rec == [Idle EXCEPT !.phase = "second", !.op = "adopt", !.subject = account,
                                 !.other = anon, !.theirs = rows[anon]]
  <2>1. job' = [job EXCEPT ![q] = rec] /\ CanStart(q, {account, anon}) /\ UNCHANGED rows
    BY <1>1 DEF AdoptTheirs
  <2>2. /\ rec.phase = "second" /\ rec.op = "adopt" /\ rec.subject = account /\ rec.other = anon
        /\ rec.theirs = rows[anon] /\ rec.plan = NoPlan
    BY DEF Idle
  <2> HIDE DEF rec
  <2>3. account \in Readers /\ anon # None /\ Names(rec) \subseteq {account, anon}
    BY <2>2, ReadersAssumption DEF Names, Readers
  <2>4. SerialJob(rec)
    BY <2>2, <2>3 DEF SerialJob, OnlyNamed, AsRead, NoPlan
  <2>5. QED BY <2>1, <2>3, <2>4, RequestStarts
<1>2. CASE AdoptHeld(q)
  <2> PICK j : j = job[q]
    OBVIOUS
  <2>1. /\ j \in Job /\ CoherentJob(j) /\ SerialJob(j) /\ j.phase = "second" /\ j.op = "adopt"
    BY <1>2 DEF IInv, GoodJob, AdoptHeld, SerialInv, InFlight
  <2>2. /\ OnlyNamed(j) /\ j.theirs = rows[j.other]
    BY <2>1 DEF SerialJob, AsRead
  <2> DEFINE merged == [u \in Units |-> AdoptedChange(j.theirs[u], rows[j.subject][u])]
             plan == [NoPlan EXCEPT ![j.subject] = merged]
             rec == Saving("adopt", j.subject, j.other, plan)
  <2>3. job' = [job EXCEPT ![q] = rec] /\ UNCHANGED rows
    BY <1>2 DEF AdoptHeld
  <2>4. /\ rec.phase = "save" /\ rec.op = "adopt" /\ rec.subject = j.subject
        /\ rec.other = j.other /\ rec.plan = plan
    BY DEF Saving
  <2>5. /\ j.subject \in Accounts /\ j.other \in Anons /\ j.subject # j.other
        /\ j.subject \in Readers /\ j.other \in Readers /\ j.other # None
    BY <2>1, ReadersAssumption DEF CoherentJob, Readers
  <2>6. \A r \in Readers, u \in Units : plan[r][u] = IF r = j.subject THEN merged[u] ELSE Keep
    BY <2>5 DEF NoPlan
  <2> HIDE DEF rec, plan
  <2>7. Names(rec) = Names(j)
    BY <2>4 DEF Names
  <2>8. OnlyNamed(rec)
    BY <2>2, <2>4, <2>5, <2>6, <2>7, ReadersAssumption DEF OnlyNamed, Names, Readers
  <2>9. AsRead(rec)
    BY <2>2, <2>4, <2>5, <2>6 DEF AsRead
  <2>10. SerialJob(rec)
    BY <2>8, <2>9 DEF SerialJob
  <2>11. QED BY <2>3, <2>7, <2>10, RequestGoesOn
<1>3. QED BY <1>1, <1>2

\* A forget removes what it has read of the readers it names.
LEMMA ForgetIsSerial ==
    ASSUME ~ Overlapping, IInv, SerialInv, NEW q \in Requests,
           \/ \E account \in Accounts, anon \in Anons \cup {None} : ForgetAccount(q, account, anon)
           \/ ForgetTheirs(q)
           \/ \E anon \in Anons : ForgetAnonymous(q, anon)
    PROVE  SerialInv'
<1>1. ASSUME NEW account \in Accounts, NEW anon \in Anons \cup {None}, ForgetAccount(q, account, anon)
      PROVE  SerialInv'
  <2> DEFINE plan == [NoPlan EXCEPT ![account] = Removal(rows[account])]
             found == Saving("delete", account, anon, plan)
             rec == IF anon = None THEN found ELSE [found EXCEPT !.phase = "second"]
  <2>1. job' = [job EXCEPT ![q] = rec] /\ CanStart(q, {account, anon}) /\ UNCHANGED rows
    BY <1>1 DEF ForgetAccount
  <2>2. /\ rec.phase = (IF anon = None THEN "save" ELSE "second") /\ rec.op = "delete"
        /\ rec.subject = account /\ rec.other = anon /\ rec.plan = plan
    BY DEF Saving
  <2>3. /\ account \in Readers /\ account # None /\ account # anon
        /\ anon # None => anon \in Readers
    BY ReadersAssumption DEF Readers
  <2>4. \A r \in Readers, u \in Units :
           plan[r][u] = IF r = account THEN Removal(rows[account])[u] ELSE Keep
    BY <2>3 DEF NoPlan
  <2> HIDE DEF rec, plan
  <2>5. Names(rec) = {account, anon} \ {None}
    BY <2>2 DEF Names
  <2>6. OnlyNamed(rec)
    BY <2>2, <2>3, <2>4, <2>5 DEF OnlyNamed
  <2>7. AsRead(rec)
    BY <2>2, <2>3, <2>4, <2>5 DEF AsRead
  <2>8. SerialJob(rec)
    BY <2>6, <2>7 DEF SerialJob
  <2>9. QED BY <2>1, <2>5, <2>8, RequestStarts
<1>2. CASE ForgetTheirs(q)
  <2> PICK j : j = job[q]
    OBVIOUS
  <2>1. /\ j \in Job /\ CoherentJob(j) /\ SerialJob(j) /\ j.phase = "second" /\ j.op = "delete"
    BY <1>2 DEF IInv, GoodJob, ForgetTheirs, SerialInv, InFlight
  <2>2. /\ OnlyNamed(j)
        /\ \A u \in Units : j.plan[j.subject][u] = Removal(rows[j.subject])[u]
    BY <2>1 DEF SerialJob, AsRead
  <2> DEFINE plan == [j.plan EXCEPT ![j.other] = Removal(rows[j.other])]
             rec == Saving("delete", j.subject, j.other, plan)
  <2>3. job' = [job EXCEPT ![q] = rec] /\ UNCHANGED rows
    BY <1>2 DEF ForgetTheirs
  <2>4. /\ rec.phase = "save" /\ rec.op = "delete" /\ rec.subject = j.subject
        /\ rec.other = j.other /\ rec.plan = plan
    BY DEF Saving
  <2>5. /\ j.subject \in Readers /\ j.other \in Anons /\ j.other # None /\ j.other \in Readers
        /\ j.subject \in Accounts /\ j.subject # j.other
    BY <2>1, <2>2, ReadersAssumption DEF CoherentJob, OnlyNamed, Readers
  <2>6. \A r \in Readers, u \in Units :
           plan[r][u] = IF r = j.other THEN Removal(rows[j.other])[u] ELSE j.plan[r][u]
    BY <2>1, <2>5 DEF Job
  <2> HIDE DEF rec, plan
  <2>7. Names(rec) = Names(j) /\ Names(j) = {j.subject, j.other}
    BY <2>4, <2>5, ReadersAssumption DEF Names, Readers
  <2>8. OnlyNamed(rec)
    BY <2>2, <2>4, <2>5, <2>6, <2>7 DEF OnlyNamed
  <2>9. AsRead(rec)
    BY <2>2, <2>4, <2>5, <2>6, <2>7 DEF AsRead
  <2>10. SerialJob(rec)
    BY <2>8, <2>9 DEF SerialJob
  <2>11. QED BY <2>3, <2>7, <2>10, RequestGoesOn
<1>3. ASSUME NEW anon \in Anons, ForgetAnonymous(q, anon) PROVE SerialInv'
  <2> DEFINE plan == [NoPlan EXCEPT ![anon] = Removal(rows[anon])]
             rec == Saving("delete", anon, None, plan)
  <2>1. job' = [job EXCEPT ![q] = rec] /\ CanStart(q, {anon}) /\ UNCHANGED rows
    BY <1>3 DEF ForgetAnonymous
  <2>2. /\ rec.phase = "save" /\ rec.op = "delete" /\ rec.subject = anon /\ rec.other = None
        /\ rec.plan = plan
    BY DEF Saving
  <2>3. anon \in Readers
    BY DEF Readers
  <2>4. \A r \in Readers, u \in Units :
           plan[r][u] = IF r = anon THEN Removal(rows[anon])[u] ELSE Keep
    BY <2>3 DEF NoPlan
  <2> HIDE DEF rec, plan
  <2>5. Names(rec) = {anon}
    BY <2>2, ReadersAssumption DEF Names
  <2>6. SerialJob(rec)
    BY <2>2, <2>3, <2>4, <2>5 DEF SerialJob, OnlyNamed, AsRead
  <2>7. QED BY <2>1, <2>5, <2>6, RequestStarts
<1>4. QED BY <1>1, <1>2, <1>3

\* After a save, the request is over, or it will repeat what was committed; and
\* only the rows of readers it names have changed.
LEMMA SaveIsSerial ==
    ASSUME IInv, SerialInv, NEW q \in Requests, NEW lost, Save(q, lost) \/ SaveAdvance(q, lost)
    PROVE  SerialInv'
<1> PICK j : j = job[q]
  OBVIOUS
<1>1. /\ j \in Job /\ SerialJob(j) /\ j.phase = "save" /\ OnlyNamed(j)
      /\ Saveable(j.plan) /\ rows' = Saved(j.plan) /\ Committed(q, lost)
      /\ rows \in [Readers -> [Units -> Row]] /\ job \in [Requests -> Job]
  BY DEF IInv, TypeOK, GoodJob, SerialInv, InFlight, Save, SaveAdvance, SerialJob
<1>2. PICK plan \in [Readers -> [Units -> Change]] : plan = j.plan
  BY <1>1 DEF Job
<1>3. \A r \in Readers, u \in Units :
         /\ rows[r][u] \in Row /\ plan[r][u] \in Change /\ Applies(rows[r][u], plan[r][u])
         /\ rows'[r][u] = After(rows[r][u], plan[r][u])
  BY <1>1, <1>2 DEF Saveable, Saved
<1>4. OnlyNamed(j)' /\ Repeats(j)'
  <2>1. ASSUME NEW r \in Readers, NEW u \in Units, Applies(rows'[r][u], plan[r][u])
        PROVE  After(rows'[r][u], plan[r][u]) = rows'[r][u]
    <3> PICK row \in Row, change \in Change : row = rows[r][u] /\ change = plan[r][u]
      BY <1>3
    <3>1. Applies(row, change) /\ rows'[r][u] = After(row, change)
      BY <1>3
    <3>2. QED BY <2>1, <3>1, AfterTwice
  <2>2. Repeats(j)'
    BY <1>2, <2>1 DEF Repeats
  <2>3. OnlyNamed(j)'
    BY <1>1 DEF OnlyNamed, Names
  <2>4. QED BY <2>2, <2>3
<1>5. SerialJob(j)'
  BY <1>1, <1>4 DEF SerialJob
<1>6. ASSUME NEW r \in Readers \ Names(j) PROVE rows'[r] = rows[r]
  <2>1. \A u \in Units : After(rows[r][u], plan[r][u]) = rows[r][u]
    BY <1>1, <1>2 DEF OnlyNamed, After, Keep
  <2>2. QED BY <1>1, <1>2, <2>1 DEF Saved
<1>7. \A p \in Requests : job'[p] = job[p] \/ (job'[p] = Idle)
  BY <1>1 DEF Committed
<1>8. ASSUME NEW i \in InFlight' PROVE SerialJob(i)'
  <2>1. PICK p \in Requests : i = job'[p]
    BY DEF InFlight
  <2>2. CASE i = Idle
    BY <2>2 DEF SerialJob, Idle
  <2>3. CASE i = job[p] /\ p = q
    BY <1>5, <2>3
  <2>4. CASE i = job[p] /\ p # q
    <3>1. SerialJob(i) /\ Names(i) \cap Names(j) = {}
      BY <2>4 DEF SerialInv, InFlight
    <3>2. \A r \in Names(i) : rows'[r] = rows[r]
      <4>1. i.phase # "idle" => Names(i) \subseteq Readers
        BY <3>1 DEF SerialJob, OnlyNamed, Names, Readers
      <4>2. i.phase = "idle" => Names(i) = {}
        BY <2>4 DEF IInv, GoodJob, CoherentJob, Names, Idle
      <4>3. QED BY <1>6, <3>1, <4>1, <4>2
    <3>3. QED BY <3>1, <3>2, Undisturbed
  <2>5. QED BY <1>7, <2>1, <2>2, <2>3, <2>4
<1>9. ASSUME NEW p \in Requests, NEW r \in Requests, p # r
      PROVE  Names(job'[p]) \cap Names(job'[r]) = {}
  <2>1. Names(Idle) = {}
    BY DEF Names, Idle
  <2>2. Names(job[p]) \cap Names(job[r]) = {}
    BY <1>9 DEF SerialInv
  <2>3. QED BY <1>7, <2>1, <2>2
<1>10. (\A p, r \in Requests : p # r => Names(job[p]) \cap Names(job[r]) = {})'
  BY <1>9 DEF Names
<1>11. QED BY <1>8, <1>10 DEF SerialInv

LEMMA SerialInit == Init => SerialInv
<1> SUFFICES ASSUME Init PROVE SerialInv
  OBVIOUS
<1>1. \A q \in Requests : job[q] = Idle
  BY DEF Init
<1>2. Names(Idle) = {} /\ SerialJob(Idle)
  BY DEF Names, SerialJob, Idle
<1>3. QED BY <1>1, <1>2 DEF SerialInv, InFlight

\* What a request holds is what the table holds of its readers, while no other request
\* that names them is in flight: begun, read, saved, repeated or given up.
LEMMA SerialStep == ASSUME ~ Overlapping PROVE IInv /\ SerialInv /\ [Next]_vars => SerialInv'
<1> SUFFICES ASSUME IInv, SerialInv, [Next]_vars PROVE SerialInv'
  OBVIOUS
<1>1. ASSUME NEW q \in Requests, NEW r \in Identities, Writes(q, r) PROVE SerialInv'
  <2>1. r \in Readers
    BY DEF Identities, Identity, Readers
  <2>2. PICK u \in Units, lang \in Languages :
           \/ \E total \in Lengths : OpenProgram(q, r, u, total, lang)
           \/ \E total \in Lengths, k \in 1 .. MaxStep : Advance(q, r, u, total, k, lang)
           \/ r \in Accounts /\ \E k \in 1 .. MaxStep : Put(q, r, u, k, lang)
    BY <1>1 DEF Writes
  <2>3. CASE \E total \in Lengths, k \in 1 .. MaxStep : Advance(q, r, u, total, k, lang)
    BY <2>1, <2>3, AdvanceIsSerial
  <2>4. CASE /\ CanStart(q, {r}) /\ UNCHANGED rows
             /\ job' = [job EXCEPT ![q] = Opening(r, u, lang)]
    <3> PICK rec : rec = Opening(r, u, lang)
      OBVIOUS
    <3>1. SerialJob(rec) /\ Names(rec) \subseteq {r}
      BY <2>1, OpeningIsSerial
    <3>2. QED BY <2>4, <3>1, RequestStarts
  <2>5. QED
    BY <2>2, <2>3, <2>4 DEF OpenProgram, Put
<1>2. CASE Requested
  BY <1>1, <1>2, AdoptionIsSerial, ForgetIsSerial DEF Requested
<1>3. ASSUME NEW q \in Requests, Abandon(q) PROVE SerialInv'
  <2>1. Names(Idle) = {} /\ SerialJob(Idle)
    BY DEF Names, SerialJob, Idle
  <2>2. QED BY <1>3, <2>1, RequestGoesOn DEF Abandon
<1>4. CASE Continued
  BY <1>3, <1>4, AdoptionIsSerial, ForgetIsSerial, SaveIsSerial DEF Continued
<1>5. CASE UNCHANGED vars
  <2>1. job' = job /\ rows' = rows
    BY <1>5 DEF vars
  <2>2. ASSUME NEW j \in InFlight' PROVE SerialJob(j)'
    BY <2>1, Undisturbed DEF SerialInv, InFlight
  <2>3. (\A p, q \in Requests : p # q => Names(job[p]) \cap Names(job[q]) = {})'
    BY <2>1 DEF SerialInv, Names
  <2>4. QED BY <2>2, <2>3 DEF SerialInv
<1>6. QED BY <1>2, <1>4, <1>5 DEF Next

-----------------------------------------------------------------------------
(* Each save is one step of the product's description.                     *)

\* What an adoption makes of a place is the further of the two.
LEMMA AdoptionIsFurther ==
    ASSUME NEW place \in Row, NEW held \in Row
    PROVE  After(held, AdoptedChange(place, held)) = Places!Further(held, place)
BY ReadersAssumption DEF AdoptedChange, After, Places!Further, Written, Row, NoRow, Keep

\* What an answer makes of a row.
LEMMA AnswerIsNext ==
    ASSUME NEW row \in Row, NEW lang \in Languages
    PROVE  After(row, AnswerOf(row, lang)) = [step |-> Places!StepOf(row) + 1, lang |-> lang]
BY ReadersAssumption DEF AnswerOf, After, Cursor, Places!StepOf, Written, Row, NoRow

\* What an opening makes of a row, and where it may.
LEMMA OpeningIsFirst ==
    ASSUME NEW row, NEW lang
    PROVE  LET change == [kind |-> "insert", step |-> FirstStep, lang |-> lang]
           IN  /\ After(row, change) = [step |-> FirstStep, lang |-> lang]
               /\ Applies(row, change) => row = NoRow
BY DEF After, Applies

\* What a removal makes of a row.
LEMMA RemovalIsForget ==
    ASSUME NEW found \in [Units -> Row], NEW u \in Units
    PROVE  After(found[u], Removal(found)[u]) = NoRow
BY DEF Removal, After, Keep, Delete

\* Every save is one step of the description, or changes no row.
LEMMA SaveIsOfPlaces ==
    ASSUME IInv, SerialInv, NEW q \in Requests, NEW lost, Save(q, lost) \/ SaveAdvance(q, lost)
    PROVE  Places!PlacesNext \/ UNCHANGED rows
<1> PICK j : j = job[q]
  OBVIOUS
<1>1. /\ j \in Job /\ CoherentJob(j) /\ SerialJob(j) /\ j.phase = "save" /\ OnlyNamed(j)
      /\ j.op \in {"insert", "advance", "adopt", "delete"}
      /\ Saveable(j.plan) /\ rows' = Saved(j.plan)
      /\ rows \in [Readers -> [Units -> Row]]
  BY DEF IInv, TypeOK, GoodJob, SerialInv, InFlight, Save, SaveAdvance, SerialJob
<1>2. PICK plan \in [Readers -> [Units -> Change]] : plan = j.plan
  BY <1>1 DEF Job
<1>3. \A r \in Readers, u \in Units :
         /\ rows[r][u] \in Row /\ plan[r][u] \in Change /\ Applies(rows[r][u], plan[r][u])
         /\ rows'[r][u] = After(rows[r][u], plan[r][u]) /\ rows'[r][u] \in Row
  BY <1>1, <1>2, AfterTyped DEF Saveable, Saved
<1>4. rows' \in [Readers -> [Units -> Row]]
  BY <1>1, <1>2, <1>3 DEF Saved
<1>k. \A r \in Readers, u \in Units : plan[r][u] = Keep => rows'[r][u] = rows[r][u]
  BY <1>1, <1>2, SavedKeys DEF IInv
<1>5. CASE Repeats(j)
  <2>1. \A r \in Readers, u \in Units : rows'[r][u] = rows[r][u]
    BY <1>2, <1>3, <1>5 DEF Repeats
  <2>2. \A r \in Readers : rows'[r] = rows[r]
    BY <1>1, <1>4, <2>1
  <2>3. QED BY <1>1, <1>4, <2>2
<1>6. CASE AsRead(j)
  <2>1. \A r \in Readers, u \in Units : r \notin Names(j) => rows'[r][u] = rows[r][u]
    BY <1>1, <1>2, <1>k DEF OnlyNamed
  <2>2. PICK r \in Readers : r = j.subject /\ r # None
    BY <1>1, ReadersAssumption DEF OnlyNamed, Readers
  <2>3. ASSUME NEW u \in Units, NEW x, rows'[r][u] = x, Names(j) = {r},
               \A v \in Units : v # u => plan[r][v] = Keep
        PROVE  rows' = [rows EXCEPT ![r][u] = x]
    <3>1. \A s \in Readers, v \in Units :
             rows'[s][v] = IF s = r /\ v = u THEN x ELSE rows[s][v]
      BY <1>k, <2>1, <2>3
    <3>2. PICK f \in [Readers -> [Units -> Row]], g \in [Readers -> [Units -> Row]] :
             f = rows /\ g = rows'
      BY <1>1, <1>4
    <3>3. \A s \in Readers, v \in Units : g[s][v] = IF s = r /\ v = u THEN x ELSE f[s][v]
      BY <3>1, <3>2
    <3>4. g = [f EXCEPT ![r][u] = x]
      BY <3>3, OneKey
    <3>5. QED BY <3>2, <3>4
  <2>4. CASE j.op = "insert"
    <3>1. PICK lang \in Languages, u \in Units : u = j.unit /\ \A v \in Units :
             plan[r][v] = IF v = u THEN [kind |-> "insert", step |-> FirstStep, lang |-> lang] ELSE Keep
      BY <1>1, <1>2, <1>6, <2>2, <2>4 DEF AsRead, OnlyNamed
    <3>2. rows[r][u] = NoRow /\ rows'[r][u] = [step |-> FirstStep, lang |-> lang]
      BY <1>3, <3>1, OpeningIsFirst
    <3>3. Names(j) = {r}
      BY <1>1, <2>2, <2>4 DEF OnlyNamed, Names
    <3>4. Places!Open(r, u, lang)
      BY <2>3, <3>1, <3>2, <3>3 DEF Places!Open
    <3>5. QED BY <3>4 DEF Places!PlacesNext, Places!Readers, Readers
  <2>5. CASE j.op = "advance"
    <3>1. PICK lang \in Languages, u \in Units : u = j.unit /\ \A v \in Units :
             plan[r][v] = IF v = u THEN AnswerOf(rows[r][u], lang) ELSE Keep
      BY <1>1, <1>2, <1>6, <2>2, <2>5 DEF AsRead, OnlyNamed
    <3>2. rows'[r][u] = [step |-> Places!StepOf(rows[r][u]) + 1, lang |-> lang]
      BY <1>3, <3>1, AnswerIsNext
    <3>3. Names(j) = {r}
      BY <1>1, <2>2, <2>5 DEF OnlyNamed, Names
    <3>4. Places!Answer(r, u, lang)
      BY <2>3, <3>1, <3>2, <3>3 DEF Places!Answer
    <3>5. QED BY <3>4 DEF Places!PlacesNext, Places!Readers, Readers
  <2>6. CASE j.op = "adopt"
    <3>1. PICK account \in Accounts, anon \in Anons : account = j.subject /\ anon = j.other
      BY <1>1, <2>6 DEF CoherentJob
    <3>2. /\ account \in Readers /\ anon \in Readers /\ account # anon
          /\ Names(j) = {account, anon}
      BY <3>1, ReadersAssumption DEF Names, Readers
    <3>3. \A u \in Units : /\ plan[account][u] = AdoptedChange(rows[anon][u], rows[account][u])
                           /\ plan[anon][u] = Keep
      BY <1>1, <1>2, <1>6, <2>6, <3>1 DEF AsRead
    <3>4. \A u \in Units : rows'[account][u] = Places!Further(rows[account][u], rows[anon][u])
      BY <1>3, <3>2, <3>3, AdoptionIsFurther
    <3>5. \A s \in Readers, u \in Units : s # account => rows'[s][u] = rows[s][u]
      BY <1>k, <2>1, <3>2, <3>3
    <3>6. \A s \in Readers : rows'[s] = IF s = account
             THEN [u \in Units |-> Places!Further(rows[account][u], rows[anon][u])] ELSE rows[s]
      BY <1>1, <1>4, <3>4, <3>5
    <3>7. Places!Adopt(account, anon)
      BY <1>1, <1>4, <3>2, <3>6 DEF Places!Adopt
    <3>8. QED BY <3>7 DEF Places!PlacesNext
  <2>7. CASE j.op = "delete"
    <3>1. \A s \in Names(j), u \in Units : plan[s][u] = Removal(rows[s])[u]
      BY <1>1, <1>2, <1>6, <2>7 DEF AsRead
    <3>2. Names(j) \subseteq Readers
      BY <1>1 DEF OnlyNamed, Names, Readers
    <3>3. \A s \in Readers, u \in Units : rows'[s][u] = IF s \in Names(j) THEN NoRow ELSE rows[s][u]
      BY <1>1, <1>3, <2>1, <3>1, RemovalIsForget
    <3>4. \A s \in Readers : rows'[s] = [u \in Units |-> IF s \in Names(j) THEN NoRow ELSE rows[s][u]]
      BY <1>4, <3>3
    <3>5. Places!Forget(Names(j))
      BY <1>4, <3>4 DEF Places!Forget, Places!Readers, Readers
    <3>6. \/ Names(j) = {r}
          \/ r \in Accounts /\ j.other \in Anons /\ Names(j) = {r, j.other}
      BY <1>1, <2>2, ReadersAssumption DEF OnlyNamed, Names
    <3>7. QED BY <3>5, <3>6 DEF Places!PlacesNext, Places!Readers, Readers
  <2>8. QED BY <1>1, <2>4, <2>5, <2>6, <2>7
<1>7. QED BY <1>1, <1>5, <1>6 DEF SerialJob

\* As long as requests that name one reader do not overlap, each handler, its
\* reads, its save and the save's repetitions, is one step of the product's
\* description of places, or none (ProgressEndpoints, ContentEndpoints).
THEOREM HandlersImplementPlaces == ASSUME ~ Overlapping PROVE Spec => ImplementsPlaces
<1>1. Init => Places!PlacesInit
  BY DEF Init, Places!PlacesInit, NoRows, Places!Readers, Readers
<1>2. IInv /\ SerialInv /\ [Next]_vars => [Places!PlacesNext]_rows
  BY RowsAreSaved, SaveIsOfPlaces
<1>3. QED
  BY <1>1, <1>2, InvInit, InvStep, SerialInit, SerialStep, PTL
     DEF Spec, ImplementsPlaces, Places!PlacesSpec

\* A step of the product's description takes no place back: it opens one, moves one
\* on, keeps the further of two, or forgets.
LEMMA PlacesNeverGoBack ==
    ASSUME TypeOK, Places!PlacesNext, NEW r \in Readers, NEW u \in Units,
           rows[r][u] # NoRow, rows'[r][u] # NoRow
    PROVE  rows'[r][u].step >= rows[r][u].step
<1>1. rows \in [Readers -> [Units -> Row]] /\ rows[r][u].step \in Nat /\ Readers = Places!Readers
  BY DEF TypeOK, Row, NoRow, Readers, Places!Readers
<1>2. ASSUME NEW s \in Readers, NEW v \in Units, NEW lang \in Languages, Places!Open(s, v, lang)
      PROVE  rows'[r][u].step >= rows[r][u].step
  BY <1>1, <1>2 DEF Places!Open
<1>3. ASSUME NEW s \in Readers, NEW v \in Units, NEW lang \in Languages, Places!Answer(s, v, lang)
      PROVE  rows'[r][u].step >= rows[r][u].step
  BY <1>1, <1>3 DEF Places!Answer, Places!StepOf
<1>4. ASSUME NEW account \in Accounts, NEW anon \in Anons, Places!Adopt(account, anon)
      PROVE  rows'[r][u].step >= rows[r][u].step
  <2>1. account \in Readers /\ anon \in Readers /\ rows[anon][u].step \in Nat
    BY <1>1 DEF Readers, Row, NoRow
  <2>2. rows'[r][u] = IF r = account THEN Places!Further(rows[r][u], rows[anon][u]) ELSE rows[r][u]
    BY <1>1, <1>4, <2>1 DEF Places!Adopt
  <2>3. QED BY <1>1, <2>1, <2>2 DEF Places!Further
<1>5. ASSUME NEW readers, Places!Forget(readers)
      PROVE  rows'[r][u].step >= rows[r][u].step
  BY <1>1, <1>5 DEF Places!Forget
<1>6. QED BY <1>1, <1>2, <1>3, <1>4, <1>5 DEF Places!PlacesNext

\* As long as requests that name one reader do not overlap, the stored step is
\* monotone while its row exists, which is what the endpoint's documentation says
\* of every write (ProgressEndpoints.cs:16); overlapping requests break it.
THEOREM RowsNeverGoBack == ASSUME ~ Overlapping PROVE Spec => Monotone
<1>1. IInv /\ SerialInv /\ [Next]_vars =>
         [\A r \in Readers, u \in Units :
             rows[r][u] # NoRow /\ rows'[r][u] # NoRow =>
                 rows'[r][u].step >= rows[r][u].step]_vars
  <2> SUFFICES ASSUME IInv, SerialInv, [Next]_vars, NEW r \in Readers, NEW u \in Units,
                      rows[r][u] # NoRow, rows'[r][u] # NoRow
               PROVE  rows'[r][u].step >= rows[r][u].step
    OBVIOUS
  <2>1. TypeOK /\ rows[r][u].step \in Nat
    BY DEF IInv, TypeOK, Row, NoRow
  <2>2. UNCHANGED rows \/ Places!PlacesNext
    BY RowsAreSaved, SaveIsOfPlaces
  <2>3. QED BY <2>1, <2>2, PlacesNeverGoBack
<1>2. QED
  BY <1>1, InvInit, InvStep, SerialInit, SerialStep, PTL DEF Spec, Monotone

-----------------------------------------------------------------------------
(* The content cache.                                                      *)


ReadsAreNewest ==
    \A r \in Reads : read[r].phase = "store" /\ ~ read[r].late => read[r].bundle \in Newest

CacheInv == CacheTypeOK /\ StaleOnlyWhenLate /\ ReadsAreNewest

\* At the start the table, the cache and the slots are empty.
LEMMA CacheInitGood == CacheInit => CacheInv
<1> SUFFICES ASSUME CacheInit PROVE CacheInv
  OBVIOUS
<1>1. CacheTypeOK
  BY DEF CacheInit, CacheTypeOK, IdleRead, IdlePost
<1>2. StaleOnlyWhenLate
  BY DEF CacheInit, StaleOnlyWhenLate, Stale
<1>3. ReadsAreNewest
  BY DEF CacheInit, ReadsAreNewest, IdleRead
<1> QED
  BY <1>1, <1>2, <1>3 DEF CacheInv

\* A read that holds a bundle holds one of the table's.
LEMMA StoringRead ==
    ASSUME CacheTypeOK, NEW r \in Reads, read[r].phase = "store"
    PROVE  read[r] \in [phase : {"store"}, bundle : stored, late : BOOLEAN]
<1> DEFINE querying == [phase : {"query"}, bundle : {NoBundle}, late : {FALSE}]
           storing == [phase : {"store"}, bundle : stored, late : BOOLEAN]
<1>1. read[r] \in querying \/ read[r] \in storing \/ read[r] = IdleRead
  BY DEF CacheTypeOK
<1>2. \A x \in querying : x.phase = "query"
  OBVIOUS
<1>3. IdleRead.phase = "idle"
  BY DEF IdleRead
<1> HIDE DEF querying, storing
<1>4. read[r] \in storing
  BY <1>1, <1>2, <1>3
<1> QED
  BY <1>4 DEF storing

\* An ingestion that is to save, or to invalidate, holds a bundle to save, or one
\* that is stored.
LEMMA PostingTyped ==
    ASSUME CacheTypeOK, NEW p \in Posts
    PROVE  /\ post[p].phase = "save" => post[p] \in [phase : {"save"}, bundle : Bundle]
           /\ post[p].phase = "invalidate" =>
                post[p] \in [phase : {"invalidate"}, bundle : stored]
<1> DEFINE saving == [phase : {"save"}, bundle : Bundle]
           invalidating == [phase : {"invalidate"}, bundle : stored]
<1>1. post[p] \in saving \/ post[p] \in invalidating \/ post[p] = IdlePost
  BY DEF CacheTypeOK
<1>2. /\ \A x \in saving : x.phase = "save"
      /\ \A x \in invalidating : x.phase = "invalidate"
  OBVIOUS
<1>3. IdlePost.phase = "idle"
  BY DEF IdlePost
<1> HIDE DEF saving, invalidating
<1>4. /\ post[p].phase = "save" => post[p] \in saving
      /\ post[p].phase = "invalidate" => post[p] \in invalidating
  BY <1>1, <1>2, <1>3
<1> QED
  BY <1>4 DEF saving, invalidating

\* A save marks every read that holds a bundle, which it keeps, and no other.
LEMMA OvertakenTyped ==
    ASSUME CacheTypeOK, NEW r \in Reads
    PROVE  /\ read[r].phase = "store" =>
                Overtaken[r] \in [phase : {"store"}, bundle : stored, late : {TRUE}]
           /\ read[r].phase # "store" => Overtaken[r] = read[r]
<1>1. CASE read[r].phase = "store"
  <2>1. read[r] \in [phase : {"store"}, bundle : stored, late : BOOLEAN]
    BY <1>1, StoringRead
  <2>2. Overtaken[r] = [read[r] EXCEPT !.late = TRUE]
    BY <1>1 DEF Overtaken
  <2>3. [read[r] EXCEPT !.late = TRUE] \in [phase : {"store"}, bundle : stored, late : {TRUE}]
    BY <2>1
  <2> QED
    BY <1>1, <2>2, <2>3
<1>2. CASE read[r].phase # "store"
  BY <1>2 DEF Overtaken
<1> QED
  BY <1>1, <1>2

\* The commit of a free tag adds that one bundle to the table, and types hold.
LEMMA CommitTyped ==
    ASSUME CacheTypeOK, NEW bundle \in Bundle, Commit(bundle)
    PROVE  /\ stored' \subseteq Bundle /\ stored \subseteq stored' /\ bundle \in stored'
           /\ \A b, c \in stored' : b.tag = c.tag => b = c
           /\ read' \in [Reads -> [phase : {"query"}, bundle : {NoBundle}, late : {FALSE}]
                         \cup [phase : {"store"}, bundle : stored', late : BOOLEAN]
                         \cup {IdleRead}]
           /\ ReadsAreNewest'
<1>1. stored' = stored \cup {bundle} /\ read' = Overtaken
  BY DEF Commit
<1>2. /\ stored' \subseteq Bundle /\ stored \subseteq stored' /\ bundle \in stored'
      /\ \A b, c \in stored' : b.tag = c.tag => b = c
  BY <1>1 DEF CacheTypeOK, Commit
<1>3. ASSUME NEW r \in Reads
      PROVE  /\ read'[r] \in [phase : {"query"}, bundle : {NoBundle}, late : {FALSE}]
                             \cup [phase : {"store"}, bundle : stored', late : BOOLEAN]
                             \cup {IdleRead}
             /\ ~ (read'[r].phase = "store" /\ ~ read'[r].late)
  <2>1. CASE read[r].phase = "store"
    <3>1. read'[r] \in [phase : {"store"}, bundle : stored, late : {TRUE}]
      BY <1>1, <2>1, OvertakenTyped
    <3>2. read'[r] \in [phase : {"store"}, bundle : stored', late : {TRUE}]
      BY <1>2, <3>1
    <3>3. read'[r] \in [phase : {"store"}, bundle : stored', late : BOOLEAN] /\ read'[r].late
      BY <3>2
    <3> QED
      BY <3>3
  <2>2. CASE read[r].phase # "store"
    <3>1. read'[r] = read[r]
      BY <1>1, <2>2, OvertakenTyped
    <3> QED
      BY <2>2, <3>1 DEF CacheTypeOK
  <2> QED
    BY <2>1, <2>2
<1>4. read' \in [Reads -> [phase : {"query"}, bundle : {NoBundle}, late : {FALSE}]
                         \cup [phase : {"store"}, bundle : stored', late : BOOLEAN]
                         \cup {IdleRead}]
  BY <1>1, <1>3 DEF Overtaken
<1> QED
  BY <1>2, <1>3, <1>4 DEF ReadsAreNewest

\* Every step keeps the invariant.
LEMMA StepGood == CacheInv /\ [CacheNext]_cacheVars => CacheInv'
<1> SUFFICES ASSUME CacheInv, [CacheNext]_cacheVars PROVE CacheInv'
  OBVIOUS
<1> USE DEF CacheInv
<1>1. ASSUME NEW r \in Reads, Miss(r) PROVE CacheInv'
  <2>a. [phase |-> "query", bundle |-> NoBundle, late |-> FALSE]
           \in [phase : {"query"}, bundle : {NoBundle}, late : {FALSE}]
    OBVIOUS
  <2>b. read' \in [Reads -> [phase : {"query"}, bundle : {NoBundle}, late : {FALSE}]
                            \cup [phase : {"store"}, bundle : stored, late : BOOLEAN]
                            \cup {IdleRead}]
    BY <1>1, <2>a DEF CacheTypeOK, Miss
  <2>1. CacheTypeOK'
    BY <1>1, <2>b DEF CacheTypeOK, Miss
  <2>2. StaleOnlyWhenLate'
    BY <1>1 DEF StaleOnlyWhenLate, Stale, Miss
  <2>3. ReadsAreNewest'
    BY <1>1 DEF ReadsAreNewest, Newest, Miss, CacheTypeOK
  <2> QED
    BY <2>1, <2>2, <2>3
<1>2. ASSUME NEW r \in Reads, Query(r) PROVE CacheInv'
  <2>a. \/ read' = [read EXCEPT ![r] = IdleRead]
        \/ \E b \in stored :
              read' = [read EXCEPT ![r] = [phase |-> "store", bundle |-> b, late |-> FALSE]]
    BY <1>2 DEF Query, Newest
  <2>b. \A b \in stored : [phase |-> "store", bundle |-> b, late |-> FALSE]
                             \in [phase : {"store"}, bundle : stored, late : BOOLEAN]
    OBVIOUS
  <2>1. CacheTypeOK'
    BY <1>2, <2>a, <2>b DEF CacheTypeOK, Query
  <2>2. StaleOnlyWhenLate'
    BY <1>2 DEF StaleOnlyWhenLate, Stale, Query, Newest, Invalidating
  <2>3. ReadsAreNewest'
    BY <1>2 DEF ReadsAreNewest, Newest, Query, CacheTypeOK, IdleRead
  <2> QED
    BY <2>1, <2>2, <2>3
<1>3. ASSUME NEW r \in Reads, Store(r) PROVE CacheInv'
  <2>a. read[r] \in [phase : {"store"}, bundle : stored, late : BOOLEAN]
    BY <1>3, StoringRead DEF Store
  <2>1. read[r].bundle \in stored /\ read[r].late \in BOOLEAN
    BY <2>a
  <2>2. CacheTypeOK'
    BY <1>3, <2>1 DEF CacheTypeOK, Store, IdleRead, Entry
  <2>3. StaleOnlyWhenLate'
    BY <1>3, <2>1 DEF StaleOnlyWhenLate, Stale, Store, Newest, ReadsAreNewest
  <2>4. ReadsAreNewest'
    BY <1>3 DEF ReadsAreNewest, Newest, Store, CacheTypeOK, IdleRead
  <2> QED
    BY <2>2, <2>3, <2>4
<1>4. ASSUME NEW p \in Posts, NEW tag \in Tags, NEW body \in Bodies, NEW at \in Times,
             Receive(p, tag, body, at)
      PROVE  CacheInv'
  <2>1. CacheTypeOK'
    BY <1>4 DEF CacheTypeOK, Receive, IdlePost, Bundle
  <2>2. Invalidating => Invalidating'
    BY <1>4 DEF Invalidating, Receive, IdlePost, CacheTypeOK
  <2>3. StaleOnlyWhenLate'
    BY <1>4, <2>2 DEF StaleOnlyWhenLate, Stale, Receive, Newest
  <2>4. ReadsAreNewest'
    BY <1>4 DEF ReadsAreNewest, Newest, Receive
  <2> QED
    BY <2>1, <2>3, <2>4
<1>5. ASSUME NEW p \in Posts, SaveBundle(p) PROVE CacheInv'
  <2>1. post[p].bundle \in Bundle
    BY <1>5, PostingTyped DEF SaveBundle
  <2>2. Commit(post[p].bundle)
    BY <1>5 DEF SaveBundle
  <2>a. post[p] \in [phase : {"save"}, bundle : Bundle] /\ post[p].bundle \in stored'
    BY <1>5, <2>1, <2>2, PostingTyped, CommitTyped DEF SaveBundle
  <2>b. [post[p] EXCEPT !.phase = "invalidate"] \in [phase : {"invalidate"}, bundle : stored']
    BY <2>a
  <2>c. post' \in [Posts -> [phase : {"save"}, bundle : Bundle]
                            \cup [phase : {"invalidate"}, bundle : stored']
                            \cup {IdlePost}]
    <3>1. post' = [post EXCEPT ![p] = [post[p] EXCEPT !.phase = "invalidate"]]
      BY <1>5 DEF SaveBundle
    <3>2. [phase : {"invalidate"}, bundle : stored]
             \subseteq [phase : {"invalidate"}, bundle : stored']
      BY <2>1, <2>2, CommitTyped
    <3> QED
      BY <2>b, <3>1, <3>2 DEF CacheTypeOK
  <2>3. CacheTypeOK'
    BY <1>5, <2>1, <2>2, <2>c, CommitTyped DEF CacheTypeOK, SaveBundle
  <2>4. post'[p].phase = "invalidate"
    BY <1>5 DEF SaveBundle, CacheTypeOK
  <2>5. StaleOnlyWhenLate'
    BY <2>4 DEF StaleOnlyWhenLate, Invalidating
  <2> QED
    BY <2>1, <2>2, <2>3, <2>5, CommitTyped
<1>6. ASSUME NEW p \in Posts, Invalidate(p) PROVE CacheInv'
  <2>1. CacheTypeOK'
    BY <1>6 DEF CacheTypeOK, Invalidate, IdlePost
  <2>2. StaleOnlyWhenLate'
    BY <1>6 DEF StaleOnlyWhenLate, Stale, Invalidate
  <2>3. ReadsAreNewest'
    BY <1>6 DEF ReadsAreNewest, Newest, Invalidate
  <2> QED
    BY <2>1, <2>2, <2>3
<1>7. ASSUME NEW p \in Posts, SaveFails(p) PROVE CacheInv'
  <2>1. CacheTypeOK'
    BY <1>7 DEF CacheTypeOK, SaveFails, IdlePost
  <2>2. Invalidating => Invalidating'
    BY <1>7 DEF Invalidating, SaveFails, CacheTypeOK
  <2>3. StaleOnlyWhenLate'
    BY <1>7, <2>2 DEF StaleOnlyWhenLate, Stale, SaveFails, Newest
  <2>4. ReadsAreNewest'
    BY <1>7 DEF ReadsAreNewest, Newest, SaveFails
  <2> QED
    BY <2>1, <2>3, <2>4
<1>8. ASSUME NEW p \in Posts, SaveUnanswered(p) PROVE CacheInv'
  <2>1. post[p].bundle \in Bundle
    BY <1>8, PostingTyped DEF SaveUnanswered
  <2>2. Commit(post[p].bundle)
    BY <1>8 DEF SaveUnanswered
  <2>3. entry' = NoBundle \/ (entry' \in Entry /\ entry'.late)
    <3>1. CASE entry = NoBundle
      BY <1>8, <3>1 DEF SaveUnanswered
    <3>2. CASE entry # NoBundle
      <4>1. entry' = [entry EXCEPT !.late = TRUE] /\ entry \in [bundle : Bundle, late : BOOLEAN]
        BY <1>8, <3>2 DEF SaveUnanswered, CacheTypeOK, Entry
      <4>2. entry' = [bundle |-> entry.bundle, late |-> TRUE] /\ entry.bundle \in Bundle
        BY <4>1
      <4> QED
        BY <4>2 DEF Entry
    <3> QED
      BY <3>1, <3>2
  <2>4. post' \in [Posts -> [phase : {"save"}, bundle : Bundle]
                            \cup [phase : {"invalidate"}, bundle : stored']
                            \cup {IdlePost}]
    BY <1>8, <2>1, <2>2, CommitTyped DEF CacheTypeOK, SaveUnanswered
  <2>5. CacheTypeOK'
    BY <2>1, <2>2, <2>3, <2>4, CommitTyped DEF CacheTypeOK
  <2>6. StaleOnlyWhenLate'
    BY <2>3 DEF StaleOnlyWhenLate, Stale
  <2> QED
    BY <2>1, <2>2, <2>5, <2>6, CommitTyped
<1>9. CASE Restart
  <2>1. CacheTypeOK'
    BY <1>9 DEF CacheTypeOK, Restart, IdlePost, IdleRead
  <2>2. StaleOnlyWhenLate'
    BY <1>9 DEF StaleOnlyWhenLate, Stale, Restart
  <2>3. ReadsAreNewest'
    BY <1>9 DEF ReadsAreNewest, Restart, IdleRead
  <2> QED
    BY <2>1, <2>2, <2>3
<1>10. CASE UNCHANGED cacheVars
  BY <1>10 DEF cacheVars, CacheTypeOK, StaleOnlyWhenLate, Stale, Newest, Invalidating, ReadsAreNewest
<1> QED
  BY <1>1, <1>2, <1>3, <1>4, <1>5, <1>6, <1>7, <1>8, <1>9, <1>10 DEF CacheNext

\* The invariant holds throughout.
THEOREM CacheInvariant == CacheSpec => []CacheInv
BY CacheInitGood, StepGood, PTL DEF CacheSpec

\* The table holds at most one bundle per tag, and what a read or an ingestion
\* has in hand is a bundle of it, however requests interleave.
THEOREM CacheTypeCorrect == CacheSpec => []CacheTypeOK
<1>1. CacheInv => CacheTypeOK
  BY DEF CacheInv
<1> QED
  BY <1>1, CacheInvariant, PTL

\* An entry is stale only after a read was overtaken by a save, or a save's answer
\* was lost, for any number of reads and ingestions in flight.
THEOREM StaleEntriesAreLate == CacheSpec => []StaleOnlyWhenLate
<1>1. CacheInv => StaleOnlyWhenLate
  BY DEF CacheInv
<1> QED
  BY <1>1, CacheInvariant, PTL

================================================================================

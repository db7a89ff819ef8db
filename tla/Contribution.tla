------------------------------ MODULE Contribution ------------------------------
(***************************************************************************)
(* What leaves the browser for the instrument, and whether: the answer of  *)
(* lib/consent/store.ts, the counter of lib/instrument/attempts.ts, the    *)
(* two readings of lib/instrument/parse.ts and the report they make in     *)
(* lib/instrument/report.ts.  All of it is pure; LabPane and Worksheet run *)
(* it.                                                                     *)
(***************************************************************************)
EXTENDS Integers, Sequences, SequencesExt

CONSTANTS MaxAttempt,   \* attempts.ts MAX_ATTEMPT, 50
          WIDEST,       \* parse.ts, 64
          None

ASSUME AttemptAssumption == MaxAttempt \in Nat \ {0}

-----------------------------------------------------------------------------
(* Consent.  A slot holds an answer to some version of the question, or    *)
(* None: nothing there, nothing readable, storage refused.                 *)

CONSENT_VERSION == 2
Answers == [version : 1 .. CONSENT_VERSION, consent : {"granted", "declined"}]

\* Slip: the answer is read before the version it was given to.
ReadAnyVersion(slot) == IF slot = None THEN "undecided" ELSE slot.consent

\* An answer to another question is not an answer to this one.
Read(slot) ==
    IF slot # None /\ slot.version = CONSENT_VERSION THEN slot.consent ELSE "undecided"

MayContribute(slot) == Read(slot) = "granted"
Decided(consent) == [version |-> CONSENT_VERSION, consent |-> consent]

-----------------------------------------------------------------------------
(* Attempts: one number per frame, capped, never less than one.            *)

\* Slip: counted past what the service accepts.
Uncapped(counts, frame) == counts[frame] + 1

NextAttempt(counts, frame) ==
    IF counts[frame] + 1 <= MaxAttempt THEN counts[frame] + 1 ELSE MaxAttempt

\* Each frame's number, taken and remembered.
Taken(counts, frames) ==
    [f \in DOMAIN counts |-> IF f \in frames THEN NextAttempt(counts, f) ELSE counts[f]]

-----------------------------------------------------------------------------
(* Reading the runner.  A line of its output is a form and a check's name, *)
(* None where the name is not one; a docstring is the numbers its first    *)
(* `frames' clause holds, None where the text has no such number.  What is *)
(* said of the checks is a function over the lines that say it.            *)

OutcomesFrom(output) ==
    LET IsForm(line) == line.form \in {"ok", "FAIL", "todo"} /\ line.check # None
    IN [i \in {j \in DOMAIN output : IsForm(output[j])} |->
          [check |-> output[i].check, passed |-> output[i].form = "ok"]]

\* The span, or its first frame alone when it does not ascend or is too wide;
\* and the one frame appended to it.
FramesFrom(doc) ==
    IF doc = None \/ doc.first < 1 THEN {}
    ELSE LET ascends == /\ doc.last # None
                        /\ doc.last >= doc.first
                        /\ doc.last - doc.first <= WIDEST
             span == IF ascends THEN doc.first .. doc.last ELSE {doc.first}
         IN IF doc.also = None \/ doc.also < 1 THEN span ELSE span \cup {doc.also}

\* One report per frame some announced check of the output rests on.
FramesOf(output, docs, counts) ==
    LET outcomes == OutcomesFrom(output)
        Rests(check) == IF check \in DOMAIN docs THEN FramesFrom(docs[check]) ELSE {}
        About(step) == {i \in DOMAIN outcomes : step \in Rests(outcomes[i].check)}
    IN {[step |-> step,
         attempt |-> NextAttempt(counts, step),
         results |-> Restrict(outcomes, About(step))] :
            step \in UNION {Rests(outcomes[i].check) : i \in DOMAIN outcomes}}

\* A worksheet's report: one check, named after its frame.
answerCheckName(step) == <<"answer", step>>
AnswerReport(step, outcome, counts) ==
    [step |-> step,
     attempt |-> NextAttempt(counts, step),
     results |-> << [check |-> answerCheckName(step), passed |-> outcome = "matched"] >>]

=============================================================================

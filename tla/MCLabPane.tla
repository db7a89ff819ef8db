------------------------------- MODULE MCLabPane -------------------------------
(***************************************************************************)
(* LabPane for TLC: a lab of two checks, one resting on both frames, the   *)
(* other on the second; a run prints both and a check nobody announced,    *)
(* or one of them twice.                                                   *)
(***************************************************************************)
EXTENDS LabPane

CONSTANTS gap, bisection, stray, other

Line(form, check) == [form |-> form, check |-> check]

LabDocs == [c \in {gap, bisection} |->
              IF c = gap THEN [first |-> 1, last |-> 2, also |-> None]
              ELSE [first |-> 2, last |-> None, also |-> None]]

LabOutputs == { << Line("ok", gap), Line("FAIL", bisection), Line("ok", stray) >>,
                << Line("FAIL", gap), Line("other", None), Line("ok", gap) >> }

LabElsewhere == { [step |-> 2, attempt |-> 2,
                   results |-> << [check |-> gap, passed |-> TRUE] >>] }

AllCallers == Runs \cup {other}

=============================================================================

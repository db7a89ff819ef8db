------------------------------ MODULE RevealGate ------------------------------
(***************************************************************************)
(* What the reveal gate promises a reader, without requests, transactions  *)
(* or tables: a reader is at step k of a program only if each step before  *)
(* k was answered, by that reader or by an anonymous reader whose places   *)
(* the account adopted.                                                    *)
(*                                                                         *)
(* `place' is the step recorded for a reader in a program (0: none).       *)
(* `answered' and `adopted' are what has happened so far and only grow: a  *)
(* reader who forgets loses the place, not the fact of having answered.    *)
(***************************************************************************)
EXTENDS Naturals

CONSTANTS Readers,    \* accounts and anonymous reader ids
          Programs,   \* the units of the track
          Steps       \* the step numbers a request can name or a place can hold

VARIABLES place, answered, adopted

gateVars == <<place, answered, adopted>>

\* Reveal.FirstStep: the one step served to anybody.
FirstStep == 1

\* The readers whose answers count as this reader's own.
CountsFor(reader) == {reader} \cup adopted[reader]

\* Step k of a program has been earned: every step before it was answered.
Earned(reader, program, k) ==
    \A j \in FirstStep .. (k - 1) :
        \E source \in CountsFor(reader) : j \in answered[source][program]

GateInit ==
    /\ place = [r \in Readers |-> [p \in Programs |-> 0]]
    /\ answered = [r \in Readers |-> [p \in Programs |-> {}]]
    /\ adopted = [r \in Readers |-> {}]

-----------------------------------------------------------------------------
\* A place at the first step, where there was none.
Open(reader, program) ==
    /\ place[reader][program] = 0
    /\ place' = [place EXCEPT ![reader][program] = FirstStep]
    /\ UNCHANGED <<answered, adopted>>

\* An earned step is answered: the place becomes the next step.
Answer(reader, program, k) ==
    /\ Earned(reader, program, k)
    /\ answered' = [answered EXCEPT ![reader][program] = @ \cup {k}]
    /\ place' = [place EXCEPT ![reader][program] = k + 1]
    /\ UNCHANGED adopted

\* An account takes over places of an anonymous reader, whose own stay.
Adopt(account, anonymous) ==
    /\ adopted' = [adopted EXCEPT ![account] = @ \cup {anonymous}]
    /\ place' = [place EXCEPT ![account] = place'[account]]
    /\ \A p \in Programs :
          \/ place'[account][p] = place[account][p]
          \/ Earned(account, p, place[account][p])'
    /\ UNCHANGED answered

\* Some readers are forgotten, in whole or in the programs a request saw.
Forget ==
    /\ place' = [r \in Readers |-> [p \in Programs |-> place'[r][p]]]
    /\ \A r \in Readers, p \in Programs : place'[r][p] \in {0, place[r][p]}
    /\ UNCHANGED <<answered, adopted>>

GateNext ==
    \/ \E r \in Readers, p \in Programs : Open(r, p)
    \/ \E r \in Readers, p \in Programs, k \in Steps : Answer(r, p, k)
    \/ \E a, x \in Readers : Adopt(a, x)
    \/ Forget

GateSpec == GateInit /\ [][GateNext]_gateVars

=============================================================================

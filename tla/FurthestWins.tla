----------------------------- MODULE FurthestWins -----------------------------
(***************************************************************************)
(* The places of readers as the product describes them, each request one   *)
(* step: a place is opened at the first step, an answer moves it on by one *)
(* and stamps the edition it was answered in, adoption keeps, program by   *)
(* program, the copy that is further on (the account's on a tie) whole,    *)
(* and a forget takes every place of the readers it names at once.         *)
(***************************************************************************)
EXTENDS Naturals

CONSTANTS Accounts, Anons, Programs, Editions, NoPlace

VARIABLE place    \* place[reader][program], a step and its edition or NoPlace

Readers == Accounts \cup Anons

\* The step a reader without a place would answer first.
StepOf(p) == IF p = NoPlace THEN 1 ELSE p.step

\* The copy an account keeps of its own place and one it adopts.
Further(own, theirs) ==
    IF theirs # NoPlace /\ (own = NoPlace \/ theirs.step > own.step) THEN theirs ELSE own

PlacesInit == place = [r \in Readers |-> [p \in Programs |-> NoPlace]]

Open(r, p, edition) ==
    /\ place[r][p] = NoPlace
    /\ place' = [place EXCEPT ![r][p] = [step |-> 1, lang |-> edition]]

Answer(r, p, edition) ==
    place' = [place EXCEPT ![r][p] = [step |-> StepOf(@) + 1, lang |-> edition]]

Adopt(account, anonymous) ==
    place' = [place EXCEPT ![account] =
                 [p \in Programs |-> Further(@[p], place[anonymous][p])]]

Forget(readers) ==
    place' = [r \in Readers |-> [p \in Programs |->
                 IF r \in readers THEN NoPlace ELSE place[r][p]]]

PlacesNext ==
    \/ \E r \in Readers, p \in Programs, edition \in Editions :
          Open(r, p, edition) \/ Answer(r, p, edition)
    \/ \E a \in Accounts, x \in Anons : Adopt(a, x) \/ Forget({a, x})
    \/ \E r \in Readers : Forget({r})

PlacesSpec == PlacesInit /\ [][PlacesNext]_place

=============================================================================

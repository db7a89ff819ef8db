--------------------------- MODULE AccountLifeProofs ---------------------------
(***************************************************************************)
(* Theorems about AccountLife, for any number of tabs, addresses, sign-ins *)
(* and deletions asked for.                                                *)
(*                                                                         *)
(* The invariant that carries NothingLeft says it of every row a deletion  *)
(* has passed, in whatever way (Passed), long before the account is gone;  *)
(* the one that carries ToldIsSo says it of the answer under way, whatever *)
(* address gave it.                                                        *)
(***************************************************************************)
EXTENDS AccountLife, TLAPS

PassedRowsAreBehind == \A r \in rows : Passed(r) => r \in behind

AnswersAreSo ==
    \A t \in Tabs : op[t].does = "delete" /\ op[t].at = "deleted" =>
        account = "gone" \/ t \in misled

(* A tab's new request, of the right type, leaves the other tabs' alone.   *)
LEMMA OneRequest ==
    ASSUME TypeOK, NEW t \in Tabs, NEW request, request \in Requests, Becomes(t, request)
    PROVE  /\ op' \in [Tabs -> Requests]
           /\ op'[t] = request
           /\ \A u \in Tabs \ {t} : op'[u] = op[u]
  BY DEF TypeOK, Becomes

LEMMA IdleIsARequest == Idle \in Requests
  BY DEF Idle, Requests, Turned

(* What a deletion under way can become.                                   *)
LEMMA DeletionGoesOn ==
    ASSUME TypeOK, NEW t \in Tabs, op[t].does = "delete"
    PROVE  /\ op[t] \in Asked
           /\ \A at \in Steps \cup Outcomes :
                 /\ [op[t] EXCEPT !.at = at] \in Requests
                 /\ [op[t] EXCEPT !.at = at, !.rung = 1] \in Requests
           /\ op[t].rung < Rungs => [op[t] EXCEPT !.rung = @ + 1] \in Requests
  <1>1. op[t] \in Asked
    BY DEF TypeOK, Requests, Asked, Filed, Entering, Turned
  <1>2. 1 \in 1 .. Rungs /\ \A k \in 1 .. Rungs : k < Rungs => k + 1 \in 1 .. Rungs
    BY AccountAssumption
  <1>3. QED  BY <1>1, <1>2 DEF Asked, Requests

(* Idle's fields, and what a tab that asks for nothing yet can go on to.   *)
LEMMA IdleFields ==
    /\ Idle.does = "nothing"
    /\ \A token, at, right :
          LET asked == [Idle EXCEPT !.does = "delete", !.token = token, !.at = at, !.right = right]
          IN asked.does = "delete" /\ asked.at = at
    /\ \A does, token, at :
          /\ [Idle EXCEPT !.does = does, !.token = token].does = does
          /\ [Idle EXCEPT !.does = does, !.token = token, !.at = at].does = does
          /\ [Idle EXCEPT !.does = does, !.token = token, !.at = at].token = token
  BY DEF Idle

(* A write names a row; a sign-in has a session.                           *)
LEMMA WritesARow == ASSUME TypeOK, NEW t \in Tabs, op[t].does = "write" PROVE op[t].at \in Rows
  BY DEF TypeOK, Requests, Asked, Filed, Entering, Turned

\* A request that signs in has a sign-in's fields.
LEMMA SignsIn == ASSUME TypeOK, NEW t \in Tabs, op[t].does = "signin" PROVE op[t] \in Entering
  BY DEF TypeOK, Requests, Asked, Filed, Entering, Turned

(* Every request that begins or goes on is one of the right type.          *)
LEMMA TypeStep == TypeOK /\ [Next]_vars => TypeOK'
  <1>. SUFFICES ASSUME TypeOK, [Next]_vars PROVE TypeOK'
    OBVIOUS
  <1>. USE IdleIsARequest
  <1>1. ASSUME NEW t \in Tabs, NEW right \in BOOLEAN, Ask(t, right) PROVE TypeOK'
    <2>1. [Idle EXCEPT !.does = "delete", !.token = cookie,
                       !.at = Following.asked, !.right = right] \in Requests
      <3>1. cookie \in Sessions /\ 1 \in 1 .. Rungs
        BY <1>1, AccountAssumption DEF Ask, TypeOK
      <3>2. QED
        BY <3>1 DEF Idle, Following, Requests, Asked, Steps, Rows, Outcomes
    <2>2. op' \in [Tabs -> Requests]
      BY <1>1, <2>1, OneRequest DEF Ask, Begins
    <2>3. asks' \in 0 .. MaxAsks
      BY <1>1, AccountAssumption DEF Ask, TypeOK
    <2>4. QED
      BY <1>1, <2>2, <2>3 DEF Ask, TypeOK, Outcomes
  <1>2. ASSUME NEW t \in Tabs, Forgotten(t) PROVE TypeOK'
    <2>1. Following[op[t].at] \in Steps \cup Outcomes
      BY <1>2 DEF Forgotten, Following, Rows, Steps
    <2>2. op' \in [Tabs -> Requests]
      BY <1>2, <2>1, DeletionGoesOn, OneRequest DEF Forgotten, Deleting
    <2>3. QED
      BY <1>2, <2>2 DEF Forgotten, TypeOK, counters
  <1>3. ASSUME NEW t \in Tabs, AccountAnswered(t) PROVE TypeOK'
    <2>1. {"password", Following["account"]} \subseteq Outcomes
      BY DEF Following, Outcomes
    <2>2. op' \in [Tabs -> Requests]
      BY <1>3, <2>1, DeletionGoesOn, OneRequest DEF AccountAnswered, Deleting
    <2>3. QED
      BY <1>3, <2>2 DEF AccountAnswered, TypeOK, counters, history
  <1>4. ASSUME NEW t \in Tabs, TakenForDone(t) PROVE TypeOK'
    <2>1. Following[op[t].at] \in Steps \cup Outcomes
      BY <1>4 DEF TakenForDone, Deleting, Following, Steps, Rows, Outcomes
    <2>2. op' \in [Tabs -> Requests]
      BY <1>4, <2>1, DeletionGoesOn, OneRequest DEF TakenForDone, Deleting
    <2>3. strays' \in 0 .. MaxStrays
      BY <1>4, AccountAssumption DEF TakenForDone, TypeOK
    <2>4. QED
      BY <1>4, <2>2, <2>3 DEF TakenForDone, TypeOK
  <1>5. ASSUME NEW t \in Tabs, Refused(t) PROVE TypeOK'
    <2>1. op' \in [Tabs -> Requests]
      BY <1>5, DeletionGoesOn, OneRequest DEF Refused, Deleting, Outcomes
    <2>2. QED
      BY <1>5, <2>1 DEF Refused, TypeOK, counters, history
  <1>6. ASSUME NEW t \in Tabs, Unavailable(t) PROVE TypeOK'
    <2>1. FailedAs(op[t].at) \in Outcomes
      BY DEF FailedAs, Outcomes
    <2>2. op' \in [Tabs -> Requests]
      <3>1. CASE op[t].rung < Rungs
        BY <1>6, <3>1, DeletionGoesOn, OneRequest DEF Unavailable, Deleting
      <3>2. CASE ~ (op[t].rung < Rungs)
        BY <1>6, <2>1, <3>2, DeletionGoesOn, OneRequest DEF Unavailable, Deleting
      <3>3. QED  BY <3>1, <3>2
    <2>3. abandoned' \subseteq Steps /\ strays' \in 0 .. MaxStrays
      BY <1>6, AccountAssumption DEF Unavailable, Deleting, TypeOK
    <2>4. QED
      BY <1>6, <2>2, <2>3 DEF Unavailable, TypeOK, history
  <1>7. ASSUME NEW step \in Steps, CarriedOutLate(step) PROVE TypeOK'
    BY <1>7 DEF CarriedOutLate, TypeOK, counters
  <1>8. ASSUME NEW t \in Tabs, Answered(t) PROVE TypeOK'
    <2>1. op' \in [Tabs -> Requests]
      BY <1>8, OneRequest DEF Answered
    <2>2. QED
      BY <1>8, <2>1 DEF Answered, TypeOK, counters, history
  <1>9. ASSUME NEW t \in Tabs, SignIn(t) PROVE TypeOK'
    <2>1. signIns' \in Sessions /\ signIns' \in 0 .. MaxSignIns
      BY <1>9, AccountAssumption DEF SignIn, TypeOK, Sessions
    <2>2. [Idle EXCEPT !.does = "signin", !.token = signIns', !.at = "adopt"] \in Requests
      BY <2>1 DEF Idle, Requests, Entering
    <2>3. op' \in [Tabs -> Requests]
      BY <1>9, <2>2, OneRequest DEF SignIn, Begins
    <2>4. QED
      BY <1>9, <2>1, <2>3 DEF SignIn, TypeOK, history
  <1>10. ASSUME NEW t \in Tabs, Adopt(t) PROVE TypeOK'
    <2>1. [op[t] EXCEPT !.at = "none"] \in Requests
      BY <1>10 DEF Adopt, TypeOK, Requests, Asked, Filed, Entering, Turned
    <2>2. op' \in [Tabs -> Requests]
      BY <1>10, <2>1, OneRequest DEF Adopt
    <2>3. QED
      BY <1>10, <2>2 DEF Adopt, Files, Rows, TypeOK, counters
  <1>11. ASSUME NEW t \in Tabs, SignedIn(t) PROVE TypeOK'
    <2>1. op' \in [Tabs -> Requests]
      BY <1>11, OneRequest DEF SignedIn
    <2>2. op[t].token \in Sessions
      BY <1>11 DEF SignedIn, TypeOK, Requests, Asked, Filed, Entering, Turned
    <2>3. QED
      BY <1>11, <2>1, <2>2 DEF SignedIn, TypeOK, counters
  <1>12. ASSUME NEW t \in Tabs, NEW row \in Rows, Write(t, row) PROVE TypeOK'
    <2>1. [Idle EXCEPT !.does = "write", !.token = cookie, !.at = row] \in Requests
      BY <1>12 DEF Write, TypeOK, Idle, Requests, Filed
    <2>2. op' \in [Tabs -> Requests]
      BY <1>12, <2>1, OneRequest DEF Write, Begins
    <2>3. writes' \in 0 .. MaxWrites
      BY <1>12, AccountAssumption DEF Write, TypeOK
    <2>4. QED
      BY <1>12, <2>2, <2>3 DEF Write, TypeOK, history
  <1>13. ASSUME NEW t \in Tabs, Written(t) PROVE TypeOK'
    <2>1. op' \in [Tabs -> Requests]
      BY <1>13, OneRequest DEF Written
    <2>2. op[t].at \in Rows
      BY <1>13 DEF Written, TypeOK, Requests, Asked, Filed, Entering, Turned
    <2>3. QED
      BY <1>13, <2>1, <2>2 DEF Written, Files, TypeOK, counters
  <1>14. ASSUME NEW t \in Tabs, NEW what, what \in {"page", "signout"}, Turn(t, what)
         PROVE TypeOK'
    <2>1. [Idle EXCEPT !.does = what, !.token = cookie] \in Requests
      BY <1>14 DEF TypeOK, Idle, Requests, Turned
    <2>2. op' \in [Tabs -> Requests]
      BY <1>14, <2>1, OneRequest DEF Turn, Begins
    <2>3. turns' \in 0 .. MaxTurns
      BY <1>14, AccountAssumption DEF Turn, TypeOK
    <2>4. QED
      BY <1>14, <2>2, <2>3 DEF Turn, TypeOK, history
  <1>15. ASSUME NEW t \in Tabs, Gated(t) \/ SignedOut(t) PROVE TypeOK'
    <2>1. op' \in [Tabs -> Requests]
      BY <1>15, OneRequest DEF Gated, SignedOut
    <2>2. QED
      BY <1>15, <2>1 DEF Gated, SignedOut, TypeOK, counters, history
  <1>16. ASSUME NEW session \in Sessions, Expire(session) PROVE TypeOK'
    BY <1>16 DEF Expire, TypeOK, counters, history
  <1>17. CASE UNCHANGED vars
    BY <1>17 DEF vars, TypeOK
  <1>18. QED
    BY <1>1, <1>2, <1>3, <1>5, <1>6, <1>7, <1>8, <1>9, <1>10, <1>11, <1>12, <1>13, <1>14,
       <1>15, <1>16, <1>17, <1>4 DEF Next

-----------------------------------------------------------------------------
(* What is true of a deletion's answer, and of the session, as they go.    *)

(* A row of a gone account was filed after the deletion had passed it: so  *)
(* is every row some deletion has passed.                                  *)
LEMMA PassedStep ==
    ASSUME TypeOK, PassedRowsAreBehind, [Next]_vars
    PROVE  PassedRowsAreBehind'
  <1>1. ASSUME NEW t \in Tabs, NEW right \in BOOLEAN, Ask(t, right) PROVE PassedRowsAreBehind'
    <2>1. op'[t].at = "progress" /\ \A u \in Tabs \ {t} : op'[u] = op[u]
      BY <1>1, IdleFields DEF Ask, Begins, Becomes, TypeOK, Following
    <2>2. \A r \in Rows : Passed(r)' => Passed(r)
      BY <1>1, <2>1 DEF Ask, Passed
    <2>3. QED
      BY <1>1, <2>2 DEF Ask, PassedRowsAreBehind, TypeOK
  <1>2. ASSUME NEW t \in Tabs, Forgotten(t) PROVE PassedRowsAreBehind'
    <2>1. /\ op'[t].at = Following[op[t].at]
          /\ \A u \in Tabs \ {t} : op'[u] = op[u]
      BY <1>2, DeletionGoesOn DEF Forgotten, Deleting, Becomes, TypeOK, Asked
    <2>2. \A r \in Rows \ {op[t].at} : Passed(r)' => Passed(r)
      BY <1>2, <2>1 DEF Forgotten, Deleting, Passed, Following, Rows
    <2>3. QED
      BY <1>2, <2>2 DEF Forgotten, PassedRowsAreBehind, TypeOK
  <1>3. ASSUME NEW t \in Tabs, AccountAnswered(t) PROVE PassedRowsAreBehind'
    <2>1. \A r \in rows : r \in behind
      BY <1>3 DEF AccountAnswered, Deleting, PassedRowsAreBehind, Passed
    <2>2. QED
      BY <1>3, <2>1 DEF AccountAnswered, PassedRowsAreBehind, history
  <1>4. ASSUME NEW t \in Tabs, TakenForDone(t) PROVE PassedRowsAreBehind'
    <2>1. /\ op'[t].at = Following[op[t].at]
          /\ \A u \in Tabs \ {t} : op'[u] = op[u]
      BY <1>4, DeletionGoesOn DEF TakenForDone, Deleting, Becomes, TypeOK, Asked
    <2>2. \A r \in Rows \ {op[t].at} : Passed(r)' => Passed(r)
      BY <1>4, <2>1 DEF TakenForDone, Deleting, Passed, Following, Rows, Steps
    <2>3. behind \subseteq behind' /\ (op[t].at \in Rows => op[t].at \in behind') /\ rows' = rows
      BY <1>4 DEF TakenForDone
    <2>4. QED
      BY <2>2, <2>3 DEF PassedRowsAreBehind, TypeOK
  <1>5. ASSUME NEW t \in Tabs, Refused(t) PROVE PassedRowsAreBehind'
    <2>1. op'[t].at = "unauthenticated" /\ \A u \in Tabs \ {t} : op'[u] = op[u]
      BY <1>5, DeletionGoesOn DEF Refused, Deleting, Becomes, TypeOK, Asked
    <2>2. \A r \in Rows : Passed(r)' => Passed(r)
      BY <1>5, <2>1 DEF Refused, Passed
    <2>3. QED
      BY <1>5, <2>2 DEF Refused, PassedRowsAreBehind, TypeOK, history
  <1>6. ASSUME NEW t \in Tabs, Unavailable(t) PROVE PassedRowsAreBehind'
    <2>1. /\ op'[t].at \in {op[t].at, "progress-not-removed", "account-not-removed"}
          /\ \A u \in Tabs \ {t} : op'[u] = op[u]
      BY <1>6, DeletionGoesOn DEF Unavailable, Deleting, Becomes, TypeOK, Asked, FailedAs
    <2>2. "account" \in abandoned' => "account" \in abandoned \/ op[t].at = "account"
      BY <1>6 DEF Unavailable
    <2>3. \A r \in Rows : Passed(r)' => Passed(r)
      BY <1>6, <2>1, <2>2 DEF Unavailable, Deleting, Passed
    <2>4. QED
      BY <1>6, <2>3 DEF Unavailable, PassedRowsAreBehind, TypeOK, history
  <1>7. ASSUME NEW step \in Steps, CarriedOutLate(step) PROVE PassedRowsAreBehind'
    <2>1. CASE step = "account"
      <3>1. \A r \in rows : r \in behind
        BY <1>7, <2>1 DEF CarriedOutLate, PassedRowsAreBehind, Passed
      <3>2. QED
        BY <1>7, <2>1, <3>1 DEF CarriedOutLate, PassedRowsAreBehind
    <2>2. CASE step # "account"
      <3>1. \A r \in Rows : Passed(r)' => Passed(r)
        BY <1>7, <2>2 DEF CarriedOutLate, Passed
      <3>2. QED
        BY <1>7, <2>2, <3>1 DEF CarriedOutLate, PassedRowsAreBehind, TypeOK
    <2>3. QED  BY <2>1, <2>2
  <1>8. ASSUME NEW t \in Tabs, op'[t].does # "delete", \A u \in Tabs \ {t} : op'[u] = op[u],
               UNCHANGED <<account, abandoned>>,
               \/ UNCHANGED <<rows, behind>>
               \/ \E row \in Rows : Files(t, row)
        PROVE PassedRowsAreBehind'
    <2>1. \A r \in Rows : Passed(r)' => Passed(r)
      BY <1>8 DEF Passed
    <2>2. CASE UNCHANGED <<rows, behind>>
      BY <2>1, <2>2 DEF PassedRowsAreBehind, TypeOK
    <2>3. ASSUME NEW row \in Rows, Files(t, row) PROVE PassedRowsAreBehind'
      <3>1. behind \subseteq behind' /\ rows' = rows \cup {row} /\ (Passed(row) => row \in behind')
        BY <2>3 DEF Files
      <3>2. QED
        BY <2>1, <3>1 DEF PassedRowsAreBehind, TypeOK
    <2>4. QED  BY <1>8, <2>2, <2>3
  <1>9. ASSUME NEW t \in Tabs,
               Answered(t) \/ SignedIn(t) \/ Written(t) \/ Gated(t) \/ SignedOut(t)
        PROVE PassedRowsAreBehind'
    <2>1. op'[t].does # "delete" /\ \A u \in Tabs \ {t} : op'[u] = op[u]
      <3>1. Becomes(t, Idle)
        BY <1>9 DEF Answered, SignedIn, Written, Gated, SignedOut
      <3>2. QED  BY <3>1, IdleIsARequest, IdleFields, OneRequest
    <2>2. UNCHANGED <<account, abandoned>>
      BY <1>9 DEF Answered, SignedIn, Written, Gated, SignedOut
    <2>3. UNCHANGED <<rows, behind>> \/ \E row \in Rows : Files(t, row)
      BY <1>9, WritesARow DEF Answered, SignedIn, Written, Gated, SignedOut, history
    <2>4. QED  BY <2>1, <2>2, <2>3, <1>8
  <1>10. ASSUME NEW t \in Tabs, Adopt(t) PROVE PassedRowsAreBehind'
    <2>1. op'[t].does # "delete" /\ \A u \in Tabs \ {t} : op'[u] = op[u]
      BY <1>10, SignsIn DEF Adopt, Becomes, TypeOK, Entering
    <2>2. UNCHANGED <<account, abandoned>>
      BY <1>10 DEF Adopt
    <2>3. UNCHANGED <<rows, behind>> \/ \E row \in Rows : Files(t, row)
      BY <1>10 DEF Adopt, Rows
    <2>4. QED  BY <2>1, <2>2, <2>3, <1>8
  <1>11. ASSUME NEW t \in Tabs,
                \/ SignIn(t) \/ \E row \in Rows : Write(t, row)
                \/ \E what \in {"page", "signout"} : Turn(t, what)
         PROVE PassedRowsAreBehind'
    <2>1. op'[t].does # "delete" /\ \A u \in Tabs \ {t} : op'[u] = op[u]
      <3>1. SignIn(t) => op'[t].does = "signin"
        BY IdleFields DEF SignIn, Begins, Becomes, TypeOK
      <3>2. ASSUME NEW row \in Rows, Write(t, row) PROVE op'[t].does = "write"
        BY <3>2, IdleFields DEF Write, Begins, Becomes, TypeOK
      <3>3. ASSUME NEW what, what \in {"page", "signout"}, Turn(t, what)
            PROVE op'[t].does \in {"page", "signout"}
        BY <3>3, IdleFields DEF Turn, Begins, Becomes, TypeOK
      <3>4. \A u \in Tabs \ {t} : op'[u] = op[u]
        BY <1>11 DEF SignIn, Write, Turn, Begins, Becomes, TypeOK
      <3>5. QED  BY <1>11, <3>1, <3>2, <3>3, <3>4
    <2>2. UNCHANGED <<account, abandoned, rows, behind>>
      BY <1>11 DEF SignIn, Write, Turn, history
    <2>3. QED  BY <2>1, <2>2, <1>8
  <1>12. ASSUME NEW session \in Sessions, Expire(session) PROVE PassedRowsAreBehind'
    BY <1>12 DEF Expire, PassedRowsAreBehind, Passed, history
  <1>13. CASE UNCHANGED vars
    BY <1>13 DEF vars, PassedRowsAreBehind, Passed
  <1>14. QED
    BY <1>1, <1>2, <1>3, <1>5, <1>6, <1>7, <1>9, <1>10, <1>11, <1>12, <1>13, <1>4 DEF Next

(* An answer that says the account is deleted comes of its being gone, and *)
(* it does not come back, or of a stray answer that the tab is misled by.  *)
LEMMA AnswersStep ==
    ASSUME TypeOK, AnswersAreSo, [Next]_vars
    PROVE  AnswersAreSo' /\ (account = "gone" => account' = "gone")
  <1>1. account = "gone" => account' = "gone"
    BY DEF Next, vars, Ask, Forgotten, AccountAnswered, Refused, Unavailable, CarriedOutLate,
           TakenForDone, Answered, SignIn, Adopt, SignedIn, Write, Written, Turn, Gated,
           SignedOut, Expire
  <1>2. ASSUME NEW t \in Tabs, NEW right \in BOOLEAN, Ask(t, right) PROVE AnswersAreSo'
    <2>1. op'[t].at = "progress" /\ \A u \in Tabs \ {t} : op'[u] = op[u]
      BY <1>2, IdleFields DEF Ask, Begins, Becomes, TypeOK, Following
    <2>2. misled \ {t} \subseteq misled'
      BY <1>2 DEF Ask
    <2>3. QED  BY <2>1, <2>2, <1>1 DEF AnswersAreSo
  <1>3. ASSUME NEW t \in Tabs, TakenForDone(t) PROVE AnswersAreSo'
    <2>1. /\ op'[t].at = "deleted" => op[t].at = "account"
          /\ \A u \in Tabs \ {t} : op'[u] = op[u]
      <3>1. op[t].at \in Rows => Following[op[t].at] # "deleted"
        BY DEF Following, Rows
      <3>2. op'[t].at = Following[op[t].at] /\ \A u \in Tabs \ {t} : op'[u] = op[u]
        BY <1>3, DeletionGoesOn DEF TakenForDone, Deleting, Becomes, TypeOK, Asked
      <3>3. op[t].at \in Rows \/ op[t].at = "account"
        BY <1>3 DEF TakenForDone, Deleting, Steps
      <3>4. QED  BY <3>1, <3>2, <3>3
    <2>2. /\ misled \subseteq misled'
          /\ op[t].at = "account" => account = "gone" \/ t \in misled'
      BY <1>3 DEF TakenForDone, TypeOK
    <2>3. QED  BY <2>1, <2>2, <1>1 DEF AnswersAreSo
  <1>4. ASSUME NEW t \in Tabs, Forgotten(t) \/ Refused(t) \/ Unavailable(t) PROVE AnswersAreSo'
    <2>1. op'[t].at # "deleted" /\ \A u \in Tabs \ {t} : op'[u] = op[u]
      <3>1. ASSUME Forgotten(t) PROVE op'[t].at \in {"preference", "account"}
        <4>1. Following[op[t].at] \in {"preference", "account"}
          BY <3>1 DEF Forgotten, Following, Rows
        <4>2. op'[t].at = Following[op[t].at]
          BY <3>1, DeletionGoesOn DEF Forgotten, Deleting, Becomes, TypeOK, Asked
        <4>3. QED  BY <4>1, <4>2
      <3>2. ASSUME Refused(t) PROVE op'[t].at = "unauthenticated"
        BY <3>2, DeletionGoesOn DEF Refused, Deleting, Becomes, TypeOK, Asked
      <3>3. ASSUME Unavailable(t)
            PROVE op'[t].at \in Steps \cup {"progress-not-removed", "account-not-removed"}
        BY <3>3, DeletionGoesOn DEF Unavailable, Deleting, Becomes, TypeOK, Asked, FailedAs
      <3>4. \A u \in Tabs \ {t} : op'[u] = op[u]
        BY <1>4 DEF Forgotten, Refused, Unavailable, Becomes, TypeOK
      <3>5. QED  BY <1>4, <3>1, <3>2, <3>3, <3>4 DEF Steps, Rows
    <2>2. misled' = misled
      BY <1>4 DEF Forgotten, Refused, Unavailable, history
    <2>3. QED  BY <2>1, <2>2, <1>1 DEF AnswersAreSo
  <1>5. ASSUME NEW t \in Tabs, AccountAnswered(t) PROVE AnswersAreSo'
    <2>1. /\ op'[t].at = "deleted" => account' = "gone"
          /\ \A u \in Tabs \ {t} : op'[u] = op[u]
      BY <1>5, DeletionGoesOn
         DEF AccountAnswered, Deleting, Becomes, TypeOK, Asked, Following
    <2>2. misled' = misled
      BY <1>5 DEF AccountAnswered, history
    <2>3. QED  BY <2>1, <2>2, <1>1 DEF AnswersAreSo
  <1>6. ASSUME NEW t \in Tabs, op'[t].does # "delete", \A u \in Tabs \ {t} : op'[u] = op[u],
               misled' = misled
        PROVE AnswersAreSo'
    BY <1>6, <1>1 DEF AnswersAreSo
  <1>7. ASSUME NEW t \in Tabs,
               Answered(t) \/ SignedIn(t) \/ Written(t) \/ Gated(t) \/ SignedOut(t)
        PROVE AnswersAreSo'
    <2>1. Becomes(t, Idle)
      BY <1>7 DEF Answered, SignedIn, Written, Gated, SignedOut
    <2>2. misled' = misled
      BY <1>7 DEF Answered, SignedIn, Written, Gated, SignedOut, history
    <2>3. QED  BY <2>1, <2>2, <1>6, IdleIsARequest, IdleFields, OneRequest
  <1>8. ASSUME NEW t \in Tabs, Adopt(t) PROVE AnswersAreSo'
    <2>1. op'[t].does # "delete" /\ \A u \in Tabs \ {t} : op'[u] = op[u]
      BY <1>8, SignsIn DEF Adopt, Becomes, TypeOK, Entering
    <2>2. misled' = misled
      BY <1>8 DEF Adopt, history
    <2>3. QED  BY <2>1, <2>2, <1>6
  <1>9. ASSUME NEW t \in Tabs, SignIn(t) PROVE AnswersAreSo'
    <2>1. op'[t].does # "delete" /\ \A u \in Tabs \ {t} : op'[u] = op[u]
      BY <1>9, IdleFields DEF SignIn, Begins, Becomes, TypeOK
    <2>2. misled' = misled
      BY <1>9 DEF SignIn, history
    <2>3. QED  BY <2>1, <2>2, <1>6
  <1>10. ASSUME NEW t \in Tabs, NEW row \in Rows, Write(t, row) PROVE AnswersAreSo'
    <2>1. op'[t].does # "delete" /\ \A u \in Tabs \ {t} : op'[u] = op[u]
      BY <1>10, IdleFields DEF Write, Begins, Becomes, TypeOK
    <2>2. misled' = misled
      BY <1>10 DEF Write, history
    <2>3. QED  BY <2>1, <2>2, <1>6
  <1>11. ASSUME NEW t \in Tabs, NEW what, what \in {"page", "signout"}, Turn(t, what)
         PROVE AnswersAreSo'
    <2>1. op'[t].does # "delete" /\ \A u \in Tabs \ {t} : op'[u] = op[u]
      BY <1>11, IdleFields DEF Turn, Begins, Becomes, TypeOK
    <2>2. misled' = misled
      BY <1>11 DEF Turn, history
    <2>3. QED  BY <2>1, <2>2, <1>6
  <1>12. CASE UNCHANGED <<op, misled>>
    BY <1>12, <1>1 DEF AnswersAreSo
  <1>13. QED
    BY <1>1, <1>2, <1>4, <1>5, <1>7, <1>8, <1>9, <1>10, <1>11, <1>12, <1>3
       DEF Next, vars, CarriedOutLate, Expire, history

(* Once a tab was told, only a sign-in's answer, late, sets the cookie.    *)
LEMMA ToldStep ==
    ASSUME TypeOK, AnswersAreSo, ToldIsSo, [Next]_vars
    PROVE  ToldIsSo'
  <1>1. account = "gone" => account' = "gone"
    BY AnswersStep
  <1>2. ASSUME NEW t \in Tabs, Ask(t, TRUE) \/ Ask(t, FALSE) PROVE ToldIsSo'
    <2>1. told'[t] # "deleted" /\ \A u \in Tabs \ {t} : told'[u] = told[u]
      BY <1>2 DEF Ask, TypeOK
    <2>2. misled \ {t} \subseteq misled' /\ UNCHANGED <<cookie, straddled>>
      BY <1>2 DEF Ask
    <2>3. QED  BY <2>1, <2>2, <1>1 DEF ToldIsSo
  <1>3. ASSUME NEW t \in Tabs, Answered(t) PROVE ToldIsSo'
    <2>1. CASE UNCHANGED <<told, cookie>>
      BY <1>3, <1>1, <2>1 DEF Answered, ToldIsSo, history
    <2>2. CASE /\ told' = [told EXCEPT ![t] = op[t].at]
               /\ cookie' = IF EndsTheSession(op[t].at) THEN 0 ELSE cookie
      <3>1. CASE op[t].at = "deleted"
        <4>1. (account = "gone" \/ t \in misled) /\ cookie' = 0 /\ misled' = misled
          BY <1>3, <2>2, <3>1 DEF Answered, AnswersAreSo, EndsTheSession, history
        <4>2. \A u \in Tabs \ {t} : told'[u] = told[u]
          BY <2>2 DEF TypeOK
        <4>3. QED  BY <4>1, <4>2, <1>1 DEF ToldIsSo
      <3>2. CASE op[t].at # "deleted"
        <4>1. cookie' = cookie /\ \A u \in Tabs : told'[u] = "deleted" => told[u] = "deleted"
          BY <2>2, <3>2 DEF EndsTheSession, TypeOK
        <4>2. QED  BY <1>3, <4>1, <1>1 DEF Answered, ToldIsSo, history
      <3>3. QED  BY <3>1, <3>2
    <2>3. QED  BY <1>3, <2>1, <2>2 DEF Answered
  <1>4. ASSUME NEW t \in Tabs, SignedIn(t) PROVE ToldIsSo'
    <2>1. UNCHANGED <<told, misled>>
      BY <1>4 DEF SignedIn
    <2>2. CASE UNCHANGED <<cookie, straddled>>
      BY <1>1, <2>1, <2>2 DEF ToldIsSo
    <2>3. CASE straddled' = (straddled \/ account = "gone")
      BY <1>1, <2>1, <2>3 DEF ToldIsSo
    <2>4. QED  BY <1>4, <2>2, <2>3 DEF SignedIn
  <1>5. CASE /\ UNCHANGED <<told, straddled>> /\ misled \subseteq misled'
             /\ cookie' \in {cookie, 0}
    BY <1>5, <1>1 DEF ToldIsSo
  <1>6. QED
    BY <1>2, <1>3, <1>4, <1>5
       DEF Next, vars, Forgotten, AccountAnswered, TakenForDone, Refused, Unavailable,
           CarriedOutLate, SignIn, Adopt, Write, Written, Turn, Gated, SignedOut, Expire,
           counters, history

-----------------------------------------------------------------------------

IInv == TypeOK /\ PassedRowsAreBehind /\ AnswersAreSo /\ ToldIsSo

LEMMA Initially == Init => IInv
  <1>. SUFFICES ASSUME Init PROVE IInv
    OBVIOUS
  <1>1. TypeOK
    <2>1. op \in [Tabs -> Requests]
      BY IdleIsARequest DEF Init
    <2>2. /\ 0 \in 0 .. MaxSignIns /\ 0 \in 0 .. MaxWrites /\ 0 \in 0 .. MaxAsks
          /\ 0 \in 0 .. MaxTurns /\ 0 \in 0 .. MaxStrays
      BY AccountAssumption
    <2>3. QED  BY <2>1, <2>2 DEF Init, TypeOK
  <1>2. PassedRowsAreBehind
    BY DEF Init, PassedRowsAreBehind
  <1>3. AnswersAreSo
    BY IdleFields DEF Init, AnswersAreSo
  <1>4. ToldIsSo
    BY DEF Init, ToldIsSo
  <1>5. QED  BY <1>1, <1>2, <1>3, <1>4 DEF IInv

LEMMA Inductive == IInv /\ [Next]_vars => IInv'
  BY TypeStep, PassedStep, AnswersStep, ToldStep DEF IInv

LEMMA Always == Spec => []IInv
  BY Initially, Inductive, PTL DEF Spec

(* The state has its type, whatever the number of tabs and addresses.      *)
THEOREM AccountTypeCorrect == Spec => []TypeOK
  <1>1. IInv => TypeOK
    BY DEF IInv
  <1>2. QED  BY <1>1, Always, PTL

(* The deletion's order leaves nothing under a subject that is gone        *)
(* (account-deletion.ts), but what was filed after it had passed.          *)
THEOREM NothingIsLeft == Spec => []NothingLeft
  <1>1. IInv => NothingLeft
    BY DEF IInv, PassedRowsAreBehind, Passed, NothingLeft
  <1>2. QED  BY <1>1, Always, PTL

(* A reader who is told their account was deleted has no account and, but  *)
(* for a sign-in of before, no session (the route's last step), unless an  *)
(* address that is not the identity service's was taken at its word.       *)
THEOREM WhatIsToldIsSo == Spec => []ToldIsSo
  <1>1. IInv => ToldIsSo
    BY DEF IInv
  <1>2. QED  BY <1>1, Always, PTL

(* No deletion that stops short signs the reader out; of the others, one   *)
(* that leaves the account live does, and only by another's answer.        *)
THEOREM FailuresKeepTheSession == Spec => FailureKeepsSession
  <1>. DEFINE Ends == cookie # 0 /\ cookie' = 0 /\ account = "live" /\ cookie \notin expired'
              Cause == \E t \in Tabs : EndsItAnyway(t)
  <1>1. ASSUME IInv, [Next]_vars, Ends PROVE Cause
    <2>. USE DEF IInv
    <2>1. ASSUME NEW t \in Tabs, Gated(t) \/ SignedOut(t) PROVE Cause
      <3>1. Becomes(t, Idle) /\ op[t].does \in {"page", "signout"}
        BY <2>1 DEF Gated, SignedOut
      <3>2. op'[t] = Idle
        BY <1>1, <3>1 DEF Becomes, TypeOK
      <3>3. QED  BY <3>1, <3>2 DEF EndsItAnyway
    <2>2. ASSUME NEW t \in Tabs, Answered(t) PROVE Cause
      <3>1. op[t].does = "delete" /\ op[t].at = "deleted"
        BY <1>1, <2>2 DEF Answered, EndsTheSession
      <3>2. t \in misled
        BY <1>1, <3>1 DEF AnswersAreSo
      <3>3. op'[t] = Idle
        BY <1>1, <2>2 DEF Answered, Becomes, TypeOK
      <3>4. QED  BY <3>1, <3>2, <3>3 DEF EndsItAnyway
    <2>3. ASSUME NEW t \in Tabs, SignedIn(t) PROVE FALSE
      <3>1. op[t].token \in Sessions /\ 0 \notin Sessions
        <4>1. op[t] \in Entering
          BY <1>1, <2>3, SignsIn DEF SignedIn
        <4>2. op[t].token \in Sessions
          BY <4>1 DEF Entering
        <4>3. MaxSignIns \in Nat
          BY AccountAssumption
        <4>4. 0 \notin Sessions
          BY <4>3 DEF Sessions
        <4>5. QED  BY <4>2, <4>4
      <3>2. QED  BY <1>1, <2>3, <3>1 DEF SignedIn
    <2>4. ASSUME NEW session \in Sessions, Expire(session) PROVE FALSE
      BY <1>1, <2>4 DEF Expire
    <2>5. CASE UNCHANGED cookie
      BY <1>1, <2>5
    <2>6. QED
      BY <1>1, <2>1, <2>2, <2>3, <2>4, <2>5
         DEF Next, vars, Ask, Forgotten, AccountAnswered, TakenForDone, Refused, Unavailable,
             CarriedOutLate, SignIn, Adopt, Write, Written, Turn
  <1>2. IInv /\ [Next]_vars => [Ends => Cause]_vars
    BY <1>1
  <1>3. QED
    BY <1>2, Always, PTL DEF Spec, FailureKeepsSession

=============================================================================

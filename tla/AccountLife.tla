------------------------------ MODULE AccountLife ------------------------------
(***************************************************************************)
(* One reader's account: the session their browser holds, and the deletion *)
(* that takes two rows from AbOvo.Api and the account from the identity    *)
(* service (account-deletion.ts, delete-account.ts, the routes under       *)
(* app/api/auth, session.ts, middleware.ts).                               *)
(*                                                                         *)
(* Each tab has one request under way, and an answer sets or clears the    *)
(* one cookie when it arrives.  Every call to a service goes up a ladder   *)
(* of addresses, one of which may take a call it does not answer in time,  *)
(* and one of which may not be the service's at all: by its status alone,  *)
(* what it says may be taken for the service's answer.                     *)
(* An access token is good at AbOvo.Api until it expires, whatever became  *)
(* of its account.  The second factor, the refresh cookie, which nothing   *)
(* reads, and the anonymous reader's cookie are left out.                  *)
(***************************************************************************)
EXTENDS Naturals, FiniteSets

CONSTANTS Tabs, Rungs,                         \* addresses on a ladder
          MaxSignIns, MaxWrites, MaxAsks, MaxTurns, MaxStrays  \* bounds

ASSUME AccountAssumption ==
    Rungs \in Nat \ {0} /\ {MaxSignIns, MaxWrites, MaxAsks, MaxTurns, MaxStrays} \subseteq Nat

VARIABLES
    account,    \* at the identity service
    rows,       \* the reader's rows at AbOvo.Api
    cookie,     \* the session the browser holds, 0 for none
    expired,    \* the sessions whose token is no longer good
    op,         \* op[t]: what tab t is waiting for
    abandoned,  \* calls that timed out and may yet be carried out
    told,       \* told[t]: the answer to the last deletion asked for there
    signIns, writes, asks, turns, strays,
    behind,     \* history: rows that a deletion has gone past, and left
    straddled,  \* history: a sign-in's answer came after the account was gone
    misled      \* history: tabs whose last deletion was taken for done and was not

vars == <<account, rows, cookie, expired, op, abandoned, told, signIns, writes, asks, turns,
          strays, behind, straddled, misled>>
counters == <<signIns, writes, asks, turns, strays>>
history == <<behind, straddled, misled>>

Rows == {"progress", "preference"}
Steps == Rows \cup {"account"}
Outcomes == {"deleted", "password", "unauthenticated",
             "progress-not-removed", "account-not-removed"}
Sessions == 1 .. MaxSignIns

Asked == [does : {"delete"}, token : Sessions, at : Steps \cup Outcomes,
          rung : 1 .. Rungs, right : BOOLEAN]
Filed == [does : {"write"}, token : Sessions, at : Rows, rung : {1}, right : {FALSE}]
Entering == [does : {"signin"}, token : Sessions, at : {"adopt", "none"}, rung : {1}, right : {FALSE}]
Turned == [does : {"nothing", "page", "signout"}, token : Sessions \cup {0}, at : {"none"},
           rung : {1}, right : {FALSE}]
Requests == Asked \cup Filed \cup Entering \cup Turned

Idle == [does |-> "nothing", token |-> 0, at |-> "none", rung |-> 1, right |-> FALSE]

TypeOK ==
    /\ account \in {"live", "gone"}
    /\ rows \subseteq Rows /\ behind \subseteq Rows
    /\ cookie \in Sessions \cup {0} /\ expired \subseteq Sessions
    /\ op \in [Tabs -> Requests]
    /\ abandoned \subseteq Steps
    /\ told \in [Tabs -> Outcomes \cup {"none"}]
    /\ signIns \in 0 .. MaxSignIns /\ writes \in 0 .. MaxWrites
    /\ asks \in 0 .. MaxAsks /\ turns \in 0 .. MaxTurns /\ strays \in 0 .. MaxStrays
    /\ straddled \in BOOLEAN /\ misled \subseteq Tabs

Init ==
    /\ account = "live" /\ rows = {} /\ cookie = 0 /\ expired = {}
    /\ op = [t \in Tabs |-> Idle]
    /\ abandoned = {} /\ told = [t \in Tabs |-> "none"]
    /\ signIns = 0 /\ writes = 0 /\ asks = 0 /\ turns = 0 /\ strays = 0
    /\ behind = {} /\ straddled = FALSE /\ misled = {}

Becomes(t, request) == op' = [op EXCEPT ![t] = request]
Begins(t, request) == op[t] = Idle /\ Becomes(t, request)

-----------------------------------------------------------------------------
(* The deletion.                                                           *)

\* Slip: the account first, then the rows.
AccountFirst ==
    [asked |-> "account", account |-> "progress", progress |-> "preference", preference |-> "deleted"]

\* deleteReaderAccount's order: what follows each step that succeeds.
Following ==
    [asked |-> "progress", progress |-> "preference", preference |-> "account", account |-> "deleted"]

\* Slip: what a call came to is passed on as it is.
AsItWas(step) == "unavailable"

\* Which failure a step's is.
FailedAs(step) == IF step = "account" THEN "account-not-removed" ELSE "progress-not-removed"

\* Some deletion has gone past row r, or its last call is still to be carried out.
Passed(r) ==
    \/ account = "gone"
    \/ "account" \in abandoned
    \/ \E t \in Tabs :
          /\ op[t].does = "delete"
          /\ \/ op[t].at = "account"
             \/ op[t].at = "preference" /\ r = "progress"

Deleting(t) == op[t].does = "delete" /\ op[t].at \in Steps

\* The form, posted with the word and some password; the bearer is the cookie's.
Ask(t, right) ==
    /\ cookie # 0 /\ asks < MaxAsks /\ asks' = asks + 1
    /\ Begins(t, [Idle EXCEPT !.does = "delete", !.token = cookie,
                              !.at = Following.asked, !.right = right])
    /\ told' = [told EXCEPT ![t] = "none"] /\ misled' = misled \ {t}
    /\ UNCHANGED <<account, rows, cookie, expired, abandoned, signIns, writes, turns, strays,
                   behind, straddled>>

\* forgetRowsAt answered 204.
Forgotten(t) ==
    /\ Deleting(t) /\ op[t].at \in Rows /\ op[t].token \notin expired
    /\ rows' = rows \ {op[t].at} /\ behind' = behind \ {op[t].at}
    /\ Becomes(t, [op[t] EXCEPT !.at = Following[op[t].at], !.rung = 1])
    /\ UNCHANGED <<account, cookie, expired, abandoned, told, counters, straddled, misled>>

\* The identity service answered: a wrong password stops it, an account that is
\* not there is as good as deleted.
AccountAnswered(t) ==
    /\ Deleting(t) /\ op[t].at = "account" /\ op[t].token \notin expired
    /\ IF account = "live" /\ ~ op[t].right
         THEN /\ Becomes(t, [op[t] EXCEPT !.at = "password"])
              /\ UNCHANGED account
         ELSE /\ Becomes(t, [op[t] EXCEPT !.at = Following["account"], !.rung = 1])
              /\ account' = "gone"
    /\ UNCHANGED <<rows, cookie, expired, abandoned, told, counters, history>>

\* Another answers in the service's place, and is taken at its status: any 204
\* for a row's, any 200 and any 404 for the account's.
TakenForDone(t) ==
    /\ Deleting(t) /\ strays < MaxStrays /\ strays' = strays + 1
    /\ Becomes(t, [op[t] EXCEPT !.at = Following[op[t].at], !.rung = 1])
    /\ behind' = behind \cup ({op[t].at} \cap Rows)
    /\ misled' = IF op[t].at = "account" /\ account = "live" THEN misled \cup {t} ELSE misled
    /\ UNCHANGED <<account, rows, cookie, expired, abandoned, told, signIns, writes, asks, turns,
                   straddled>>

\* The service will not have a bearer that expired, or another answers as much in
\* its place: a 401, or of a row a 403.
Refused(t) ==
    /\ Deleting(t)
    /\ Becomes(t, [op[t] EXCEPT !.at = "unauthenticated"])
    /\ UNCHANGED <<account, rows, cookie, expired, abandoned, told, counters, history>>

\* An address failed, or took the call and did not answer in time: the next
\* one is asked, and after the last the deletion stops.
Unavailable(t) ==
    /\ Deleting(t)
    /\ \/ UNCHANGED <<abandoned, strays>>
       \/ /\ op[t].at \in Rows \/ op[t].right
          /\ strays < MaxStrays /\ strays' = strays + 1
          /\ abandoned' = abandoned \cup {op[t].at}
    /\ Becomes(t, IF op[t].rung < Rungs THEN [op[t] EXCEPT !.rung = @ + 1]
                  ELSE [op[t] EXCEPT !.at = FailedAs(@), !.rung = 1])
    /\ UNCHANGED <<account, rows, cookie, expired, told, signIns, writes, asks, turns, history>>

\* A call given up on is carried out after all.
CarriedOutLate(step) ==
    /\ step \in abandoned /\ abandoned' = abandoned \ {step}
    /\ IF step = "account"
         THEN account' = "gone" /\ UNCHANGED <<rows, behind>>
         ELSE rows' = rows \ {step} /\ behind' = behind \ {step} /\ UNCHANGED account
    /\ UNCHANGED <<cookie, expired, op, told, counters, straddled, misled>>

\* Slip: whatever came of it, or never.
EndsAlways(outcome) == TRUE
EndsNever(outcome) == FALSE

\* The cookies are cleared last, and only on success.
EndsTheSession(outcome) == outcome = "deleted"

\* The answer reaches the browser, or is lost on the way.
Answered(t) ==
    /\ op[t].does = "delete" /\ op[t].at \in Outcomes
    /\ Becomes(t, Idle)
    /\ \/ /\ told' = [told EXCEPT ![t] = op[t].at]
          /\ cookie' = IF EndsTheSession(op[t].at) THEN 0 ELSE cookie
       \/ UNCHANGED <<told, cookie>>
    /\ UNCHANGED <<account, rows, expired, abandoned, counters, history>>

-----------------------------------------------------------------------------
(* The session.                                                            *)

\* authservice takes the password, and the token it minted is verified.
SignIn(t) ==
    /\ account = "live" /\ signIns < MaxSignIns /\ signIns' = signIns + 1
    /\ Begins(t, [Idle EXCEPT !.does = "signin", !.token = signIns', !.at = "adopt"])
    /\ UNCHANGED <<account, rows, cookie, expired, abandoned, told, writes, asks, turns, strays, history>>

\* A row is filed under the token's subject, while the token is good.
Files(t, row) ==
    /\ op[t].token \notin expired
    /\ rows' = rows \cup {row}
    /\ behind' = IF Passed(row) THEN behind \cup {row} ELSE behind

\* The account adopts what was read without one; the outcome changes nothing.
Adopt(t) ==
    /\ op[t].does = "signin" /\ op[t].at = "adopt"
    /\ Becomes(t, [op[t] EXCEPT !.at = "none"])
    /\ Files(t, "progress") \/ UNCHANGED <<rows, behind>>
    /\ UNCHANGED <<account, cookie, expired, abandoned, told, counters, straddled, misled>>

\* The session's cookie reaches the browser, or the answer is lost.
SignedIn(t) ==
    /\ op[t].does = "signin" /\ op[t].at = "none"
    /\ Becomes(t, Idle)
    /\ \/ /\ cookie' = op[t].token
          /\ straddled' = (straddled \/ account = "gone")
       \/ UNCHANGED <<cookie, straddled>>
    /\ UNCHANGED <<account, rows, expired, abandoned, told, counters, behind, misled>>

\* A reveal, or a choice of edition, on its way to AbOvo.Api.
Write(t, row) ==
    /\ cookie # 0 /\ writes < MaxWrites /\ writes' = writes + 1
    /\ Begins(t, [Idle EXCEPT !.does = "write", !.token = cookie, !.at = row])
    /\ UNCHANGED <<account, rows, cookie, expired, abandoned, told, signIns, asks, turns, strays, history>>

Written(t) ==
    /\ op[t].does = "write"
    /\ Becomes(t, Idle)
    /\ Files(t, op[t].at) \/ UNCHANGED <<rows, behind>>
    /\ UNCHANGED <<account, cookie, expired, abandoned, told, counters, straddled, misled>>

\* A page behind the gate is asked for, or the reader signs out.
Turn(t, what) ==
    /\ turns < MaxTurns /\ turns' = turns + 1
    /\ Begins(t, [Idle EXCEPT !.does = what, !.token = cookie])
    /\ UNCHANGED <<account, rows, cookie, expired, abandoned, told, signIns, writes, asks, strays, history>>

\* The gate lets a good token in; with none, one that is not good, or one it
\* cannot verify, the reader is sent to sign in and the cookies are cleared.
Gated(t) ==
    /\ op[t].does = "page"
    /\ Becomes(t, Idle)
    /\ \/ op[t].token \notin expired \cup {0} /\ UNCHANGED cookie
       \/ cookie' = 0
    /\ UNCHANGED <<account, rows, expired, abandoned, told, counters, history>>

SignedOut(t) ==
    /\ op[t].does = "signout"
    /\ Becomes(t, Idle) /\ cookie' = 0
    /\ UNCHANGED <<account, rows, expired, abandoned, told, counters, history>>

\* A token expires, and the cookie that carries it with it.
Expire(session) ==
    /\ session \in 1 .. signIns \ expired
    /\ cookie = session \/ \E t \in Tabs : op[t].token = session
    /\ expired' = expired \cup {session}
    /\ cookie' = IF cookie = session THEN 0 ELSE cookie
    /\ UNCHANGED <<account, rows, op, abandoned, told, counters, history>>

Next ==
    \/ \E t \in Tabs :
          \/ \E right \in BOOLEAN : Ask(t, right)
          \/ Forgotten(t) \/ AccountAnswered(t) \/ TakenForDone(t) \/ Refused(t)
          \/ Unavailable(t) \/ Answered(t)
          \/ SignIn(t) \/ Adopt(t) \/ SignedIn(t)
          \/ \E row \in Rows : Write(t, row)
          \/ Written(t)
          \/ \E what \in {"page", "signout"} : Turn(t, what)
          \/ Gated(t) \/ SignedOut(t)
    \/ \E step \in Steps : CarriedOutLate(step)
    \/ \E session \in Sessions : Expire(session)

Spec == Init /\ [][Next]_vars

-----------------------------------------------------------------------------
(* The deletion leaves nothing under a subject that can never sign in      *)
(* again (account-deletion.ts): whatever failed, timed out or was repeated *)
(* on the way, a row of a gone account is one that a reveal, a choice or a *)
(* sign-in filed after the deletion had passed it, or one that an address  *)
(* which is not AbOvo.Api's was believed to have removed.                  *)
NothingLeft == account = "gone" => rows \subseteq behind

(* Told that the account was deleted, the reader has none, and holds no    *)
(* session of it but one a sign-in begun before delivered after; or else   *)
(* what told them is an address that is not the identity service's, whose  *)
(* 200 or 404 the ladder takes for it (delete-account.ts).                 *)
ToldIsSo ==
    \A t \in Tabs : told[t] = "deleted" =>
        t \in misled \/ (account = "gone" /\ (cookie # 0 => straddled))

\* The reader signs out, is turned away at the gate, or is told in tab t that
\* the account is gone, while it is not.
EndsItAnyway(t) ==
    /\ op'[t] = Idle
    /\ \/ op[t].does \in {"page", "signout"}
       \/ op[t].does = "delete" /\ op[t].at = "deleted" /\ t \in misled

(* A deletion that stops short ends no session (route.ts), neither on a    *)
(* mistyped password nor on a service that was away, whatever other tabs   *)
(* do meanwhile.  A good session of a live account ends by a sign-out or   *)
(* at the gate, in some tab, and by one deletion only: one that another's  *)
(* answer made look as if it was done.                                     *)
FailureKeepsSession ==
    [][cookie # 0 /\ cookie' = 0 /\ account = "live" /\ cookie \notin expired'
         => \E t \in Tabs : EndsItAnyway(t)]_vars

=============================================================================

------------------------------ MODULE AccountEntry ------------------------------
(***************************************************************************)
(* The ways into one reader's account: a registration, the confirmation of *)
(* its address, a password, a second factor, and a new password by a link  *)
(* from an email (register.ts, sign-in.ts, second-factor.ts,               *)
(* account-recovery.ts, and the routes under app/api/auth).                *)
(*                                                                         *)
(* The account is authservice's.  Every call to it goes up a ladder of     *)
(* addresses of the one service, and one of them may take a call and not   *)
(* answer it in time.  A tab waits for one answer, or shows the last one;  *)
(* the tabs share a jar of cookies, which answers change as they arrive.   *)
(* What the session goes on to be is AccountLife's.  A post that is not    *)
(* the form's, or has a field empty, is answered at once and changes       *)
(* nothing; it is left out, as are the codes that are good only once.      *)
(***************************************************************************)
EXTENDS Naturals, FiniteSets

CONSTANTS Tabs, Rungs,                              \* addresses on the ladder
          MaxTries, MaxVersions, MaxLost            \* bounds

ASSUME EntryAssumption ==
    {Rungs, MaxVersions} \subseteq Nat \ {0} /\ {MaxTries, MaxLost} \subseteq Nat

VARIABLES
    setting,    \* whether emails are sent, and the account has a second factor
    password,   \* how many the account has had: the newest is in force, 0 is no account
    confirmed,  \* its address
    recorded,   \* the version of the terms it was made under, 0 for none
    current,    \* the version the service requires now
    counted,    \* the wrong passwords and codes the service has counted against it
    mail,       \* the links the reader has been sent
    jar,        \* what the browser holds: links that were opened, a challenge
    op,         \* op[t]: what tab t waits for, or shows
    abandoned,  \* calls that timed out and may yet be carried out
    tries, lost,
    ticked,     \* history: the versions the reader was shown, and accepted
    pressed     \* history: passwords and codes submitted

vars == <<setting, password, confirmed, recorded, current, counted, mail, jar, op, abandoned,
          tries, lost, ticked, pressed>>
account == <<password, confirmed, recorded, counted, mail>>
history == <<ticked, pressed>>

Kinds == {"reset", "verify"}
Passwords == 0 .. MaxTries + 1
Versions == 1 .. MaxVersions
Links == [kind : Kinds, at : Passwords]     \* at: the password when it was sent

Does == {"register", "login", "factor", "ask"} \cup Kinds
Steps == {"versions", "post"}
Outcomes == {"taken", "weak-password", "consent-required", "consent-stale", "verify-email",
             "rejected", "locked", "second-factor-required", "second-factor-expired",
             "not-held", "signed-in", "token-rejected", "unverifiable", "sent", "done",
             "link-invalid", "link-lapsed", "rate-limited", "unavailable"}

\* with is the version, the password, the code or the link's password that the
\* call carries; good, that the password chosen would do, or the code is right.
Calls == [does : Does, with : Passwords \cup Versions, kind : Kinds, good : BOOLEAN]
Requests == [call : Calls, at : Steps \cup Outcomes \cup {"nothing"}, rung : 0 .. Rungs]

Blank == [does |-> "login", with |-> 0, kind |-> "reset", good |-> FALSE]
Idle == [call |-> Blank, at |-> "nothing", rung |-> 0]

TypeOK ==
    /\ setting \in [sendsEmail : BOOLEAN, twoFactor : BOOLEAN]
    /\ password \in Passwords /\ confirmed \in BOOLEAN
    /\ recorded \in Versions \cup {0} /\ current \in Versions
    /\ counted \in 0 .. MaxTries + MaxLost
    /\ mail \subseteq Links
    /\ jar \in [reset : Passwords, verify : Passwords, challenge : BOOLEAN]
    /\ op \in [Tabs -> Requests]
    /\ abandoned \subseteq [call : Calls, n : 1 .. MaxLost]
    /\ tries \in 0 .. MaxTries /\ lost \in 0 .. MaxLost
    /\ ticked \subseteq Versions /\ pressed \in 0 .. MaxTries

\* There is no account yet, or there is one, to which a link may have been sent.
Init ==
    /\ setting \in [sendsEmail : BOOLEAN, twoFactor : BOOLEAN]
    /\ password \in {0, 1} /\ (setting.twoFactor => password = 1)
    /\ confirmed = (password = 1) /\ recorded = 0 /\ current = 1
    /\ counted = 0
    /\ mail = IF setting.sendsEmail /\ password = 1 THEN {[kind |-> "reset", at |-> 1]} ELSE {}
    /\ jar = [reset |-> 0, verify |-> 0, challenge |-> FALSE]
    /\ op = [t \in Tabs |-> Idle]
    /\ abandoned = {} /\ tries = 0 /\ lost = 0 /\ ticked = {} /\ pressed = 0

-----------------------------------------------------------------------------
(* The service.                                                            *)

MaySignIn == password # 0 /\ (setting.sendsEmail => confirmed)

Creates(call) == call.does = "register" /\ password = 0 /\ call.with = current /\ call.good
Resets(call) == call.does = "reset" /\ password # 0 /\ call.with = password /\ call.good
Wrong(call) ==
    \/ call.does = "login" /\ MaySignIn /\ call.with # password
    \/ call.does = "factor" /\ ~ call.good

\* What the service does with a call that it takes.
CarryOut(call) ==
    /\ password' = IF Creates(call) \/ Resets(call) THEN password + 1 ELSE password
    /\ recorded' = IF Creates(call) THEN call.with ELSE recorded
    /\ confirmed' = \/ confirmed
                    \/ Creates(call) /\ ~ setting.sendsEmail
                    \/ call.does = "verify" /\ password # 0
    /\ counted' = IF Wrong(call) THEN counted + 1 ELSE counted
    /\ mail' = mail \cup {link \in Links :
                   \/ Creates(call) /\ setting.sendsEmail /\ link = [kind |-> "verify", at |-> 1]
                   \/ /\ call.does = "ask" /\ password # 0
                      /\ call.kind = "verify" => ~ confirmed
                      /\ link = [kind |-> call.kind, at |-> password]}

\* What it may then say.
Says(call) ==
    CASE call.does = "register" ->
            IF Creates(call) THEN {IF setting.sendsEmail THEN "verification_required" ELSE "token"}
            ELSE {reply \in {"weak-password", "consent_refused", "taken"} :
                     \/ reply = "weak-password" /\ ~ call.good
                     \/ reply = "consent_refused" /\ call.with # current
                     \/ reply = "taken" /\ password # 0}
      [] call.does = "login" ->
            {IF ~ MaySignIn \/ Wrong(call) THEN "rejected"
             ELSE IF setting.twoFactor THEN "challenge" ELSE "token"}
      [] call.does = "factor" -> {IF call.good THEN "token" ELSE "rejected"}
      [] call.does = "ask" -> {"done"}
      [] call.does = "reset" ->
            {IF Resets(call) THEN "done"
             ELSE IF password = call.with THEN "weak-password" ELSE "link-invalid"}
      [] call.does = "verify" -> {IF password # 0 THEN "done" ELSE "link-invalid"}

\* What may be said in place of taking the call: by a limit, by a lockout, about
\* a challenge that is over, or by an address that is not the service's.
SaysInstead(call) ==
    {"rate-limited", "stray"}
      \cup (IF call.does \in {"login", "factor"} /\ counted > 0 THEN {"locked"} ELSE {})
      \cup (IF call.does = "factor" THEN {"challenge_expired"} ELSE {})

-----------------------------------------------------------------------------
(* A call, and what becomes of it.                                         *)

\* The app's words for what the service says, where they differ.
RegisterWords == [token |-> "signed-in", verification_required |-> "verify-email",
                  consent_refused |-> "consent-stale", stray |-> "unavailable"]
LoginWords == [token |-> "signed-in", challenge |-> "second-factor-required",
               stray |-> "unavailable"]
FactorWords == [token |-> "signed-in", challenge_expired |-> "second-factor-expired",
                stray |-> "unavailable"]
AskWords == [done |-> "sent", stray |-> "unavailable"]

\* Slip: a page that is not the service's, answered 200, is a success.
AnyTwoHundred == [stray |-> "done"]

LinkWords == [stray |-> "unavailable"]

Words(does) ==
    CASE does = "register" -> RegisterWords
      [] does = "login"    -> LoginWords
      [] does = "factor"   -> FactorWords
      [] does = "ask"      -> AskWords
      [] OTHER             -> LinkWords

\* Slip: what was said is passed on as it is.
AsItWasSaid(does, reply) == reply

\* What came of the call: an answer that the app does not recognise is none.
Classified(does, reply) == IF reply \in DOMAIN Words(does) THEN Words(does)[reply] ELSE reply

\* Slip: a refusal is asked about again at the next address.
AdvancesOnRefusal(outcome) == outcome \in {"unavailable", "rejected"}

\* shouldTryNextCandidate.
Advances(outcome) == outcome = "unavailable"

\* Tab t's request after its address came to outcome.
CameTo(t, outcome) ==
    op' = [op EXCEPT ![t] = IF Advances(outcome) /\ @.rung < Rungs
                              THEN [@ EXCEPT !.rung = op[t].rung + 1]
                              ELSE [@ EXCEPT !.at = outcome]]

\* Slip: the versions are not compared.
NotCompared(shown, now) == TRUE

SameVersions(shown, now) == shown = now

\* GET consents/versions: what was shown has to be what is required.
VersionsAnswered(t) ==
    /\ op[t].at = "versions"
    /\ op' = [op EXCEPT ![t] =
                IF SameVersions(@.call.with, current)
                  THEN [@ EXCEPT !.at = "post", !.call.with = current, !.rung = 1]
                  ELSE [@ EXCEPT !.at = "consent-stale"]]
    /\ UNCHANGED <<setting, account, current, jar, abandoned, tries, lost, history>>

VersionsUnavailable(t) ==
    /\ op[t].at = "versions"
    /\ CameTo(t, "unavailable")
    /\ UNCHANGED <<setting, account, current, jar, abandoned, tries, lost, history>>

Answered(t) ==
    /\ op[t].at = "post"
    /\ \/ /\ CarryOut(op[t].call)
          /\ \E reply \in Says(op[t].call) : CameTo(t, Classified(op[t].call.does, reply))
       \/ /\ \E reply \in SaysInstead(op[t].call) : CameTo(t, Classified(op[t].call.does, reply))
          /\ UNCHANGED account
    /\ UNCHANGED <<setting, current, jar, abandoned, tries, lost, history>>

\* The address took the call and did not answer in time.
TimedOut(t) ==
    /\ op[t].at = "post" /\ lost < MaxLost /\ lost' = lost + 1
    /\ abandoned' = abandoned \cup {[call |-> op[t].call, n |-> lost']}
    /\ CameTo(t, "unavailable")
    /\ UNCHANGED <<setting, account, current, jar, tries, history>>

CarriedOutLate(late) ==
    /\ late \in abandoned /\ abandoned' = abandoned \ {late}
    /\ CarryOut(late.call)
    /\ UNCHANGED <<setting, current, jar, op, tries, lost, history>>

\* Slip: a link goes with every answer but the app's own failures.
FinishesOnRefusal(outcome) == outcome \in {"done", "link-invalid", "weak-password"}

\* The link can not be used again.
Finishes(outcome) == outcome \in {"done", "link-invalid"}

\* The cookies of a response.
JarAfter(call, outcome) ==
    CASE call.does = "login" /\ outcome = "second-factor-required" -> [jar EXCEPT !.challenge = TRUE]
      [] call.does = "factor" /\ outcome \notin {"rejected", "not-held"} ->
            [jar EXCEPT !.challenge = FALSE]
      [] call.does \in Kinds /\ Finishes(outcome) -> [jar EXCEPT ![call.does] = 0]
      [] OTHER -> jar

\* A token is a session once it is verified.
Established(outcome) ==
    IF outcome = "signed-in" THEN {"signed-in", "token-rejected", "unverifiable"} ELSE {outcome}

\* What says something of the account, or of a link.
Claims == {"taken", "verify-email", "signed-in", "done", "link-invalid"}

\* A page knows the outcome, and which link it was about; one that claims
\* nothing is as good as none.
Page(call, outcome) ==
    IF outcome \notin Claims THEN Idle
    ELSE [Idle EXCEPT !.at = outcome,
                      !.call = IF call.does \in Kinds
                                 THEN [Blank EXCEPT !.does = call.does, !.with = call.with]
                                 ELSE Blank]

Answering(t) == op[t].at \in Outcomes /\ op[t].rung # 0

\* The response reaches the browser, or is lost.
Shown(t) ==
    /\ Answering(t)
    /\ \/ /\ \E outcome \in Established(op[t].at) :
                 op' = [op EXCEPT ![t] = Page(op[t].call, outcome)]
          /\ jar' = JarAfter(op[t].call, op[t].at)
       \/ op' = [op EXCEPT ![t] = Idle] /\ UNCHANGED jar
    /\ UNCHANGED <<setting, account, current, abandoned, tries, lost, history>>

-----------------------------------------------------------------------------
(* The reader.                                                             *)

Submits(t, call, at) ==
    /\ op[t].rung = 0
    /\ tries < MaxTries /\ tries' = tries + 1
    /\ op' = [op EXCEPT ![t] = [call |-> call, at |-> at, rung |-> 1]]
    /\ UNCHANGED <<setting, account, current, jar, abandoned, lost>>

\* The form as some render of it showed the versions, with the box or without.
Register(t, shown, good, box) ==
    /\ shown <= current
    /\ Submits(t, [Blank EXCEPT !.does = "register", !.with = shown, !.good = good],
               IF box THEN "versions" ELSE "consent-required")
    /\ ticked' = IF box THEN ticked \cup {shown} ELSE ticked
    /\ UNCHANGED pressed

\* A password the account has or had, or 0 for another.
Login(t, typed) ==
    /\ typed <= password
    /\ Submits(t, [Blank EXCEPT !.does = "login", !.with = typed], "post")
    /\ pressed' = pressed + 1 /\ UNCHANGED ticked

\* A code, with the challenge the browser holds.
SecondFactor(t, good) ==
    /\ setting.twoFactor
    /\ Submits(t, [Blank EXCEPT !.does = "factor", !.good = good],
               IF jar.challenge THEN "post" ELSE "not-held")
    /\ pressed' = pressed + 1 /\ UNCHANGED ticked

\* A link is asked for, where emails are sent.
AskForLink(t, kind) ==
    /\ setting.sendsEmail
    /\ Submits(t, [Blank EXCEPT !.does = "ask", !.kind = kind], "post")
    /\ UNCHANGED history

\* The link that is held is used: to choose a password, or to confirm the address.
UseLink(t, kind, good) ==
    /\ kind = "verify" => good
    /\ Submits(t, [Blank EXCEPT !.does = kind, !.with = jar[kind], !.good = good],
               IF jar[kind] = 0 THEN "link-lapsed" ELSE "post")
    /\ UNCHANGED history

\* A link in the mail is opened: it replaces the one held.
OpenLink(link) ==
    /\ link \in mail /\ jar' = [jar EXCEPT ![link.kind] = link.at]
    /\ UNCHANGED <<setting, account, current, op, abandoned, tries, lost, history>>

\* A cookie's lifetime ends.
Lapse(name) ==
    /\ jar' = [jar EXCEPT ![name] = IF name = "challenge" THEN FALSE ELSE 0]
    /\ UNCHANGED <<setting, account, current, op, abandoned, tries, lost, history>>

\* The service is configured with a new version of its documents.
NewVersion ==
    /\ current < MaxVersions /\ current' = current + 1
    /\ UNCHANGED <<setting, account, jar, op, abandoned, tries, lost, history>>

Next ==
    \/ \E t \in Tabs :
          \/ \E shown \in Versions, good, box \in BOOLEAN : Register(t, shown, good, box)
          \/ \E typed \in Passwords : Login(t, typed)
          \/ \E good \in BOOLEAN : SecondFactor(t, good)
          \/ \E kind \in Kinds : AskForLink(t, kind)
          \/ \E kind \in Kinds, good \in BOOLEAN : UseLink(t, kind, good)
          \/ VersionsAnswered(t) \/ VersionsUnavailable(t)
          \/ Answered(t) \/ TimedOut(t) \/ Shown(t)
    \/ \E late \in abandoned : CarriedOutLate(late)
    \/ \E link \in mail : OpenLink(link)
    \/ \E name \in Kinds \cup {"challenge"} : Lapse(name)
    \/ NewVersion

Spec == Init /\ [][Next]_vars

-----------------------------------------------------------------------------
(* An account is made under a version of the documents that the reader was *)
(* shown and accepted, however long the form was open, and whatever moved  *)
(* between the render, the check and the registration (register/route.ts). *)
ConsentIsWhatWasShown == recorded # 0 => recorded \in ticked

(* One mistake is counted once against the five an account has: what the   *)
(* service counted is no more than what the reader submitted and the calls *)
(* it took without answering, however many addresses the ladder has.       *)
OneCountForOneTry == counted <= pressed + lost

Spent(kind, at) == IF kind = "reset" THEN password > at ELSE confirmed

(* An answer takes the link its request used from the browser only once    *)
(* the link has done its work: a refused password, a limit or a service    *)
(* that was away leaves it, and trying again needs no new email.           *)
LinkKeptWhileGood ==
    [][\A t \in Tabs, kind \in Kinds :
          jar[kind] # 0 /\ jar'[kind] = 0 /\ op'[t] # op[t] /\ op[t].call.with = jar[kind]
            => Spent(kind, jar[kind])]_vars

(* What a page says of the account is so, also after a call that was taken *)
(* and not answered was made again: who is told that an address is taken   *)
(* or waits to be confirmed has an account, who is told that the password  *)
(* was changed has a new one, who is told that the link is spent has had   *)
(* what it was for, and who is told that the address is confirmed has it.  *)
ToldIsTrue ==
    \A t \in Tabs :
        LET call == op[t].call IN
        /\ op[t].at \in {"taken", "verify-email", "signed-in"} => password # 0
        /\ call.does \in Kinds /\ op[t].at \in {"done", "link-invalid"} => Spent(call.does, call.with)

=============================================================================

--------------------------- MODULE AccountEntryProofs ---------------------------
(***************************************************************************)
(* Theorems about AccountEntry, for any number of tabs, addresses,         *)
(* submissions, versions of the documents and calls that are not answered. *)
(*                                                                         *)
(* Each claim about an answer is carried by one about the calls under way, *)
(* those that a tab waits for and those that may be carried out late: what *)
(* made a call possible when it was submitted still holds when it is taken *)
(* (CallSound), whatever was done in between.                              *)
(***************************************************************************)
EXTENDS AccountEntry, FiniteSetTheorems, TLAPS

\* What was so when the call was submitted, and stays so until it is taken.
CallSound(call) ==
    /\ call.does = "register" => call.with \in ticked
    /\ call.does = "factor" => password # 0
    /\ call.does \in Kinds => call.with # 0 /\ call.with <= password
    /\ call.does = "reset" /\ call.with = password => password <= tries

CallsSound ==
    /\ \A t \in Tabs :
          /\ op[t].at \in Steps => CallSound(op[t].call)
          /\ op[t].at = "versions" => op[t].call.does = "register"
    /\ \A late \in abandoned : CallSound(late.call)

LinksSound ==
    /\ \A link \in mail : link.at # 0 /\ link.at <= password
    /\ \A kind \in Kinds : jar[kind] <= password
    /\ setting.twoFactor => password # 0

\* A password is one more submission.
PasswordsMade == password <= tries + 1

\* The tabs whose call may yet be counted.
Trying == {t \in Tabs : op[t].at = "post" /\ op[t].call.does \in {"login", "factor"}}

\* A call under way, or left behind, is one mistake not yet counted.
MistakesCovered ==
    /\ IsFiniteSet(Trying) /\ IsFiniteSet(abandoned)
    /\ counted + Cardinality(Trying) + Cardinality(abandoned) <= pressed + lost
    /\ pressed <= tries

IInv ==
    /\ TypeOK
    /\ CallsSound
    /\ LinksSound
    /\ PasswordsMade
    /\ ConsentIsWhatWasShown
    /\ ToldIsTrue
    /\ MistakesCovered

-----------------------------------------------------------------------------
(* The calls and their answers.                                            *)

(* An answer is classified as one of the app's outcomes.                   *)
LEMMA Known ==
    ASSUME NEW call \in Calls, NEW reply \in Says(call) \cup SaysInstead(call)
    PROVE  Classified(call.does, reply) \in Outcomes
  <1>1. call.does \in Does
    BY DEF Calls
  <1>2. CASE call.does = "register"
    BY <1>2 DEF Says, SaysInstead, Classified, Words, RegisterWords, Outcomes
  <1>3. CASE call.does = "login"
    BY <1>3 DEF Says, SaysInstead, Classified, Words, LoginWords, Outcomes
  <1>4. CASE call.does = "factor"
    BY <1>4 DEF Says, SaysInstead, Classified, Words, FactorWords, Outcomes
  <1>5. CASE call.does = "ask"
    BY <1>5 DEF Says, SaysInstead, Classified, Words, AskWords, Outcomes
  <1>6. CASE call.does \in Kinds
    BY <1>6 DEF Says, SaysInstead, Classified, Words, LinkWords, Outcomes, Kinds
  <1>7. QED  BY <1>1, <1>2, <1>3, <1>4, <1>5, <1>6 DEF Does

(* What is said in place of taking a call claims nothing.                  *)
LEMMA InsteadClaimsNothing ==
    ASSUME NEW call \in Calls, NEW reply \in SaysInstead(call)
    PROVE  Classified(call.does, reply) \notin Claims
  <1>1. call.does \in Does
    BY DEF Calls
  <1>2. CASE call.does = "register"
    BY <1>2 DEF SaysInstead, Classified, Words, RegisterWords, Claims
  <1>3. CASE call.does = "login"
    BY <1>3 DEF SaysInstead, Classified, Words, LoginWords, Claims
  <1>4. CASE call.does = "factor"
    BY <1>4 DEF SaysInstead, Classified, Words, FactorWords, Claims
  <1>5. CASE call.does = "ask"
    BY <1>5 DEF SaysInstead, Classified, Words, AskWords, Claims
  <1>6. CASE call.does \in Kinds
    BY <1>6 DEF SaysInstead, Classified, Words, LinkWords, Claims, Kinds
  <1>7. QED  BY <1>1, <1>2, <1>3, <1>4, <1>5, <1>6 DEF Does

(* A mistake is refused, and a refusal is the end of the ladder.           *)
LEMMA MistakesAreRefused ==
    ASSUME NEW call \in Calls, Wrong(call), NEW reply \in Says(call)
    PROVE  Classified(call.does, reply) = "rejected" /\ call.does \in {"login", "factor"}
  <1>1. CASE call.does = "login"
    BY <1>1 DEF Wrong, Says, Classified, Words, LoginWords
  <1>2. CASE call.does = "factor"
    BY <1>2 DEF Wrong, Says, Classified, Words, FactorWords
  <1>3. QED  BY <1>1, <1>2 DEF Wrong

(* A tab's request, once its address has come to an outcome.               *)
LEMMA OneCameTo ==
    ASSUME TypeOK, NEW t \in Tabs, NEW outcome \in Outcomes, CameTo(t, outcome)
    PROVE  /\ op' \in [Tabs -> Requests]
           /\ \A u \in Tabs \ {t} : op'[u] = op[u]
           /\ op'[t].call = op[t].call
           /\ op'[t].at = op[t].at \/ op'[t].at = outcome
           /\ outcome # "unavailable" => op'[t].at = outcome
  <1>1. op[t] \in Requests /\ op[t].rung \in 0 .. Rungs /\ Rungs \in Nat
    BY EntryAssumption DEF TypeOK, Requests
  <1>2. CASE Advances(outcome) /\ op[t].rung < Rungs
    <2>1. op[t].rung + 1 \in 0 .. Rungs
      BY <1>1, <1>2
    <2>2. op' = [op EXCEPT ![t] = [op[t] EXCEPT !.rung = op[t].rung + 1]]
      BY <1>2 DEF CameTo
    <2>3. [op[t] EXCEPT !.rung = op[t].rung + 1] \in Requests
      BY <1>1, <2>1 DEF Requests
    <2>4. QED  BY <1>1, <1>2, <2>2, <2>3 DEF TypeOK, Advances, Requests
  <1>3. CASE ~ (Advances(outcome) /\ op[t].rung < Rungs)
    <2>1. op' = [op EXCEPT ![t] = [op[t] EXCEPT !.at = outcome]]
      BY <1>3 DEF CameTo
    <2>2. [op[t] EXCEPT !.at = outcome] \in Requests
      BY <1>1 DEF Requests
    <2>3. QED  BY <1>1, <2>1, <2>2 DEF TypeOK, Requests
  <1>4. QED  BY <1>2, <1>3


(* A request is submitted.                                                 *)
LEMMA OneSubmits ==
    ASSUME TypeOK, NEW t \in Tabs, NEW call, call \in Calls,
           NEW at, at \in Steps \cup Outcomes, Submits(t, call, at)
    PROVE  /\ op' \in [Tabs -> Requests]
           /\ \A u \in Tabs \ {t} : op'[u] = op[u]
           /\ op'[t].call = call /\ op'[t].at = at
           /\ tries' = tries + 1 /\ tries' \in 0 .. MaxTries
  <1>1. [call |-> call, at |-> at, rung |-> 1] \in Requests
    BY EntryAssumption DEF Requests
  <1>2. QED
    BY <1>1, EntryAssumption DEF TypeOK, Submits

(* What the service does with a call that was sound: passwords follow one  *)
(* another, an address stays confirmed, consent is the call's.             *)
LEMMA Carried ==
    ASSUME TypeOK, LinksSound, PasswordsMade, NEW call \in Calls, CallSound(call), CarryOut(call)
    PROVE  /\ password' \in Passwords /\ password <= password' /\ password' <= tries + 1
           /\ confirmed' \in BOOLEAN /\ (confirmed => confirmed')
           /\ recorded' \in Versions \cup {0}
           /\ recorded' # recorded => call.does = "register" /\ recorded' = call.with
           /\ mail' \subseteq Links
           /\ \A link \in mail' : link.at # 0 /\ link.at <= password'
  <1>1. /\ password \in Nat /\ tries \in Nat /\ MaxTries \in Nat /\ tries <= MaxTries
        /\ password <= tries + 1
    BY EntryAssumption DEF TypeOK, Passwords, PasswordsMade
  <1>2. /\ Creates(call) => call.does = "register" /\ password = 0 /\ call.with = current
        /\ Resets(call) => password <= tries
    BY DEF Creates, Resets, CallSound
  <1>3. /\ password' \in Nat /\ password <= password' /\ password' <= tries + 1
        /\ Creates(call) => password' = 1
    BY <1>1, <1>2 DEF CarryOut
  <1>4. password' \in Passwords
    BY <1>1, <1>3 DEF Passwords
  <1>5. confirmed' \in BOOLEAN /\ (confirmed => confirmed')
    BY DEF CarryOut, TypeOK
  <1>6. /\ recorded' \in Versions \cup {0}
        /\ recorded' # recorded => call.does = "register" /\ recorded' = call.with
    BY <1>2 DEF CarryOut, TypeOK
  <1>7. mail' \subseteq Links
    BY DEF CarryOut, TypeOK
  <1>8. ASSUME NEW link \in mail' PROVE link.at # 0 /\ link.at <= password'
    <2>1. CASE link \in mail
      BY <1>1, <1>3, <2>1 DEF LinksSound, TypeOK, Links, Passwords
    <2>2. CASE Creates(call) /\ link = [kind |-> "verify", at |-> 1]
      BY <1>3, <2>2
    <2>3. CASE password # 0 /\ link = [kind |-> call.kind, at |-> password]
      BY <1>3, <2>3
    <2>4. QED  BY <2>1, <2>2, <2>3 DEF CarryOut
  <1>9. QED  BY <1>3, <1>4, <1>5, <1>6, <1>7, <1>8

(* What is claimed when a sound call is taken is so when it is claimed.    *)
LEMMA ClaimsAreSo ==
    ASSUME TypeOK, LinksSound, NEW call \in Calls, CallSound(call), CarryOut(call),
           NEW reply \in Says(call)
    PROVE  LET outcome == Classified(call.does, reply) IN
           /\ outcome \in {"taken", "verify-email", "signed-in"} => password' # 0
           /\ call.does \in Kinds /\ outcome \in {"done", "link-invalid"}
                => IF call.does = "reset" THEN password' > call.with ELSE confirmed'
  <1>. DEFINE outcome == Classified(call.does, reply)
  <1>1. password \in Nat /\ call.does \in Does
    BY EntryAssumption DEF TypeOK, Passwords, Calls
  <1>2. password' = IF Creates(call) \/ Resets(call) THEN password + 1 ELSE password
    BY DEF CarryOut
  <1>3. CASE call.does = "register"
    BY <1>1, <1>2, <1>3 DEF Says, Classified, Words, RegisterWords, Kinds
  <1>4. CASE call.does = "login"
    BY <1>1, <1>2, <1>4 DEF Says, Classified, Words, LoginWords, Kinds, MaySignIn
  <1>5. CASE call.does = "factor"
    <2>1. password # 0
      BY <1>5 DEF CallSound
    <2>2. QED
      BY <1>1, <1>2, <1>5, <2>1 DEF Kinds
  <1>6. CASE call.does = "ask"
    BY <1>6 DEF Says, Classified, Words, AskWords, Kinds
  <1>7. CASE call.does = "reset"
    <2>1. call.with # 0 /\ call.with <= password /\ call.with \in Nat
      <3>1. call.with \in Nat
        BY EntryAssumption DEF Calls, Passwords, Versions
      <3>2. QED
        BY <1>7, <3>1 DEF CallSound, Kinds
    <2>2. outcome = IF Resets(call) THEN "done"
                    ELSE IF password = call.with THEN "weak-password" ELSE "link-invalid"
      BY <1>7 DEF Says, Classified, Words, LinkWords
    <2>3. QED
      BY <1>1, <1>2, <1>7, <2>1, <2>2 DEF Resets
  <1>8. CASE call.does = "verify"
    <2>1. password # 0
      <3>1. call.with # 0 /\ call.with <= password /\ call.with \in Nat
        <4>1. call.with \in Nat
          BY EntryAssumption DEF Calls, Passwords, Versions
        <4>2. QED
          BY <1>8, <4>1 DEF CallSound, Kinds
      <3>2. QED
        BY <1>1, <3>1
    <2>2. confirmed'
      BY <1>8, <2>1 DEF CarryOut
    <2>3. outcome = "done"
      BY <1>8, <2>1 DEF Says, Classified, Words, LinkWords
    <2>4. QED
      BY <1>8, <2>2, <2>3
  <1>9. QED  BY <1>1, <1>3, <1>4, <1>5, <1>6, <1>7, <1>8 DEF Does, Kinds

-----------------------------------------------------------------------------
(* The steps.                                                              *)

\* All of IInv but the types and the count.
ClaimsInv ==
    /\ CallsSound
    /\ LinksSound
    /\ PasswordsMade
    /\ ConsentIsWhatWasShown
    /\ ToldIsTrue

\* CallSound and ToldIsTrue, of a request after the step.
SoundNext(call) ==
    /\ call.does = "register" => call.with \in ticked'
    /\ call.does = "factor" => password' # 0
    /\ call.does \in Kinds => call.with # 0 /\ call.with <= password'
    /\ call.does = "reset" /\ call.with = password' => password' <= tries'

ToldNext(request) ==
    /\ request.at \in {"taken", "verify-email", "signed-in"} => password' # 0
    /\ request.call.does \in Kinds /\ request.at \in {"done", "link-invalid"} =>
          IF request.call.does = "reset" THEN password' > request.call.with ELSE confirmed'

\* What no step takes back.
Grows ==
    /\ password <= password' /\ (confirmed => confirmed')
    /\ tries <= tries' /\ ticked \subseteq ticked'

(* What was sound, or true, stays so while what it rests on grows.         *)
LEMMA SoundStays ==
    ASSUME TypeOK, password' \in Nat, tries' \in Nat, PasswordsMade, Grows
    PROVE  /\ \A call \in Calls : CallSound(call) => SoundNext(call)
           /\ ToldIsTrue => \A t \in Tabs : ToldNext(op[t])
  <1>1. password \in Nat /\ tries \in Nat /\ \A call \in Calls : call.with \in Nat
    BY EntryAssumption DEF TypeOK, Passwords, Calls, Versions
  <1>2. ASSUME NEW call \in Calls, CallSound(call) PROVE SoundNext(call)
    BY <1>1, <1>2 DEF CallSound, SoundNext, Grows, Kinds
  <1>3. ASSUME ToldIsTrue, NEW t \in Tabs PROVE ToldNext(op[t])
    <2>1. op[t].call.with \in Nat
      BY <1>1 DEF TypeOK, Requests
    <2>2. QED
      BY <1>1, <1>3, <2>1 DEF ToldIsTrue, ToldNext, Spent, Grows
  <1>4. QED  BY <1>2, <1>3

(* So a step keeps the claims if what it adds is sound and true.           *)
LEMMA ClaimsStay ==
    ASSUME TypeOK, ClaimsInv, Grows, UNCHANGED setting,
           password' \in Nat, tries' \in Nat, password' <= tries' + 1,
           \A link \in mail' : link.at # 0 /\ link.at <= password',
           \A kind \in Kinds : jar'[kind] <= password',
           recorded' = recorded \/ recorded' \in ticked',
           \A late \in abandoned' : late \in abandoned \/ SoundNext(late.call),
           \A u \in Tabs :
               \/ op'[u] = op[u]
               \/ /\ op'[u].at \in Steps => SoundNext(op'[u].call)
                  /\ op'[u].at = "versions" => op'[u].call.does = "register"
                  /\ ToldNext(op'[u])
    PROVE  ClaimsInv'
  <1>1. password \in Nat
    BY EntryAssumption DEF TypeOK, Passwords
  <1>2. /\ \A call \in Calls : CallSound(call) => SoundNext(call)
        /\ \A t \in Tabs : ToldNext(op[t])
    BY SoundStays DEF ClaimsInv
  <1>3. /\ \A t \in Tabs : op[t].call \in Calls
        /\ \A late \in abandoned : late.call \in Calls
    BY DEF TypeOK, Requests
  <1>4. /\ \A u \in Tabs : /\ op'[u].at \in Steps => SoundNext(op'[u].call)
                           /\ op'[u].at = "versions" => op'[u].call.does = "register"
        /\ \A late \in abandoned' : SoundNext(late.call)
    BY <1>2, <1>3 DEF ClaimsInv, CallsSound
  <1>5. CallsSound'
    BY <1>4 DEF CallsSound, CallSound, SoundNext
  <1>6. LinksSound'
    BY <1>1 DEF ClaimsInv, LinksSound, Grows
  <1>7. PasswordsMade' /\ ConsentIsWhatWasShown'
    BY DEF ClaimsInv, PasswordsMade, ConsentIsWhatWasShown, Grows
  <1>8. \A u \in Tabs : ToldNext(op'[u])
    BY <1>2
  <1>9. ToldIsTrue'
    BY <1>8 DEF ToldIsTrue, ToldNext, Spent
  <1>10. QED  BY <1>5, <1>6, <1>7, <1>9 DEF ClaimsInv

(* Of a call that is taken.                                                *)
LEMMA TakenKeeps ==
    ASSUME TypeOK, ClaimsInv, NEW call \in Calls, CallSound(call), CarryOut(call),
           UNCHANGED <<tries, ticked>>
    PROVE  /\ Grows /\ password' \in Nat /\ tries' \in Nat /\ password' <= tries' + 1
           /\ \A link \in mail' : link.at # 0 /\ link.at <= password'
           /\ recorded' = recorded \/ recorded' \in ticked'
  <1>1. LinksSound /\ PasswordsMade /\ tries \in Nat
    BY EntryAssumption DEF ClaimsInv, TypeOK
  <1>2. QED
    BY <1>1, Carried DEF Grows, Passwords, CallSound

(* Arithmetic that is wanted once.                                        *)
LEMMA OneMoreStays == \A a, b, c \in Nat : a <= b + 1 /\ b <= c => a <= c + 1
  OBVIOUS

(* Of a step that leaves the account alone.                                *)
LEMMA UntouchedKeeps ==
    ASSUME TypeOK, ClaimsInv, UNCHANGED account, tries' \in Nat, tries <= tries',
           ticked \subseteq ticked'
    PROVE  /\ Grows /\ password' \in Nat /\ password' <= tries' + 1
           /\ \A link \in mail' : link.at # 0 /\ link.at <= password'
           /\ recorded' = recorded
  <1>1. password \in Nat /\ tries \in Nat /\ password <= tries + 1
    BY EntryAssumption DEF TypeOK, Passwords, ClaimsInv, PasswordsMade
  <1>2. \A link \in mail : link.at # 0 /\ link.at <= password
    BY DEF ClaimsInv, LinksSound
  <1>3. recorded' = recorded /\ mail' = mail /\ (confirmed => confirmed')
    BY DEF account
  <1>4. password' = password
    BY DEF account
  <1>5. password' \in Nat /\ password <= password'
    BY <1>1, <1>4
  <1>6. password' <= tries' + 1
    <2>1. password' <= tries + 1
      BY <1>1, <1>4
    <2>2. tries' \in Nat /\ tries <= tries'
      OBVIOUS
    <2>3. QED  BY <1>1, <1>5, <2>1, <2>2, OneMoreStays
  <1>7. Grows
    BY <1>3, <1>5, Zenon DEF Grows
  <1>8. QED  BY <1>2, <1>3, <1>4, <1>5, <1>6, <1>7

(* Each action keeps the claims.                                           *)
LEMMA SubmitsKeeps ==
    ASSUME TypeOK, ClaimsInv, NEW t \in Tabs, NEW call, call \in Calls,
           NEW at, at \in {"versions", "post", "consent-required", "not-held", "link-lapsed"},
           Submits(t, call, at), ticked \subseteq ticked',
           at \in Steps => SoundNext(call),
           at = "versions" => call.does = "register"
    PROVE  ClaimsInv'
  <1>1. /\ \A u \in Tabs \ {t} : op'[u] = op[u]
        /\ op'[t].call = call /\ op'[t].at = at /\ tries' = tries + 1
    BY OneSubmits DEF Steps, Outcomes
  <1>2. tries \in Nat /\ tries' \in Nat /\ tries <= tries'
    BY <1>1, EntryAssumption DEF TypeOK
  <1>3. UNCHANGED account /\ UNCHANGED <<setting, jar, abandoned>>
    BY DEF Submits
  <1>4. /\ Grows /\ password' \in Nat /\ password' <= tries' + 1
        /\ \A link \in mail' : link.at # 0 /\ link.at <= password'
        /\ recorded' = recorded /\ password' = password
    BY <1>2, <1>3, UntouchedKeeps DEF account
  <1>5. \A kind \in Kinds : jar'[kind] <= password'
    BY <1>3, <1>4 DEF ClaimsInv, LinksSound
  <1>6. ToldNext(op'[t])
    BY <1>1 DEF ToldNext
  <1>7. QED
    BY <1>1, <1>2, <1>3, <1>4, <1>5, <1>6, ClaimsStay

\* What a call claims when it is submitted is still so when the service takes it, and
\* what the service did is what its answer says.
LEMMA ClaimsStep == TypeOK /\ ClaimsInv /\ [Next]_vars => ClaimsInv'
  <1>. SUFFICES ASSUME TypeOK, ClaimsInv, [Next]_vars PROVE ClaimsInv'
    OBVIOUS
  <1>0. /\ password \in Nat /\ tries \in Nat /\ password <= tries + 1
        /\ \A kind \in Kinds : jar[kind] \in Nat /\ jar[kind] <= password
        /\ \A link \in mail : link.at \in Nat /\ link.at # 0 /\ link.at <= password
        /\ 0 \in Passwords
    BY EntryAssumption DEF TypeOK, Passwords, Kinds, Links, ClaimsInv, LinksSound, PasswordsMade
  <1>1. ASSUME NEW t \in Tabs, NEW shown \in Versions, NEW good \in BOOLEAN, NEW box \in BOOLEAN,
               Register(t, shown, good, box)
        PROVE  ClaimsInv'
    <2>. DEFINE call == [Blank EXCEPT !.does = "register", !.with = shown, !.good = good]
                at == IF box THEN "versions" ELSE "consent-required"
    <2>1. call \in Calls /\ call.does = "register" /\ call.with = shown
      BY EntryAssumption DEF Blank, Calls, Does, Kinds, Passwords
    <2>2. ticked \subseteq ticked' /\ (at \in Steps => shown \in ticked')
      BY <1>1 DEF Register, Steps
    <2>3. at \in Steps => SoundNext(call)
      BY <2>1, <2>2 DEF SoundNext, Kinds
    <2>4. Submits(t, call, at)
      BY <1>1 DEF Register
    <2>5. at \in {"versions", "post", "consent-required", "not-held", "link-lapsed"}
      OBVIOUS
    <2>. HIDE DEF call, at
    <2>6. QED
      BY <2>1, <2>2, <2>3, <2>4, <2>5, SubmitsKeeps
  <1>2. ASSUME NEW t \in Tabs, NEW typed \in Passwords, Login(t, typed) PROVE ClaimsInv'
    <2>. DEFINE call == [Blank EXCEPT !.does = "login", !.with = typed]
    <2>1. call \in Calls /\ call.does = "login"
      BY EntryAssumption DEF Blank, Calls, Does, Kinds, Passwords
    <2>2. Submits(t, call, "post") /\ ticked' = ticked
      BY <1>2 DEF Login
    <2>3. SoundNext(call)
      BY <2>1 DEF SoundNext, Kinds
    <2>. HIDE DEF call
    <2>4. QED
      BY <2>1, <2>2, <2>3, SubmitsKeeps
  <1>3. ASSUME NEW t \in Tabs, NEW good \in BOOLEAN, SecondFactor(t, good) PROVE ClaimsInv'
    <2>. DEFINE call == [Blank EXCEPT !.does = "factor", !.good = good]
                at == IF jar.challenge THEN "post" ELSE "not-held"
    <2>1. call \in Calls /\ call.does = "factor"
      BY <1>0 DEF Blank, Calls, Does, Kinds
    <2>2. Submits(t, call, at) /\ ticked' = ticked
      BY <1>3 DEF SecondFactor
    <2>3. password' # 0
      BY <1>3 DEF SecondFactor, Submits, account, ClaimsInv, LinksSound
    <2>4. SoundNext(call)
      BY <2>1, <2>3 DEF SoundNext, Kinds
    <2>5. at \in {"post", "not-held"}
      OBVIOUS
    <2>. HIDE DEF call, at
    <2>6. QED
      BY <2>1, <2>2, <2>4, <2>5, SubmitsKeeps
  <1>4. ASSUME NEW t \in Tabs, NEW kind \in Kinds, AskForLink(t, kind) PROVE ClaimsInv'
    <2>. DEFINE call == [Blank EXCEPT !.does = "ask", !.kind = kind]
    <2>1. call \in Calls /\ call.does = "ask"
      BY <1>0 DEF Blank, Calls, Does, Kinds
    <2>2. Submits(t, call, "post") /\ ticked' = ticked
      BY <1>4 DEF AskForLink, history
    <2>3. SoundNext(call)
      BY <2>1 DEF SoundNext, Kinds
    <2>. HIDE DEF call
    <2>4. QED
      BY <2>1, <2>2, <2>3, SubmitsKeeps
  <1>5. ASSUME NEW t \in Tabs, NEW kind \in Kinds, NEW good \in BOOLEAN, UseLink(t, kind, good)
        PROVE  ClaimsInv'
    <2>. DEFINE call == [Blank EXCEPT !.does = kind, !.with = jar[kind], !.good = good]
                at == IF jar[kind] = 0 THEN "link-lapsed" ELSE "post"
    <2>1. jar[kind] \in Passwords
      BY DEF TypeOK, Kinds
    <2>2. call \in Calls /\ call.does = kind /\ call.with = jar[kind]
      BY <2>1 DEF Blank, Calls, Does, Kinds
    <2>3. Submits(t, call, at) /\ ticked' = ticked
      BY <1>5 DEF UseLink, history
    <2>4. password' = password /\ tries' = tries + 1
      BY <2>3 DEF Submits, account
    <2>5. at \in Steps => SoundNext(call)
      BY <1>0, <2>2, <2>4 DEF SoundNext, Steps, Kinds
    <2>6. at \in {"post", "link-lapsed"}
      OBVIOUS
    <2>. HIDE DEF call, at
    <2>7. QED
      BY <2>2, <2>3, <2>5, <2>6, SubmitsKeeps
  <1>6. ASSUME NEW t \in Tabs, VersionsAnswered(t) PROVE ClaimsInv'
    <2>1. op[t].at = "versions" /\ op[t] \in Requests /\ current \in Versions
      BY <1>6 DEF VersionsAnswered, TypeOK
    <2>2. CallSound(op[t].call) /\ op[t].call.does = "register"
      BY <2>1 DEF ClaimsInv, CallsSound, Steps
    <2>3. UNCHANGED account /\ UNCHANGED <<setting, jar, abandoned, tries, ticked>>
      BY <1>6 DEF VersionsAnswered, history
    <2>4. /\ Grows /\ password' \in Nat /\ password' <= tries' + 1 /\ tries' = tries
          /\ \A link \in mail' : link.at # 0 /\ link.at <= password'
          /\ recorded' = recorded /\ password' = password
      BY <1>0, <2>3, UntouchedKeeps DEF account
    <2>5. \A u \in Tabs \ {t} : op'[u] = op[u]
      BY <1>6 DEF VersionsAnswered, TypeOK
    <2>6. /\ op'[t].at \in Steps => SoundNext(op'[t].call)
          /\ op'[t].at = "versions" => op'[t].call.does = "register"
          /\ ToldNext(op'[t])
      <3>1. CASE SameVersions(op[t].call.with, current)
        <4>1. op'[t] = [op[t] EXCEPT !.at = "post", !.call.with = current, !.rung = 1]
          BY <1>6, <3>1 DEF VersionsAnswered, TypeOK
        <4>2. /\ op'[t].at = "post" /\ op'[t].call.does = "register"
              /\ op'[t].call.with = op[t].call.with
          BY <2>1, <2>2, <3>1, <4>1 DEF Requests, Calls, SameVersions
        <4>3. SoundNext(op'[t].call)
          BY <2>2, <2>3, <4>2 DEF SoundNext, CallSound, Kinds
        <4>4. ToldNext(op'[t])
          BY <4>2 DEF ToldNext
        <4>5. QED  BY <4>2, <4>3, <4>4
      <3>2. CASE ~ SameVersions(op[t].call.with, current)
        <4>1. op'[t] = [op[t] EXCEPT !.at = "consent-stale"]
          BY <1>6, <3>2 DEF VersionsAnswered, TypeOK
        <4>2. op'[t].at = "consent-stale"
          BY <2>1, <4>1 DEF Requests
        <4>3. QED  BY <4>2 DEF ToldNext, Steps
      <3>3. QED  BY <3>1, <3>2
    <2>7. \A kind \in Kinds : jar'[kind] <= password'
      BY <1>0, <2>3, <2>4
    <2>8. QED
      BY <1>0, <2>3, <2>4, <2>5, <2>6, <2>7, ClaimsStay
  <1>7. ASSUME NEW t \in Tabs, VersionsUnavailable(t) PROVE ClaimsInv'
    <2>1. op[t].at = "versions" /\ op[t] \in Requests
      BY <1>7 DEF VersionsUnavailable, TypeOK
    <2>2. CallSound(op[t].call) /\ op[t].call.does = "register"
      BY <2>1 DEF ClaimsInv, CallsSound, Steps
    <2>3. UNCHANGED account /\ UNCHANGED <<setting, jar, abandoned, tries, ticked>>
      BY <1>7 DEF VersionsUnavailable, history
    <2>4. /\ Grows /\ password' \in Nat /\ password' <= tries' + 1 /\ tries' = tries
          /\ \A link \in mail' : link.at # 0 /\ link.at <= password'
          /\ recorded' = recorded /\ password' = password
      BY <1>0, <2>3, UntouchedKeeps DEF account
    <2>5. /\ \A u \in Tabs \ {t} : op'[u] = op[u]
          /\ op'[t].call = op[t].call /\ op'[t].at \in {"versions", "unavailable"}
      BY <1>7, <2>1, OneCameTo DEF VersionsUnavailable, Outcomes
    <2>6. /\ SoundNext(op'[t].call)
          /\ op'[t].at = "versions" => op'[t].call.does = "register"
          /\ ToldNext(op'[t])
      BY <2>2, <2>3, <2>5 DEF SoundNext, CallSound, Kinds, ToldNext
    <2>7. \A kind \in Kinds : jar'[kind] <= password'
      BY <1>0, <2>3, <2>4
    <2>8. QED
      BY <1>0, <2>3, <2>4, <2>5, <2>6, <2>7, ClaimsStay
  <1>8. ASSUME NEW t \in Tabs, Answered(t) PROVE ClaimsInv'
    <2>. DEFINE call == op[t].call
    <2>1. op[t].at = "post" /\ call \in Calls
      BY <1>8 DEF Answered, TypeOK, Requests
    <2>2. CallSound(call)
      BY <2>1 DEF ClaimsInv, CallsSound, Steps
    <2>3. UNCHANGED <<setting, jar, abandoned, tries, ticked>>
      BY <1>8 DEF Answered, history
    <2>4. ASSUME CarryOut(call), NEW reply \in Says(call),
                 CameTo(t, Classified(call.does, reply))
          PROVE  ClaimsInv'
      <3>. DEFINE outcome == Classified(call.does, reply)
      <3>1. /\ Grows /\ password' \in Nat /\ tries' \in Nat /\ password' <= tries' + 1
            /\ \A link \in mail' : link.at # 0 /\ link.at <= password'
            /\ recorded' = recorded \/ recorded' \in ticked'
        BY <2>1, <2>2, <2>3, <2>4, TakenKeeps
      <3>2. outcome \in Outcomes
        BY <2>1, Known
      <3>3. /\ \A u \in Tabs \ {t} : op'[u] = op[u]
            /\ op'[t].call = call /\ (op'[t].at = "post" \/ op'[t].at = outcome)
        BY <2>1, <2>4, <3>2, OneCameTo
      <3>4. SoundNext(call)
        BY <2>1, <2>2, <3>1, SoundStays DEF ClaimsInv
      <3>5. /\ outcome \in {"taken", "verify-email", "signed-in"} => password' # 0
            /\ call.does \in Kinds /\ outcome \in {"done", "link-invalid"}
                 => IF call.does = "reset" THEN password' > call.with ELSE confirmed'
        BY <2>1, <2>2, <2>4, ClaimsAreSo DEF ClaimsInv
      <3>6. outcome \notin Steps
        BY <3>2 DEF Outcomes, Steps
      <3>. HIDE DEF outcome, call
      <3>7. ToldNext(op'[t]) /\ op'[t].at # "versions"
        BY <3>3, <3>5, <3>6 DEF ToldNext, Steps
      <3>8. \A kind \in Kinds : jar'[kind] <= password'
        BY <1>0, <2>3, <3>1 DEF Grows
      <3>9. QED
        BY <2>3, <3>1, <3>3, <3>4, <3>7, <3>8, ClaimsStay
    <2>5. ASSUME UNCHANGED account, NEW reply \in SaysInstead(call),
                 CameTo(t, Classified(call.does, reply))
          PROVE  ClaimsInv'
      <3>. DEFINE outcome == Classified(call.does, reply)
      <3>1. /\ Grows /\ password' \in Nat /\ password' <= tries' + 1 /\ tries' = tries
            /\ \A link \in mail' : link.at # 0 /\ link.at <= password'
            /\ recorded' = recorded /\ password' = password
        BY <1>0, <2>3, <2>5, UntouchedKeeps DEF account
      <3>2. outcome \in Outcomes /\ outcome \notin Claims
        BY <2>1, Known, InsteadClaimsNothing
      <3>3. /\ \A u \in Tabs \ {t} : op'[u] = op[u]
            /\ op'[t].call = call /\ (op'[t].at = "post" \/ op'[t].at = outcome)
        BY <2>1, <2>5, <3>2, OneCameTo
      <3>4. SoundNext(call)
        BY <1>0, <2>1, <2>2, <3>1, SoundStays DEF ClaimsInv
      <3>5. outcome \notin Steps
        BY <3>2 DEF Outcomes, Steps
      <3>. HIDE DEF outcome, call
      <3>6. ToldNext(op'[t]) /\ op'[t].at # "versions"
        BY <3>2, <3>3, <3>5 DEF ToldNext, Steps, Claims
      <3>7. \A kind \in Kinds : jar'[kind] <= password'
        BY <1>0, <2>3, <3>1
      <3>8. QED
        BY <1>0, <2>3, <3>1, <3>3, <3>4, <3>6, <3>7, ClaimsStay
    <2>6. QED
      BY <1>8, <2>4, <2>5 DEF Answered
  <1>9. ASSUME NEW t \in Tabs, TimedOut(t) PROVE ClaimsInv'
    <2>1. op[t].at = "post" /\ op[t].call \in Calls
      BY <1>9 DEF TimedOut, TypeOK, Requests
    <2>2. CallSound(op[t].call)
      BY <2>1 DEF ClaimsInv, CallsSound, Steps
    <2>3. UNCHANGED account /\ UNCHANGED <<setting, jar, tries, ticked>>
      BY <1>9 DEF TimedOut, history
    <2>4. /\ Grows /\ password' \in Nat /\ password' <= tries' + 1 /\ tries' = tries
          /\ \A link \in mail' : link.at # 0 /\ link.at <= password'
          /\ recorded' = recorded /\ password' = password
      BY <1>0, <2>3, UntouchedKeeps DEF account
    <2>5. /\ \A u \in Tabs \ {t} : op'[u] = op[u]
          /\ op'[t].call = op[t].call /\ op'[t].at \in {"post", "unavailable"}
      BY <1>9, <2>1, OneCameTo DEF TimedOut, Outcomes
    <2>6. SoundNext(op[t].call)
      BY <1>0, <2>1, <2>2, <2>4, SoundStays DEF ClaimsInv
    <2>7. ToldNext(op'[t])
      BY <2>5 DEF ToldNext
    <2>8. \A late \in abandoned' : late \in abandoned \/ SoundNext(late.call)
      BY <1>9, <2>6 DEF TimedOut
    <2>9. \A kind \in Kinds : jar'[kind] <= password'
      BY <1>0, <2>3, <2>4
    <2>10. QED
      BY <1>0, <2>3, <2>4, <2>5, <2>6, <2>7, <2>8, <2>9, ClaimsStay
  <1>10. ASSUME NEW late \in abandoned, CarriedOutLate(late) PROVE ClaimsInv'
    <2>1. late.call \in Calls /\ CallSound(late.call)
      BY DEF TypeOK, ClaimsInv, CallsSound
    <2>2. /\ UNCHANGED <<setting, jar, op, tries, ticked>> /\ abandoned' \subseteq abandoned
          /\ CarryOut(late.call)
      BY <1>10 DEF CarriedOutLate, history
    <2>3. /\ Grows /\ password' \in Nat /\ tries' \in Nat /\ password' <= tries' + 1
          /\ \A link \in mail' : link.at # 0 /\ link.at <= password'
          /\ recorded' = recorded \/ recorded' \in ticked'
      BY <2>1, <2>2, TakenKeeps
    <2>4. \A kind \in Kinds : jar'[kind] <= password'
      BY <1>0, <2>2, <2>3 DEF Grows
    <2>5. QED
      BY <2>2, <2>3, <2>4, ClaimsStay
  <1>11. ASSUME NEW t \in Tabs, Shown(t) PROVE ClaimsInv'
    <2>1. UNCHANGED account /\ UNCHANGED <<setting, abandoned, tries, ticked>>
      BY <1>11 DEF Shown, history
    <2>2. /\ Grows /\ password' \in Nat /\ password' <= tries' + 1 /\ tries' = tries
          /\ \A link \in mail' : link.at # 0 /\ link.at <= password'
          /\ recorded' = recorded /\ password' = password
      BY <1>0, <2>1, UntouchedKeeps DEF account
    <2>3. \A kind \in Kinds : jar'[kind] = jar[kind] \/ jar'[kind] = 0
      BY <1>11 DEF Shown, JarAfter, TypeOK, Kinds
    <2>4. \A kind \in Kinds : jar'[kind] <= password'
      BY <1>0, <2>2, <2>3
    <2>5. \A u \in Tabs \ {t} : op'[u] = op[u]
      BY <1>11 DEF Shown, TypeOK
    <2>6. op'[t].at \notin Steps /\ ToldNext(op'[t])
      <3>1. ToldNext(op[t])
        BY <1>0, <2>2, SoundStays DEF ClaimsInv
      <3>2. CASE op'[t] = Idle
        BY <3>2 DEF Idle, Steps, ToldNext
      <3>3. ASSUME NEW outcome \in Established(op[t].at), outcome \in Claims,
                   op'[t] = Page(op[t].call, outcome)
            PROVE  op'[t].at \notin Steps /\ ToldNext(op'[t])
        <4>1. op'[t].at = outcome /\ outcome \notin Steps
          BY <3>3 DEF Page, Idle, Claims, Steps
        <4>2. outcome = op[t].at
          BY <3>3 DEF Established, Claims
        <4>3. \/ op'[t].call.does \notin Kinds
              \/ /\ op'[t].call.does = op[t].call.does
                 /\ op'[t].call.with = op[t].call.with
          BY <3>3 DEF Page, Idle, Blank, Kinds
        <4>4. QED
          BY <3>1, <4>1, <4>2, <4>3 DEF ToldNext
      <3>4. QED
        BY <1>11, <3>2, <3>3 DEF Shown, Page, TypeOK
    <2>7. QED
      BY <1>0, <2>1, <2>2, <2>4, <2>5, <2>6, ClaimsStay DEF Steps
  <1>12. ASSUME NEW link \in mail, OpenLink(link) PROVE ClaimsInv'
    <2>1. UNCHANGED account /\ UNCHANGED <<setting, op, abandoned, tries, ticked>>
      BY <1>12 DEF OpenLink, history
    <2>2. /\ Grows /\ password' \in Nat /\ password' <= tries' + 1 /\ tries' = tries
          /\ \A other \in mail' : other.at # 0 /\ other.at <= password'
          /\ recorded' = recorded /\ password' = password
      BY <1>0, <2>1, UntouchedKeeps DEF account
    <2>3. \A kind \in Kinds : jar'[kind] = jar[kind] \/ jar'[kind] = link.at
      BY <1>12 DEF OpenLink, TypeOK, Kinds
    <2>4. \A kind \in Kinds : jar'[kind] <= password'
      BY <1>0, <2>2, <2>3
    <2>5. QED
      BY <1>0, <2>1, <2>2, <2>4, ClaimsStay
  <1>13. ASSUME NEW name \in Kinds \cup {"challenge"}, Lapse(name) PROVE ClaimsInv'
    <2>1. UNCHANGED account /\ UNCHANGED <<setting, op, abandoned, tries, ticked>>
      BY <1>13 DEF Lapse, history
    <2>2. /\ Grows /\ password' \in Nat /\ password' <= tries' + 1 /\ tries' = tries
          /\ \A other \in mail' : other.at # 0 /\ other.at <= password'
          /\ recorded' = recorded /\ password' = password
      BY <1>0, <2>1, UntouchedKeeps DEF account
    <2>3. \A kind \in Kinds : jar'[kind] = jar[kind] \/ jar'[kind] = 0
      BY <1>13 DEF Lapse, TypeOK, Kinds
    <2>4. \A kind \in Kinds : jar'[kind] <= password'
      BY <1>0, <2>2, <2>3
    <2>5. QED
      BY <1>0, <2>1, <2>2, <2>4, ClaimsStay
  <1>14. CASE NewVersion \/ UNCHANGED vars
    <2>1. UNCHANGED account /\ UNCHANGED <<setting, jar, op, abandoned, tries, ticked>>
      BY <1>14 DEF NewVersion, vars, account, history
    <2>2. /\ Grows /\ password' \in Nat /\ password' <= tries' + 1 /\ tries' = tries
          /\ \A other \in mail' : other.at # 0 /\ other.at <= password'
          /\ recorded' = recorded /\ password' = password
      BY <1>0, <2>1, UntouchedKeeps DEF account
    <2>3. QED
      BY <1>0, <2>1, <2>2, ClaimsStay
  <1>15. QED
    BY <1>1, <1>2, <1>3, <1>4, <1>5, <1>6, <1>7, <1>8, <1>9, <1>10, <1>11, <1>12, <1>13,
       <1>14 DEF Next

\* A set grown by one element counts at most one more.
LEMMA AddOne ==
    ASSUME NEW S, IsFiniteSet(S), NEW x
    PROVE  IsFiniteSet(S \cup {x}) /\ Cardinality(S \cup {x}) <= Cardinality(S) + 1
  <1>1. Cardinality(S) \in Nat
    BY FS_CardinalityType
  <1>2. /\ IsFiniteSet(S \cup {x})
        /\ Cardinality(S \cup {x}) = Cardinality(S) \/ Cardinality(S \cup {x}) = Cardinality(S) + 1
    BY FS_AddElement
  <1>3. QED  BY <1>1, <1>2

(* The tabs that may yet be counted become no more, one more, or one less. *)
LEMMA Fewer ==
    ASSUME IsFiniteSet(Trying), Trying' \subseteq Trying
    PROVE  IsFiniteSet(Trying') /\ Cardinality(Trying') <= Cardinality(Trying)
  BY FS_Subset

\* A request that begins adds at most one to those that are trying.
LEMMA OneMore ==
    ASSUME IsFiniteSet(Trying), NEW t, Trying' \subseteq Trying \cup {t}
    PROVE  IsFiniteSet(Trying') /\ Cardinality(Trying') <= Cardinality(Trying) + 1
  <1>1. /\ IsFiniteSet(Trying \cup {t})
        /\ Cardinality(Trying \cup {t}) <= Cardinality(Trying) + 1
    BY AddOne
  <1>2. /\ IsFiniteSet(Trying')
        /\ Cardinality(Trying') <= Cardinality(Trying \cup {t})
    BY <1>1, FS_Subset
  <1>3. QED
    BY <1>1, <1>2, FS_CardinalityType

\* A request that ends was one of those that were trying.
LEMMA OneLess ==
    ASSUME IsFiniteSet(Trying), NEW t \in Trying, Trying' \subseteq Trying \ {t}
    PROVE  IsFiniteSet(Trying') /\ Cardinality(Trying') <= Cardinality(Trying) - 1
  <1>1. IsFiniteSet(Trying \ {t}) /\ Cardinality(Trying \ {t}) = Cardinality(Trying) - 1
    BY FS_RemoveElement
  <1>2. /\ IsFiniteSet(Trying')
        /\ Cardinality(Trying') <= Cardinality(Trying \ {t})
    BY <1>1, FS_Subset
  <1>3. QED  BY <1>1, <1>2

(* What is submitted is one password or code more, or none.                *)
LEMMA SubmitsOnce ==
    ASSUME TypeOK, MistakesCovered, NEW t \in Tabs, NEW call, call \in Calls,
           NEW at, at \in {"versions", "post", "consent-required", "not-held", "link-lapsed"},
           Submits(t, call, at),
           \/ call.does \in {"login", "factor"} /\ pressed' = pressed + 1
           \/ call.does \notin {"login", "factor"} /\ pressed' = pressed
    PROVE  MistakesCovered'
  <1>1. /\ \A u \in Tabs \ {t} : op'[u] = op[u]
        /\ op'[t].call = call /\ op'[t].at = at /\ tries' = tries + 1
    BY OneSubmits DEF Steps, Outcomes
  <1>2. counted' = counted /\ abandoned' = abandoned /\ lost' = lost
    BY DEF Submits, account
  <1>3. /\ counted \in Nat /\ pressed \in Nat /\ tries \in Nat /\ lost \in Nat
        /\ Cardinality(Trying) \in Nat /\ Cardinality(abandoned) \in Nat
    BY EntryAssumption, FS_CardinalityType DEF TypeOK, MistakesCovered
  <1>4. CASE call.does \in {"login", "factor"} /\ pressed' = pressed + 1
    <2>1. Trying' \subseteq Trying \cup {t}
      BY <1>1 DEF Trying
    <2>2. IsFiniteSet(Trying') /\ Cardinality(Trying') <= Cardinality(Trying) + 1
      BY <2>1, OneMore DEF MistakesCovered
    <2>3. Cardinality(Trying') \in Nat
      BY <2>2, FS_CardinalityType
    <2>4. QED
      BY <1>1, <1>2, <1>3, <1>4, <2>2, <2>3 DEF MistakesCovered
  <1>5. CASE call.does \notin {"login", "factor"} /\ pressed' = pressed
    <2>1. Trying' \subseteq Trying
      BY <1>1, <1>5 DEF Trying
    <2>2. IsFiniteSet(Trying') /\ Cardinality(Trying') <= Cardinality(Trying)
      BY <2>1, Fewer DEF MistakesCovered
    <2>3. Cardinality(Trying') \in Nat
      BY <2>2, FS_CardinalityType
    <2>4. QED
      BY <1>1, <1>2, <1>3, <1>5, <2>2, <2>3 DEF MistakesCovered
  <1>6. QED  BY <1>4, <1>5

(* A step that counts nothing and lets nothing more be counted.            *)
LEMMA NoneMore ==
    ASSUME TypeOK, MistakesCovered, Trying' \subseteq Trying,
           UNCHANGED <<counted, abandoned, pressed, tries, lost>>
    PROVE  MistakesCovered'
  <1>1. IsFiniteSet(Trying') /\ Cardinality(Trying') <= Cardinality(Trying)
    BY Fewer DEF MistakesCovered
  <1>2. /\ counted \in Nat /\ pressed \in Nat /\ lost \in Nat
        /\ Cardinality(Trying) \in Nat /\ Cardinality(abandoned) \in Nat
        /\ Cardinality(Trying') \in Nat
    BY <1>1, EntryAssumption, FS_CardinalityType DEF TypeOK, MistakesCovered
  <1>3. QED
    BY <1>1, <1>2 DEF MistakesCovered

\* No step lets the mistakes counted outrun those submitted and the calls left behind.
LEMMA MistakesStep == TypeOK /\ ClaimsInv /\ MistakesCovered /\ [Next]_vars => MistakesCovered'
  <1>. SUFFICES ASSUME TypeOK, ClaimsInv, MistakesCovered, [Next]_vars PROVE MistakesCovered'
    OBVIOUS
  <1>0. /\ counted \in Nat /\ pressed \in Nat /\ tries \in Nat /\ lost \in Nat
        /\ Cardinality(Trying) \in Nat /\ Cardinality(abandoned) \in Nat
        /\ 0 \in Passwords /\ \A kind \in Kinds : jar[kind] \in Passwords
    BY EntryAssumption, FS_CardinalityType DEF TypeOK, MistakesCovered, Passwords, Kinds
  <1>1. ASSUME NEW t \in Tabs, NEW shown \in Versions, NEW good \in BOOLEAN, NEW box \in BOOLEAN,
               Register(t, shown, good, box)
        PROVE  MistakesCovered'
    <2>. DEFINE call == [Blank EXCEPT !.does = "register", !.with = shown, !.good = good]
                at == IF box THEN "versions" ELSE "consent-required"
    <2>1. call \in Calls /\ call.does = "register" /\ at \in {"versions", "consent-required"}
      BY DEF Blank, Calls, Does, Kinds
    <2>2. Submits(t, call, at) /\ pressed' = pressed
      BY <1>1 DEF Register
    <2>. HIDE DEF call, at
    <2>3. QED  BY <2>1, <2>2, SubmitsOnce
  <1>2. ASSUME NEW t \in Tabs, NEW typed \in Passwords, Login(t, typed) PROVE MistakesCovered'
    <2>. DEFINE call == [Blank EXCEPT !.does = "login", !.with = typed]
    <2>1. call \in Calls /\ call.does = "login"
      BY DEF Blank, Calls, Does, Kinds
    <2>2. Submits(t, call, "post") /\ pressed' = pressed + 1
      BY <1>2 DEF Login
    <2>. HIDE DEF call
    <2>3. QED  BY <2>1, <2>2, SubmitsOnce
  <1>3. ASSUME NEW t \in Tabs, NEW good \in BOOLEAN, SecondFactor(t, good) PROVE MistakesCovered'
    <2>. DEFINE call == [Blank EXCEPT !.does = "factor", !.good = good]
                at == IF jar.challenge THEN "post" ELSE "not-held"
    <2>1. call \in Calls /\ call.does = "factor" /\ at \in {"post", "not-held"}
      BY <1>0 DEF Blank, Calls, Does, Kinds
    <2>2. Submits(t, call, at) /\ pressed' = pressed + 1
      BY <1>3 DEF SecondFactor
    <2>. HIDE DEF call, at
    <2>3. QED  BY <2>1, <2>2, SubmitsOnce
  <1>4. ASSUME NEW t \in Tabs, NEW kind \in Kinds, AskForLink(t, kind) PROVE MistakesCovered'
    <2>. DEFINE call == [Blank EXCEPT !.does = "ask", !.kind = kind]
    <2>1. call \in Calls /\ call.does = "ask"
      BY <1>0 DEF Blank, Calls, Does, Kinds
    <2>2. Submits(t, call, "post") /\ pressed' = pressed
      BY <1>4 DEF AskForLink, history
    <2>. HIDE DEF call
    <2>3. QED  BY <2>1, <2>2, SubmitsOnce
  <1>5. ASSUME NEW t \in Tabs, NEW kind \in Kinds, NEW good \in BOOLEAN, UseLink(t, kind, good)
        PROVE  MistakesCovered'
    <2>. DEFINE call == [Blank EXCEPT !.does = kind, !.with = jar[kind], !.good = good]
                at == IF jar[kind] = 0 THEN "link-lapsed" ELSE "post"
    <2>1. /\ call \in Calls /\ call.does \notin {"login", "factor"}
          /\ at \in {"link-lapsed", "post"}
      BY <1>0 DEF Blank, Calls, Does, Kinds
    <2>2. Submits(t, call, at) /\ pressed' = pressed
      BY <1>5 DEF UseLink, history
    <2>. HIDE DEF call, at
    <2>3. QED  BY <2>1, <2>2, SubmitsOnce
  <1>6. ASSUME NEW t \in Tabs, VersionsAnswered(t) PROVE MistakesCovered'
    <2>1. op[t].at = "versions" /\ op[t].call.does = "register" /\ op[t] \in Requests
      BY <1>6 DEF VersionsAnswered, ClaimsInv, CallsSound, TypeOK
    <2>2. /\ \A u \in Tabs \ {t} : op'[u] = op[u]
          /\ op'[t] = IF SameVersions(op[t].call.with, current)
                        THEN [op[t] EXCEPT !.at = "post", !.call.with = current, !.rung = 1]
                        ELSE [op[t] EXCEPT !.at = "consent-stale"]
      BY <1>6 DEF VersionsAnswered, TypeOK
    <2>3. op'[t].call.does = "register"
      BY <2>1, <2>2 DEF Requests, Calls
    <2>4. Trying' \subseteq Trying
      BY <2>2, <2>3 DEF Trying
    <2>5. UNCHANGED <<counted, abandoned, pressed, tries, lost>>
      BY <1>6 DEF VersionsAnswered, account, history
    <2>6. QED  BY <2>4, <2>5, NoneMore
  <1>7. ASSUME NEW t \in Tabs, VersionsUnavailable(t) PROVE MistakesCovered'
    <2>1. op[t].at = "versions"
      BY <1>7 DEF VersionsUnavailable
    <2>2. /\ \A u \in Tabs \ {t} : op'[u] = op[u]
          /\ op'[t].at \in {"versions", "unavailable"}
      BY <1>7, <2>1, OneCameTo DEF VersionsUnavailable, Outcomes
    <2>3. Trying' \subseteq Trying
      BY <2>2 DEF Trying
    <2>4. UNCHANGED <<counted, abandoned, pressed, tries, lost>>
      BY <1>7 DEF VersionsUnavailable, account, history
    <2>5. QED  BY <2>3, <2>4, NoneMore
  <1>8. ASSUME NEW t \in Tabs, Answered(t) PROVE MistakesCovered'
    <2>. DEFINE call == op[t].call
    <2>1. op[t].at = "post" /\ call \in Calls
      BY <1>8 DEF Answered, TypeOK, Requests
    <2>2. UNCHANGED <<abandoned, pressed, tries, lost>>
      BY <1>8 DEF Answered, history
    <2>3. ASSUME NEW reply \in Says(call) \cup SaysInstead(call),
                 CameTo(t, Classified(call.does, reply))
          PROVE  /\ Trying' \subseteq Trying
                 /\ Classified(call.does, reply) = "rejected" => Trying' \subseteq Trying \ {t}
      <3>1. Classified(call.does, reply) \in Outcomes
        BY <2>1, Known
      <3>2. /\ \A u \in Tabs \ {t} : op'[u] = op[u]
            /\ op'[t].call = call
            /\ op'[t].at = "post" \/ op'[t].at = Classified(call.does, reply)
            /\ Classified(call.does, reply) = "rejected" => op'[t].at = "rejected"
        BY <2>1, <2>3, <3>1, OneCameTo
      <3>3. QED
        BY <2>1, <3>2 DEF Trying
    <2>4. ASSUME CarryOut(call), NEW reply \in Says(call),
                 CameTo(t, Classified(call.does, reply))
          PROVE  MistakesCovered'
      <3>1. CASE Wrong(call)
        <4>1. Classified(call.does, reply) = "rejected" /\ t \in Trying
          BY <2>1, <3>1, MistakesAreRefused DEF Trying
        <4>2. IsFiniteSet(Trying') /\ Cardinality(Trying') <= Cardinality(Trying) - 1
          BY <2>3, <2>4, <4>1, OneLess DEF MistakesCovered
        <4>3. counted' = counted + 1
          BY <2>4, <3>1 DEF CarryOut
        <4>4. Cardinality(Trying') \in Nat
          BY <4>2, FS_CardinalityType
        <4>5. QED
          BY <1>0, <2>2, <4>2, <4>3, <4>4 DEF MistakesCovered
      <3>2. CASE ~ Wrong(call)
        <4>1. counted' = counted
          BY <2>4, <3>2 DEF CarryOut
        <4>2. QED
          BY <2>2, <2>3, <2>4, <4>1, NoneMore
      <3>3. QED  BY <3>1, <3>2
    <2>5. ASSUME UNCHANGED account, NEW reply \in SaysInstead(call),
                 CameTo(t, Classified(call.does, reply))
          PROVE  MistakesCovered'
      BY <2>2, <2>3, <2>5, NoneMore DEF account
    <2>6. QED
      BY <1>8, <2>4, <2>5 DEF Answered
  <1>9. ASSUME NEW t \in Tabs, TimedOut(t) PROVE MistakesCovered'
    <2>. DEFINE late == [call |-> op[t].call, n |-> lost']
    <2>1. op[t].at = "post"
      BY <1>9 DEF TimedOut
    <2>2. /\ \A u \in Tabs \ {t} : op'[u] = op[u]
          /\ op'[t].call = op[t].call /\ op'[t].at \in {"post", "unavailable"}
      BY <1>9, <2>1, OneCameTo DEF TimedOut, Outcomes
    <2>3. Trying' \subseteq Trying
      BY <2>1, <2>2 DEF Trying
    <2>4. IsFiniteSet(Trying') /\ Cardinality(Trying') <= Cardinality(Trying)
      BY <2>3, Fewer DEF MistakesCovered
    <2>5. /\ abandoned' = abandoned \cup {late} /\ lost' = lost + 1
          /\ UNCHANGED <<counted, pressed, tries>>
      BY <1>9 DEF TimedOut, account, history
    <2>. HIDE DEF late
    <2>6. /\ IsFiniteSet(abandoned')
          /\ Cardinality(abandoned') <= Cardinality(abandoned) + 1
      BY <2>5, AddOne DEF MistakesCovered
    <2>7. Cardinality(Trying') \in Nat /\ Cardinality(abandoned') \in Nat
      BY <2>4, <2>6, FS_CardinalityType
    <2>8. QED
      BY <1>0, <2>4, <2>5, <2>6, <2>7 DEF MistakesCovered
  <1>10. ASSUME NEW late \in abandoned, CarriedOutLate(late) PROVE MistakesCovered'
    <2>1. /\ abandoned' = abandoned \ {late} /\ Trying' = Trying
          /\ UNCHANGED <<pressed, tries, lost>>
      BY <1>10 DEF CarriedOutLate, history, Trying
    <2>2. counted' = counted \/ counted' = counted + 1
      BY <1>10 DEF CarriedOutLate, CarryOut
    <2>3. IsFiniteSet(abandoned') /\ Cardinality(abandoned') = Cardinality(abandoned) - 1
      BY <2>1, FS_RemoveElement DEF MistakesCovered
    <2>4. QED
      BY <1>0, <2>1, <2>2, <2>3 DEF MistakesCovered
  <1>11. ASSUME NEW t \in Tabs, Shown(t) PROVE MistakesCovered'
    <2>1. /\ \A u \in Tabs \ {t} : op'[u] = op[u]
          /\ \/ op'[t] = Idle
             \/ \E outcome \in Established(op[t].at) : op'[t] = Page(op[t].call, outcome)
      BY <1>11 DEF Shown, TypeOK
    <2>2. op'[t].at # "post"
      <3>1. CASE op'[t] = Idle
        BY <3>1 DEF Idle
      <3>2. ASSUME NEW outcome \in Claims, op'[t] = Page(op[t].call, outcome)
            PROVE  op'[t].at # "post"
        <4>1. op'[t].at = outcome
          BY <3>2 DEF Page, Idle
        <4>2. QED  BY <4>1 DEF Claims
      <3>3. QED
        BY <2>1, <3>1, <3>2 DEF Page
    <2>3. Trying' \subseteq Trying
      BY <2>1, <2>2 DEF Trying
    <2>4. UNCHANGED <<counted, abandoned, pressed, tries, lost>>
      BY <1>11 DEF Shown, account, history
    <2>5. QED  BY <2>3, <2>4, NoneMore
  <1>12. CASE \/ \E link \in mail : OpenLink(link)
              \/ \E name \in Kinds \cup {"challenge"} : Lapse(name)
              \/ NewVersion
              \/ UNCHANGED vars
    <2>1. UNCHANGED <<op, counted, abandoned, pressed, tries, lost>>
      BY <1>12 DEF OpenLink, Lapse, NewVersion, vars, account, history
    <2>2. Trying' = Trying
      BY <2>1 DEF Trying
    <2>3. QED  BY <2>1, <2>2, NoneMore
  <1>13. QED
    BY <1>1, <1>2, <1>3, <1>4, <1>5, <1>6, <1>7, <1>8, <1>9, <1>10, <1>11, <1>12 DEF Next

(* The types of a request and of a call.                                   *)
LEMMA PageIsARequest ==
    ASSUME TypeOK, NEW t \in Tabs, NEW outcome
    PROVE  Page(op[t].call, outcome) \in Requests
  <1>1. /\ 0 \in Passwords /\ 0 \in 0 .. Rungs
        /\ op[t].call \in Calls
    BY EntryAssumption DEF TypeOK, Requests, Passwords
  <1>2. Idle \in Requests /\ Idle = [call |-> Blank, at |-> "nothing", rung |-> 0]
    BY <1>1 DEF Idle, Blank, Requests, Calls, Does, Kinds
  <1>3. [Blank EXCEPT !.does = op[t].call.does, !.with = op[t].call.with] \in Calls
    BY <1>1 DEF Blank, Calls, Kinds
  <1>4. Blank \in Calls
    BY <1>2 DEF Requests
  <1>5. CASE outcome \in Claims
    <2>1. outcome \in Outcomes
      BY <1>5 DEF Claims, Outcomes
    <2>2. ASSUME NEW call \in Calls
          PROVE  [Idle EXCEPT !.at = outcome, !.call = call] \in Requests
      BY <1>1, <1>2, <2>1 DEF Requests
    <2>3. QED
      BY <1>3, <1>4, <1>5, <2>2 DEF Page
  <1>6. QED  BY <1>2, <1>5 DEF Page

\* The types, which need the count: a counter stays within its bound by what it counts.
LEMMA TypeStep ==
    TypeOK /\ ClaimsInv /\ MistakesCovered /\ MistakesCovered' /\ [Next]_vars => TypeOK'
  <1>. SUFFICES ASSUME TypeOK, ClaimsInv, MistakesCovered, MistakesCovered', [Next]_vars
                PROVE  TypeOK'
    OBVIOUS
  <1>0. /\ tries \in Nat /\ lost \in Nat /\ counted \in Nat /\ pressed \in Nat
        /\ 0 \in Passwords /\ \A kind \in Kinds : jar[kind] \in Passwords
        /\ MaxTries \in Nat /\ MaxLost \in Nat
    BY EntryAssumption DEF TypeOK, Passwords, Kinds
  <1>a. ASSUME counted' \in Nat, pressed' \in Nat, tries' \in 0 .. MaxTries, lost' \in 0 .. MaxLost,
               IsFiniteSet(Trying'), IsFiniteSet(abandoned')
        PROVE  counted' \in 0 .. MaxTries + MaxLost /\ pressed' \in 0 .. MaxTries
    <2>1. Cardinality(Trying') \in Nat /\ Cardinality(abandoned') \in Nat
      BY <1>a, FS_CardinalityType
    <2>2. QED
      BY <1>0, <1>a, <2>1 DEF MistakesCovered
  <1>b. ASSUME NEW t \in Tabs, NEW call, call \in Calls, NEW at, at \in Steps \cup Outcomes,
               Submits(t, call, at), ticked' \subseteq Versions, pressed' \in Nat
        PROVE  TypeOK'
    <2>1. op' \in [Tabs -> Requests] /\ tries' \in 0 .. MaxTries
      BY <1>b, OneSubmits
    <2>2. UNCHANGED <<setting, password, confirmed, recorded, counted, mail, current, jar,
                      abandoned, lost>>
      BY <1>b DEF Submits, account
    <2>3. counted' \in 0 .. MaxTries + MaxLost /\ pressed' \in 0 .. MaxTries
      BY <1>0, <1>a, <1>b, <2>1, <2>2 DEF MistakesCovered, TypeOK
    <2>4. QED
      BY <1>b, <2>1, <2>2, <2>3 DEF TypeOK
  <1>1. ASSUME NEW t \in Tabs, NEW shown \in Versions, NEW good \in BOOLEAN, NEW box \in BOOLEAN,
               Register(t, shown, good, box)
        PROVE  TypeOK'
    <2>. DEFINE call == [Blank EXCEPT !.does = "register", !.with = shown, !.good = good]
                at == IF box THEN "versions" ELSE "consent-required"
    <2>1. call \in Calls /\ at \in Steps \cup Outcomes
      BY DEF Blank, Calls, Does, Kinds, Steps, Outcomes
    <2>2. Submits(t, call, at) /\ ticked' \subseteq Versions /\ pressed' \in Nat
      BY <1>0, <1>1 DEF Register, TypeOK
    <2>. HIDE DEF call, at
    <2>3. QED  BY <2>1, <2>2, <1>b
  <1>2. ASSUME NEW t \in Tabs, NEW typed \in Passwords, Login(t, typed) PROVE TypeOK'
    <2>. DEFINE call == [Blank EXCEPT !.does = "login", !.with = typed]
    <2>1. call \in Calls /\ "post" \in Steps \cup Outcomes
      BY DEF Blank, Calls, Does, Kinds, Steps
    <2>2. Submits(t, call, "post") /\ ticked' \subseteq Versions /\ pressed' \in Nat
      BY <1>0, <1>2 DEF Login, TypeOK
    <2>. HIDE DEF call
    <2>3. QED  BY <2>1, <2>2, <1>b
  <1>3. ASSUME NEW t \in Tabs, NEW good \in BOOLEAN, SecondFactor(t, good) PROVE TypeOK'
    <2>. DEFINE call == [Blank EXCEPT !.does = "factor", !.good = good]
                at == IF jar.challenge THEN "post" ELSE "not-held"
    <2>1. call \in Calls /\ at \in Steps \cup Outcomes
      BY <1>0 DEF Blank, Calls, Does, Kinds, Steps, Outcomes
    <2>2. Submits(t, call, at) /\ ticked' \subseteq Versions /\ pressed' \in Nat
      BY <1>0, <1>3 DEF SecondFactor, TypeOK
    <2>. HIDE DEF call, at
    <2>3. QED  BY <2>1, <2>2, <1>b
  <1>4. ASSUME NEW t \in Tabs, NEW kind \in Kinds, AskForLink(t, kind) PROVE TypeOK'
    <2>. DEFINE call == [Blank EXCEPT !.does = "ask", !.kind = kind]
    <2>1. call \in Calls /\ "post" \in Steps \cup Outcomes
      BY <1>0 DEF Blank, Calls, Does, Kinds, Steps
    <2>2. Submits(t, call, "post") /\ ticked' \subseteq Versions /\ pressed' \in Nat
      BY <1>0, <1>4 DEF AskForLink, TypeOK, history
    <2>. HIDE DEF call
    <2>3. QED  BY <2>1, <2>2, <1>b
  <1>5. ASSUME NEW t \in Tabs, NEW kind \in Kinds, NEW good \in BOOLEAN, UseLink(t, kind, good)
        PROVE  TypeOK'
    <2>. DEFINE call == [Blank EXCEPT !.does = kind, !.with = jar[kind], !.good = good]
                at == IF jar[kind] = 0 THEN "link-lapsed" ELSE "post"
    <2>1. call \in Calls /\ at \in Steps \cup Outcomes
      BY <1>0 DEF Blank, Calls, Does, Kinds, Steps, Outcomes
    <2>2. Submits(t, call, at) /\ ticked' \subseteq Versions /\ pressed' \in Nat
      BY <1>0, <1>5 DEF UseLink, TypeOK, history
    <2>. HIDE DEF call, at
    <2>3. QED  BY <2>1, <2>2, <1>b
  <1>6. ASSUME NEW t \in Tabs, VersionsAnswered(t) PROVE TypeOK'
    <2>1. op[t] \in Requests /\ current \in Versions /\ 1 \in 0 .. Rungs
      BY EntryAssumption DEF TypeOK
    <2>2. /\ [op[t] EXCEPT !.at = "post", !.call.with = current, !.rung = 1] \in Requests
          /\ [op[t] EXCEPT !.at = "consent-stale"] \in Requests
      BY <2>1 DEF Requests, Calls, Steps, Outcomes
    <2>3. op' \in [Tabs -> Requests]
      BY <1>6, <2>2 DEF VersionsAnswered, TypeOK
    <2>4. QED
      BY <1>6, <2>3 DEF VersionsAnswered, TypeOK, account, history
  <1>7. ASSUME NEW t \in Tabs, VersionsUnavailable(t) PROVE TypeOK'
    <2>1. op' \in [Tabs -> Requests]
      BY <1>7, OneCameTo DEF VersionsUnavailable, Outcomes
    <2>2. QED
      BY <1>7, <2>1 DEF VersionsUnavailable, TypeOK, account, history
  <1>8. ASSUME NEW t \in Tabs, Answered(t) PROVE TypeOK'
    <2>. DEFINE call == op[t].call
    <2>1. call \in Calls /\ CallSound(call)
      BY <1>8 DEF Answered, TypeOK, Requests, ClaimsInv, CallsSound, Steps
    <2>2. UNCHANGED <<setting, current, jar, abandoned, tries, lost, ticked, pressed>>
      BY <1>8 DEF Answered, history
    <2>3. op' \in [Tabs -> Requests]
      BY <1>8, <2>1, Known, OneCameTo DEF Answered
    <2>4. CASE CarryOut(call)
      <3>1. /\ password' \in Passwords /\ confirmed' \in BOOLEAN
            /\ recorded' \in Versions \cup {0} /\ mail' \subseteq Links
        BY <2>1, <2>4, Carried DEF ClaimsInv
      <3>2. counted' \in Nat
        BY <1>0, <2>4 DEF CarryOut
      <3>3. counted' \in 0 .. MaxTries + MaxLost
        BY <1>0, <1>a, <2>2, <3>2 DEF MistakesCovered, TypeOK
      <3>4. QED
        BY <2>2, <2>3, <3>1, <3>3 DEF TypeOK
    <2>5. CASE UNCHANGED account
      BY <2>2, <2>3, <2>5 DEF TypeOK, account
    <2>6. QED
      BY <1>8, <2>4, <2>5 DEF Answered
  <1>9. ASSUME NEW t \in Tabs, TimedOut(t) PROVE TypeOK'
    <2>1. op' \in [Tabs -> Requests]
      BY <1>9, OneCameTo DEF TimedOut, Outcomes
    <2>2. lost' \in 1 .. MaxLost
      BY <1>0, <1>9 DEF TimedOut
    <2>3. op[t].call \in Calls
      BY DEF TypeOK, Requests
    <2>4. abandoned' \subseteq [call : Calls, n : 1 .. MaxLost]
      BY <1>9, <2>2, <2>3 DEF TimedOut, TypeOK
    <2>5. lost' \in 0 .. MaxLost
      BY <2>2
    <2>6. QED
      BY <1>9, <2>1, <2>4, <2>5 DEF TimedOut, TypeOK, account, history
  <1>10. ASSUME NEW late \in abandoned, CarriedOutLate(late) PROVE TypeOK'
    <2>1. late.call \in Calls /\ CallSound(late.call)
      BY DEF TypeOK, ClaimsInv, CallsSound
    <2>2. /\ UNCHANGED <<setting, current, jar, op, tries, lost, ticked, pressed>>
          /\ abandoned' \subseteq abandoned /\ CarryOut(late.call)
      BY <1>10 DEF CarriedOutLate, history
    <2>3. /\ password' \in Passwords /\ confirmed' \in BOOLEAN
          /\ recorded' \in Versions \cup {0} /\ mail' \subseteq Links
      BY <2>1, <2>2, Carried DEF ClaimsInv
    <2>4. counted' \in Nat
      BY <1>0, <2>2 DEF CarryOut
    <2>5. counted' \in 0 .. MaxTries + MaxLost
      BY <1>0, <1>a, <2>2, <2>4 DEF MistakesCovered, TypeOK
    <2>6. QED
      BY <2>2, <2>3, <2>5 DEF TypeOK
  <1>11. ASSUME NEW t \in Tabs, Shown(t) PROVE TypeOK'
    <2>1. Idle \in Requests
      <3>1. Page(op[t].call, "nothing") = Idle
        BY DEF Page, Claims
      <3>2. QED  BY <3>1, PageIsARequest
    <2>2. op' \in [Tabs -> Requests]
      BY <1>11, <2>1, PageIsARequest DEF Shown, TypeOK
    <2>3. jar' \in [reset : Passwords, verify : Passwords, challenge : BOOLEAN]
      BY <1>0, <1>11 DEF Shown, JarAfter, TypeOK, Kinds
    <2>4. QED
      BY <1>11, <2>2, <2>3 DEF Shown, TypeOK, account, history
  <1>12. ASSUME NEW link \in mail, OpenLink(link) PROVE TypeOK'
    <2>1. link.kind \in Kinds /\ link.at \in Passwords
      BY DEF TypeOK, Links
    <2>2. jar' \in [reset : Passwords, verify : Passwords, challenge : BOOLEAN]
      BY <1>12, <2>1 DEF OpenLink, TypeOK, Kinds
    <2>3. QED
      BY <1>12, <2>2 DEF OpenLink, TypeOK, account, history
  <1>13. ASSUME NEW name \in Kinds \cup {"challenge"}, Lapse(name) PROVE TypeOK'
    <2>1. jar' \in [reset : Passwords, verify : Passwords, challenge : BOOLEAN]
      BY <1>0, <1>13 DEF Lapse, TypeOK, Kinds
    <2>2. QED
      BY <1>13, <2>1 DEF Lapse, TypeOK, account, history
  <1>14. ASSUME NewVersion PROVE TypeOK'
    <2>1. current' \in Versions
      BY <1>14, EntryAssumption DEF NewVersion, TypeOK, Versions
    <2>2. QED
      BY <1>14, <2>1 DEF NewVersion, TypeOK, account, history
  <1>15. CASE UNCHANGED vars
    BY <1>15 DEF vars, TypeOK
  <1>16. QED
    BY <1>1, <1>2, <1>3, <1>4, <1>5, <1>6, <1>7, <1>8, <1>9, <1>10, <1>11, <1>12, <1>13,
       <1>14, <1>15 DEF Next

-----------------------------------------------------------------------------
(* The theorems.                                                           *)

LEMMA InitIsSound == Init => IInv
  <1>. SUFFICES ASSUME Init PROVE IInv
    OBVIOUS
  <1>1. /\ {0, 1} \subseteq Passwords /\ 1 \in Versions /\ 0 \in 0 .. Rungs
        /\ 0 \in 0 .. MaxTries + MaxLost /\ 0 \in 0 .. MaxTries /\ 0 \in 0 .. MaxLost
    BY EntryAssumption DEF Passwords, Versions
  <1>2. op \in [Tabs -> Requests] /\ \A t \in Tabs : op[t] = Idle
    BY <1>1 DEF Init, Idle, Blank, Requests, Calls, Does, Kinds
  <1>3. mail \subseteq Links /\ \A link \in mail : link.at = 1 /\ password = 1
    BY <1>1 DEF Init, Links, Kinds
  <1>4. TypeOK
    BY <1>1, <1>2, <1>3 DEF Init, TypeOK
  <1>5. CallsSound /\ ToldIsTrue
    BY <1>2 DEF Init, CallsSound, ToldIsTrue, Idle, Steps
  <1>6. LinksSound /\ PasswordsMade /\ ConsentIsWhatWasShown
    BY <1>3 DEF Init, LinksSound, PasswordsMade, ConsentIsWhatWasShown, Kinds
  <1>7. Trying = {} /\ abandoned = {}
    BY <1>2 DEF Init, Trying, Idle
  <1>8. MistakesCovered
    BY <1>7, FS_EmptySet DEF Init, MistakesCovered
  <1>9. QED  BY <1>4, <1>5, <1>6, <1>8 DEF IInv

LEMMA EntryInvariant == Spec => []IInv
  <1>1. IInv /\ [Next]_vars => IInv'
    BY ClaimsStep, MistakesStep, TypeStep DEF IInv, ClaimsInv
  <1>2. QED  BY InitIsSound, <1>1, PTL DEF Spec

(* The account, the browser's cookies and every request under way keep     *)
(* their types (register.ts, sign-in.ts, second-factor.ts).                *)
THEOREM EntryTypeCorrect == Spec => []TypeOK
  <1>1. IInv => TypeOK
    BY DEF IInv
  <1>2. QED  BY EntryInvariant, <1>1, PTL

(* An account's consent is a version that its reader was shown and         *)
(* accepted, however often the documents move (register/route.ts).         *)
THEOREM ConsentWasShown == Spec => []ConsentIsWhatWasShown
  <1>1. IInv => ConsentIsWhatWasShown
    BY DEF IInv
  <1>2. QED  BY EntryInvariant, <1>1, PTL

(* A wrong password or code is counted once, on a ladder of any length;    *)
(* only a call that was not answered may be counted again (sign-in.ts,     *)
(* second-factor.ts).                                                      *)
THEOREM MistakesCountOnce == Spec => []OneCountForOneTry
  <1>1. IInv => OneCountForOneTry
    <2>. SUFFICES ASSUME IInv PROVE OneCountForOneTry
      OBVIOUS
    <2>1. TypeOK /\ MistakesCovered
      BY DEF IInv
    <2>2. /\ counted \in Nat /\ pressed \in Nat /\ lost \in Nat
          /\ Cardinality(Trying) \in Nat /\ Cardinality(abandoned) \in Nat
      BY <2>1, EntryAssumption, FS_CardinalityType DEF TypeOK, MistakesCovered
    <2>3. QED
      BY <2>1, <2>2 DEF MistakesCovered, OneCountForOneTry
  <1>2. QED  BY EntryInvariant, <1>1, PTL

(* What a page says of the account or of a link is so (register.ts,        *)
(* account-recovery.ts).                                                   *)
THEOREM PagesAreTrue == Spec => []ToldIsTrue
  <1>1. IInv => ToldIsTrue
    BY DEF IInv
  <1>2. QED  BY EntryInvariant, <1>1, PTL

(* A link that has not done its work is not dropped by the answer to the   *)
(* request that used it (recovery-routes.ts).                              *)
THEOREM LinksAreKept == Spec => LinkKeptWhileGood
  <1>1. ASSUME IInv, [Next]_vars, NEW t \in Tabs, NEW kind \in Kinds,
               jar[kind] # 0, jar'[kind] = 0, op'[t] # op[t], op[t].call.with = jar[kind]
        PROVE  Spent(kind, jar[kind])
    <2>1. ASSUME NEW u \in Tabs, Shown(u) PROVE Spent(kind, jar[kind])
      <3>1. u = t
        BY <1>1, <2>1 DEF Shown, IInv, TypeOK
      <3>2. jar' = JarAfter(op[t].call, op[t].at)
        BY <1>1, <2>1, <3>1 DEF Shown
      <3>3. op[t].call.does = kind /\ Finishes(op[t].at)
        BY <1>1, <3>2 DEF JarAfter, IInv, TypeOK, Kinds
      <3>4. QED
        BY <1>1, <3>3 DEF IInv, ToldIsTrue, Finishes, Spent
    <2>2. CASE \/ \E link \in mail : OpenLink(link)
               \/ \E name \in Kinds \cup {"challenge"} : Lapse(name)
               \/ \E late \in abandoned : CarriedOutLate(late)
               \/ NewVersion
               \/ UNCHANGED vars
      BY <1>1, <2>2 DEF OpenLink, Lapse, CarriedOutLate, NewVersion, vars
    <2>3. CASE jar' = jar
      BY <1>1, <2>3
    <2>4. QED
      BY <1>1, <2>1, <2>2, <2>3
         DEF Next, Register, Login, SecondFactor, AskForLink, UseLink, Submits,
             VersionsAnswered, VersionsUnavailable, Answered, TimedOut
  <1>2. IInv /\ [Next]_vars =>
          [\A t \in Tabs, kind \in Kinds :
              jar[kind] # 0 /\ jar'[kind] = 0 /\ op'[t] # op[t] /\ op[t].call.with = jar[kind]
                => Spent(kind, jar[kind])]_vars
    BY <1>1
  <1>3. QED  BY EntryInvariant, <1>2, PTL DEF Spec, LinkKeptWhileGood

=============================================================================

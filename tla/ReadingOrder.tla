---------------------------- MODULE ReadingOrder ----------------------------
(***************************************************************************)
(* One signed-in reader on two surfaces: the website, whose gate and       *)
(* recorder ask the browser's record which programs are open               *)
(* (program-gate.tsx, remember-position.tsx), and the MCP server, whose    *)
(* tool calls ask the same question of the account's places (tools.ts,     *)
(* api.ts).  The rule is shared (web-kit's gate.ts); the API holds places  *)
(* and does not hold the order.                                            *)
(*                                                                         *)
(* A host may have several tool calls under way.  Each is a run of         *)
(* requests with an await between any two, and an answer may come late or  *)
(* not at all.  At the API each request is one step here (FurthestWins).   *)
(* Requests that change nothing and decide nothing (the listing of a       *)
(* track, a program's shape), list_programs' words, the summary, the       *)
(* anonymous reader's file, a second browser, and the tools that only read *)
(* and show something else than the step the reader is on are left out.    *)
(***************************************************************************)
EXTENDS Naturals, Sequences

CONSTANTS Length,      \* Length[p]: the steps of the p-th program of the track
          Editions, Calls, None,
          MaxCalls, MaxVisits, MaxReveals, MaxForgets, MaxLost   \* bounds

Place == [step : Nat \ {0}, lang : Editions]

ASSUME OrderAssumption ==
    /\ Length \in Seq(Nat \ {0}) /\ Length # << >> /\ None \notin Editions \cup Place
    /\ {MaxCalls, MaxVisits, MaxReveals, MaxForgets, MaxLost} \subseteq Nat

VARIABLES
    rows,       \* the account's places at AbOvo.Api
    record,     \* the programs this browser's record has a place in
    owed,       \* a forget that the account has not been told of
    page,       \* the frame on the screen
    sending,    \* a reveal on its way
    kept,       \* editionAt: a switch of edition the API does not carry yet
    call,       \* call[c]: what tool call c is waiting for
    begun, visits, reveals, forgets, lost,
    shown,      \* history: frames some surface has shown the reader
    entered,    \* history: programs entered since the account last forgot
    stray,      \* history: places made by a request that had looked before that
    erased,     \* history: how often the account forgot
    named       \* history: the last switch of edition, by program

counters == <<begun, visits, reveals, forgets, lost>>
history == <<shown, entered, stray, erased, named>>
site == <<record, owed, page, sending>>
agent == <<kept, call>>
vars == <<rows, site, agent, counters, history>>

Programs == DOMAIN Length
Frames == {frame \in Programs \X Nat : frame[2] \in 1 .. Length[frame[1]]}
Places == [Programs -> Place \cup {None}]
NoPlaces == [p \in Programs |-> None]
Tools == {"current", "open", "submit"}
ToolCall == [tool : Tools, prog : Programs, lang : Editions \cup {None}, step : Nat,
             at : {"idle", "places", "listed", "open", "opened", "show",
                   "here", "advance", "advanced"},
             places : Places, look : Nat]

Idle == [tool |-> "current", prog |-> 1, at |-> "idle", lang |-> None, step |-> 0,
         places |-> NoPlaces, look |-> 0]

TypeOK ==
    /\ rows \in Places /\ \A p \in Programs : rows[p] # None => rows[p].step <= Length[p]
    /\ record \subseteq Programs /\ owed \in BOOLEAN
    /\ page \in Frames \cup {None}
    /\ sending \in [frame : Frames, lang : Editions, look : Nat] \cup {None}
    /\ kept \in Places
    /\ call \in [Calls -> ToolCall]
    /\ begun \in 0 .. MaxCalls /\ visits \in 0 .. MaxVisits /\ reveals \in 0 .. MaxReveals
    /\ forgets \in 0 .. MaxForgets /\ lost \in 0 .. MaxLost
    /\ shown \subseteq Frames /\ entered \subseteq Programs /\ stray \subseteq Programs
    /\ erased \in Nat
    /\ named \in [Programs -> [step : Nat, lang : Editions, met : BOOLEAN] \cup {None}]

Init ==
    /\ rows = NoPlaces /\ record = {} /\ owed = FALSE /\ page = None /\ sending = None
    /\ kept = NoPlaces /\ call = [c \in Calls |-> Idle]
    /\ begun = 0 /\ visits = 0 /\ reveals = 0 /\ forgets = 0 /\ lost = 0
    /\ shown = {} /\ entered = {} /\ stray = {} /\ erased = 0
    /\ named = NoPlaces

-----------------------------------------------------------------------------
(* The rule, and the API.                                                  *)

\* Slip: whatever the book puts before it.
OpenAnyway(places, p) == TRUE

\* isOpenWhere: the first program, one with a place, one after a place.
IsOpen(places, p) == p = 1 \/ p \in places \/ p - 1 \in places

With(places) == {p \in Programs : places[p] # None}

Cursor(p) == IF rows[p] = None THEN 1 ELSE rows[p].step

\* A place is made or moved by a request that looked at the reader's places
\* when the account had forgotten `look` times.
Moves(p, place, look) ==
    /\ rows' = [rows EXCEPT ![p] = place]
    /\ entered' = entered \cup {p}
    /\ stray' = IF look < erased THEN stray \cup {p} ELSE stray

\* Slip: an answer to the last step raises it too.
AdvancesPast(p, answering, lang, look) ==
    IF answering = Cursor(p) THEN Moves(p, [step |-> answering + 1, lang |-> lang], look)
    ELSE UNCHANGED <<rows, entered, stray>>

\* POST advance: an answer to the step the reader is on raises it, but for the
\* last; any other changes nothing.
Advances(p, answering, lang, look) ==
    IF answering = Cursor(p) /\ answering < Length[p]
      THEN Moves(p, [step |-> answering + 1, lang |-> lang], look)
      ELSE UNCHANGED <<rows, entered, stray>>

-----------------------------------------------------------------------------
(* The website.                                                            *)

\* A served frame is left again if its program is shut, and else recorded.
Visit(p, n) ==
    /\ visits < MaxVisits /\ visits' = visits + 1
    /\ n <= Cursor(p)
    /\ IF IsOpen(record, p)
         THEN /\ page' = <<p, n>> /\ record' = record \cup {p}
              /\ entered' = entered \cup {p} /\ shown' = shown \cup {<<p, n>>}
         ELSE page' = None /\ UNCHANGED <<record, entered, shown>>
    /\ UNCHANGED <<rows, owed, sending, agent, begun, reveals, forgets, lost, stray, erased, named>>

\* Next is pressed on the frame shown; the page it leads to is a visit.
Reveal(lang) ==
    /\ reveals < MaxReveals /\ reveals' = reveals + 1
    /\ page # None /\ sending = None
    /\ page[2] < Length[page[1]]
    /\ sending' = [frame |-> page, lang |-> lang, look |-> erased]
    /\ UNCHANGED <<rows, record, owed, page, agent, begun, visits, forgets, lost, history>>

\* It is served, or the reader is told that it failed.
Revealed ==
    /\ sending # None /\ sending' = None
    /\ \/ Advances(sending.frame[1], sending.frame[2], sending.lang, sending.look)
       \/ UNCHANGED <<rows, entered, stray>>
    /\ UNCHANGED <<record, owed, page, agent, counters, shown, erased, named>>

\* A cycle adopts what the account has, unless a forget is owed.
Sync ==
    /\ ~ owed /\ ~ With(rows) \subseteq record
    /\ record' = record \cup With(rows)
    /\ UNCHANGED <<rows, owed, page, sending, agent, counters, history>>

\* The gate asks again, and the page is left standing only in the first program.
Forget ==
    /\ forgets < MaxForgets /\ forgets' = forgets + 1
    /\ record' = {} /\ owed' = TRUE
    /\ page' = IF page # None /\ IsOpen({}, page[1]) THEN page ELSE None
    /\ UNCHANGED <<rows, sending, agent, begun, visits, reveals, lost, history>>

\* DELETE progress.
Erased ==
    /\ owed /\ owed' = FALSE
    /\ rows' = NoPlaces
    /\ entered' = record /\ stray' = {} /\ erased' = erased + 1 /\ named' = NoPlaces
    /\ UNCHANGED <<record, page, sending, agent, counters, shown>>

-----------------------------------------------------------------------------
(* The agent's tool calls.                                                 *)

Waits(c, at) == call' = [call EXCEPT ![c].at = at]
Ends(c) == call' = [call EXCEPT ![c] = Idle]

\* An edition is named or not; an answer names a step that has been shown.
Begin(c, tool, p, lang, step) ==
    /\ begun < MaxCalls /\ begun' = begun + 1
    /\ call[c].at = "idle"
    /\ lang # None => tool = "open"
    /\ IF tool = "submit" THEN <<p, step>> \in shown ELSE step = 0
    /\ call' = [call EXCEPT ![c] = [Idle EXCEPT !.tool = tool, !.prog = p, !.at = "places",
                                               !.lang = lang, !.step = step]]
    /\ UNCHANGED <<rows, site, kept, visits, reveals, forgets, lost, history>>

\* GET progress is served.
Listed(c) ==
    /\ call[c].at = "places"
    /\ call' = [call EXCEPT ![c].at = "listed", ![c].places = rows, ![c].look = erased]
    /\ UNCHANGED <<rows, site, kept, counters, history>>

\* #adopt, for every row answered: a switch at another step is dropped.
Adopted(places, p) ==
    IF places[p] # None /\ kept[p] # None /\ kept[p].step # places[p].step THEN None ELSE kept[p]

\* The place in a program as the call goes on with it: the row, in the edition kept for it.
Known(places, p) ==
    IF Adopted(places, p) # None /\ places[p] # None THEN Adopted(places, p) ELSE places[p]

AdoptsAll(places) == kept' = [p \in Programs |-> Adopted(places, p)]

\* keepEdition: the switch is held here until an advance carries it.
Keeps(c, places, step, lang) ==
    LET p == call[c].prog
        switch == [step |-> step, lang |-> lang]
    IN  /\ kept' = [q \in Programs |-> IF q = p THEN switch ELSE Adopted(places, q)]
        /\ named' = [named EXCEPT ![p] = [step |-> step, lang |-> lang,
              met |-> call[c].look < erased \/ \E d \in Calls \ {c} : call[d].at # "idle"]]

Answer(c) == call[c].at = "listed"
Own(c) == Known(call[c].places, call[c].prog)

\* The place's step is asked for, to be shown.
Shows(c) ==
    call' = [call EXCEPT ![c] = [Idle EXCEPT !.prog = call[c].prog, !.at = "show", !.step = Own(c).step]]

\* A program that is shut, or has no place yet; an edition asked for and not given.
AnsweredOnly(c) ==
    /\ Answer(c)
    /\ Own(c) = None
    /\ AdoptsAll(call[c].places) /\ Ends(c)
    /\ UNCHANGED <<rows, site, counters, history>>

\* A first opening of an open program, in the edition named, remembered or asked for.
OpensFirst(c, lang) ==
    /\ Answer(c) /\ call[c].tool = "open" /\ Own(c) = None
    /\ IsOpen(With(call[c].places), call[c].prog)
    /\ call[c].lang \in {None, lang}
    /\ AdoptsAll(call[c].places)
    /\ call' = [call EXCEPT ![c].at = "open", ![c].lang = lang, ![c].places = NoPlaces]
    /\ UNCHANGED <<rows, site, counters, history>>

\* A resume writes nothing; another edition than the place's is kept.
Resumes(c) ==
    /\ Answer(c) /\ call[c].tool \in {"open", "current"} /\ Own(c) # None
    /\ IF call[c].lang \in {None, Own(c).lang}
         THEN AdoptsAll(call[c].places) /\ UNCHANGED named
         ELSE Keeps(c, call[c].places, Own(c).step, call[c].lang)
    /\ Shows(c)
    /\ UNCHANGED <<rows, site, counters, shown, entered, stray, erased>>

\* The step the reader is on is asked for; the answer waits.
Submits(c) ==
    /\ Answer(c) /\ call[c].tool = "submit" /\ Own(c) # None
    /\ AdoptsAll(call[c].places)
    /\ call' = [call EXCEPT ![c].at = "here", ![c].lang = Own(c).lang]
    /\ UNCHANGED <<rows, site, counters, history>>

\* POST open: a place at the first step, or nothing where there is one.
OpenServed(c) ==
    LET p == call[c].prog
        place == IF rows[p] # None THEN rows[p] ELSE [step |-> 1, lang |-> call[c].lang]
    IN  /\ call[c].at = "open"
        /\ IF rows[p] # None THEN UNCHANGED <<rows, entered, stray>>
                             ELSE Moves(p, place, call[c].look)
        /\ call' = [call EXCEPT ![c].at = "opened", ![c].places = [NoPlaces EXCEPT ![p] = place]]
        /\ UNCHANGED <<site, kept, counters, shown, erased, named>>

\* Its answer: the place as it stands, which another surface may have made.
Opened(c) ==
    /\ call[c].at = "opened"
    /\ IF call[c].lang = Own(c).lang
         THEN AdoptsAll(call[c].places) /\ UNCHANGED named
         ELSE Keeps(c, call[c].places, Own(c).step, call[c].lang)
    /\ Shows(c)
    /\ UNCHANGED <<rows, site, counters, shown, entered, stray, erased>>

\* GET step is served, and the call's result shows it, or the gate refuses it.
Shown(c) ==
    /\ call[c].at = "show"
    /\ shown' = IF call[c].step <= Cursor(call[c].prog)
                  THEN shown \cup {<<call[c].prog, call[c].step>>} ELSE shown
    /\ Ends(c)
    /\ UNCHANGED <<rows, site, kept, counters, entered, stray, erased, named>>

\* Slip: an answer is to the step the reader is on, whatever step it names.
AnswersAny(step, place) == TRUE

\* The step being answered, so a retry cannot advance twice.
AnswersIt(step, place) == step = place.step

\* submit_answer has the step the reader is on: it is refused, as forgotten since;
\* or shown, for an answer to another; or the form is declined; or it goes on.
HereServed(c) ==
    LET p == call[c].prog
        place == call[c].places[p]
    IN  /\ call[c].at = "here"
        /\ \/ place.step > Cursor(p) /\ Ends(c) /\ UNCHANGED shown
           \/ /\ place.step <= Cursor(p) /\ ~ AnswersIt(call[c].step, place)
              /\ Ends(c) /\ shown' = shown \cup {<<p, place.step>>}
           \/ /\ place.step <= Cursor(p) /\ AnswersIt(call[c].step, place)
              /\ \/ Ends(c)
                 \/ call' = [call EXCEPT ![c].at = "advance", ![c].step = place.step,
                                         ![c].places = NoPlaces]
              /\ UNCHANGED shown
        /\ UNCHANGED <<rows, site, kept, counters, entered, stray, erased, named>>

\* POST advance.  What it serves next is the step the reader is on by then, and
\* nothing after the last.
AdvanceServed(c) ==
    LET p == call[c].prog
    IN  /\ call[c].at = "advance"
        /\ Advances(p, call[c].step, call[c].lang, call[c].look)
        /\ call' = [call EXCEPT ![c] = [Idle EXCEPT !.prog = p, !.at = "advanced", !.step =
              IF call[c].step = Length[p] /\ call[c].step = Cursor(p) THEN 0
              ELSE IF rows'[p] = None THEN 1 ELSE rows'[p].step]]
        /\ UNCHANGED <<site, kept, counters, shown, erased, named>>

\* Slip: the switch is the API's whatever it answered.
SwitchTaken(p, step) == [kept EXCEPT ![p] = None]

\* The switch went with the step it raised; where the book ended, it did not.
SwitchCarried(p, step) == IF step = 0 THEN kept ELSE [kept EXCEPT ![p] = None]

Advanced(c) ==
    LET p == call[c].prog
    IN  /\ call[c].at = "advanced"
        /\ kept' = SwitchCarried(p, call[c].step)
        /\ shown' = IF call[c].step = 0 THEN shown ELSE shown \cup {<<p, call[c].step>>}
        /\ Ends(c)
        /\ UNCHANGED <<rows, site, counters, entered, stray, erased, named>>

\* An API out of reach, or an answer that is lost.
Fail(c) ==
    /\ call[c].at # "idle" /\ lost < MaxLost /\ lost' = lost + 1
    /\ Ends(c)
    /\ UNCHANGED <<rows, site, kept, begun, visits, reveals, forgets, history>>

\* The process ends, and what it holds with it.
Restart ==
    /\ lost < MaxLost /\ lost' = lost + 1
    /\ call' = [c \in Calls |-> Idle] /\ kept' = NoPlaces /\ named' = NoPlaces
    /\ UNCHANGED <<rows, site, begun, visits, reveals, forgets, shown, entered, stray, erased>>

-----------------------------------------------------------------------------
Next ==
    \/ \E p \in Programs : \E n \in 1 .. Length[p] : Visit(p, n)
    \/ \E lang \in Editions : Reveal(lang)
    \/ Revealed \/ Sync \/ Forget \/ Erased \/ Restart
    \/ \E c \in Calls :
          \/ \E tool \in Tools, p \in Programs, lang \in Editions \cup {None} :
                \E step \in 0 .. Length[p] : Begin(c, tool, p, lang, step)
          \/ \E lang \in Editions : OpensFirst(c, lang)
          \/ Listed(c) \/ AnsweredOnly(c) \/ Resumes(c) \/ Submits(c)
          \/ OpenServed(c) \/ Opened(c) \/ Shown(c)
          \/ HereServed(c) \/ AdvanceServed(c) \/ Advanced(c)
          \/ Fail(c)

Spec == Init /\ [][Next]_vars

-----------------------------------------------------------------------------
(* The book is read in its order on both surfaces (ADR-0051, gate.ts): a   *)
(* program with a place, at the account or in the browser, is the first,   *)
(* or the one before it had been entered, or a request made the place that *)
(* had looked before the account was made to forget.                       *)
InOrder ==
    \A p \in With(rows) \cup record : p = 1 \/ p - 1 \in entered \/ p \in stray

(* No step is skipped (tools.ts, "so a retry cannot advance twice"): each  *)
(* step behind the account's place has been shown to the reader, however   *)
(* calls, retries and reveals overlap and whatever answer was lost.        *)
NoneSkipped ==
    \A p \in With(rows) : \A n \in 1 .. rows[p].step - 1 : <<p, n>> \in shown

(* An edition switched to on a step is the edition of the answer to that   *)
(* step (api.ts, #editionAt): it is lost only where another call was under *)
(* way when it was made, with the place it was made at, or the process.    *)
SwitchHolds ==
    \A p \in Programs :
        named[p] # None /\ ~ named[p].met /\ rows[p] # None /\ rows[p].step = named[p].step =>
            kept[p] = [step |-> named[p].step, lang |-> named[p].lang]

=============================================================================

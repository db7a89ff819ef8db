------------------------------- MODULE Worksheet -------------------------------
(***************************************************************************)
(* A worksheet: what a reader writes on one cue frame, kept as one record  *)
(* in the browser (lib/sheet/store.ts, client.ts), the two fields that     *)
(* write it (answer-line.tsx, working.tsx), the control that clears it     *)
(* (clear-controls.tsx), and the next frame, which shows the book's answer *)
(* beside it, locks it and reports how it went (you-wrote.tsx).            *)
(*                                                                         *)
(* Tabs of the browser share the record.  Each keeps the snapshot it last  *)
(* read and fields that are React state of their own: a commit tells no    *)
(* other part of the page, only a clear does.  The frame is one whose      *)
(* whole answer is one number, and the reader contributes; the tag, the    *)
(* sketch and its background are left out.                                 *)
(***************************************************************************)
EXTENDS Contribution, FiniteSets

CONSTANTS Tabs, Unread,
          Texts, Book,  \* what a line can hold, 0 being blank; the text that matches
          Pads,         \* what a pad can hold, 0 being nothing
          Frame,        \* n, the cue frame's step
          MaxVisits, MaxTurns, MaxClears  \* fields entered or run, pages opened, clears (bounds)

ASSUME SheetAssumption ==
    /\ 0 \in Texts \cap Pads /\ {1, Book} \subseteq Texts \ {0}
    /\ {MaxVisits, MaxTurns, MaxClears} \subseteq Nat

VARIABLES
    store,     \* the record in localStorage
    tab,       \* the page each tab is on
    event,     \* event[t]: a `storage' event tab t has not heard yet
    attempts, reported,
    visits, turns, clears,
    hand,      \* history: what the reader's hand left in each field
    rewritten, \* history: the fields whose own stored text is not what they were opened on
    crossed,   \* history: a tab wrote while another had read
    padKept,   \* history: what was last committed of the pad
    seen, held \* history: the answer was shown since the last clear, and over which line

sheetHistory == <<hand, rewritten, crossed, padKept, seen, held>>
sheetVars == <<store, tab, event, attempts, reported, visits, turns, clears, sheetHistory>>

Sheets == [answer : Texts, working : Pads, revealed : BOOLEAN]
ASSUME NoSheetAssumption == None \notin Sheets /\ Unread \notin Sheets \cup {None}

Fields == {"line", "pad"}

AnswerOf(sheet) == IF sheet = None THEN 0 ELSE sheet.answer
WorkingOf(sheet) == IF sheet = None THEN 0 ELSE sheet.working
TextOf(field, sheet) == IF field = "line" THEN AnswerOf(sheet) ELSE WorkingOf(sheet)

\* A tab with nothing of the worksheet on its page.
Away(snap) ==
    [at |-> "away", snap |-> snap, text |-> [f \in Fields |-> 0], seed |-> [f \in Fields |-> None],
     focus |-> None, offer |-> FALSE, shown |-> None, due |-> FALSE]

SheetTypeOK ==
    /\ store \in Sheets \cup {None}
    /\ \A t \in Tabs :
          LET b == tab[t] IN
            /\ b.at \in {"away", "cue", "answer"}
            /\ {b.snap, b.shown, b.seed["line"], b.seed["pad"]} \subseteq Sheets \cup {None, Unread}
            /\ b.text["line"] \in Texts /\ b.text["pad"] \in Pads
            /\ b.focus \in Fields \cup {None}
            /\ b.due => b.at = "answer"
            /\ b.offer => b.at = "cue"
            /\ rewritten[t] \subseteq Fields
    /\ event \in [Tabs -> BOOLEAN]
    /\ \A i \in DOMAIN reported : reported[i].attempt \in 1 .. MaxAttempt
    /\ {crossed, seen} \subseteq BOOLEAN

SheetInit ==
    /\ store \in {None, [answer |-> 1, working |-> 0, revealed |-> FALSE]}
    /\ tab = [t \in Tabs |-> Away(Unread)]
    /\ event = [t \in Tabs |-> FALSE]
    /\ attempts = [f \in {Frame} |-> 0] /\ reported = <<>>
    /\ visits = 0 /\ turns = 0 /\ clears = 0
    /\ hand = [t \in Tabs |-> [f \in Fields |-> 0]]
    /\ rewritten = [t \in Tabs |-> {}]
    /\ crossed = FALSE /\ padKept = 0 /\ seen = FALSE /\ held = None

-----------------------------------------------------------------------------
(* The record.                                                             *)

\* getSnapshot: what this tab has read, or reads now.
Snapshot(b) == IF b.snap = Unread THEN store ELSE b.snap

Unsnapped(b) == [b EXCEPT !.snap = Unread]

\* Slip: merged with what this tab has read.
UpsertOnSnapshot(b, field, text) ==
    LET s == Snapshot(b) IN
      [answer   |-> IF field = "line" THEN text ELSE AnswerOf(s),
       working  |-> IF field = "pad" THEN text ELSE WorkingOf(s),
       revealed |-> s # None /\ s.revealed]

\* upsertSheet: created if need be, merged with what is stored.
Upsert(b, field, text) ==
    [answer   |-> IF field = "line" THEN text ELSE AnswerOf(store),
     working  |-> IF field = "pad" THEN text ELSE WorkingOf(store),
     revealed |-> store # None /\ store.revealed]

\* patchSheet: nothing is created.
Patched == IF store = None THEN None ELSE [store EXCEPT !.revealed = TRUE]

\* clearAnswerOf: the line and its lock go; with no working, the record does.
Cleared ==
    IF WorkingOf(store) = 0 THEN None
    ELSE [answer |-> 0, working |-> store.working, revealed |-> FALSE]

\* A write by tab t: the others are told of it when it changed something.
Write(t, sheet) ==
    /\ store' = sheet
    /\ event' = [u \in Tabs |-> event[u] \/ (u # t /\ sheet # store)]
    /\ crossed' = (crossed \/ (sheet # store /\ \E u \in Tabs \ {t} :
                                 tab[u].at # "away" \/ tab[u].snap # Unread))

-----------------------------------------------------------------------------
(* The fields.                                                             *)

\* The store's text is adopted when it is not what the field was seeded from,
\* nor what it holds.
Adopts(incoming, seeded, text) == incoming # seeded /\ incoming # text

\* A field rendered with this text in it.
Rendered(b, field, text) ==
    LET s == Snapshot(b)
        incoming == TextOf(field, s)
        adopted == s # b.seed[field] /\ Adopts(incoming, TextOf(field, b.seed[field]), text)
    IN [b EXCEPT !.snap = s, !.seed[field] = s,
                 !.text[field] = IF adopted THEN incoming ELSE text]

\* What the line and the pad, and the control of the line, first show.
Mounted(b) ==
    LET s == Snapshot(b) IN
      [Away(s) EXCEPT !.at = "cue",
                      !.text = [f \in Fields |-> TextOf(f, s)],
                      !.seed = [f \in Fields |-> s],
                      !.offer = AnswerOf(s) # 0]

\* announce: the snapshot is dropped and every reader of it on the page renders.
Announced(b, sheet) ==
    LET fresh == [b EXCEPT !.snap = sheet]
        line == Rendered(fresh, "line", b.text["line"])
    IN [Rendered(line, "pad", b.text["pad"]) EXCEPT !.offer = AnswerOf(sheet) # 0]

Locked(b) == AnswerOf(b.seed["line"]) # 0 /\ b.seed["line"].revealed

Focus(t, field) ==
    /\ tab[t].at = "cue" /\ tab[t].focus = None
    /\ visits < MaxVisits /\ visits' = visits + 1
    /\ tab' = [tab EXCEPT ![t].focus = field]
    /\ UNCHANGED <<store, event, attempts, reported, turns, clears, sheetHistory>>

Type(t, text) ==
    LET field == tab[t].focus IN
    /\ tab[t].at = "cue" /\ field # None
    /\ text # tab[t].text[field] /\ text \in (IF field = "line" THEN Texts ELSE Pads)
    /\ field = "line" => ~ Locked(tab[t])
    /\ tab' = [tab EXCEPT ![t] = Rendered(@, field, text)]
    /\ hand' = [hand EXCEPT ![t][field] = text]
    /\ UNCHANGED <<store, event, attempts, reported, visits, turns, clears, rewritten, crossed,
                   padKept, seen, held>>

\* The field with the focus is stored, whether or not anything was typed in it.
Commit(t) ==
    LET field == tab[t].focus
        sheet == Upsert(tab[t], field, tab[t].text[field])
        changed == {f \in Fields : TextOf(f, sheet) # TextOf(f, store)}
    IN /\ Write(t, sheet)
       /\ rewritten' = [u \in Tabs |-> IF tab[u].at # "cue" THEN {}
                                       ELSE rewritten[u] \cup changed]
       /\ padKept' = IF field = "pad" THEN sheet.working ELSE padKept
       /\ UNCHANGED <<hand, seen, held>>

\* A click elsewhere, or Esc.  Nothing is rendered.
Blur(t) ==
    /\ tab[t].at = "cue" /\ tab[t].focus # None
    /\ Commit(t)
    /\ tab' = [tab EXCEPT ![t] = [Unsnapped(@) EXCEPT !.focus = None]]
    /\ UNCHANGED <<attempts, reported, visits, turns, clears>>

\* Run, or Ctrl+Enter in the pad: stored, and the pad renders with its results.
Evaluate(t) ==
    /\ tab[t].at = "cue" /\ tab[t].focus = "pad"
    /\ visits < MaxVisits /\ visits' = visits + 1
    /\ Commit(t)
    /\ tab' = [tab EXCEPT ![t] = Rendered([@ EXCEPT !.snap = store'], "pad", @.text["pad"])]
    /\ UNCHANGED <<attempts, reported, turns, clears>>

-----------------------------------------------------------------------------
(* The pages.                                                              *)

\* What the next frame shows first: what this tab has read, and by a full load
\* nothing, as the server rendered it.
Revealing(b, how) ==
    LET s == Snapshot(b) IN
      [Away(s) EXCEPT !.at = "answer", !.shown = (IF how = "load" THEN None ELSE s), !.due = TRUE]

Open(t, page, how) ==
    LET b == IF how = "load" THEN Away(Unread) ELSE tab[t] IN
    /\ how = "link" => tab[t].at # page /\ tab[t].focus = None /\ ~ tab[t].due
    /\ turns < MaxTurns /\ turns' = turns + 1
    /\ tab' = [tab EXCEPT ![t] = CASE page = "cue" -> Mounted(b)
                                   [] page = "answer" -> Revealing(b, how)
                                   [] OTHER -> Away(b.snap)]
    /\ hand' = [hand EXCEPT ![t] = tab'[t].text]
    /\ rewritten' = [rewritten EXCEPT ![t] = IF page = "cue" /\ Snapshot(b) # store
                                                 THEN Fields ELSE {}]
    /\ event' = IF how = "load" THEN [event EXCEPT ![t] = FALSE] ELSE event
    /\ UNCHANGED <<store, attempts, reported, visits, clears, crossed, padKept, seen, held>>

\* Ctrl+Enter in a line: committed before the frame turns.
CommitAndTurn(t) ==
    /\ tab[t].at = "cue" /\ tab[t].focus = "line"
    /\ turns < MaxTurns /\ turns' = turns + 1
    /\ Commit(t)
    /\ tab' = [tab EXCEPT ![t] = [Away(store') EXCEPT !.at = "answer", !.shown = store', !.due = TRUE]]
    /\ UNCHANGED <<attempts, reported, visits, clears>>

Outcome(sheet) ==
    CASE sheet.answer = 0 -> "blank" [] sheet.answer = Book -> "matched" [] OTHER -> "missed"

\* Slip: on every visit.
ReportsAlways(sheet) == sheet # None

\* Nothing without a sheet, and nothing on a re-read.
Reports(sheet) == sheet # None /\ ~ sheet.revealed

ReportOf(sheet) ==
    IF Reports(sheet)
      THEN /\ reported' = Append(reported, AnswerReport(Frame, Outcome(sheet), attempts))
           /\ attempts' = Taken(attempts, {Frame})
      ELSE UNCHANGED <<reported, attempts>>

\* The next frame's two effects: the sheet is marked, then what was shown is
\* reported.  A full load renders once more, with the sheet as it is by then.
Effects(t) ==
    /\ tab[t].due
    /\ Write(t, Patched)
    /\ ReportOf(tab[t].shown)
    /\ LET b == [Unsnapped(tab[t]) EXCEPT !.due = FALSE] IN
         tab' = [tab EXCEPT ![t] =
                   IF b.shown = None /\ store # None
                     THEN [b EXCEPT !.snap = store', !.shown = store'] ELSE b]
    /\ seen' = (seen \/ store # None)
    /\ held' = IF held = None /\ AnswerOf(store) # 0 THEN AnswerOf(store) ELSE held
    /\ UNCHANGED <<visits, turns, clears, hand, rewritten, padKept>>

\* Another tab's write is heard; by a page with no worksheet on it, or not.
Hear(t) ==
    /\ event[t] /\ ~ tab[t].due
    /\ event' = [event EXCEPT ![t] = FALSE]
    /\ \/ /\ tab[t].at = "away"
          /\ \E b \in {tab[t], Unsnapped(tab[t])} : tab' = [tab EXCEPT ![t] = b]
          /\ UNCHANGED <<reported, attempts>>
       \/ /\ tab[t].at = "cue"
          /\ tab' = [tab EXCEPT ![t] = Announced(@, store)]
          /\ UNCHANGED <<reported, attempts>>
       \/ /\ tab[t].at = "answer"
          /\ tab' = [tab EXCEPT ![t].snap = store, ![t].shown = store]
          /\ ReportOf(store)
    /\ rewritten' = [rewritten EXCEPT ![t] = IF tab[t].at = "cue" THEN Fields ELSE {}]
    /\ UNCHANGED <<store, visits, turns, clears, hand, crossed, padKept, seen, held>>

ClearTo(t, sheet) ==
    /\ clears < MaxClears /\ clears' = clears + 1
    /\ Write(t, sheet)
    /\ rewritten' = [u \in Tabs |-> IF sheet # store /\ tab[u].at = "cue"
                                    THEN Fields ELSE rewritten[u]]
    /\ hand' = [hand EXCEPT ![t]["line"] = 0]
    /\ padKept' = WorkingOf(sheet)
    /\ seen' = FALSE /\ held' = None
    /\ UNCHANGED <<attempts, reported, visits, turns>>

\* Clear my answer, where it is offered.
ClearAnswer(t) ==
    /\ tab[t].at = "cue" /\ tab[t].focus = None /\ tab[t].offer
    /\ ClearTo(t, Cleared)
    /\ tab' = [tab EXCEPT ![t] = Announced(@, Cleared)]

\* Clear my worksheets, from the index.
ClearEverything(t) ==
    /\ tab[t].at = "away" /\ store # None
    /\ ClearTo(t, None)
    /\ tab' = [tab EXCEPT ![t] = Unsnapped(@)]

SheetNext ==
    \E t \in Tabs :
       \/ \E field \in Fields : Focus(t, field)
       \/ \E text \in Texts \cup Pads : Type(t, text)
       \/ Blur(t) \/ Evaluate(t) \/ CommitAndTurn(t) \/ Effects(t) \/ Hear(t)
       \/ \E page \in {"away", "cue", "answer"}, how \in {"link", "load"} : Open(t, page, how)
       \/ ClearAnswer(t) \/ ClearEverything(t)

SheetSpec == SheetInit /\ [][SheetNext]_sheetVars

-----------------------------------------------------------------------------
(* Neither field costs the other anything.  On the page, what the reader's *)
(* hand left in a field is in it, unless its own stored text changed       *)
(* (answer-line.tsx and working.tsx, the rule that came of a lost          *)
(* keystroke); in the record, in any number of tabs and whatever each has  *)
(* read, a commit of the line loses neither the pad's last commit nor the  *)
(* mark that the answer was shown (store.ts, upsertSheet).                 *)
FieldsKeepApart ==
    /\ \A t \in Tabs : tab[t].at = "cue" =>
          \A f \in Fields \ rewritten[t] : tab[t].text[f] = hand[t][f]
    /\ store # None => store.working = padKept /\ (seen => store.revealed)

(* In one tab, however often the reader turns back, and until they clear   *)
(* it: an answer is reported at most once, and a line that held text when  *)
(* the book's answer was shown holds that text.                            *)
AnsweredOnce ==
    crossed \/ /\ Len(reported) <= 1 + clears
               /\ held # None => store # None /\ store.answer = held

=============================================================================

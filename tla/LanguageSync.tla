------------------------------ MODULE LanguageSync ------------------------------
(***************************************************************************)
(* The chosen edition of one signed-in reader: the record each browser     *)
(* keeps (lib/language/store.ts, client.ts), the exchange with the account *)
(* on a page load and the announcement of a new choice                     *)
(* (lib/language/sync.ts), and the account's row behind GET and PUT        *)
(* /preferences/language (PreferenceEndpoints.cs).                         *)
(*                                                                         *)
(* An exchange keeps the record it started from across two awaits; the     *)
(* reader can choose again during either.  A PUT reads the row, awaits,    *)
(* and saves, while others of the account do the same: of a row that       *)
(* exists it writes the columns that differ from what it read, and a save  *)
(* whose answer was lost is sent again.  Any message may be lost.          *)
(*                                                                         *)
(* Times are the stamps choices carry: the choosing browser's clock, which *)
(* may run ahead of the server's, and further than the server believes.    *)
(* One page at a time per browser.                                         *)
(***************************************************************************)
EXTENDS Naturals, FiniteSets

CONSTANTS Browsers, Languages,
          Ahead,        \* how far ahead of the server each browser's clock runs
          Skew,         \* how far ahead the server believes
          MaxChoices,   \* choices the reader makes (bound)
          MaxUpsets,    \* upsets, and times that time passes besides (bound)
          None          \* no choice

ASSUME ClocksAssumption == Ahead \in [Browsers -> Nat] /\ Skew \in Nat
ASSUME BoundsAssumption == MaxChoices \in Nat /\ MaxUpsets \in Nat

VARIABLES
    now,         \* the server's clock
    made,        \* history: the choices the reader made, numbered in order
    local,       \* local[b]: the browser's record
    account,     \* the account's row
    sync,        \* sync[b]: the exchange the browser is in
    puts,        \* PUTs sent and not yet answered
    upsets,      \* upsets, and times that time passed besides choices
    mishaps      \* history: what has gone round the rule

vars == <<now, made, local, account, sync, puts, upsets, mishaps>>

\* `nth' is history: which choice of the reader's this is.
Choice == [lang : Languages, at : Nat, nth : 1 .. MaxChoices]
Held == Choice \cup {None}
ASSUME NoneAssumption == None \notin Choice

\* An adoption replaced a choice made during its exchange; a stamp too far ahead
\* was taken for now; a row got one choice's stamp and kept another's edition.
Mishaps == {"overridden", "clamped", "torn"}
Happens(mishap, when) == mishaps' = IF when THEN mishaps \cup {mishap} ELSE mishaps

Idle == [phase |-> "idle", held |-> None, remote |-> None]

TypeOK ==
    /\ now \in Nat /\ upsets \in 0 .. MaxUpsets
    /\ made \subseteq Choice
    /\ local \in [Browsers -> Held] /\ account \in Held
    /\ sync \in [Browsers -> [phase : {"idle", "pull", "pulled", "push", "landed"},
                              held : Held, remote : Held]]
    /\ \A b \in Browsers : sync[b].phase = "landed" => sync[b].remote # None
    /\ puts \subseteq [from : Browsers, awaited : BOOLEAN, choice : Choice,
                       phase : {"sent", "read"}, seen : Held, stamp : Nat]
    /\ mishaps \subseteq Mishaps

Init ==
    /\ now = 1 /\ upsets = 0
    /\ made = {}
    /\ local = [b \in Browsers |-> None]
    /\ account = None
    /\ sync = [b \in Browsers |-> Idle]
    /\ puts = {}
    /\ mishaps = {}

\* Slip: nothing is newer than "never chose".
NewerOfTwo(c, d) == c # None /\ d # None /\ c.at > d.at

\* "Never chose" is older than any choice, which are made at 1 or later.
Newer(c, d) ==
    LET time(choice) == IF choice = None THEN 0 ELSE choice.at
    IN  time(c) > time(d)

-----------------------------------------------------------------------------
(* The browser.                                                            *)

Sent(b, choice, awaited) ==
    [from |-> b, awaited |-> awaited, choice |-> choice,
     phase |-> "sent", seen |-> None, stamp |-> 0]

\* Slip: the record is left to the account to change.
ChooseUnrecorded(b, lang) ==
    LET nth    == Cardinality(made) + 1
        choice == [lang |-> lang, at |-> now + 2 + Ahead[b], nth |-> nth]
    IN  /\ nth <= MaxChoices
        /\ now' = now + 2
        /\ made' = made \cup {choice}
        /\ puts' = puts \cup {Sent(b, choice, FALSE)}
        /\ UNCHANGED <<local, account, sync, upsets, mishaps>>

\* The control: the record first, then the account is told and nobody waits.
\* Two choices are never made at one instant.
Choose(b, lang) ==
    LET nth    == Cardinality(made) + 1
        choice == [lang |-> lang, at |-> now + 2 + Ahead[b], nth |-> nth]
    IN  /\ nth <= MaxChoices
        /\ now' = now + 2
        /\ made' = made \cup {choice}
        /\ local' = [local EXCEPT ![b] = choice]
        /\ puts' = puts \cup {Sent(b, choice, FALSE)}
        /\ UNCHANGED <<account, sync, upsets, mishaps>>

\* exchange(): snapshot() is taken before the account is asked.
Begin(b) ==
    /\ sync[b].phase = "idle"
    /\ sync' = [sync EXCEPT ![b] = [phase |-> "pull", held |-> local[b], remote |-> None]]
    /\ UNCHANGED <<now, made, local, account, puts, upsets, mishaps>>

\* GET /preferences/language; its answer is on its way.
Pull(b) ==
    /\ sync[b].phase = "pull"
    /\ sync' = [sync EXCEPT ![b].phase = "pulled", ![b].remote = account]
    /\ UNCHANGED <<now, made, local, account, puts, upsets, mishaps>>

\* Slip: what is adopted is stamped as chosen here and now.
AdoptAsChosen(b) ==
    /\ local' = [local EXCEPT ![b] = [sync[b].remote EXCEPT !.at = now]]
    /\ Happens("overridden", local[b] # sync[b].held)

\* adoptLanguage: the record becomes the account's choice, stamp and all.
Adopt(b) ==
    /\ local' = [local EXCEPT ![b] = sync[b].remote]
    /\ Happens("overridden", local[b] # sync[b].held)

\* The answer to the GET arrives: push, adopt, or nothing to do.
Decide(b) ==
    LET held == sync[b].held
        remote == sync[b].remote
    IN  /\ sync[b].phase = "pulled"
        /\ \/ /\ Newer(held, remote)
              /\ sync' = [sync EXCEPT ![b].phase = "push", ![b].remote = None]
              /\ puts' = puts \cup {Sent(b, held, TRUE)}
              /\ UNCHANGED <<local, mishaps>>
           \/ /\ Newer(remote, held)
              /\ Adopt(b)
              /\ sync' = [sync EXCEPT ![b] = Idle]
              /\ UNCHANGED puts
           \/ /\ ~ Newer(held, remote) /\ ~ Newer(remote, held)
              /\ sync' = [sync EXCEPT ![b] = Idle]
              /\ UNCHANGED <<local, puts, mishaps>>
        /\ UNCHANGED <<now, made, account, upsets>>

\* The answer to the exchange's PUT arrives: what stands there is adopted when
\* it is another edition.
Land(b) ==
    /\ sync[b].phase = "landed"
    /\ IF sync[b].remote.lang # sync[b].held.lang
       THEN Adopt(b)
       ELSE UNCHANGED <<local, mishaps>>
    /\ sync' = [sync EXCEPT ![b] = Idle]
    /\ UNCHANGED <<now, made, account, puts, upsets>>

\* The exchange ends with nothing: an answer is lost, an error, or the page is
\* left.  A PUT it has sent may still be on its way.
Fail(b) ==
    /\ sync[b].phase # "idle"
    /\ upsets < MaxUpsets /\ upsets' = upsets + 1
    /\ sync' = [sync EXCEPT ![b] = Idle]
    /\ puts' = {IF p.from = b THEN [p EXCEPT !.awaited = FALSE] ELSE p : p \in puts}
    /\ UNCHANGED <<now, made, local, account, mishaps>>

-----------------------------------------------------------------------------
(* PUT /preferences/language.                                              *)

\* A stamp further ahead than Skew is taken to be now.
Stamp(choice) == IF choice.at <= now + Skew THEN choice.at ELSE now

\* The handler reads the row.
PutRead(p) ==
    /\ p \in puts /\ p.phase = "sent"
    /\ puts' = (puts \ {p}) \cup
               {[p EXCEPT !.phase = "read", !.seen = account, !.stamp = Stamp(p.choice)]}
    /\ Happens("clamped", Stamp(p.choice) # p.choice.at)
    /\ UNCHANGED <<now, made, local, account, sync, upsets>>

\* The rule: a row that is at least as new stays.
Wins(p) == IF p.seen = None THEN TRUE ELSE p.stamp > p.seen.at

\* The row after the handler's SaveChanges: the edition's column is written only
\* if it differs from the one that was read.
Stored(p) ==
    IF ~ Wins(p) THEN account
    ELSE [lang |-> IF p.seen # None /\ p.seen.lang = p.choice.lang
                   THEN account.lang ELSE p.choice.lang,
          at |-> p.stamp, nth |-> p.choice.nth]

\* Slip: the caller is told what was read.
AnswerRead(p) == p.seen

\* What the caller is told stands there.
Answer(p) == IF Wins(p) THEN [p.choice EXCEPT !.at = p.stamp] ELSE p.seen

\* SaveChanges commits: an insert does where no row appeared meanwhile.
Commit(p) ==
    /\ p \in puts /\ p.phase = "read"
    /\ p.seen = None => account = None
    /\ account' = Stored(p)
    /\ Happens("torn", Wins(p) /\ Stored(p).lang # p.choice.lang)

PutSave(p) ==
    /\ Commit(p)
    /\ puts' = puts \ {p}
    /\ sync' = IF p.awaited
               THEN [sync EXCEPT ![p.from].phase = "landed", ![p.from].remote = Answer(p)]
               ELSE sync
    /\ UNCHANGED <<now, made, local, upsets>>

\* The database's answer to the commit is lost, and SaveChanges is sent again.
PutRepeat(p) ==
    /\ Commit(p)
    /\ upsets < MaxUpsets /\ upsets' = upsets + 1
    /\ UNCHANGED <<now, made, local, sync, puts>>

\* SaveChanges throws: another PUT inserted the row first.  The caller is told
\* nothing it can use.
PutConflict(p) ==
    /\ p \in puts /\ p.phase = "read"
    /\ p.seen = None /\ account # None
    /\ puts' = puts \ {p}
    /\ sync' = IF p.awaited THEN [sync EXCEPT ![p.from] = Idle] ELSE sync
    /\ UNCHANGED <<now, made, local, account, upsets, mishaps>>

\* A PUT never arrives, or is abandoned before it saves.
Lose(p) ==
    /\ p \in puts
    /\ upsets < MaxUpsets /\ upsets' = upsets + 1
    /\ puts' = puts \ {p}
    /\ sync' = IF p.awaited THEN [sync EXCEPT ![p.from] = Idle] ELSE sync
    /\ UNCHANGED <<now, made, local, account, mishaps>>

\* Time passes, in the same measure as between two choices.
Tick ==
    /\ upsets < MaxUpsets /\ upsets' = upsets + 1
    /\ now' = now + 2
    /\ UNCHANGED <<made, local, account, sync, puts, mishaps>>

-----------------------------------------------------------------------------
Exchange(b) == Begin(b) \/ Pull(b) \/ Decide(b) \/ Land(b)

Serve(b) == \E p \in puts : p.from = b /\ (PutRead(p) \/ PutSave(p) \/ PutConflict(p))

Next ==
    \/ \E b \in Browsers : Exchange(b) \/ Serve(b) \/ Fail(b)
    \/ \E b \in Browsers, lang \in Languages : Choose(b, lang)
    \/ \E p \in puts : Lose(p) \/ PutRepeat(p)
    \/ Tick

\* Each browser goes on, as pages go on being loaded in it: with its exchange, or
\* with a request of its that the server serves.  The reader need not choose, and
\* nothing need be lost.
Fairness == \A b \in Browsers : WF_vars(Exchange(b) \/ Serve(b))

Spec == Init /\ [][Next]_vars /\ Fairness

-----------------------------------------------------------------------------
(* Properties.                                                             *)

\* The choice with the newest stamp.
NewestIs(c) == c \in made /\ \A d \in made : c = d \/ Newer(c, d)

\* A record or the row is choice c, edition and all.
IsChoice(record, c) == record # None /\ record.nth = c.nth /\ record.lang = c.lang

HeldSomewhere(c) ==
    \/ IsChoice(account, c) \/ \E b \in Browsers : IsChoice(local[b], c)
    \/ \E p \in puts : p.choice = c

\* The newest choice is not forgotten: a browser, the account or a request holds
\* it, whatever is lost and however PUTs overlap, so a later exchange can still
\* bring it everywhere.
NewestIsHeld == \A c \in made : NewestIs(c) => HeldSomewhere(c)

\* There are three ways to forget it: an exchange that started before the choice
\* was made adopts over it (sync.ts), a clock that is not believed has it taken
\* for older or another taken for newer, or PUTs that overlap leave a row of two
\* choices that is then adopted (PreferenceEndpoints.cs).
HeldUnlessMishap == NewestIsHeld \/ mishaps # {}

\* Most recent wins (sync.ts, PreferenceEndpoints.cs), in the end: the row may go
\* back where PUTs overlap, an announcement may be lost or come late, and still
\* the account comes to hold the newest choice and keeps it, but for the same
\* three ways to forget it.
NewestPrevails ==
    <>[](mishaps # {} \/ \A c \in made : NewestIs(c) => IsChoice(account, c))

\* A second machine agrees with the first: once the reader is done choosing,
\* however choices, exchanges and losses fell and whatever the clocks, every
\* browser comes to show the edition the account holds, and stays there.  Only a
\* row that two overlapping PUTs made of two choices may be told apart for good
\* from the choice whose stamp it has.
Agreement ==
    <>[](\/ "torn" \in mishaps
         \/ \A b \in Browsers :
               \/ account = None /\ local[b] = None
               \/ account # None /\ local[b] # None /\ local[b].lang = account.lang)

=============================================================================

# ab-ovo in TLA+

A specification of the parts of ab-ovo that keep something for a reader: the
place in a book, the edition it is read in, the answers written on a worksheet,
the tallies of how exercises went, the account and its session, and the id an
agent reads under. Every definition is translated from the source;
`PROJECT.json` ("map") names the lines. Paths below are relative to the
repository.

Contents: [the system](#1-the-system) ·
[modules](#2-modules) · [runs](#3-runs) · [fairness](#4-fairness) ·
[proofs](#5-proofs) · [where the code and its words differ](#6-where-the-code-and-its-words-differ) ·
[not modelled](#7-not-modelled) · [plan](#8-plan) · [how to run](#9-how-to-run)

## 1. The system

ab-ovo serves programmed-instruction books. A *program* (unit of a track) is a
sequence of steps; a reader sees step k+1 only by submitting an answer to step
k. Reading needs no account: an anonymous reader has a *cursor* under a cookie,
and an agent's host has an id in a file. A reader who signs in has the account's
places, and the account *adopts* the cursor's. A browser keeps its own record
besides, so that the list of programs can be drawn and work goes on where it
stopped.

| Component (source) | State it keeps | Operations | Interacts by | Module |
|---|---|---|---|---|
| Progress and content API (`src/AbOvo.Api/Endpoints/{Progress,Content}Endpoints.cs`, `Content/Reveal.cs`) | `ReaderProgress` rows (subject, program → step, edition) | GET step and summary, POST open, POST advance, PUT / DELETE progress, POST adopt, DELETE anonymous | table shared by all requests, no concurrency token | `ProgressApi` |
| Content cache and ingestion (`Content/ContentBundleCache.cs`, POST bundles) | `ContentBundles` rows; one dictionary entry per track | GetLatest, ingest, Invalidate | dictionary shared by requests, database by awaits | `ContentCache` |
| Preferences API (`Endpoints/PreferenceEndpoints.cs`) and browser language (`web/app/src/lib/language/*`) | one row per account: edition and time of choice; the browser's choice and its stamp | GET, PUT, DELETE; choose, announce, exchange | requests through the proxy | `LanguageSync` |
| Browser progress (`lib/progress/*`), reveal and recorder (`lib/actions/reveal.ts`, `components/read/remember-position.tsx`) | record (`positions`, `last`), forget marker in localStorage; notice lines in the tab | reveal, remember, sync cycle, forget everywhere, hold and withdraw lines | requests through the proxy; timers; storage events | `ProgressSync` |
| Program gate (`lib/progress/gate.ts`, `components/read/program-gate.tsx`, `web/web-kit/src/gate.ts`) | none | decides whether a program is open | reads the browser record, or the account's places | `ReadingOrder` |
| MCP server (`web/mcp/src/{tools,api,server}.ts`) | switches of edition, in the process | tools over the content API | HTTP, several calls at once | `ReadingOrder` |
| MCP reader ids (`web/mcp/src/identity.ts`) | one file of the user's | find or mint the id of an origin | the file, shared by all of the user's servers | `ReaderIds` |
| Session (`lib/server/session.ts`, `lib/session/client.ts`, `lib/server/adopt-places.ts`), account deletion (`lib/server/{account-deletion,delete-account}.ts`) | cookies | sign in (with adoption), sign out, ask; two deletes at the API, one at the identity service | cookies shared by tabs; HTTP in a fixed order without a transaction | `AccountLife`, `ProgressSync` |
| Sign-in, registration, second factor, recovery (`lib/server/{sign-in,register,second-factor,account-recovery}.ts` and their routes) | cookies: challenge, emailed links | forms, a ladder of calls to the identity service, an answer to the reader | HTTP; cookies | `AccountEntry` |
| Lab runtime (`lib/lab`, `components/lab/lab-pane.tsx`) | a worker, its generation | boot, run, stop, restart | worker messages | `LabPane` |
| Instrument and consent in the browser (`lib/instrument`, `lib/consent`) | attempt numbers, consent | decide, read a run's output, report | HTTP | `Contribution` |
| Outcomes (`Endpoints/OutcomeEndpoints.cs`) | a tally per check and attempt | increment | table | `Tally` |
| Worksheet (`lib/sheet`, `components/read/{answer-line,working,you-wrote,clear-controls}.tsx`) | a sheet per cue frame in localStorage; fields in React state | write, leave, evaluate, reveal and lock, report, clear | storage events between tabs | `Worksheet` |
| Rates (`Instrument/`), BFF proxy ladder, web kit, rendering, hosting, seed | none over time | — | — | section 7 |

### What is hard in it

* **Two requests of one reader.** Handlers read a row, await, and save, with no
  concurrency token; two tabs, a browser and an agent, or a retry and its
  original overlap. EF writes the changed columns only, detects an insert or a
  delete that lost its key, and *repeats a save whose answer was lost*.
* **State kept across an await.** The cache's look-up and its assignment; the
  language exchange's snapshot; the sync cycle's pull; the places a tool call
  read before its gate; what a form was rendered under.
* **The forget.** It has to reach the browser, the account and the cursor; the
  tab may be left, requests lost, the session begin or end in between, and a
  cycle that has already pulled must not write back what was forgotten.
* **The notice.** A line says "you have read on elsewhere". This browser's own
  reveal moves the account before its page arrives, so its own reading comes
  back in a pull looking like someone else's.
* **Ladders.** A call to the identity service or the API is made at one address
  after another. An address that took a call and did not answer in time may
  have carried it out, or do so later, and the next one answers for that state.
* **Two surfaces.** The website's gate asks the browser's record, the agent's
  asks the account's places; the API holds places and not the order.
* **A worker that can only be ended.** Stop changes the pane at once, the worker
  later; what the old one says meanwhile still arrives.
* **Copies.** A worksheet is a stored record, a snapshot per tab and the text of
  two fields; a write tells no other part of its own page.
* **Clocks.** The edition's newest choice wins by the browsers' clocks, with a
  skew beyond which the server takes its own.
* **A file with no lock.** Servers that start together append to it, and an
  append may be cut short.

### What makes each part correct

* API: a stored or served step was earned, whatever overlaps; a forgotten row
  does not come back; adoption keeps the further place.
* Cache: a tag has one bundle; reads see the newest one.
* Language: the row ends as the newest of the reader's choices; browsers agree.
* Browser progress: a forget is not undone and is paid in the end; a line is
  true, new and about reading done elsewhere; the browser catches up.
* Reading order: no program out of the book's order on either surface, no step
  skipped, an edition stays switched.
* Account: nothing is left under a subject that is gone; what a page says is so;
  a failure signs nobody out; consent is what was shown; one mistake counts once.
* Lab and tallies: a stopped run is over; nothing is reported unasked; a tally
  holds no more than was reported.
* Worksheet: no write costs another; an answer is locked and counted once.
* Reader ids: one reader to an origin.

The hazards are listed one by one, at their lines, in `PROJECT.json`
("hazards") with the properties that cover them.

## 2. Modules

```
RevealGate   what the gate promises        FurthestWins   places, one atomic step per request
     ^  refined by (races included)             ^  refined by (one reader's requests in turn)
     +---------------- ProgressApi -------------+          Contribution   consent, attempts, reports
                            |                                 |         |
              ApiProofs, MCProgressApi                      Tally    Worksheet
                                                              |
                                                           LabPane
ContentCache   LanguageSync   ProgressSync   AccountLife   AccountEntry   ReadingOrder   ReaderIds
```

Each component has an `MC…` module (`ProgressSync` needs none) and a `…Proofs`
module. `ApiProofs` proves about `ProgressApi` and `ContentCache`,
`InstrumentProofs` about `LabPane`, with the `Tally` and `Contribution` it extends,
and `Worksheet`; the other components have one of their own. Where two modules
meet in one proof module, the second says `CacheSpec`, `SheetSpec` and so on for
what is elsewhere `Spec`.

**`ProgressApi`** models every handler that touches `ReaderProgress`. A request
is a slot `job[q]`. Its first read starts it (`Put`, `OpenProgram`, `Advance`,
`AdoptTheirs`, `ForgetAccount`, `ForgetAnonymous`); adoption and a forget that
carries the cursor's header make a second read (`AdoptHeld`, `ForgetTheirs`);
then one `SaveChanges` (`Save`, `SaveAdvance`) writes the plan that EF's change
tracker has, or the request ends without (`Abandon`). Early returns that change
nothing (409, 404, 400, a retry that names an older step) are the guards under
which no slot is taken. `lost` lets a committed save be sent again, as
`EnableRetryOnFailure` does. A bundle's length is an input of each call, so
bundles that became shorter, longer or lost the program are covered; `CanRead`
is what the two GETs serve. `answered` and `adopted` are history.

**`RevealGate`** says what the gate promises without requests or tables: place,
answered, adopted. **`FurthestWins`** says what the product promises of places:
open, answer, adopt (furthest wins, a tie keeps the account's), forget, each
atomic.

**`ContentCache`** has one track: the table `stored`, the dictionary's `entry`,
reads (`Miss`, `Query`, `Store`: one await between each) and ingestions
(`Receive`, `SaveBundle`, `Invalidate`, with `SaveFails` and `SaveUnanswered`), and
`Restart`. Readings of the clock are inputs; equal and backward ones occur.

**`LanguageSync`** has several browsers of one account: `Choose` (record, then
announcement without waiting), `Begin`/`Pull`/`Decide`/`Land` (the exchange and
its two awaits), `PutRead` and then `PutSave`, `PutRepeat` (EF sends again a save
whose answer was lost) or `PutConflict` (the handler, any number of which overlap),
and losses (`Fail`, `Lose`). A stamp further ahead than `Skew` is clamped. The
history `mishaps` names what has gone round the rule: `overridden`, `clamped`,
`torn`. Time moves in twos and the fast clock of `language` is an odd number
ahead, so that no two stamps meet there; section 6 says what happens when they do.

**`ProgressSync`** has one browser with one tab, the account's and the cursor's
rows, and another machine. The reader opens, reveals, goes back, signs in and
out, forgets, dismisses lines and leaves the tab; a page arrives some time after
its reveal; the cycle is `Start` (pay what is owed first), `Ask`, `Pull`,
`Land`; each press of Forget is a task that waits for the cycle it found
(`AwaitRunning`), sends DELETE (`DeleteServed`, or a 401 and then
`AnonymousServed`) and clears the marker (`Paid`) or leaves it (`StillOwed`).
Being served and being answered are separate steps. History: places carry who
moved them (`by`) and after which press (`after`); `shown` is the furthest frame
the screen showed; `crossed` and `astray` record that one of the named
exceptions has occurred.

**`ReadingOrder`** has one signed-in reader, a browser and an agent's host. A
tool call is a run of requests with an await between any two: the places
(`Begin`, `Listed`, `Answer`), then by tool the gate and the opening
(`OpensFirst`, `OpenServed`, `Opened`), the step (`Shown`), or the look before an
advance and the advance (`Submits`, `HereServed`, `AdvanceServed`, `Advanced`);
being served and being answered are separate steps. The browser visits (its gate asks its own record),
reveals, records on arrival, syncs and forgets. `kept` is the process's
`editionAt`, the switch of edition the API does not carry until the step is
answered. At the API each request is one step, which `api_serial` justifies for
one reader's requests in turn and `InOrder` and `NoneSkipped` need no more of.

**`ReaderIds`** has the file as a sequence of lines, whether its last line is
ended, and each of the user's servers as a sequence of calls to the system:
`Look`, `Create` (exclusive), `Header`, `LookAgain` (how the file ends),
`AppendLine`, `Settle`; `CannotKeep` is the `catch`, `Restart` the host. A write
may add all of its text, all but the last line break, or a piece. A server asks
once and holds what it got (`api.ts:369`).

**`AccountLife`** has the account at the identity service, its two rows at the
API, the browser's session cookie and a request per tab: a page through the
middleware's gate, a reveal or a choice, a sign-in with its adoption, a sign-out
and a deletion. Every call climbs a ladder of `Rungs` addresses (`Following`:
what comes after an answer); one that timed out stays in `abandoned` and may
still be carried out, and one that an address answers which is not the service's
is taken at its status (`TakenForDone`, `Refused`): `behind` has the rows and
`misled` the tabs that such an answer is about. Answers arrive when they arrive and set or clear the one
cookie.

**`AccountEntry`** has the ways in: registration, confirmation, password, second
factor, reset and resend. A call (`Calls`) climbs its ladder; `CarryOut`
and `Says` are what the service makes of it, `Classified` what the code reads the answer as,
`Advances` whether the next address is asked, `Finishes` and the cookies what
the browser does with the outcome. The service's documents move, emails may be
off, and calls may be carried out unanswered. The identity service itself is
external and modelled from how these files use it.

**`Contribution`** is pure: the consent record (`Read`, `MayContribute`,
`Decided`), the attempt counter (`NextAttempt`, `Taken`), which lines of a run's
output and which frames of a check's docstring make a report (`OutcomesFrom`,
…). **`Tally`** is POST /outcomes: one read per cell, one save for all, a key
conflict, a repeated save. **`LabPane`** extends it with the pane, its worker
and its reports: `generation` is React state, `generationRef` its twin that is
written at once, `listening` the generation whose effect has run.
**`Worksheet`** extends `Contribution` with one cue frame's sheet in several
tabs: each has a snapshot, fields and what they were seeded from; `event` is a
storage event not heard yet.

The MC modules hold symmetry sets, clocks and small inputs. Definitions
introduced with "Slip:" are not part of a specification: each is a plausible
error in the definition that follows it, used to see that the property it is
listed with notices (`PROJECT.json`, "mutants").

## 3. Runs

| Run | Asks | Distinct states | Bounds |
|---|---|---|---|
| `api_race` | With any overlap, retry, conflict and cancellation: is everything stored or served earned, does every step refine the gate, can a forgotten place come back? | 48,594 | one account, its cursor, one program of up to 3 steps (bundles of 0, 2, 3), two requests in flight |
| `api_serial` | When requests naming one reader do not overlap: is each handler one atomic step of `FurthestWins`, whose rows never go back? | 180,430 | two programs of up to 2 steps, two editions |
| `api_overlap` | Does a row go back when they do overlap? (yes; section 6) | — | as `api_race` |
| `cache` | Is there one bundle to a tag, and what are all the causes of a stale entry? | 27,418 | three tags, two bodies, two clock readings, two reads, two ingestions |
| `language` | In what ways is a choice forgotten; does the account come to hold the newest; do browsers agree? | 893,726 | two browsers, one clock further ahead than the skew, two choices, PUTs that overlap, one upset: a message lost, a save repeated, a page left, or time that passes |
| `sync` | Do forgets hold and does nothing else lower the record; is the notice true; is a forget paid in the end, and does the browser reach the account's place? | 363,730 | one program of 2 steps, two presses of Forget, one sign-in, one loss |
| `order` | Is the book read in order on both surfaces, is a step ever skipped, does a switched edition stay? | 897,763 | programs of 3 and 1 steps, two editions, two calls at once and three in all, one visit, reveal, forget and loss |
| `ids` | Does an origin have one reader, whatever races, restarts and is cut short? | 404,656 | two servers of one API and one of another, four ids, two cut appends |
| `account` | Is anything left of a deleted account; is what the reader is told so; does a failure sign them out? | 2,840,677 | two tabs, two addresses, two sign-ins, one write, two deletions asked for, one visit, one stray: a late call or an answer of another's |
| `entry` | Is consent what was shown; is a mistake counted once; is a link kept while it works; is what a page says so? | 1,691,410 | two tabs, two addresses, three submissions, two versions of the documents, one call unanswered; six starts, of which some have an account and a link already mailed |
| `lab` | Is a stopped run over; is anything reported unasked; do tallies hold more than was reported; does a loading pane come back? | 190,935 | two runs, one stop, one decision, one report of another reader, one fault, two attempts at most |
| `worksheet` | Does a write cost another field or tab anything; is an answer locked and counted once? | 1,262,851 | two tabs, three texts, two pads, three visits to fields, three pages, one clear |

Why these bounds show something:

* Two requests are the least that race, and the most that matters for one row:
  a save compares the row only with what its own request read, so any third
  request acts on it only through the row. `Lengths` includes 0 so that a
  program disappears from the bundle between two requests. Three steps leave
  room for a row to be past another request's step by more than one. Beyond
  these bounds the proofs take over.
* `api_serial` has two programs and two editions, because adoption and forget
  are about all programs at once and the edition travels with the step.
* The cache needs one bundle cached, one newer and one to race it for its tag.
* Two language choices and one upset make each of the exchange's two awaits meet
  a newer choice and lose its announcement, and let two PUTs read one row and save
  in either order. The phone is 5 ahead and the skew 3: its stamp is clamped when
  it arrives at once and believed once 2 have passed. Nothing tells the editions
  apart, so the run has the first choice be `en` (`FirstIsEn`).
* Two frames make every shape of notice: at the frame shown, right after it
  (which could be this browser's own reveal), and, with nothing shown since a
  forget, with no frame before it. The second press is what meets the first.
  One sign-in allows one sign-out in the middle of a forget; one loss is a
  request, an answer, a refused bearer or the tab. More of each repeats these
  meetings.
* `order` needs a program to read (three steps, so that one can be skipped) and
  one behind it; the third call is the retry, or the call after a restart. With
  `MaxVisits` 2 the run also passes (3,644,691 states, above five minutes). The
  proofs take it to any track and any number of calls.
* `ids`: of the two servers of one origin one loses each race, the third appends
  in between; the fourth id is a restart's. The proof covers any number.
* `account`: two tabs are the least in which a sign-in meets a deletion; a
  second deletion is the repeat of one that stopped; two addresses make one late
  call and one that answers; one stray is a call carried out late or an answer that
  is not the service's, and either alone is what the properties except. `entry` likewise; the third submission is what
  follows a registration and a link. Both are proved for any numbers.
* `lab`: one run to stop, and one on the interpreter that replaces it. A cap of
  two attempts is reached by an earlier visit and one run.
* `worksheet`: write, reveal, turn back, write again, in one tab while another
  does the same; one of the texts is the book's.

What the main properties say:

* `NothingAhead`: each step before a stored or served one was answered, by this
  reader or by a cursor the account adopted.
* `AppearsAtTheStart`: where there was no row, one appears at step 1 or 2, or by
  adoption: an answer in flight when its row is deleted restores nothing.
* `StaleOnlyWhenLate`: a stale entry comes from a read a save has overtaken, or
  from a save whose answer was lost; there is no third cause.
* `HeldUnlessMishap`: the newest choice is in a browser, at the account or on its
  way, unless an exchange begun before it adopted over it, a stamp was clamped, or
  overlapping PUTs made a row of two choices. `NewestPrevails`: but for the same
  three, the account ends holding it, however the row went back and forth before.
* `ForgetsHold`: nothing forgotten returns to the record, and once nothing is
  owed nothing forgotten is left at the API, unless a press or the session's
  beginning or end has met a forget under way. `NoticeIsTrue`: the notice.
* `InOrder`: a place is in the first program, or the one before it had been
  entered since the last forget, or a request that looked before the forget made
  it (`stray`). `SwitchHolds`: a switch is lost only where another call was
  under way when it was made, with its place, or with the process.
* `NothingLeft`: a row under a gone account was filed after the deletion passed
  it, or was believed removed on another's word. `ToldIsSo`, `ToldIsTrue`: pages say
  what is so, also after a repeated call; "deleted" of a live account is told on
  another's 200 or 404 only (`misled`), which is also the only deletion that ends a
  good session of one (`FailureKeepsSession`).
* `OneCountForOneTry`: wrong answers counted are at most those submitted and the
  calls left unanswered. `LinkKeptWhileGood`: a link leaves the browser when it
  is spent.
* `CountsAreTrue`: a tally is at most what was reported, and exactly that when
  requests came one at a time and no save was repeated or given up.
* `FieldsKeepApart`, `AnsweredOnce`: the worksheet.
* `OneReader`: what the user's servers keep for an origin is one id, and no two
  origins share one, but for an origin whose line was run into (`spoiled`).

## 4. Fairness

Safety needs none; `AccountLife`, `AccountEntry`, `ReadingOrder`, `ReaderIds`
and `Worksheet` have none. `LanguageSync` assumes weak fairness of each
browser (`Exchange(b) \/ Serve(b)`: pages go on being loaded in it and each load
runs an exchange, and the server goes on with the requests it has sent; which of
the two goes on is not said). `ProgressSync`
assumes weak fairness of the cycle (`startSync` starts one on arrival, after each
change to the record and when the tab becomes visible; there is no timer, so
this is the assumption that the reader comes back to the product) and of
answering each forget's request. `LabPane` assumes weak fairness of what the
runtime itself does: React runs a pending effect, and a worker's messages are
delivered. Nothing is assumed of the reader's own actions: opening, revealing,
forgetting, signing in, pressing Check or Stop. No fairness is assumed of a page
arriving (`Arrive`) or of a hold being over either. Losses are bounded (`MaxLosses`, `MaxUpsets`): the liveness properties are about what happens when requests stop
being lost. The slips used with them show that without restarting cycles, without
paying first, or without rendering the stop, the properties fail.

## 5. Proofs

Checked by TLAPS for every value of the constants, from the assumptions on
constants the modules state (a cursor id is not an account's subject, `None` is
nobody, bounds are numbers, a ladder has an address, and the like).

Every safety property that a passing run checks is a theorem: its invariants, its
action properties and its two refinements. What a run shows on its bounds, the
theorem says for any number of readers, requests, tabs, servers, programs and
steps. Two theorems have a hypothesis on the constants, the setting of
`api_serial`: `~ Overlapping` (requests that name one reader do not overlap).
Without it the statements are false; section 6 says how.

**`ApiProofs`**, the gate: `TypeCorrect`, `PlacesAreEarned`,
`RequestsInFlightAreEarned`, `ServedStepsAreEarned`, `NothingIsAhead`,
`HandlersImplementGate` (the refinement of `RevealGate`). That rows are earned is
not inductive: a row is about to become what some request's plan says, and a plan
what an adoption has read. `IInv` therefore says it of all three: `RowsEarned`
for the table, `WritesEarned` for each plan, `TheirsEarned` for the rows an
adoption holds, with `CoherentJob` tying the fields of a request together and
`OnlyAccountsAdopt`, because adoption is not transitive. That what is earned
stays earned while other requests run is one lemma (`OthersStayGood`), which
rests on the history only growing. The refinement then needs one lemma for each
kind of save (`GateOpens`, `GateAnswers`, `GateAdopts`, `GateForgets`); all
other steps stutter. `RequestsInFlightAreEarned` has no run of its own: it is
the part of the invariant a reader should know of.

**`ApiProofs`**, places: `ForgottenStaysForgotten` adds one conjunct
(`FirstAnswer`): an advance that would insert a row answers the first step. An
advance planned over a row that is then deleted is an update, and EF refuses it.
`HandlersImplementPlaces`, the refinement of `FurthestWins`, and
`RowsNeverGoBack`, what `ProgressEndpoints.cs:16` says of every write, hold while
requests that name one reader do not overlap. The invariant (`SerialInv`) is that
those in flight name different readers, and that each holds what the table still
holds of the readers it names (`AsRead`), or is a committed save sent again, which
changes nothing a second time (`Repeats`, `AfterTwice`). A save is then the
description's step on the rows as they stand (`SaveIsOfPlaces`).

**`ApiProofs`**, the content cache: `CacheTypeCorrect` and
`StaleEntriesAreLate`. The strengthening is `ReadsAreNewest`: a read holding a
bundle that no save has overtaken holds a newest one, which is what `Store` puts
into the entry.

**`ProgressSyncProofs`**: `SyncTypeCorrect`, `ForgetsAreKept`, `NoticesAreTrue`,
`FurthestOnlyForgotten`. A forget is kept because nothing older is on its way.
`ForgetInv` follows it: the record, and what the cycle has pulled while nothing is
owed, date from after the last press (`BrowserIsFresh`); the marker stands as long
as a cycle older than the press may land; and the API's copies are fresh by how
far the press has come: the account's once its DELETE is served, the cursor's too
once that is (`ServerIsFresh`). It holds unless another press, or the session's
beginning or end, has met a forget under way (`crossed`). Of the notice, `NewsInv` says
that a line is at its program's furthest place and past what the screen has
shown, and `HereInv` that this browser's own moves are in its record or their
page is on its way, right after the frame last shown: so `couldBeOwnReveal`
holds a line back whenever it has to, unless one of the exceptions of section 6
has occurred (`astray`). `NoForgetWaitsInVain` says that no wake-up is lost: a
press that waits for the cycle waits for one that is still to end.

**`LanguageSyncProofs`**: `LanguageTypeCorrect`; `NewestChoiceIsHeld`, from
`KeptInv`, for any clocks, overlaps, losses and repeated saves. Where the row
goes does not matter to it: while nothing has gone round the rule (`mishaps` is
empty), a stamp is not corrected (`StampsKept`), a row is one choice, edition and
all (`AllChosen`), so what answers a PUT is as new as what was sent (`OwnPut`,
`ToldNoOlder`), and an exchange takes nothing older over the record it was sent
from. The newest choice is then in the record of a browser whose clock has passed
it (`NewestIsKept`): what replaces it there is newer. `OnlyAChoiceUnsettles` is
what `Agreement` needs beside fairness: browsers that agree with the account, with
no PUT on its way, agree until the next choice, whatever their clocks.

**`InstrumentProofs`**, the lab: `LabTypeCorrect`, `StoppedRunsAreOver`,
`NothingIsUnasked`, `TalliesAreTrue`. `WorkInv` ties the pane's status to the
worker, its job and the messages on their way, which are at most two; messages of
a superseded generation are not tied to anything, since they are dropped.
`VerdictInv` carries the reader's last decision from a verdict to its report.
`PanesAreNeverStranded` is what `ComesBack` needs beside fairness: a pane that
loads or runs has an effect, a boot, a message or a living worker's answer to come.
The tallies are bookkeeping by cardinality: a tally *fits* n reports when neither
its row nor what a request has read of it can pass n by the saves still to come
(`Fits`). A question's reports split into its two outcomes, and each tally fits
its share (`NoneTooMany`): a read, a save, a conflict and a repeated save keep
that, whatever overlaps, because EF writes one more than was read. That both
tallies together equal the reports (`NoneTooFew`) needs that one request at a time
was served and none given up, and that a report says one thing of a question
(`SaysOne`).

**`InstrumentProofs`**, the worksheet: `SheetTypeCorrect`, `FieldsAreKeptApart`,
`AnswersAreReportedOnce`. `HandKept` says that a field nobody stored into has the
hand's text, and that what is stored, what the page's snapshot has and what the
field was seeded from agree about it, so that re-seeding costs nothing; `PadIsKept`
says that where there is no sheet there is no committed pad and no mark to lose.
Reports are counted against the times the sheet was begun (`ReportsCounted`);
while no tab has written behind another's back, every page is `UpToDate`: it
knows of a mark that is there.

**`AccountLifeProofs`**: `AccountTypeCorrect`, `NothingIsLeft`,
`WhatIsToldIsSo`, `FailuresKeepTheSession`. The deletion takes the rows first and
the account last; `PassedRowsAreBehind` says that once a request is past a row, a
row found there was filed behind its back or not removed at all, also for the
calls that timed out, and `AnswersAreSo` what an answer on its way already means,
in a tab that no other address has misled.

**`AccountEntryProofs`**: `EntryTypeCorrect`, `ConsentWasShown`,
`MistakesCountOnce`, `PagesAreTrue`, `LinksAreKept`. What makes a call possible
when it is submitted must still hold when the service takes it, at any address or
late (`CallsSound`): an accepted version stays accepted, a link's password was in
force when it was mailed. `LinksSound` says so of links, `ToldIsTrue` is its
consequence for answers. The count is by cardinality (`MistakesCovered`): calls
under way, and those left behind, stand for mistakes not yet counted.

**`ReadingOrderProofs`**: `OrderTypeCorrect`, `TheBookIsReadInOrder`,
`NoStepIsSkipped`, `SwitchesHold`. The first two rest on what a request knew when
it was sent: a call past its gate names a program that was open to places the
account had, or has forgotten since (`CallsSound`, `SendingSound`,
`PlacesInOrder`, `PageSound`, `NoneSkipped`). The switch needs that a switch made
alone is at or behind the place, and so is all that later calls have been told of
(`SwitchesHeld`, `ToldIsBehind`).

**`ReaderIdsProofs`**: `IdsTypeCorrect`, `OneReaderAnOrigin`, `FirstLinesWin`.
`OneReader` is about what was kept, the file about what is kept next: `KeptIsFirst`
says that an id kept for an origin is the one its first line holds, `IdsApart`
that the ids of the file, and those kept before, belong to one origin each. An
append adds a line behind the first or makes the last unreadable (`Appended`,
`FirstStays`); that there is a first line at all is the library's theorem on
minimal elements.

Model-checked only: liveness. `Agreement` (browsers come to hold the account's
edition), `NewestPrevails`, `ForgetIsPaid`, `CatchesUp` and `ComesBack` rest on
fairness, so on ENABLED, which the prover does not reason about; of four of them a
part that needs none is proved (of `NewestPrevails`, that the choice is still held). `Monotone` without the hypothesis of
`RowsNeverGoBack` is refuted by `api_overlap`. `RevealGate`, `FurthestWins` and
`Contribution` have no theorems of their own: the first two are what is implemented,
the third's operators are used, with lemmas, in `InstrumentProofs`.

## 6. Where the code and its words differ

`ProgressEndpoints.cs:16-18` says the stored step is monotone so that the order
writes arrive in stops mattering. Two overlapping advances save in the other
order than they read, and the row goes back a step (`api_overlap`). What was
served is unaffected: the reader is asked an answered step again.

Observed while modelling, without a run of their own. Places and forgets:

* `progress/sync.ts:370` says a forget cannot be undone from its own tab. The
  marker is one flag: a Forget pressed while an earlier forget's DELETE, sent by
  a cycle, is served and not answered loses its marker to that answer (line 398),
  and the cycle goes on to pull and write back. `ForgetsHold` excepts it
  (`crossed`).
* A forget owed to an account, followed by signing out, is taken for paid by the
  401 of the next DELETE, since nothing is then signed in; the account's copy
  returns at the next sign-in. This is the session's side of `crossed`.
* With no `last` (just after a forget), `couldBeOwnReveal` is false, so a reveal
  of this browser's own that is pulled before its page arrives is told at once
  (part of `astray`).
* An edition switched on the furthest frame is a tie, so the account's edition
  is taken back at the next cycle.
* `ContentBundleCache.cs:24-26` says an entry can never go stale. A read that
  queried before a save and stores after its `Invalidate` leaves the older
  bundle until the next ingestion or restart; `StaleOnlyWhenLate` names it.

Edition:

* `language/sync.ts:182-185` says a choice whose announcement is lost is sent by
  the next exchange. One already under way adopts the account's older choice
  over it (lines 141, 172; `overridden`).
* `PreferenceEndpoints.cs:117` says "The stored row keeps whichever choice is
  newer". A PUT compares with the row it read, so of two that overlap the older
  can save last and the row goes back. The browser that has the newer one sends it
  again at its next exchange: `NewestPrevails` is what is left of the sentence.
* Two overlapping PUTs can also leave one choice's edition under the other's
  stamp, because EF writes only the columns that differ from what each read
  (`torn`). The browser that made the newer choice sees its own stamp there and
  does not send it again, so it and the others may show different editions until
  the reader chooses again; another browser adopts the mixture as it is.
* A choice from a clock beyond the skew is dated anew each time it is pushed
  (line 87), and replaces later ones, though line 117 says the newer stays and
  30-32 that a clamped stamp costs nothing (`clamped`).
* Two choices of different editions with one stamp, which a clamp can also make,
  are never reconciled: neither is newer, so each browser keeps its own. The
  clocks of `language` keep stamps apart.

Worksheet and instrument:

* `answer-line.tsx:145-147` says a field adopts the record's answer only when
  that answer changed since the field was seeded. The field's own commit changes
  it and re-seeds nothing (line 187 sets no state): write a line, leave it, come
  back and type, and the render of that keystroke puts the committed text back.
  The first keystroke after every commit that changed the line is lost; the pad
  (`working.tsx:114`) does the same. `FieldsKeepApart` excepts a field's own
  commits (`rewritten`).
* Focusing and leaving the answer line creates an empty sheet, so the next reveal
  counts a blank fail, though `consent/store.ts:64-67` and `you-wrote.tsx:100`
  say that a paper reader is never counted.
* A reveal that arrives by a full load is not reported until something else
  renders; two tabs may each report one answer; a locked line can be overwritten
  by a blur in another tab, and a blank revealed one still written
  (`AnsweredOnce` is about one tab: `crossed`).
* "Clear my worksheets" in one tab does not empty a field of another whose text
  was committed and never rendered again (`sheet/client.ts:38-39`); "Clear my
  answer" likewise.
* `consent/store.ts:194-196` says that a refused write means the reader
  contributes nothing. It leaves the stored answer in force, and where that was a
  yes, a withdrawal has no effect (line 207). `NothingUnasked` excepts it
  (`unkept`); `WithdrawalHolds` is the statement without the exception.
* `OutcomeEndpoints.cs:97-103` calls a lost increment acceptable; two reports
  that both insert a tally lose the whole report of one of them.

Account and session:

* The gate clears the cookies also of a session it could not verify
  (`middleware.ts:73-87,113-123`), though `session/route.ts:138-141` says
  "Deleting a good session because a machine was cold is a logout nobody asked
  for". Its redirect can also clear a session begun since in another tab.
* `delete-account.ts:232-234` says of an address that is not the identity
  service's that "Any status but 200 then reads as `unavailable`". By
  `classifyDeleteResponse` its 404 reads as no such account and its 401 as a
  refused bearer, and its 200 as a deletion: the reader is told that the account is
  deleted and the cookies go while it is live (`misled`), though the route's comment
  above `clearSession` says that clearing otherwise than on success would sign out
  a reader whose account still exists. In the same way its 204 is a row forgotten
  (`account-deletion.ts:140`), which then stays under a gone account (`behind`).
* A row filed by a reveal, a choice or an adoption in flight after the deletes
  stays under a gone account (`account-deletion.ts:204-206`; `behind`). A timed-out
  DELETE may be carried out after the reader was told the deletion failed, and a
  late one of the progress may take places read since.
* `2fa/route.ts` clears a challenge that may be newer, from another tab, and also
  on a rate limit or an outage, when it could be used again.
* The answer for an older reset link clears a newer link another tab has opened
  (`recovery-routes.ts`, `answerLinkUse`); `LinkKeptWhileGood` is about the link
  a request used. A reset carried out late changes the password after the
  reader was told it failed.
* An address that takes a wrong password or code and does not answer in time
  makes the next one count it again (`sign-in.ts`, `second-factor.ts`); this is
  the `+ lost` of `OneCountForOneTry`.

Agent:

* `submit_answer` says "Recorded as the reader's answer" also when another
  request answered the step between its look and its advance
  (`tools.ts:1821-1825`).
* Opening frame 1 on the website makes no row at the account (ADR-0068), so the
  next program is open in that browser and shut to the agent and on another
  machine, though `gate.ts:38-41` and `tools.ts:1203-1210` say the rule is one.
  Revealing in the second program after only opening the first leaves an account
  place in the second and none in the first.
* A switch of edition kept in the process survives a forget that the agent did
  not look in between, and comes back at the same step; it is lost when another
  call overlaps it.
* An opening recorded after a forget, a form having been outstanding, makes a
  place out of the order (`stray`).
* `identity.ts`'s header says that two hosts end on one id. A server that reads
  how the file ends before another's line is there, and appends after that line
  has lost its line break (a full disk), runs into it: both become unreadable, the
  other goes on reading under its id, and the next server mints another
  (`spoiled`).

## 7. Not modelled

The map covers about 11 % of the repository's implementation lines. Most of the
rest has no behaviour over time: rendering (`components`, pages), the texts of
two languages (`lib/i18n/chrome.ts` alone is 3,000 lines), the wording of tool
results and refusals (`web/mcp`), parsing and shape checks of a bundle
(`web/web-kit`), validation of requests, hosting and seeding. A share of 30 %
would have to be made of those.

* A second tab over `ProgressSync`'s record: its cycles, its forget, storage
  events. A DELETE that outlives its tab (`keepalive`) is served before the tab
  ends or not at all; served later it could also take reading done since.
* The pad's calculator (`lib/sheet/evaluate.ts`): a tokenizer and a recursive
  descent over text and floating-point numbers; the sketch (IndexedDB) and the
  export of a worksheet.
* Rates: real-number statistics over the tallies.
* The proxy's own ladder of addresses and its header rules: stateless; a request
  lost in it is a loss in the modules. Verification of tokens and their keys.
* Of the MCP server: `list_programs`, `review_step` and the summary, which change
  nothing, and its anonymous reader's places, which `ProgressApi` has.
* Data left out of modelled parts: `UpdatedAt` of a place (read by the browser
  only to choose `last`, where `MergedLasts` allows any row), shapes of
  identifiers, rate limits, what a step contains, the debounce and hold times (a
  hold is over at any moment), recovery codes and the expiry of a mailed link.

## 8. Plan

Done: the modules of section 2, and a theorem for each of their safety
properties. What would add most next:

1. Proofs: that `ForgetsAreKept` and `NoticesAreTrue` need their exceptions only as
   far as section 6 names them, by splitting `crossed` and `astray` into their
   causes; what the browser's record and the account's places have in common
   after a cycle, the part of `CatchesUp` that needs no fairness.
2. `TwoTabs`: a second tab over `ProgressSync`'s record, with its storage events;
   the forget that waits for its own tab's cycle only (`sync.ts:370`).
3. The proxy's ladder with its deferred 403, as a call of `AccountLife`.
4. The calculator's grammar as operators over token sequences, against a
   reference definition of precedence and of what is refused.

## 9. How to run

In this directory, `tlc -config api_race.cfg MCProgressApi` and so on: the module
of each configuration is in `PROJECT.json` ("runs"). `tlapm ApiProofs.tla` and
likewise for `AccountEntryProofs`, `AccountLifeProofs`, `InstrumentProofs`,
`LanguageSyncProofs`, `ProgressSyncProofs`, `ReaderIdsProofs` and
`ReadingOrderProofs` check the proofs; `ApiProofs` and `InstrumentProofs` take
some minutes from nothing.

Deadlock is checked except in `lab`, `worksheet`, `account`, `entry` and `order`
(`CHECK_DEADLOCK FALSE`): there every action of a reader is bounded by a counter,
so a behaviour ends when the counters are used up and nothing is under way. The
longest runs (`language`, `lab`, `sync`, `entry`) take about two minutes on two cores.

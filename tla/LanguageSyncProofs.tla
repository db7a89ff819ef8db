--------------------------- MODULE LanguageSyncProofs ---------------------------
(***************************************************************************)
(* Theorems about LanguageSync, for any number of browsers, editions,      *)
(* choices and upsets, whatever the clocks and however PUTs overlap.       *)
(*                                                                         *)
(* The invariant that carries HeldUnlessMishap says where the newest       *)
(* choice is while none of the named mishaps has happened: in the record   *)
(* of a browser on which nothing older can be chosen any more, as its      *)
(* clock has passed the choice.  It needs to know that whatever is handed  *)
(* around was chosen and keeps its edition and its stamp, and that an      *)
(* exchange only adopts what is at least as new as what it started from.   *)
(***************************************************************************)
EXTENDS LanguageSync, FiniteSetTheorems, TLAPS

-----------------------------------------------------------------------------
(* The parts of the inductive invariant.                                   *)

\* A row that was read is still there.
RowsStay == \A p \in puts : p.seen # None => account # None

TypeInv == TypeOK /\ IsFiniteSet(made) /\ RowsStay

\* One of the reader's choices, under the stamp it was chosen with.
Among(choices, x) ==
    x = None \/ \E d \in choices : d.nth = x.nth /\ d.at = x.at /\ d.lang = x.lang
Chosen(x) == Among(made, x)

AllChosen ==
    /\ \A b \in Browsers : Chosen(local[b]) /\ Chosen(sync[b].held) /\ Chosen(sync[b].remote)
    /\ Chosen(account)
    /\ \A p \in puts : Chosen(p.choice) /\ Chosen(p.seen)

\* A PUT is compared under the stamp the choice was made with.
StampsKept == \A p \in puts : p.phase = "read" => p.stamp = p.choice.at

\* The PUT an exchange waits for is its own, the only one, and of its record.
OwnPut ==
    /\ \A p \in puts : p.awaited => sync[p.from].phase = "push" /\ sync[p.from].held = p.choice
    /\ \A p, q \in puts : p.awaited /\ q.awaited /\ p.from = q.from => p = q

\* What an exchange is told stands there is as new as what it sent.
ToldNoOlder ==
    \A b \in Browsers : sync[b].phase = "landed" =>
        sync[b].held # None /\ sync[b].remote.at >= sync[b].held.at

\* The record of b is c, and b's clock has passed it.
Keeps(b, c) ==
    /\ IsChoice(local[b], c) /\ local[b].at = c.at
    /\ c.at <= now + Ahead[b]

NewestIsKept == \A c \in made : NewestIs(c) => \E b \in Browsers : Keeps(b, c)

KeptInv ==
    /\ TypeInv /\ OwnPut
    /\ mishaps = {} => AllChosen /\ StampsKept /\ ToldNoOlder /\ NewestIsKept

-----------------------------------------------------------------------------
(* Types.                                                                  *)

Exchanges == [phase : {"idle", "pull", "pulled", "push", "landed"}, held : Held, remote : Held]
Puts == [from : Browsers, awaited : BOOLEAN, choice : Choice, phase : {"sent", "read"},
         seen : Held, stamp : Nat]

(* An exchange that changes leaves the others as they are.                 *)
LEMMA OneExchange ==
    ASSUME TypeOK, NEW b \in Browsers, NEW exchange \in Exchanges,
           sync' = [sync EXCEPT ![b] = exchange]
    PROVE  /\ sync' \in [Browsers -> Exchanges]
           /\ sync'[b] = exchange
           /\ \A other \in Browsers \ {b} : sync'[other] = sync[other]
  BY DEF TypeOK, Exchanges

\* An idle exchange is one, and idle.
LEMMA IdleExchange == Idle \in Exchanges /\ Idle.phase = "idle"
  BY DEF Idle, Exchanges, Held

\* What an announcement sends is a request.
LEMMA SentIsAPut ==
    ASSUME NEW b \in Browsers, NEW choice \in Choice
    PROVE  LET own == Sent(b, choice, TRUE)
               announced == Sent(b, choice, FALSE)
           IN  /\ own \in Puts /\ own.awaited
               /\ announced \in Puts /\ ~ announced.awaited
               /\ \A p \in {own, announced} :
                     p.from = b /\ p.choice = choice /\ p.phase = "sent" /\ p.seen = None
  BY DEF Sent, Puts, Held

(* The choice a reader makes next: a new number, and within the bound.     *)
LEMMA NextChoice ==
    ASSUME TypeInv, NEW b \in Browsers, NEW lang \in Languages,
           Cardinality(made) + 1 <= MaxChoices
    PROVE  LET choice == [lang |-> lang, at |-> now + 2 + Ahead[b], nth |-> Cardinality(made) + 1]
           IN  choice \in Choice /\ IsFiniteSet(made \cup {choice})
  <1>1. Cardinality(made) \in Nat
    BY FS_CardinalityType DEF TypeInv
  <1>2. Ahead[b] \in Nat
    BY ClocksAssumption
  <1>3. Cardinality(made) + 1 \in 1 .. MaxChoices
    BY <1>1, BoundsAssumption
  <1>4. \A choice : IsFiniteSet(made \cup {choice})
    BY FS_AddElement DEF TypeInv
  <1>5. now + 2 + Ahead[b] \in Nat
    BY <1>2 DEF TypeInv, TypeOK
  <1>6. QED
    BY <1>3, <1>4, <1>5 DEF Choice

(* What the server makes of a PUT it has read.                             *)
LEMMA ReadIsAPut ==
    ASSUME TypeOK, NEW p \in puts
    PROVE  LET read == [p EXCEPT !.phase = "read", !.seen = account, !.stamp = Stamp(p.choice)]
           IN  /\ read \in Puts /\ read.phase = "read" /\ read.seen = account
               /\ read.stamp = Stamp(p.choice)
               /\ read.from = p.from /\ read.awaited = p.awaited /\ read.choice = p.choice
  <1>1. p \in Puts
    BY DEF TypeOK, Puts
  <1>2. Stamp(p.choice) \in Nat
    BY <1>1 DEF Stamp, TypeOK, Puts, Choice
  <1>3. QED
    BY <1>1, <1>2 DEF TypeOK, Puts

(* The row and the answer after a save.                                    *)
LEMMA SavedAndTold ==
    ASSUME TypeInv, NEW p \in puts, p.phase = "read", p.seen = None => account = None
    PROVE  /\ Stored(p) \in Held /\ Answer(p) \in Choice
           /\ Stored(p) = None => account = None
           /\ Wins(p) => Stored(p).at = p.stamp /\ Stored(p).nth = p.choice.nth
           /\ Wins(p) => /\ Answer(p).at = p.stamp /\ Answer(p).nth = p.choice.nth
                         /\ Answer(p).lang = p.choice.lang
           /\ ~ Wins(p) => Stored(p) = account /\ Answer(p) = p.seen /\ p.seen.at >= p.stamp
  <1>1. p \in Puts /\ p.choice \in Choice /\ p.stamp \in Nat /\ p.seen \in Held
    BY DEF TypeInv, TypeOK, Puts
  <1>2. p.seen # None => account # None /\ account \in Choice /\ p.seen \in Choice
    BY <1>1 DEF TypeInv, TypeOK, RowsStay, Held
  <1>3. CASE Wins(p)
    <2>1. Stored(p) \in Choice
      BY <1>1, <1>2, <1>3 DEF Stored, Choice
    <2>2. Answer(p) \in Choice
      BY <1>1, <1>3 DEF Answer, Choice
    <2>3. QED
      BY <1>1, <1>3, <2>1, <2>2, NoneAssumption DEF Stored, Answer, Held, Choice
  <1>4. CASE ~ Wins(p)
    BY <1>1, <1>2, <1>4 DEF Wins, Stored, Answer, TypeInv, TypeOK, Held, Choice
  <1>5. QED  BY <1>3, <1>4

(* An exchange that ends stops waiting for its PUT, and changes no other.  *)
LEMMA LeftPuts ==
    ASSUME TypeOK, NEW b \in Browsers, Fail(b)
    PROVE  \A q \in puts' : \E p \in puts :
              /\ q = (IF p.from = b THEN [p EXCEPT !.awaited = FALSE] ELSE p)
              /\ q.from = p.from /\ q.choice = p.choice /\ q.phase = p.phase
              /\ q.seen = p.seen /\ q.stamp = p.stamp
              /\ q.awaited => p.awaited /\ p.from # b
  <1>. DEFINE Left(p) == IF p.from = b THEN [p EXCEPT !.awaited = FALSE] ELSE p
  <1>1. \A p \in puts :
           /\ Left(p).from = p.from /\ Left(p).choice = p.choice /\ Left(p).phase = p.phase
           /\ Left(p).seen = p.seen /\ Left(p).stamp = p.stamp
           /\ Left(p).awaited => p.awaited /\ p.from # b
    BY DEF TypeOK
  <1>2. puts' = {Left(p) : p \in puts}
    BY DEF Fail
  <1>. HIDE DEF Left
  <1>. SUFFICES ASSUME NEW q \in puts'
                PROVE  \E p \in puts :
                          /\ q = Left(p)
                          /\ q.from = p.from /\ q.choice = p.choice /\ q.phase = p.phase
                          /\ q.seen = p.seen /\ q.stamp = p.stamp
                          /\ q.awaited => p.awaited /\ p.from # b
    BY DEF Left
  <1>3. PICK p \in puts : q = Left(p)
    BY <1>2
  <1>4. QED
    BY <1>1, <1>3, Zenon

LEMMA TypeInit == Init => TypeInv
  <1>. SUFFICES ASSUME Init PROVE TypeInv
    OBVIOUS
  <1>1. IsFiniteSet(made)
    BY FS_EmptySet DEF Init
  <1>2. sync \in [Browsers -> Exchanges] /\ \A b \in Browsers : sync[b].phase # "landed"
    BY IdleExchange DEF Init
  <1>3. RowsStay /\ puts = {} /\ made = {}
    BY DEF Init, RowsStay
  <1>4. local \in [Browsers -> Held] /\ account \in Held
    BY DEF Init, Held
  <1>5. 1 \in Nat /\ 0 \in 0 .. MaxUpsets
    BY BoundsAssumption
  <1>6. now \in Nat /\ upsets \in 0 .. MaxUpsets
    BY <1>5 DEF Init
  <1>7. mishaps \subseteq Mishaps
    BY DEF Init
  <1>8. QED
    BY <1>1, <1>2, <1>3, <1>4, <1>6, <1>7 DEF TypeInv, TypeOK, Exchanges

LEMMA TypeStep == TypeInv /\ [Next]_vars => TypeInv'
  <1>. SUFFICES ASSUME TypeInv, [Next]_vars PROVE TypeInv'
    OBVIOUS
  <1>. USE IdleExchange
  <1>0. puts \subseteq Puts /\ sync \in [Browsers -> Exchanges]
    BY DEF TypeInv, TypeOK, Puts, Exchanges
  <1>1. ASSUME NEW b \in Browsers, Begin(b) PROVE TypeInv'
    <2>1. [phase |-> "pull", held |-> local[b], remote |-> None] \in Exchanges
      BY DEF TypeInv, TypeOK, Exchanges, Held
    <2>2. QED
      BY <1>1, <2>1, OneExchange DEF Begin, TypeInv, TypeOK, RowsStay, Exchanges
  <1>2. ASSUME NEW b \in Browsers, Pull(b) PROVE TypeInv'
    <2>1. [sync[b] EXCEPT !.phase = "pulled", !.remote = account] \in Exchanges
      BY <1>0 DEF TypeInv, TypeOK, Exchanges
    <2>2. sync' = [sync EXCEPT ![b] = [sync[b] EXCEPT !.phase = "pulled", !.remote = account]]
      BY <1>0, <1>2 DEF Pull, Exchanges
    <2>3. sync' \in [Browsers -> Exchanges]
          /\ \A c \in Browsers : sync'[c].phase = "landed" => sync'[c].remote # None
      BY <1>0, <2>1, <2>2, OneExchange DEF TypeInv, TypeOK, Exchanges
    <2>4. QED
      BY <1>2, <2>3 DEF Pull, TypeInv, TypeOK, RowsStay, Exchanges
  <1>3. ASSUME NEW b \in Browsers, Decide(b) PROVE TypeInv'
    <2>1. sync[b] \in Exchanges /\ sync[b].remote \in Held /\ sync[b].held \in Held
      BY <1>0 DEF Exchanges
    <2>2. CASE sync' = [sync EXCEPT ![b] = Idle]
      <3>1. sync' \in [Browsers -> Exchanges]
            /\ \A c \in Browsers : sync'[c].phase = "landed" => sync'[c].remote # None
        BY <2>2, OneExchange DEF TypeInv, TypeOK
      <3>2. puts' \subseteq Puts /\ RowsStay'
        <4>1. CASE UNCHANGED puts
          BY <1>0, <1>3, <4>1 DEF Decide, TypeInv, RowsStay
        <4>2. CASE Newer(sync[b].held, sync[b].remote) /\ puts' = puts \cup {Sent(b, sync[b].held, TRUE)}
          <5>1. sync[b].held \in Choice
            BY <2>1, <4>2 DEF Newer, Held, Choice
          <5>. DEFINE own == Sent(b, sync[b].held, TRUE)
          <5>2. own \in Puts /\ own.seen = None
            BY <5>1, SentIsAPut
          <5>. HIDE DEF own
          <5>3. QED
            BY <1>0, <1>3, <4>2, <5>2 DEF own, Decide, TypeInv, RowsStay
        <4>3. QED  BY <1>3, <4>1, <4>2 DEF Decide
      <3>3. local' \in [Browsers -> Held] /\ mishaps' \subseteq Mishaps
        BY <1>3, <2>1 DEF Decide, Adopt, Happens, Mishaps, TypeInv, TypeOK
      <3>4. QED
        BY <1>3, <3>1, <3>2, <3>3 DEF Decide, TypeInv, TypeOK, Exchanges, Puts
    <2>3. CASE /\ Newer(sync[b].held, sync[b].remote)
               /\ sync' = [sync EXCEPT ![b].phase = "push", ![b].remote = None]
               /\ puts' = puts \cup {Sent(b, sync[b].held, TRUE)}
               /\ UNCHANGED <<local, mishaps>>
      <3>1. sync[b].held \in Choice
        BY <2>1, <2>3 DEF Newer, Held, Choice
      <3>. DEFINE own == Sent(b, sync[b].held, TRUE)
      <3>2. own \in Puts /\ own.seen = None
        BY <3>1, SentIsAPut
      <3>. HIDE DEF own
      <3>3. puts' \subseteq Puts /\ RowsStay'
        BY <1>0, <1>3, <2>3, <3>2 DEF own, Decide, TypeInv, RowsStay
      <3>4. [sync[b] EXCEPT !.phase = "push", !.remote = None] \in Exchanges
        BY <2>1 DEF Exchanges, Held
      <3>5. sync' \in [Browsers -> Exchanges]
            /\ \A c \in Browsers : sync'[c].phase = "landed" => sync'[c].remote # None
        BY <1>0, <2>1, <2>3, <3>4, OneExchange DEF TypeInv, TypeOK, Exchanges
      <3>6. QED
        BY <1>3, <2>3, <3>3, <3>5 DEF Decide, TypeInv, TypeOK, Exchanges, Puts
    <2>4. QED  BY <1>3, <2>2, <2>3 DEF Decide
  <1>4. ASSUME NEW b \in Browsers, Land(b) PROVE TypeInv'
    <2>1. local' \in [Browsers -> Held] /\ mishaps' \subseteq Mishaps
      BY <1>0, <1>4 DEF Land, Adopt, Happens, Mishaps, TypeInv, TypeOK, Exchanges
    <2>2. QED
      BY <1>4, <2>1, OneExchange DEF Land, TypeInv, TypeOK, RowsStay, Exchanges
  <1>5. ASSUME NEW b \in Browsers, NEW p \in puts, PutRead(p) PROVE TypeInv'
    <2>1. puts' \subseteq Puts /\ RowsStay'
      BY <1>0, <1>5, ReadIsAPut DEF PutRead, TypeInv, RowsStay
    <2>2. QED
      BY <1>5, <2>1 DEF PutRead, Happens, Mishaps, TypeInv, TypeOK, Puts
  <1>6. ASSUME NEW p \in puts, Commit(p)
         PROVE  /\ account' \in Held /\ Answer(p) \in Choice
                /\ account' = None => account = None
                /\ mishaps' \subseteq Mishaps
    BY <1>6, SavedAndTold DEF Commit, Happens, Mishaps, TypeInv, TypeOK
  <1>7. ASSUME NEW p \in puts, PutRepeat(p) PROVE TypeInv'
    <2>1. /\ account' \in Held /\ (account' = None => account = None)
          /\ mishaps' \subseteq Mishaps
      BY <1>6, <1>7 DEF PutRepeat
    <2>2. upsets' \in 0 .. MaxUpsets
      BY <1>7, BoundsAssumption DEF PutRepeat, TypeInv, TypeOK
    <2>3. QED
      BY <1>7, <2>1, <2>2 DEF PutRepeat, TypeInv, TypeOK, RowsStay
  <1>8. ASSUME NEW p \in puts, PutSave(p) PROVE TypeInv'
    <2>1. /\ account' \in Held /\ Answer(p) \in Choice /\ (account' = None => account = None)
          /\ mishaps' \subseteq Mishaps
      BY <1>8, <1>6 DEF PutSave
    <2>2. /\ sync' \in [Browsers -> Exchanges]
          /\ \A c \in Browsers : sync'[c].phase = "landed" => sync'[c].remote # None
      <3>1. CASE p.awaited
        <4>. DEFINE told == [sync[p.from] EXCEPT !.phase = "landed", !.remote = Answer(p)]
        <4>1. p.from \in Browsers /\ sync[p.from] \in Exchanges
          BY <1>0 DEF Puts
        <4>2. told \in Exchanges /\ told.remote # None
          BY <2>1, <4>1, NoneAssumption DEF Exchanges, Held
        <4>3. sync' = [sync EXCEPT ![p.from] = told]
          BY <1>0, <1>8, <3>1, <4>1 DEF PutSave, Exchanges
        <4>. HIDE DEF told
        <4>4. QED
          BY <4>1, <4>2, <4>3, OneExchange DEF TypeInv, TypeOK
      <3>2. CASE ~ p.awaited
        BY <1>0, <1>8, <3>2 DEF PutSave, TypeInv, TypeOK
      <3>3. QED  BY <3>1, <3>2
    <2>3. puts' \subseteq Puts /\ RowsStay'
      BY <1>0, <1>8, <2>1 DEF PutSave, TypeInv, RowsStay
    <2>4. QED
      BY <1>8, <2>1, <2>2, <2>3 DEF PutSave, TypeInv, TypeOK, Exchanges, Puts
  <1>9. ASSUME NEW p \in puts, PutConflict(p) \/ Lose(p) PROVE TypeInv'
    <2>1. p.from \in Browsers
      BY <1>0 DEF Puts
    <2>2. /\ sync' \in [Browsers -> Exchanges]
          /\ \A c \in Browsers : sync'[c].phase = "landed" => sync'[c].remote # None
      <3>1. CASE sync' = [sync EXCEPT ![p.from] = Idle]
        BY <2>1, <3>1, OneExchange DEF TypeInv, TypeOK
      <3>2. CASE sync' = sync
        BY <1>0, <3>2 DEF TypeInv, TypeOK
      <3>3. QED  BY <1>9, <3>1, <3>2 DEF PutConflict, Lose
    <2>3. puts' \subseteq Puts /\ RowsStay'
      BY <1>0, <1>9 DEF PutConflict, Lose, TypeInv, RowsStay
    <2>4. upsets' \in 0 .. MaxUpsets
      BY <1>9, BoundsAssumption DEF PutConflict, Lose, TypeInv, TypeOK
    <2>5. QED
      BY <1>9, <2>2, <2>3, <2>4 DEF PutConflict, Lose, TypeInv, TypeOK, Exchanges, Puts
  <1>10. ASSUME NEW b \in Browsers, Fail(b) PROVE TypeInv'
    <2>1. \A p \in puts : LET left == [p EXCEPT !.awaited = FALSE] IN
             left \in Puts /\ left.seen = p.seen
      BY <1>0 DEF Puts
    <2>2. puts' \subseteq Puts /\ RowsStay'
      BY <1>0, <1>10, <2>1 DEF Fail, TypeInv, RowsStay
    <2>3. upsets' \in 0 .. MaxUpsets
      BY <1>10, BoundsAssumption DEF Fail, TypeInv, TypeOK
    <2>4. QED
      BY <1>10, <2>2, <2>3, OneExchange DEF Fail, TypeInv, TypeOK, Exchanges, Puts
  <1>11. ASSUME NEW b \in Browsers, NEW lang \in Languages, Choose(b, lang) PROVE TypeInv'
    <2>. DEFINE choice == [lang |-> lang, at |-> now + 2 + Ahead[b], nth |-> Cardinality(made) + 1]
    <2>1. choice \in Choice /\ IsFiniteSet(made \cup {choice})
      BY <1>11, NextChoice DEF Choose
    <2>2. /\ now' = now + 2 /\ made' = made \cup {choice}
          /\ local' = [local EXCEPT ![b] = choice]
          /\ puts' = puts \cup {Sent(b, choice, FALSE)}
          /\ UNCHANGED <<account, sync, upsets, mishaps>>
      BY <1>11 DEF Choose
    <2>. HIDE DEF choice
    <2>3. Sent(b, choice, FALSE) \in Puts /\ Sent(b, choice, FALSE).seen = None
      BY <2>1, SentIsAPut
    <2>4. puts' \subseteq Puts /\ RowsStay'
      BY <1>0, <2>2, <2>3 DEF TypeInv, RowsStay
    <2>5. local' \in [Browsers -> Held] /\ made' \subseteq Choice
      BY <2>1, <2>2 DEF TypeInv, TypeOK, Held
    <2>6. now' \in Nat /\ IsFiniteSet(made')
      BY <2>1, <2>2 DEF TypeInv, TypeOK
    <2>7. QED
      BY <2>2, <2>4, <2>5, <2>6 DEF TypeInv, TypeOK, Puts
  <1>12. CASE Tick
    BY <1>12, BoundsAssumption DEF Tick, TypeInv, TypeOK, RowsStay
  <1>13. CASE UNCHANGED vars
    BY <1>13 DEF vars, TypeInv, TypeOK, RowsStay
  <1>14. QED
    BY <1>1, <1>2, <1>3, <1>4, <1>5, <1>8, <1>9, <1>10, <1>11, <1>12, <1>13, <1>7
    DEF Next, Exchange, Serve

(* What browsers, the account, exchanges and PUTs hold keeps its type, for *)
(* any number of browsers and choices (lib/language, PreferenceEndpoints). *)
THEOREM LanguageTypeCorrect == Spec => []TypeOK
  <1>1. TypeInv => TypeOK
    BY DEF TypeInv
  <1>2. QED
    BY <1>1, TypeInit, TypeStep, PTL DEF Spec

-----------------------------------------------------------------------------
(* The newest choice, while nothing has gone round the rule.               *)

(* What has gone round the rule once is remembered, and nothing has yet    *)
(* only if nothing does now.                                               *)
LEMMA NoMishapYet ==
    ASSUME [Next]_vars, mishaps' = {}
    PROVE  /\ mishaps = {}
           /\ \A b \in Browsers : Adopt(b) => local[b] = sync[b].held
           /\ \A p \in puts : PutRead(p) => Stamp(p.choice) = p.choice.at
           /\ \A p \in puts : Commit(p) => ~ Wins(p) \/ Stored(p).lang = p.choice.lang
  <1>1. \A mishap, when : Happens(mishap, when) => mishaps = {} /\ ~ when
    BY DEF Happens
  <1>2. mishaps' = mishaps \/ \E mishap, when : Happens(mishap, when)
    BY DEF Next, Exchange, Serve, Begin, Pull, Decide, Adopt, Land, PutRead, PutSave, PutRepeat,
           Commit, PutConflict, Lose, Fail, Choose, Tick, vars
  <1>3. QED
    BY <1>1, <1>2 DEF Adopt, PutRead, Commit

(* What is changed by each kind of step of the reader's choices.           *)
LEMMA ChoicesAreKept ==
    ASSUME TypeInv, [Next]_vars
    PROVE  made \subseteq made' /\ now' \in Nat /\ now' >= now
  <1>1. now \in Nat
    BY DEF TypeInv, TypeOK
  <1>2. made \subseteq made' /\ (now' = now \/ now' = now + 2)
    BY DEF Next, Exchange, Serve, Begin, Pull, Decide, Land, PutRead, PutSave, PutRepeat,
           PutConflict, Lose, Fail, Choose, Tick, vars
  <1>3. QED
    BY <1>1, <1>2

\* A choice made stays made.
LEMMA AmongMore ==
    ASSUME NEW S, NEW T, S \subseteq T, NEW x, Among(S, x) PROVE Among(T, x)
  BY DEF Among

\* A request of which nothing is clamped stores the stamp it was sent with.
LEMMA StampsKeptStep ==
    ASSUME TypeInv, StampsKept, [Next]_vars, mishaps' = {} PROVE StampsKept'
  <1>1. CASE puts' \subseteq puts
    BY <1>1 DEF StampsKept
  <1>2. ASSUME NEW put, put.phase = "sent", puts' = puts \cup {put} PROVE StampsKept'
    BY <1>2 DEF StampsKept
  <1>3. ASSUME NEW b \in Browsers, Decide(b) PROVE StampsKept'
    BY <1>1, <1>2, <1>3 DEF Decide, Sent
  <1>4. ASSUME NEW b \in Browsers, NEW lang \in Languages, Choose(b, lang) PROVE StampsKept'
    BY <1>2, <1>4 DEF Choose, Sent
  <1>5. ASSUME NEW p \in puts, PutRead(p) PROVE StampsKept'
    <2>. DEFINE read == [p EXCEPT !.phase = "read", !.seen = account, !.stamp = Stamp(p.choice)]
    <2>1. read.stamp = read.choice.at
      BY <1>5, ReadIsAPut, NoMishapYet DEF TypeInv
    <2>2. puts' = (puts \ {p}) \cup {read}
      BY <1>5 DEF PutRead
    <2>. HIDE DEF read
    <2>3. QED
      BY <2>1, <2>2 DEF StampsKept
  <1>6. ASSUME NEW b \in Browsers, Fail(b) PROVE StampsKept'
    <2>1. \A q \in puts' : \E p \in puts :
             q.phase = p.phase /\ q.choice = p.choice /\ q.stamp = p.stamp
      BY <1>6, LeftPuts DEF TypeInv
    <2>2. QED
      BY <2>1 DEF StampsKept
  <1>7. QED
    BY <1>1, <1>3, <1>4, <1>5, <1>6
    DEF Next, Exchange, Serve, Begin, Pull, Land, PutSave, PutRepeat, PutConflict, Lose, Tick,
        vars

\* Whatever is held, pulled, stored or sent is a choice some reader made.
LEMMA AllChosenStep ==
    ASSUME TypeInv, AllChosen, StampsKept, [Next]_vars, mishaps' = {} PROVE AllChosen'
  <1>. DEFINE Still(x) == Among(made', x)
  <1>0. \A x : Chosen(x) => Still(x)
    BY ChoicesAreKept, AmongMore DEF Chosen
  <1>1. /\ \A b \in Browsers : Still(local[b]) /\ Still(sync[b].held) /\ Still(sync[b].remote)
        /\ Still(account)
        /\ \A p \in puts : Still(p.choice) /\ Still(p.seen)
    BY <1>0 DEF AllChosen
  <1>2. Still(None)
    BY DEF Among
  <1>3. SUFFICES
          /\ \A b \in Browsers : Still(local'[b]) /\ Still(sync'[b].held) /\ Still(sync'[b].remote)
          /\ Still(account')
          /\ \A p \in puts' : Still(p.choice) /\ Still(p.seen)
    BY DEF AllChosen, Chosen
  <1>4. puts \subseteq Puts /\ sync \in [Browsers -> Exchanges] /\ local \in [Browsers -> Held]
    BY DEF TypeInv, TypeOK, Puts, Exchanges
  <1>. HIDE DEF Still
  <1>5. ASSUME NEW b \in Browsers, Begin(b) PROVE <1>3!1
    BY <1>1, <1>2, <1>4, <1>5 DEF Begin, Exchanges
  <1>6. ASSUME NEW b \in Browsers, Pull(b) PROVE <1>3!1
    BY <1>1, <1>2, <1>4, <1>6 DEF Pull, Exchanges
  <1>7. ASSUME NEW b \in Browsers, Decide(b) PROVE <1>3!1
    <2>1. \A c \in Browsers : Still(local'[c])
      BY <1>1, <1>4, <1>7 DEF Decide, Adopt
    <2>2. \A c \in Browsers : Still(sync'[c].held) /\ Still(sync'[c].remote)
      <3>1. CASE sync' = [sync EXCEPT ![b] = Idle]
        BY <1>1, <1>2, <1>4, <3>1 DEF Exchanges, Idle
      <3>2. CASE sync' = [sync EXCEPT ![b].phase = "push", ![b].remote = None]
        BY <1>1, <1>2, <1>4, <3>2 DEF Exchanges
      <3>3. QED  BY <1>7, <3>1, <3>2 DEF Decide
    <2>3. Still(account')
      BY <1>1, <1>7 DEF Decide
    <2>4. \A p \in puts' : Still(p.choice) /\ Still(p.seen)
      BY <1>1, <1>2, <1>7 DEF Decide, Sent
    <2>5. QED  BY <2>1, <2>2, <2>3, <2>4
  <1>8. ASSUME NEW b \in Browsers, Land(b) PROVE <1>3!1
    <2>1. \A c \in Browsers : Still(local'[c])
      BY <1>1, <1>4, <1>8 DEF Land, Adopt
    <2>2. QED
      BY <1>1, <1>2, <1>4, <1>8, <2>1 DEF Land, Exchanges, Idle
  <1>9. ASSUME NEW p \in puts, PutRead(p) PROVE <1>3!1
    <2>. DEFINE read == [p EXCEPT !.phase = "read", !.seen = account, !.stamp = Stamp(p.choice)]
    <2>1. read.choice = p.choice /\ read.seen = account
      BY ReadIsAPut DEF TypeInv
    <2>2. puts' = (puts \ {p}) \cup {read} /\ UNCHANGED <<account, sync, local>>
      BY <1>9 DEF PutRead
    <2>. HIDE DEF read
    <2>3. QED
      BY <1>1, <2>1, <2>2
  <1>10. ASSUME NEW p \in puts, Commit(p) PROVE Still(account') /\ Still(Answer(p))
    <2>1. CASE Wins(p)
      <3>1. /\ Stored(p).at = p.choice.at /\ Stored(p).nth = p.choice.nth
            /\ Answer(p).at = p.choice.at /\ Answer(p).nth = p.choice.nth
            /\ Answer(p).lang = p.choice.lang
        BY <1>10, <2>1, SavedAndTold DEF Commit, StampsKept
      <3>2. p.choice # None /\ Stored(p).lang = p.choice.lang
        BY <1>10, <2>1, NoneAssumption, NoMishapYet DEF TypeInv, TypeOK
      <3>3. Still(Stored(p)) /\ Still(Answer(p))
        BY <1>1, <3>1, <3>2 DEF Still, Among
      <3>4. QED
        BY <1>10, <3>3 DEF Commit
    <2>2. CASE ~ Wins(p)
      BY <1>1, <1>10, <2>2, SavedAndTold DEF Commit
    <2>3. QED  BY <2>1, <2>2
  <1>11. ASSUME NEW p \in puts, PutSave(p) PROVE <1>3!1
    <2>1. Still(account') /\ Still(Answer(p))
      BY <1>10, <1>11 DEF PutSave
    <2>2. \A c \in Browsers : Still(sync'[c].held) /\ Still(sync'[c].remote)
      BY <1>1, <1>4, <1>11, <2>1 DEF PutSave, Exchanges, Puts
    <2>3. QED
      BY <1>1, <1>11, <2>1, <2>2 DEF PutSave
  <1>12. ASSUME NEW p \in puts, PutRepeat(p) PROVE <1>3!1
    BY <1>1, <1>10, <1>12 DEF PutRepeat
  <1>13. ASSUME NEW p \in puts, PutConflict(p) \/ Lose(p) PROVE <1>3!1
    <2>1. \A c \in Browsers : Still(sync'[c].held) /\ Still(sync'[c].remote)
      BY <1>1, <1>2, <1>4, <1>13 DEF PutConflict, Lose, Exchanges, Idle
    <2>2. QED
      BY <1>1, <1>13, <2>1 DEF PutConflict, Lose
  <1>14. ASSUME NEW b \in Browsers, Fail(b) PROVE <1>3!1
    <2>1. \A q \in puts' : \E p \in puts : q.choice = p.choice /\ q.seen = p.seen
      BY <1>14, LeftPuts DEF TypeInv
    <2>2. QED
      BY <1>1, <1>2, <1>4, <1>14, <2>1 DEF Fail, Exchanges, Idle
  <1>15. ASSUME NEW b \in Browsers, NEW lang \in Languages, Choose(b, lang) PROVE <1>3!1
    <2>. DEFINE choice == [lang |-> lang, at |-> now + 2 + Ahead[b], nth |-> Cardinality(made) + 1]
    <2>1. /\ made' = made \cup {choice} /\ local' = [local EXCEPT ![b] = choice]
          /\ puts' = puts \cup {Sent(b, choice, FALSE)} /\ UNCHANGED <<account, sync>>
      BY <1>15 DEF Choose
    <2>. HIDE DEF choice
    <2>2. Still(choice)
      BY <2>1 DEF Still, Among
    <2>3. QED
      BY <1>1, <1>2, <1>4, <2>1, <2>2 DEF Sent
  <1>16. CASE Tick \/ UNCHANGED vars
    BY <1>1, <1>16 DEF Tick, vars
  <1>17. QED
    BY <1>5, <1>6, <1>7, <1>8, <1>9, <1>13, <1>14, <1>15, <1>16, <1>11, <1>12
    DEF Next, Exchange, Serve

\* The request an exchange waits for is its own, the only one, and of its record.
LEMMA OwnPutStep ==
    ASSUME TypeInv, OwnPut, [Next]_vars PROVE OwnPut'
  <1>0. puts \subseteq Puts /\ sync \in [Browsers -> Exchanges]
    BY DEF TypeInv, TypeOK, Puts, Exchanges
  <1>1. CASE UNCHANGED <<puts, sync>>
    BY <1>1 DEF OwnPut
  <1>2. ASSUME NEW b \in Browsers, sync[b].phase # "push", UNCHANGED puts,
               \A c \in Browsers \ {b} : sync'[c] = sync[c]
        PROVE  OwnPut'
    BY <1>0, <1>2 DEF OwnPut, Puts
  <1>3. ASSUME NEW b \in Browsers, Begin(b) PROVE OwnPut'
    BY <1>0, <1>2, <1>3 DEF Begin, Exchanges
  <1>4. ASSUME NEW b \in Browsers, Pull(b) PROVE OwnPut'
    BY <1>0, <1>2, <1>4 DEF Pull, Exchanges
  <1>5. ASSUME NEW b \in Browsers, Land(b) PROVE OwnPut'
    BY <1>0, <1>2, <1>5 DEF Land, Exchanges
  <1>6. ASSUME NEW b \in Browsers, Decide(b) PROVE OwnPut'
    <2>1. CASE UNCHANGED puts /\ sync' = [sync EXCEPT ![b] = Idle]
      BY <1>0, <1>2, <1>6, <2>1 DEF Decide, Exchanges
    <2>2. CASE /\ Newer(sync[b].held, sync[b].remote)
               /\ sync' = [sync EXCEPT ![b].phase = "push", ![b].remote = None]
               /\ puts' = puts \cup {Sent(b, sync[b].held, TRUE)}
      <3>. DEFINE own == Sent(b, sync[b].held, TRUE)
      <3>1. own.from = b /\ own.choice = sync[b].held
        BY DEF Sent
      <3>2. /\ sync'[b].phase = "push" /\ sync'[b].held = sync[b].held
            /\ \A c \in Browsers \ {b} : sync'[c] = sync[c]
        BY <1>0, <2>2 DEF Exchanges
      <3>3. \A p \in puts : p.awaited => p.from # b
        BY <1>6 DEF Decide, OwnPut
      <3>4. puts' = puts \cup {own}
        BY <2>2
      <3>. HIDE DEF own
      <3>5. QED
        BY <1>0, <3>1, <3>2, <3>3, <3>4 DEF OwnPut, Puts
    <2>3. QED  BY <1>6, <2>1, <2>2 DEF Decide
  <1>7. ASSUME NEW p \in puts, PutRead(p) PROVE OwnPut'
    <2>. DEFINE read == [p EXCEPT !.phase = "read", !.seen = account, !.stamp = Stamp(p.choice)]
    <2>1. read.from = p.from /\ read.awaited = p.awaited /\ read.choice = p.choice
      BY ReadIsAPut DEF TypeInv
    <2>2. puts' = (puts \ {p}) \cup {read} /\ UNCHANGED sync
      BY <1>7 DEF PutRead
    <2>. HIDE DEF read
    <2>3. QED
      BY <2>1, <2>2 DEF OwnPut
  <1>8. ASSUME NEW p \in puts, puts' = puts \ {p}, ~ p.awaited, UNCHANGED sync PROVE OwnPut'
    BY <1>8 DEF OwnPut
  <1>9. ASSUME NEW p \in puts, puts' = puts \ {p}, p.awaited,
               \A c \in Browsers \ {p.from} : sync'[c] = sync[c]
        PROVE  OwnPut'
    <2>1. \A q \in puts' : q \in puts /\ q \in Puts /\ (q.awaited => q.from # p.from)
      BY <1>0, <1>9 DEF OwnPut
    <2>2. QED
      BY <1>9, <2>1 DEF OwnPut, Puts
  <1>10. ASSUME NEW p \in puts, PutSave(p) \/ PutConflict(p) \/ Lose(p) PROVE OwnPut'
    <2>1. puts' = puts \ {p}
      BY <1>10 DEF PutSave, PutConflict, Lose
    <2>2. p.awaited => \A c \in Browsers \ {p.from} : sync'[c] = sync[c]
      BY <1>0, <1>10 DEF PutSave, PutConflict, Lose, Exchanges
    <2>3. ~ p.awaited => UNCHANGED sync
      BY <1>10 DEF PutSave, PutConflict, Lose
    <2>4. QED
      BY <1>8, <1>9, <2>1, <2>2, <2>3
  <1>11. ASSUME NEW b \in Browsers, Fail(b) PROVE OwnPut'
    <2>. DEFINE Left(p) == IF p.from = b THEN [p EXCEPT !.awaited = FALSE] ELSE p
    <2>1. \A q \in puts' : \E p \in puts :
             /\ q = Left(p) /\ q.from = p.from /\ q.choice = p.choice
             /\ q.awaited => p.awaited /\ p.from # b
      BY <1>11, LeftPuts DEF TypeInv
    <2>2. \A c \in Browsers \ {b} : sync'[c] = sync[c]
      BY <1>0, <1>11 DEF Fail
    <2>. HIDE DEF Left
    <2>3. \A q \in puts' : q.awaited => sync'[q.from].phase = "push" /\ sync'[q.from].held = q.choice
      <3>. SUFFICES ASSUME NEW q \in puts', q.awaited
                    PROVE  sync'[q.from].phase = "push" /\ sync'[q.from].held = q.choice
        OBVIOUS
      <3>1. PICK p \in puts : q.from = p.from /\ q.choice = p.choice /\ p.awaited /\ p.from # b
        BY <2>1
      <3>2. p.from \in Browsers \ {b}
        BY <1>0, <3>1 DEF Puts
      <3>3. QED
        BY <2>2, <3>1, <3>2 DEF OwnPut
    <2>4. \A q, r \in puts' : q.awaited /\ r.awaited /\ q.from = r.from => q = r
      <3>. SUFFICES ASSUME NEW q \in puts', NEW r \in puts', q.awaited, r.awaited, q.from = r.from
                    PROVE  q = r
        OBVIOUS
      <3>1. PICK p \in puts : q = Left(p) /\ q.from = p.from /\ p.awaited
        BY <2>1
      <3>2. PICK o \in puts : r = Left(o) /\ r.from = o.from /\ o.awaited
        BY <2>1
      <3>3. p = o
        BY <3>1, <3>2 DEF OwnPut
      <3>4. QED
        BY <3>1, <3>2, <3>3
    <2>5. QED
      BY <2>3, <2>4 DEF OwnPut
  <1>12. ASSUME NEW b \in Browsers, NEW lang \in Languages, Choose(b, lang) PROVE OwnPut'
    <2>. DEFINE choice == [lang |-> lang, at |-> now + 2 + Ahead[b], nth |-> Cardinality(made) + 1]
    <2>1. choice \in Choice
      BY <1>12, NextChoice DEF Choose
    <2>2. puts' = puts \cup {Sent(b, choice, FALSE)} /\ UNCHANGED sync
      BY <1>12 DEF Choose
    <2>. HIDE DEF choice
    <2>3. ~ Sent(b, choice, FALSE).awaited
      BY <2>1, SentIsAPut
    <2>4. QED
      BY <2>2, <2>3 DEF OwnPut
  <1>13. QED
    BY <1>1, <1>3, <1>4, <1>5, <1>6, <1>7, <1>10, <1>11, <1>12
    DEF Next, Exchange, Serve, PutRepeat, Tick, vars

\* What an exchange is told stands there is as new as what it sent.
LEMMA ToldNoOlderStep ==
    ASSUME TypeInv, StampsKept, OwnPut, ToldNoOlder, [Next]_vars PROVE ToldNoOlder'
  <1>0. puts \subseteq Puts /\ sync \in [Browsers -> Exchanges]
    BY DEF TypeInv, TypeOK, Puts, Exchanges
  <1>1. CASE UNCHANGED sync
    BY <1>1 DEF ToldNoOlder
  <1>2. ASSUME NEW b \in Browsers, sync'[b].phase # "landed",
               \A c \in Browsers \ {b} : sync'[c] = sync[c]
        PROVE  ToldNoOlder'
    BY <1>2 DEF ToldNoOlder
  <1>3. ASSUME NEW b \in Browsers, sync' = [sync EXCEPT ![b] = Idle] PROVE ToldNoOlder'
    BY <1>0, <1>2, <1>3, IdleExchange
  <1>4. ASSUME NEW b \in Browsers, Begin(b) \/ Pull(b) PROVE ToldNoOlder'
    BY <1>0, <1>2, <1>4 DEF Begin, Pull, Exchanges
  <1>5. ASSUME NEW b \in Browsers, sync' = [sync EXCEPT ![b].phase = "push", ![b].remote = None]
        PROVE  ToldNoOlder'
    BY <1>0, <1>2, <1>5 DEF Exchanges
  <1>6. ASSUME NEW p \in puts, PutSave(p) PROVE ToldNoOlder'
    <2>1. CASE p.awaited
      <3>. DEFINE told == [sync[p.from] EXCEPT !.phase = "landed", !.remote = Answer(p)]
      <3>1. p.from \in Browsers /\ sync[p.from] \in Exchanges
        BY <1>0 DEF Puts
      <3>2. sync' = [sync EXCEPT ![p.from] = told]
        BY <1>0, <1>6, <2>1, <3>1 DEF PutSave, Exchanges
      <3>3. told.held = p.choice /\ told.remote = Answer(p)
        BY <2>1, <3>1 DEF OwnPut, Exchanges
      <3>4. p.choice \in Choice /\ p.stamp = p.choice.at /\ p.choice.at \in Nat
        BY <1>0, <1>6 DEF PutSave, Commit, StampsKept, Puts, Choice
      <3>5. Answer(p).at >= p.choice.at
        BY <1>6, <3>4, SavedAndTold DEF PutSave, Commit
      <3>6. p.choice # None
        BY <3>4, NoneAssumption
      <3>. HIDE DEF told
      <3>7. QED
        BY <1>0, <3>1, <3>2, <3>3, <3>5, <3>6 DEF ToldNoOlder
    <2>2. QED
      BY <1>1, <1>6, <2>1 DEF PutSave
  <1>7. ASSUME NEW p \in puts, PutConflict(p) \/ Lose(p) PROVE ToldNoOlder'
    <2>1. p.from \in Browsers
      BY <1>0 DEF Puts
    <2>2. QED
      BY <1>1, <1>3, <1>7, <2>1 DEF PutConflict, Lose
  <1>8. QED
    BY <1>1, <1>3, <1>4, <1>5, <1>6, <1>7
    DEF Next, Exchange, Serve, Decide, Land, PutRead, PutRepeat, Fail, Choose, Tick, vars

(* A choice at least as new as the newest is the newest.                   *)
LEMMA NoneIsNewer ==
    ASSUME TypeInv, NEW c \in made, NewestIs(c), NEW x \in Choice, Chosen(x), x.at >= c.at
    PROVE  IsChoice(x, c) /\ x.at = c.at
  <1>1. PICK d \in made : d.nth = x.nth /\ d.at = x.at /\ d.lang = x.lang
    BY NoneAssumption DEF Chosen, Among
  <1>2. c \in Choice /\ d \in Choice /\ c # None /\ d # None
    BY NoneAssumption DEF TypeInv, TypeOK
  <1>3. c.at \in Nat /\ d.at \in Nat
    BY <1>2 DEF Choice
  <1>4. c = d
    BY <1>1, <1>2, <1>3 DEF NewestIs, Newer
  <1>5. QED
    BY <1>1, <1>4, NoneAssumption DEF IsChoice

(* An adoption over what the exchange started from, of something as new,   *)
(* leaves the newest choice where it was.                                  *)
LEMMA AdoptionKeeps ==
    ASSUME TypeInv, AllChosen, NewestIsKept, NEW b \in Browsers, Adopt(b),
           local[b] = sync[b].held,
           sync[b].held # None => sync[b].remote \in Choice /\ sync[b].remote.at >= sync[b].held.at,
           UNCHANGED <<made, now>>
    PROVE  NewestIsKept'
  <1>1. SUFFICES ASSUME NEW c \in made, NewestIs(c) PROVE \E d \in Browsers : Keeps(d, c)'
    BY DEF NewestIsKept, NewestIs
  <1>2. PICK d \in Browsers : Keeps(d, c)
    BY <1>1 DEF NewestIsKept
  <1>3. CASE d # b
    BY <1>2, <1>3 DEF Keeps, IsChoice, Adopt, TypeInv, TypeOK
  <1>4. CASE d = b
    <2>1. local[b] = sync[b].held /\ local' = [local EXCEPT ![b] = sync[b].remote]
      BY DEF Adopt
    <2>2. sync[b].held # None /\ sync[b].held.at = c.at
      BY <1>2, <1>4, <2>1 DEF Keeps, IsChoice
    <2>3. IsChoice(sync[b].remote, c) /\ sync[b].remote.at = c.at
      BY <1>1, <2>2, NoneIsNewer DEF AllChosen
    <2>4. local'[b] = sync[b].remote /\ sync[b].remote # None
      BY <2>1, <2>2, NoneAssumption DEF TypeInv, TypeOK
    <2>5. QED
      BY <1>2, <1>4, <2>3, <2>4 DEF Keeps, IsChoice
  <1>5. QED  BY <1>3, <1>4

\* While nothing has gone round the rule, a newest choice is the record of a browser
\* whose clock has passed it.
LEMMA NewestIsKeptStep ==
    ASSUME TypeInv, AllChosen, ToldNoOlder, NewestIsKept, [Next]_vars, mishaps' = {}
    PROVE  NewestIsKept'
  <1>0. sync \in [Browsers -> Exchanges] /\ local \in [Browsers -> Held] /\ now \in Nat
    BY DEF TypeInv, TypeOK, Exchanges
  <1>1. CASE UNCHANGED <<local, made>>
    <2>1. now' \in Nat /\ now' >= now
      BY ChoicesAreKept
    <2>2. \A b \in Browsers, c \in made : Keeps(b, c) => Keeps(b, c)'
      <3>. SUFFICES ASSUME NEW b \in Browsers, NEW c \in made, Keeps(b, c) PROVE Keeps(b, c)'
        OBVIOUS
      <3>1. c.at \in Nat /\ Ahead[b] \in Nat
        BY ClocksAssumption DEF TypeInv, TypeOK, Choice
      <3>2. QED
        BY <1>0, <1>1, <2>1, <3>1 DEF Keeps, IsChoice
    <2>3. QED
      BY <1>1, <2>2 DEF NewestIsKept, NewestIs
  <1>2. ASSUME NEW b \in Browsers, Decide(b) PROVE NewestIsKept'
    <2>1. CASE Newer(sync[b].remote, sync[b].held) /\ Adopt(b)
      <3>1. sync[b].remote \in Held /\ sync[b].held \in Held
        BY <1>0 DEF Exchanges
      <3>2. sync[b].held # None => sync[b].remote \in Choice /\ sync[b].remote.at >= sync[b].held.at
        BY <2>1, <3>1 DEF Newer, Held, Choice
      <3>3. UNCHANGED <<made, now>> /\ local[b] = sync[b].held
        BY <1>2, <2>1, NoMishapYet DEF Decide
      <3>4. QED
        BY <2>1, <3>2, <3>3, AdoptionKeeps
    <2>2. QED
      BY <1>1, <1>2, <2>1 DEF Decide
  <1>3. ASSUME NEW b \in Browsers, Land(b) PROVE NewestIsKept'
    <2>1. CASE Adopt(b)
      <3>1. sync[b].remote \in Choice /\ sync[b].remote.at >= sync[b].held.at
        BY <1>0, <1>3 DEF Land, ToldNoOlder, TypeInv, TypeOK, Exchanges, Held
      <3>2. UNCHANGED <<made, now>> /\ local[b] = sync[b].held
        BY <1>3, <2>1, NoMishapYet DEF Land
      <3>3. QED
        BY <2>1, <3>1, <3>2, AdoptionKeeps
    <2>2. QED
      BY <1>1, <1>3, <2>1 DEF Land
  <1>4. ASSUME NEW b \in Browsers, NEW lang \in Languages, Choose(b, lang)
        PROVE  NewestIsKept'
    <2>. DEFINE choice == [lang |-> lang, at |-> now + 2 + Ahead[b], nth |-> Cardinality(made) + 1]
    <2>1. choice \in Choice
      BY <1>4, NextChoice DEF Choose
    <2>2. /\ now' = now + 2 /\ made' = made \cup {choice}
          /\ local' = [local EXCEPT ![b] = choice]
      BY <1>4 DEF Choose
    <2>3. choice.at = now + 2 + Ahead[b] /\ Ahead[b] \in Nat
      BY ClocksAssumption
    <2>4. choice # None
      BY <2>1, NoneAssumption
    <2>. HIDE DEF choice
    <2>5. SUFFICES ASSUME NEW c \in made', NewestIs(c)'
                   PROVE  \E d \in Browsers : Keeps(d, c)'
      BY <2>2 DEF NewestIsKept
    <2>6. CASE c = choice
      <3>1. local'[b] = choice /\ c.at <= now' + Ahead[b]
        BY <1>0, <2>2, <2>3, <2>6
      <3>2. QED
        BY <2>4, <2>6, <3>1 DEF Keeps, IsChoice
    <2>7. CASE c # choice
      <3>1. c \in made /\ NewestIs(c)
        BY <2>2, <2>5, <2>7 DEF NewestIs
      <3>2. PICK d \in Browsers : Keeps(d, c)
        BY <2>5, <3>1 DEF NewestIsKept
      <3>3. c \in Choice /\ c.at \in Nat /\ c # None /\ Ahead[d] \in Nat
        BY <3>1, ClocksAssumption, NoneAssumption DEF TypeInv, TypeOK, Choice
      <3>4. c.at > choice.at
        BY <2>2, <2>4, <2>5, <2>7, <3>3 DEF NewestIs, Newer
      <3>5. d # b
        BY <1>0, <2>3, <3>2, <3>3, <3>4 DEF Keeps
      <3>6. local'[d] = local[d] /\ c.at <= now' + Ahead[d]
        BY <1>0, <2>2, <3>2, <3>3, <3>5 DEF Keeps
      <3>7. QED
        BY <3>2, <3>6 DEF Keeps, IsChoice
    <2>8. QED  BY <2>6, <2>7
  <1>5. QED
    BY <1>1, <1>2, <1>3, <1>4 DEF Next, Exchange, Serve, Begin, Pull, PutRead, PutSave,
                                  PutRepeat, PutConflict, Lose, Fail, Tick, vars

LEMMA KeptInit == Init => KeptInv
  <1>. SUFFICES ASSUME Init PROVE KeptInv
    OBVIOUS
  <1>1. StampsKept /\ OwnPut /\ NewestIsKept
    BY DEF Init, StampsKept, OwnPut, NewestIsKept
  <1>2. AllChosen /\ ToldNoOlder
    BY DEF Init, AllChosen, Chosen, Among, ToldNoOlder, Idle
  <1>3. QED
    BY <1>1, <1>2, TypeInit DEF KeptInv

LEMMA KeptStep == KeptInv /\ [Next]_vars => KeptInv'
  <1>. SUFFICES ASSUME KeptInv, [Next]_vars PROVE KeptInv'
    OBVIOUS
  <1>1. TypeInv /\ TypeInv' /\ OwnPut /\ OwnPut'
    BY TypeStep, OwnPutStep DEF KeptInv
  <1>2. ASSUME mishaps' = {} PROVE AllChosen' /\ StampsKept' /\ ToldNoOlder' /\ NewestIsKept'
    <2>1. AllChosen /\ StampsKept /\ ToldNoOlder /\ NewestIsKept
      BY <1>2, NoMishapYet DEF KeptInv
    <2>2. QED
      BY <1>1, <1>2, <2>1, AllChosenStep, StampsKeptStep, ToldNoOlderStep, NewestIsKeptStep
  <1>3. QED
    BY <1>1, <1>2 DEF KeptInv

(* The newest choice is forgotten in three ways only: an exchange that     *)
(* began before it was made adopts over it (lib/language/sync.ts), a stamp *)
(* too far ahead is taken for the server's now, or overlapping PUTs make a *)
(* row of two choices (PreferenceEndpoints.cs).  That holds whatever is    *)
(* lost or sent again, however many PUTs overlap and wherever the row goes *)
(* meanwhile.                                                              *)
THEOREM NewestChoiceIsHeld == Spec => []HeldUnlessMishap
  <1>1. KeptInv => HeldUnlessMishap
    BY DEF KeptInv, HeldUnlessMishap, NewestIsHeld, NewestIsKept, HeldSomewhere, Keeps
  <1>2. QED
    BY <1>1, KeptInit, KeptStep, PTL DEF Spec

AChoice == \E b \in Browsers, lang \in Languages : Choose(b, lang)

\* One choice, or none.
Same(x, y) ==
    \/ x = None /\ y = None
    \/ x # None /\ y # None /\ x.lang = y.lang /\ x.at = y.at

\* Every browser has the account's choice, no PUT is on its way, and what an
\* exchange holds is that choice.
Settled ==
    /\ puts = {}
    /\ \A b \in Browsers :
          /\ Same(local[b], account)
          /\ sync[b].phase \in {"idle", "pull", "pulled"}
          /\ sync[b].phase # "idle" => Same(sync[b].held, account)
          /\ sync[b].phase = "pulled" => Same(sync[b].remote, account)

(* What has settled stays so: no exchange between browsers that agree with *)
(* the account, begun, pulled, lost or repeated, changes an edition again; *)
(* only a choice does, whatever clocks the browsers have and whether or    *)
(* not PUTs overlap (exchange, sync.ts).  That it does settle is Agreement. *)
THEOREM OnlyAChoiceUnsettles == Spec => [][Settled => Settled' \/ AChoice]_vars
  <1>1. TypeInv /\ [Next]_vars => [Settled => Settled' \/ AChoice]_vars
    <2>. SUFFICES ASSUME TypeInv, Next, Settled, ~ AChoice PROVE Settled'
      OBVIOUS
    <2>0. /\ sync \in [Browsers -> Exchanges] /\ puts = {} /\ account \in Held
          /\ local \in [Browsers -> Held]
      BY DEF TypeInv, TypeOK, Exchanges, Settled
    <2>1. ASSUME NEW b \in Browsers, Begin(b) PROVE Settled'
      BY <2>0, <2>1 DEF Begin, Settled, Same
    <2>2. ASSUME NEW b \in Browsers, Pull(b) PROVE Settled'
      <3>1. sync' = [sync EXCEPT ![b] = [sync[b] EXCEPT !.phase = "pulled", !.remote = account]]
        BY <2>0, <2>2 DEF Pull, Exchanges
      <3>2. QED
        BY <2>0, <2>2, <3>1 DEF Pull, Settled, Same, Exchanges
    <2>3. ASSUME NEW b \in Browsers, Decide(b) PROVE Settled'
      <3>1. Same(sync[b].held, sync[b].remote)
        BY <2>3 DEF Decide, Settled, Same
      <3>2. ~ Newer(sync[b].held, sync[b].remote) /\ ~ Newer(sync[b].remote, sync[b].held)
        <4>1. sync[b].held \in Held /\ sync[b].remote \in Held
          BY <2>0 DEF Exchanges
        <4>2. QED
          BY <3>1, <4>1 DEF Newer, Same, Held, Choice
      <3>3. sync' = [sync EXCEPT ![b] = Idle] /\ UNCHANGED <<local, puts, account>>
        BY <2>3, <3>2 DEF Decide
      <3>4. QED
        BY <2>0, <3>3, IdleExchange DEF Settled, Same
    <2>4. ASSUME NEW b \in Browsers, Land(b) PROVE Settled'
      BY <2>4 DEF Land, Settled
    <2>5. ASSUME NEW b \in Browsers, Fail(b) PROVE Settled'
      <3>1. sync' = [sync EXCEPT ![b] = Idle] /\ puts' = {} /\ UNCHANGED <<local, account>>
        BY <2>0, <2>5 DEF Fail
      <3>2. QED
        BY <2>0, <3>1, IdleExchange DEF Settled, Same
    <2>6. CASE Tick
      BY <2>6 DEF Tick, Settled, Same
    <2>7. QED
      BY <2>0, <2>1, <2>2, <2>3, <2>4, <2>5, <2>6 DEF Next, Exchange, Serve, AChoice
  <1>2. QED
    BY <1>1, TypeInit, TypeStep, PTL DEF Spec

=============================================================================

-------------------------- MODULE ReadingOrderProofs --------------------------
(***************************************************************************)
(* Theorems about ReadingOrder, for a book of any length, any number of    *)
(* editions, of tool calls under way, of visits, reveals and forgets.      *)
(*                                                                         *)
(* What InOrder and NoneSkipped leave out of the induction is what a       *)
(* request knew when it was sent: a place the website's reveal or a tool   *)
(* call will make is in order unless the account forgot since the request  *)
(* looked (Sound, SendingSound), and the step it answers has been shown.   *)
(***************************************************************************)
EXTENDS ReadingOrder, TLAPS

Ordered(p, in, out) == p = 1 \/ p - 1 \in in \/ p \in out

(* What a call's fields say, where `seen` frames have been shown, the      *)
(* programs `in` entered, and the account forgot `times` times.            *)
Sound(r, seen, in, out, times) ==
    /\ r.look <= times
    /\ r.at \in {"here", "advance"} => r.tool = "submit"
    /\ r.at \in {"places", "listed", "here", "advance"} /\ r.tool = "submit" =>
         <<r.prog, r.step>> \in seen
    /\ r.at \in {"here", "opened"} => r.places[r.prog] \in Place
    /\ r.at \in {"open", "opened", "here", "advance"} => r.lang \in Editions
    /\ r.at \in {"show", "advance"} => r.step > 0
    /\ r.at = "advanced" => r.step <= Length[r.prog]
    /\ r.look = times /\ r.at = "listed" =>
         \A p \in With(r.places) : p \in in /\ Ordered(p, in, out)
    /\ r.look = times /\ r.at \in {"open", "here", "advance"} => Ordered(r.prog, in, out)

CallsSound == \A c \in Calls : Sound(call[c], shown, entered, stray, erased)

SendingSound ==
    sending # None =>
        /\ sending.look <= erased /\ sending.frame \in shown
        /\ sending.look = erased => Ordered(sending.frame[1], entered, stray)

PlacesInOrder ==
    /\ \A p \in With(rows) \cup record : p \in entered /\ Ordered(p, entered, stray)
    /\ owed => \A p \in record : p = 1 \/ p - 1 \in record

PageSound == page # None => page \in shown /\ (page[1] = 1 \/ page[1] \in record)

IInv == TypeOK /\ CallsSound /\ SendingSound /\ PlacesInOrder /\ PageSound /\ NoneSkipped

-----------------------------------------------------------------------------
(* The book's programs are numbered from 1, and each has a step.           *)
LEMMA TheBook ==
    /\ 1 \in Programs
    /\ \A p \in Programs : p \in Nat \ {0} /\ Length[p] \in Nat \ {0}
  BY OrderAssumption DEF OrderAssumption, Programs

\* None is not a place.
LEMMA NoPlaceIsNone == None \notin Place
  BY OrderAssumption DEF OrderAssumption

LEMMA Bounds ==
    /\ MaxCalls \in Nat /\ MaxVisits \in Nat /\ MaxReveals \in Nat /\ MaxForgets \in Nat
    /\ MaxLost \in Nat
  BY OrderAssumption DEF OrderAssumption

\* The cursor is a step of the program, the first where there is no row.
LEMMA CursorInTheBook ==
    ASSUME TypeOK, NEW p \in Programs
    PROVE  /\ Cursor(p) \in 1 .. Length[p]
           /\ rows[p] # None => rows[p] \in Place /\ Cursor(p) = rows[p].step
  <1>1. rows[p] \in Place \cup {None} /\ (rows[p] # None => rows[p].step <= Length[p])
    BY DEF TypeOK, Places
  <1>2. QED  BY <1>1, TheBook DEF Cursor, Place

\* A frame is a program and one of its steps.
LEMMA FrameFields ==
    /\ \A f \in Frames : f[1] \in Programs /\ f[2] \in 1 .. Length[f[1]] /\ f = <<f[1], f[2]>>
    /\ \A p \in Programs : \A n \in 1 .. Length[p] : <<p, n>> \in Frames
  <1>1. \A p \in Programs : \A n \in 1 .. Length[p] : n \in Nat
    BY TheBook
  <1>2. QED  BY <1>1 DEF Frames

(* Showing and entering more keeps a call sound; so does forgetting, after *)
(* which no call has looked.                                               *)
LEMMA SoundKept ==
    ASSUME NEW r, NEW seen, NEW in, NEW out, NEW seen2, NEW in2, NEW out2, NEW times \in Nat,
           Sound(r, seen, in, out, times), seen \subseteq seen2, in \subseteq in2, out \subseteq out2
    PROVE  Sound(r, seen2, in2, out2, times)
  BY DEF Sound, Ordered

\* What a call was sound about before a forget it stays sound about after it.
LEMMA SoundForgotten ==
    ASSUME NEW r, r.look \in Nat, NEW seen, NEW in, NEW out, NEW in2, NEW out2, NEW times \in Nat,
           Sound(r, seen, in, out, times)
    PROVE  Sound(r, seen, in2, out2, times + 1)
  BY DEF Sound, Ordered

\* An idle call claims nothing.
LEMMA IdleSound ==
    /\ Idle \in ToolCall /\ Idle.at = "idle" /\ Idle.look = 0
    /\ \A seen, in, out : \A times \in Nat : Sound(Idle, seen, in, out, times)
  <1>1. NoPlaces \in Places
    BY DEF NoPlaces, Places
  <1>2. Idle \in ToolCall /\ Idle.at = "idle" /\ Idle.look = 0
    BY <1>1, TheBook DEF Idle, ToolCall, Tools
  <1>3. QED  BY <1>2 DEF Sound

(* One call goes on as r, and whatever it shows or enters is kept.         *)
LEMMA OneCall ==
    ASSUME TypeOK, CallsSound, NEW c \in Calls, NEW r, r \in ToolCall,
           call' = [call EXCEPT ![c] = r],
           shown \subseteq shown', entered \subseteq entered', stray \subseteq stray',
           erased' = erased, Sound(r, shown', entered', stray', erased')
    PROVE  call' \in [Calls -> ToolCall] /\ CallsSound'
  <1>1. call' \in [Calls -> ToolCall] /\ call'[c] = r /\ \A d \in Calls \ {c} : call'[d] = call[d]
    BY DEF TypeOK
  <1>2. erased \in Nat
    BY DEF TypeOK
  <1>3. \A d \in Calls : Sound(call'[d], shown', entered', stray', erased')
    <2>1. ASSUME NEW d \in Calls, d # c PROVE Sound(call[d], shown', entered', stray', erased)
      <3>1. Sound(call[d], shown, entered, stray, erased)
        BY DEF CallsSound
      <3>2. QED  BY <3>1, <1>2, SoundKept
    <2>2. QED  BY <1>1, <2>1
  <1>4. QED  BY <1>1, <1>3 DEF CallsSound

(* A place is made or moved to a step the reader has come to, in order or  *)
(* by a request that looked before the account forgot.                     *)
LEMMA MovesKeeps ==
    ASSUME IInv, NEW p \in Programs, NEW place \in Place, NEW look \in Nat, Moves(p, place, look),
           place.step <= Length[p], \A n \in 1 .. place.step - 1 : <<p, n>> \in shown,
           look <= erased, look = erased => Ordered(p, entered, stray),
           UNCHANGED <<record, owed, shown, erased>>
    PROVE  /\ rows' \in Places /\ \A q \in Programs : rows'[q] # None => rows'[q].step <= Length[q]
           /\ entered' \subseteq Programs /\ entered \subseteq entered'
           /\ stray' \subseteq Programs /\ stray \subseteq stray'
           /\ PlacesInOrder' /\ NoneSkipped'
  <1>1. /\ rows \in Places /\ erased \in Nat /\ entered \subseteq Programs /\ stray \subseteq Programs
        /\ record \subseteq Programs
        /\ \A q \in Programs : rows[q] # None => rows[q].step <= Length[q]
    BY DEF IInv, TypeOK
  <1>2. /\ rows' \in Places /\ rows'[p] = place
        /\ \A q \in Programs \ {p} : rows'[q] = rows[q]
    BY <1>1 DEF Moves, Places
  <1>3. /\ entered' = entered \cup {p} /\ stray \subseteq stray' /\ stray' \subseteq stray \cup {p}
        /\ look < erased => p \in stray'
    BY DEF Moves
  <1>4. PlacesInOrder'
    <2>1. \A q \in With(rows) \cup record : q \in entered' /\ Ordered(q, entered', stray')
      BY <1>3 DEF IInv, PlacesInOrder, Ordered
    <2>2. With(rows') \subseteq With(rows) \cup {p}
      BY <1>2 DEF With
    <2>3. Ordered(p, entered', stray')
      BY <1>1, <1>3 DEF Ordered
    <2>4. QED  BY <2>1, <2>2, <2>3, <1>3 DEF IInv, PlacesInOrder
  <1>5. NoneSkipped'
    BY <1>2 DEF IInv, NoneSkipped, With
  <1>6. QED  BY <1>1, <1>2, <1>3, <1>4, <1>5

(* An answer to a step that has been shown.                                *)
LEMMA AdvancesKeeps ==
    ASSUME IInv, NEW p \in Programs, NEW answering \in Nat, NEW lang \in Editions, NEW look \in Nat,
           Advances(p, answering, lang, look), <<p, answering>> \in shown,
           look <= erased, look = erased => Ordered(p, entered, stray),
           UNCHANGED <<record, owed, shown, erased>>
    PROVE  /\ rows' \in Places /\ \A q \in Programs : rows'[q] # None => rows'[q].step <= Length[q]
           /\ entered' \subseteq Programs /\ entered \subseteq entered'
           /\ stray' \subseteq Programs /\ stray \subseteq stray'
           /\ PlacesInOrder' /\ NoneSkipped'
  <1>1. CASE answering = Cursor(p) /\ answering < Length[p]
    <2>. DEFINE place == [step |-> answering + 1, lang |-> lang]
    <2>1. place \in Place /\ place.step <= Length[p] /\ place.step - 1 = answering
      BY <1>1, TheBook DEF Place
    <2>2. \A n \in 1 .. answering : <<p, n>> \in shown
      <3>1. ASSUME NEW n \in 1 .. answering, n # answering PROVE <<p, n>> \in shown
        <4>1. rows[p] # None /\ rows[p].step = answering
          BY <1>1, <3>1 DEF Cursor
        <4>2. n \in 1 .. rows[p].step - 1
          BY <3>1, <4>1
        <4>3. QED  BY <4>1, <4>2 DEF IInv, NoneSkipped, With
      <3>2. QED  BY <3>1
    <2>3. Moves(p, place, look)
      BY <1>1 DEF Advances
    <2>. HIDE DEF place
    <2>4. QED  BY <2>1, <2>2, <2>3, MovesKeeps
  <1>2. CASE ~ (answering = Cursor(p) /\ answering < Length[p])
    <2>1. UNCHANGED <<rows, entered, stray>>
      BY <1>2 DEF Advances
    <2>2. QED  BY <2>1 DEF IInv, TypeOK, PlacesInOrder, NoneSkipped, With
  <1>3. QED  BY <1>1, <1>2

(* What a step leaves true that changes nothing but the tool calls, the    *)
(* switches and what has been shown.                                       *)
LEMMA SiteKeeps ==
    ASSUME IInv, UNCHANGED <<rows, site, entered, stray, erased>>, shown \subseteq shown'
    PROVE  SendingSound' /\ PlacesInOrder' /\ PageSound' /\ NoneSkipped'
  <1>1. SendingSound'
    BY DEF IInv, SendingSound, site
  <1>2. PlacesInOrder'
    BY DEF IInv, PlacesInOrder, site
  <1>3. PageSound'
    BY DEF IInv, PageSound, site
  <1>4. NoneSkipped'
    BY DEF IInv, NoneSkipped
  <1>5. QED  BY <1>1, <1>2, <1>3, <1>4

(* The calls when nothing is forgotten and none of them goes on.           *)
LEMMA CallsKept ==
    ASSUME TypeOK, CallsSound, UNCHANGED <<call, erased>>,
           shown \subseteq shown', entered \subseteq entered', stray \subseteq stray'
    PROVE  CallsSound'
  <1>1. ASSUME NEW d \in Calls PROVE Sound(call[d], shown', entered', stray', erased)
    BY SoundKept DEF TypeOK, CallsSound
  <1>2. QED  BY <1>1 DEF CallsSound

-----------------------------------------------------------------------------
(* At the start nothing is placed, shown or asked for.                     *)
LEMMA InitGood == Init => IInv
  <1>. SUFFICES ASSUME Init PROVE IInv
    OBVIOUS
  <1>1. /\ NoPlaces \in Places /\ \A p \in Programs : NoPlaces[p] = None
        /\ \A S : NoPlaces \in [Programs -> S \cup {None}]
    BY DEF NoPlaces, Places
  <1>2. named \in [Programs -> [step : Nat, lang : Editions, met : BOOLEAN] \cup {None}]
    BY <1>1 DEF Init
  <1>3. /\ call \in [Calls -> ToolCall] /\ rows \in Places /\ kept \in Places
        /\ \A p \in Programs : rows[p] = None
    BY <1>1, IdleSound DEF Init
  <1>4. TypeOK
    <2>1. /\ begun \in 0 .. MaxCalls /\ visits \in 0 .. MaxVisits /\ reveals \in 0 .. MaxReveals
          /\ forgets \in 0 .. MaxForgets /\ lost \in 0 .. MaxLost
      BY Bounds DEF Init
    <2>2. /\ record \subseteq Programs /\ owed \in BOOLEAN /\ page \in Frames \cup {None}
          /\ sending = None
          /\ shown \subseteq Frames /\ entered \subseteq Programs /\ stray \subseteq Programs
          /\ erased \in Nat
      BY DEF Init
    <2>3. QED  BY <1>2, <1>3, <2>1, <2>2 DEF TypeOK
  <1>5. CallsSound
    BY IdleSound DEF Init, CallsSound
  <1>6. SendingSound /\ PlacesInOrder /\ PageSound /\ NoneSkipped
    BY <1>1 DEF Init, SendingSound, PlacesInOrder, PageSound, NoneSkipped, With
  <1>7. QED  BY <1>4, <1>5, <1>6 DEF IInv

(* A page of a program the record opens is an entry of it.                 *)
LEMMA VisitKeeps ==
    ASSUME IInv, NEW p \in Programs, NEW n \in 1 .. Length[p], Visit(p, n)
    PROVE  IInv'
  <1>1. p \in Nat \ {0} /\ <<p, n>> \in Frames /\ <<p, n>>[1] = p
    BY TheBook, FrameFields
  <1>2. CASE IsOpen(record, p)
    <2>1. /\ page' = <<p, n>> /\ record' = record \cup {p}
          /\ entered' = entered \cup {p} /\ shown' = shown \cup {<<p, n>>}
          /\ UNCHANGED <<rows, owed, sending, call, kept, stray, erased, named>>
      BY <1>2 DEF Visit, agent
    <2>2. TypeOK'
      BY <1>1, <2>1, Bounds DEF IInv, TypeOK, Visit, counters
    <2>3. CallsSound'
      BY <2>1, CallsKept DEF IInv
    <2>4. SendingSound'
      BY <2>1 DEF IInv, SendingSound, Ordered
    <2>5. PlacesInOrder'
      <3>1. p = 1 \/ p \in record \/ p - 1 \in record
        BY <1>2 DEF IsOpen
      <3>2. Ordered(p, entered', stray')
        BY <2>1, <3>1 DEF IInv, PlacesInOrder, Ordered
      <3>3. \A q \in With(rows) \cup record : q \in entered' /\ Ordered(q, entered', stray')
        BY <2>1 DEF IInv, PlacesInOrder, Ordered
      <3>4. owed => \A q \in record' : q = 1 \/ q - 1 \in record'
        BY <2>1, <3>1 DEF IInv, PlacesInOrder
      <3>5. QED  BY <2>1, <3>2, <3>3, <3>4 DEF PlacesInOrder
    <2>6. PageSound'
      BY <1>1, <2>1 DEF PageSound
    <2>7. NoneSkipped'
      BY <2>1 DEF IInv, NoneSkipped
    <2>8. QED  BY <2>2, <2>3, <2>4, <2>5, <2>6, <2>7 DEF IInv
  <1>3. CASE ~ IsOpen(record, p)
    <2>1. page' = None /\ UNCHANGED <<rows, record, owed, sending, call, kept, history>>
      BY <1>3 DEF Visit, agent, history
    <2>2. TypeOK'
      BY <2>1, Bounds DEF IInv, TypeOK, Visit, history
    <2>3. CallsSound'
      BY <2>1, CallsKept DEF IInv, history
    <2>4. SendingSound' /\ PlacesInOrder' /\ PageSound' /\ NoneSkipped'
      BY <2>1 DEF IInv, SendingSound, PlacesInOrder, PageSound, NoneSkipped, history
    <2>5. QED  BY <2>2, <2>3, <2>4 DEF IInv
  <1>4. QED  BY <1>2, <1>3

(* Next is pressed on a frame of a program the record holds, or the first. *)
LEMMA RevealKeeps ==
    ASSUME IInv, NEW lang \in Editions, Reveal(lang) PROVE IInv'
  <1>1. /\ page \in Frames /\ page # None /\ sending' = [frame |-> page, lang |-> lang, look |-> erased]
        /\ UNCHANGED <<rows, record, owed, page, call, kept, history>>
        /\ UNCHANGED <<begun, visits, forgets, lost>>
        /\ reveals < MaxReveals /\ reveals' = reveals + 1
    BY DEF Reveal, IInv, TypeOK, agent
  <1>2. UNCHANGED <<shown, entered, stray, erased, named>>
    BY <1>1 DEF history
  <1>3. reveals' \in 0 .. MaxReveals
    BY <1>1, Bounds DEF IInv, TypeOK
  <1>4. TypeOK'
    BY <1>1, <1>2, <1>3 DEF IInv, TypeOK
  <1>5. CallsSound'
    BY <1>1, <1>2, CallsKept DEF IInv
  <1>6. SendingSound'
    <2>1. page[1] \in Programs /\ page \in shown /\ (page[1] = 1 \/ page[1] \in record)
      BY <1>1, FrameFields DEF IInv, PageSound
    <2>2. Ordered(page[1], entered, stray)
      BY <2>1 DEF IInv, PlacesInOrder, Ordered
    <2>3. QED  BY <1>1, <1>2, <2>1, <2>2 DEF SendingSound, IInv, TypeOK
  <1>7. PlacesInOrder' /\ PageSound' /\ NoneSkipped'
    BY <1>1, <1>2 DEF IInv, PlacesInOrder, PageSound, NoneSkipped
  <1>8. QED  BY <1>4, <1>5, <1>6, <1>7 DEF IInv

(* It is an answer to the frame that was on the screen.                    *)
LEMMA RevealedKeeps == ASSUME IInv, Revealed PROVE IInv'
  <1>. DEFINE p == sending.frame[1]
              n == sending.frame[2]
  <1>1. /\ sending # None /\ sending' = None
        /\ UNCHANGED <<record, owed, page, kept, call, counters, shown, erased, named>>
        /\ \/ Advances(p, n, sending.lang, sending.look)
           \/ UNCHANGED <<rows, entered, stray>>
    BY DEF Revealed, agent
  <1>2. /\ sending.frame \in Frames /\ sending.lang \in Editions /\ sending.look \in Nat
        /\ sending.look <= erased /\ sending.frame \in shown
        /\ sending.look = erased => Ordered(p, entered, stray)
    BY <1>1 DEF IInv, TypeOK, SendingSound
  <1>3. p \in Programs /\ n \in Nat /\ <<p, n>> \in shown
    BY <1>2, FrameFields, TheBook
  <1>. HIDE DEF p, n
  <1>4. /\ rows' \in Places /\ \A q \in Programs : rows'[q] # None => rows'[q].step <= Length[q]
        /\ entered' \subseteq Programs /\ entered \subseteq entered'
        /\ stray' \subseteq Programs /\ stray \subseteq stray'
        /\ PlacesInOrder' /\ NoneSkipped'
    <2>1. CASE Advances(p, n, sending.lang, sending.look)
      BY <1>1, <1>2, <1>3, <2>1, AdvancesKeeps
    <2>2. CASE UNCHANGED <<rows, entered, stray>>
      BY <1>1, <2>2 DEF IInv, TypeOK, PlacesInOrder, NoneSkipped, With
    <2>3. QED  BY <1>1, <2>1, <2>2
  <1>5. TypeOK'
    BY <1>1, <1>4 DEF IInv, TypeOK, counters
  <1>6. CallsSound'
    BY <1>1, <1>4, CallsKept DEF IInv
  <1>7. SendingSound' /\ PageSound'
    BY <1>1 DEF IInv, SendingSound, PageSound
  <1>8. QED  BY <1>4, <1>5, <1>6, <1>7 DEF IInv

(* What a cycle adopts is the account's, whose places are in order.        *)
LEMMA SyncKeeps == ASSUME IInv, Sync PROVE IInv'
  <1>1. /\ ~ owed /\ record' = record \cup With(rows)
        /\ UNCHANGED <<rows, owed, page, sending, call, kept, counters>>
        /\ UNCHANGED <<shown, entered, stray, erased, named>>
    BY DEF Sync, agent, history
  <1>2. TypeOK'
    BY <1>1 DEF IInv, TypeOK, counters, With
  <1>3. CallsSound'
    BY <1>1, CallsKept DEF IInv
  <1>4. PlacesInOrder'
    BY <1>1 DEF IInv, PlacesInOrder
  <1>5. SendingSound' /\ PageSound' /\ NoneSkipped'
    BY <1>1 DEF IInv, SendingSound, PageSound, NoneSkipped
  <1>6. QED  BY <1>2, <1>3, <1>4, <1>5 DEF IInv

(* A forget empties the record, and leaves a page of the first program.    *)
LEMMA ForgetKeeps == ASSUME IInv, Forget PROVE IInv'
  <1>1. /\ record' = {} /\ owed' = TRUE
        /\ page' = IF page # None /\ IsOpen({}, page[1]) THEN page ELSE None
        /\ UNCHANGED <<rows, sending, call, kept, begun, visits, reveals, lost>>
        /\ UNCHANGED <<shown, entered, stray, erased, named>>
        /\ forgets < MaxForgets /\ forgets' = forgets + 1
    BY DEF Forget, agent, history
  <1>2. forgets' \in 0 .. MaxForgets
    BY <1>1, Bounds DEF IInv, TypeOK
  <1>3. TypeOK'
    BY <1>1, <1>2 DEF IInv, TypeOK
  <1>4. CallsSound'
    BY <1>1, CallsKept DEF IInv
  <1>5. PageSound'
    BY <1>1 DEF IInv, PageSound, IsOpen
  <1>6. SendingSound' /\ PlacesInOrder' /\ NoneSkipped'
    BY <1>1 DEF IInv, SendingSound, PlacesInOrder, NoneSkipped
  <1>7. QED  BY <1>3, <1>4, <1>5, <1>6 DEF IInv

(* The account forgets: what has looked before has looked too early, and   *)
(* what the record holds since the forget is in order by itself.           *)
LEMMA ErasedKeeps == ASSUME IInv, Erased PROVE IInv'
  <1>1. /\ owed /\ owed' = FALSE /\ rows' = NoPlaces /\ named' = NoPlaces
        /\ entered' = record /\ stray' = {} /\ erased' = erased + 1
        /\ UNCHANGED <<record, page, sending, call, kept, counters, shown>>
    BY DEF Erased, agent
  <1>2. /\ NoPlaces \in Places /\ \A p \in Programs : NoPlaces[p] = None
    BY DEF NoPlaces, Places
  <1>3. NoPlaces \in [Programs -> [step : Nat, lang : Editions, met : BOOLEAN] \cup {None}]
    BY DEF NoPlaces
  <1>4. TypeOK'
    <2>1. /\ rows' \in Places /\ \A p \in Programs : rows'[p] = None
          /\ named' \in [Programs -> [step : Nat, lang : Editions, met : BOOLEAN] \cup {None}]
      BY <1>1, <1>2, <1>3
    <2>2. entered' \subseteq Programs /\ stray' \subseteq Programs /\ owed' \in BOOLEAN /\ erased' \in Nat
      <3>1. record \subseteq Programs /\ erased \in Nat
        BY DEF IInv, TypeOK
      <3>2. owed' \in BOOLEAN
        BY Zenon DEF Erased
      <3>3. entered' \subseteq Programs /\ stray' \subseteq Programs /\ erased' \in Nat
        BY <1>1, <3>1
      <3>4. QED  BY <3>2, <3>3
    <2>3. UNCHANGED <<record, page, sending, call, kept, begun, visits, reveals, forgets, lost, shown>>
      BY <1>1 DEF counters
    <2>4. \A p \in Programs : rows'[p] # None => rows'[p].step <= Length[p]
      BY <2>1
    <2>5. /\ record' \subseteq Programs /\ page' \in Frames \cup {None}
          /\ sending' \in [frame : Frames, lang : Editions, look : Nat] \cup {None}
          /\ kept' \in Places /\ call' \in [Calls -> ToolCall]
          /\ begun' \in 0 .. MaxCalls /\ visits' \in 0 .. MaxVisits /\ reveals' \in 0 .. MaxReveals
          /\ forgets' \in 0 .. MaxForgets /\ lost' \in 0 .. MaxLost /\ shown' \subseteq Frames
      BY <2>3 DEF IInv, TypeOK
    <2>6. QED  BY <2>1, <2>2, <2>4, <2>5 DEF TypeOK
  <1>5. CallsSound'
    <2>1. ASSUME NEW c \in Calls PROVE Sound(call[c], shown, record, {}, erased + 1)
      <3>1. Sound(call[c], shown, entered, stray, erased) /\ erased \in Nat
        BY DEF IInv, CallsSound, TypeOK
      <3>2. call[c].look \in Nat
        BY DEF IInv, TypeOK, ToolCall
      <3>3. QED  BY <3>1, <3>2, SoundForgotten
    <2>2. QED  BY <1>1, <2>1 DEF CallsSound
  <1>6. SendingSound'
    BY <1>1 DEF IInv, SendingSound, TypeOK
  <1>7. PlacesInOrder'
    BY <1>1, <1>2 DEF IInv, PlacesInOrder, Ordered, With
  <1>8. PageSound' /\ NoneSkipped'
    BY <1>1, <1>2 DEF IInv, PageSound, NoneSkipped, With
  <1>9. QED  BY <1>4, <1>5, <1>6, <1>7, <1>8 DEF IInv

-----------------------------------------------------------------------------
Switches == [Programs -> [step : Nat, lang : Editions, met : BOOLEAN] \cup {None}]

(* A step of one call, that leaves the places and the website alone.       *)
LEMMA AgentKeeps ==
    ASSUME IInv, NEW c \in Calls, NEW r \in ToolCall, call' = [call EXCEPT ![c] = r],
           UNCHANGED <<rows, site, entered, stray, erased>>,
           shown \subseteq shown', shown' \subseteq Frames, Sound(r, shown', entered, stray, erased),
           kept' \in Places, named' \in Switches,
           begun' \in 0 .. MaxCalls, lost' \in 0 .. MaxLost, UNCHANGED <<visits, reveals, forgets>>
    PROVE  IInv'
  <1>1. UNCHANGED <<rows, record, owed, page, sending, entered, stray, erased>>
    BY DEF site
  <1>2. call' \in [Calls -> ToolCall] /\ CallsSound'
    BY <1>1, OneCall DEF IInv
  <1>3. TypeOK'
    BY <1>1, <1>2 DEF IInv, TypeOK, Switches
  <1>4. SendingSound' /\ PlacesInOrder' /\ PageSound' /\ NoneSkipped'
    BY SiteKeeps
  <1>5. QED  BY <1>2, <1>3, <1>4 DEF IInv

\* What the invariant says of one call, its fields and the counters.
LEMMA CallTyped ==
    ASSUME IInv, NEW c \in Calls
    PROVE  /\ call[c] \in ToolCall /\ call[c].prog \in Programs /\ call[c].look \in Nat
           /\ call[c].lang \in Editions \cup {None} /\ call[c].step \in Nat
           /\ call[c].places \in Places
           /\ Sound(call[c], shown, entered, stray, erased)
           /\ erased \in Nat /\ shown \subseteq Frames /\ kept \in Places /\ named \in Switches
           /\ begun \in 0 .. MaxCalls /\ lost \in 0 .. MaxLost
  BY DEF IInv, TypeOK, ToolCall, CallsSound, Switches

\* The places an agent was told, with the edition kept for them.
LEMMA AdoptedTyped ==
    ASSUME IInv, NEW places \in Places, NEW p \in Programs
    PROVE  /\ Adopted(places, p) \in Place \cup {None}
           /\ Known(places, p) = None <=> places[p] = None
           /\ Known(places, p) # None => Known(places, p) \in Place
           /\ places[p] \in Place => Known(places, p) \in Place
  <1>1. kept[p] \in Place \cup {None} /\ places[p] \in Place \cup {None}
    BY DEF IInv, TypeOK, Places
  <1>2. Adopted(places, p) \in Place \cup {None}
    BY <1>1 DEF Adopted
  <1>3. QED  BY <1>1, <1>2 DEF Known

LEMMA AdoptsTyped ==
    ASSUME IInv, NEW places \in Places, AdoptsAll(places) PROVE kept' \in Places
  BY AdoptedTyped DEF AdoptsAll, Places

LEMMA KeepsTyped ==
    ASSUME IInv, NEW c \in Calls, NEW places \in Places, NEW step \in Nat \ {0}, NEW lang \in Editions,
           Keeps(c, places, step, lang)
    PROVE  kept' \in Places /\ named' \in Switches
  <1>. DEFINE p == call[c].prog
              met == call[c].look < erased \/ \E d \in Calls \ {c} : call[d].at # "idle"
  <1>1. [step |-> step, lang |-> lang] \in Place /\ p \in Programs
    BY CallTyped DEF Place
  <1>2. \A q \in Programs : Adopted(places, q) \in Place \cup {None}
    BY AdoptedTyped
  <1>3. met \in BOOLEAN
    BY Zenon
  <1>4. /\ kept' = [q \in Programs |-> IF q = p THEN [step |-> step, lang |-> lang] ELSE Adopted(places, q)]
        /\ named' = [named EXCEPT ![p] = [step |-> step, lang |-> lang, met |-> met]]
    BY Zenon DEF Keeps
  <1>. HIDE DEF p, met
  <1>5. kept' \in Places
    BY <1>1, <1>2, <1>4 DEF Places
  <1>6. [step |-> step, lang |-> lang, met |-> met] \in [step : Nat, lang : Editions, met : BOOLEAN]
    BY <1>3
  <1>7. named' \in Switches
    BY <1>1, <1>4, <1>6, CallTyped DEF Switches
  <1>8. QED  BY <1>5, <1>7

\* The inductive step, action by action.
LEMMA BeginKeeps ==
    ASSUME IInv, NEW c \in Calls, NEW tool \in Tools, NEW p \in Programs,
           NEW lang \in Editions \cup {None}, NEW step \in 0 .. Length[p], Begin(c, tool, p, lang, step)
    PROVE  IInv'
  <1>. DEFINE r == [Idle EXCEPT !.tool = tool, !.prog = p, !.at = "places", !.lang = lang, !.step = step]
  <1>1. step \in Nat
    BY TheBook
  <1>2. /\ r \in ToolCall /\ r.look = 0 /\ r.at = "places" /\ r.tool = tool /\ r.prog = p
        /\ r.step = step
    BY <1>1, IdleSound DEF ToolCall
  <1>3. tool = "submit" => <<p, step>> \in shown
    BY DEF Begin
  <1>4. /\ call' = [call EXCEPT ![c] = r] /\ UNCHANGED <<rows, site, kept, visits, reveals, forgets, lost>>
        /\ UNCHANGED <<shown, entered, stray, erased, named>>
        /\ begun < MaxCalls /\ begun' = begun + 1
    BY DEF Begin, history
  <1>. HIDE DEF r
  <1>5. Sound(r, shown, entered, stray, erased)
    <2>1. erased \in Nat
      BY CallTyped
    <2>2. QED  BY <1>2, <1>3, <2>1 DEF Sound
  <1>6. begun' \in 0 .. MaxCalls
    BY <1>4, CallTyped, Bounds
  <1>7. QED  BY <1>2, <1>4, <1>5, <1>6, AgentKeeps, CallTyped

LEMMA ListedKeeps == ASSUME IInv, NEW c \in Calls, Listed(c) PROVE IInv'
  <1>. DEFINE r == [call[c] EXCEPT !.at = "listed", !.places = rows, !.look = erased]
  <1>1. rows \in Places /\ erased \in Nat
    BY DEF IInv, TypeOK
  <1>2. /\ r \in ToolCall /\ r.look = erased /\ r.at = "listed" /\ r.tool = call[c].tool
        /\ r.prog = call[c].prog /\ r.step = call[c].step /\ r.places = rows
    BY <1>1, CallTyped DEF ToolCall
  <1>3. \A p \in With(rows) : p \in entered /\ Ordered(p, entered, stray)
    BY DEF IInv, PlacesInOrder
  <1>4. /\ call' = [call EXCEPT ![c] = r] /\ UNCHANGED <<rows, site, kept, begun, visits, reveals, forgets, lost>>
        /\ UNCHANGED <<shown, entered, stray, erased, named>>
        /\ call[c].at = "places"
    BY DEF Listed, history, counters
  <1>. HIDE DEF r
  <1>5. Sound(r, shown, entered, stray, erased)
    BY <1>1, <1>2, <1>3, <1>4, CallTyped DEF Sound
  <1>6. QED  BY <1>2, <1>4, <1>5, AgentKeeps, CallTyped

(* A call that ends, whatever it has shown.                                *)
LEMMA EndsKeeps ==
    ASSUME IInv, NEW c \in Calls, Ends(c), UNCHANGED <<rows, site, entered, stray, erased, named>>,
           shown \subseteq shown', shown' \subseteq Frames, kept' \in Places, lost' \in 0 .. MaxLost,
           UNCHANGED <<begun, visits, reveals, forgets>>
    PROVE  IInv'
  <1>1. Idle \in ToolCall /\ Sound(Idle, shown', entered, stray, erased)
    BY IdleSound, CallTyped
  <1>2. call' = [call EXCEPT ![c] = Idle]
    BY DEF Ends
  <1>3. named' \in Switches /\ begun' \in 0 .. MaxCalls
    BY CallTyped
  <1>4. QED  BY <1>1, <1>2, <1>3, AgentKeeps

LEMMA AnsweredOnlyKeeps == ASSUME IInv, NEW c \in Calls, AnsweredOnly(c) PROVE IInv'
  <1>1. AdoptsAll(call[c].places) /\ Ends(c) /\ UNCHANGED <<rows, site, counters, history>>
    BY DEF AnsweredOnly
  <1>2. kept' \in Places /\ lost \in 0 .. MaxLost /\ shown \subseteq Frames
    BY <1>1, CallTyped, AdoptsTyped
  <1>3. QED  BY <1>1, <1>2, EndsKeeps DEF counters, history

(* The first opening of a program whose predecessor has a place.           *)
LEMMA OpensFirstKeeps ==
    ASSUME IInv, NEW c \in Calls, NEW lang \in Editions, OpensFirst(c, lang) PROVE IInv'
  <1>. DEFINE r == [call[c] EXCEPT !.at = "open", !.lang = lang, !.places = NoPlaces]
              p == call[c].prog
              placed == With(call[c].places)
  <1>1. /\ call[c].at = "listed" /\ call[c].tool = "open" /\ Own(c) = None /\ IsOpen(placed, p)
        /\ AdoptsAll(call[c].places) /\ call' = [call EXCEPT ![c] = r]
        /\ UNCHANGED <<rows, site, counters, history>>
    BY DEF OpensFirst, Answer
  <1>2. NoPlaces \in Places
    BY DEF NoPlaces, Places
  <1>3. /\ r \in ToolCall /\ r.at = "open" /\ r.lang = lang /\ r.prog = p /\ r.look = call[c].look
    BY <1>2, CallTyped DEF ToolCall
  <1>4. p \in Programs /\ call[c].places \in Places /\ Sound(call[c], shown, entered, stray, erased)
    BY CallTyped
  <1>5. p \notin placed
    BY <1>1, <1>4, AdoptedTyped DEF Own, With
  <1>6. call[c].look = erased => Ordered(p, entered, stray)
    BY <1>1, <1>4, <1>5 DEF IsOpen, Sound, Ordered
  <1>. HIDE DEF r, p, placed
  <1>7. Sound(r, shown, entered, stray, erased)
    <2>1. call[c].look <= erased
      BY <1>4 DEF Sound
    <2>2. QED  BY <1>3, <1>6, <2>1 DEF Sound
  <1>8. kept' \in Places
    BY <1>1, <1>4, AdoptsTyped
  <1>9. QED  BY <1>1, <1>3, <1>7, <1>8, AgentKeeps, CallTyped DEF counters, history

(* A call that goes on to show a step of its program.                      *)
LEMMA ShowsKeeps ==
    ASSUME IInv, NEW c \in Calls, Shows(c), Own(c) \in Place,
           UNCHANGED <<rows, site, counters, shown, entered, stray, erased>>,
           kept' \in Places, named' \in Switches
    PROVE  IInv'
  <1>. DEFINE r == [Idle EXCEPT !.prog = call[c].prog, !.at = "show", !.step = Own(c).step]
  <1>1. Own(c).step \in Nat \ {0}
    BY DEF Place
  <1>2. r \in ToolCall /\ r.at = "show" /\ r.step = Own(c).step /\ r.look = 0
    BY <1>1, IdleSound, CallTyped DEF ToolCall
  <1>3. call' = [call EXCEPT ![c] = r]
    BY DEF Shows
  <1>. HIDE DEF r
  <1>4. Sound(r, shown, entered, stray, erased)
    <2>1. erased \in Nat
      BY CallTyped
    <2>2. QED  BY <1>1, <1>2, <2>1 DEF Sound
  <1>5. QED  BY <1>2, <1>3, <1>4, AgentKeeps, CallTyped DEF counters

LEMMA ResumesKeeps == ASSUME IInv, NEW c \in Calls, Resumes(c) PROVE IInv'
  <1>1. Own(c) \in Place
    BY CallTyped, AdoptedTyped DEF Resumes, Own
  <1>2. Shows(c) /\ UNCHANGED <<rows, site, counters, shown, entered, stray, erased>>
    BY DEF Resumes
  <1>3. kept' \in Places /\ named' \in Switches
    <2>1. CASE AdoptsAll(call[c].places) /\ UNCHANGED named
      BY <2>1, CallTyped, AdoptsTyped
    <2>2. CASE call[c].lang \in Editions /\ Keeps(c, call[c].places, Own(c).step, call[c].lang)
      <3>1. Own(c).step \in Nat \ {0} /\ call[c].places \in Places
        BY <1>1, CallTyped DEF Place
      <3>2. QED  BY <2>2, <3>1, KeepsTyped
    <2>3. QED  BY <2>1, <2>2, CallTyped DEF Resumes
  <1>4. QED  BY <1>1, <1>2, <1>3, ShowsKeeps

LEMMA OpenedKeeps == ASSUME IInv, NEW c \in Calls, Opened(c) PROVE IInv'
  <1>1. call[c].places \in Places /\ call[c].places[call[c].prog] \in Place /\ call[c].lang \in Editions
    BY CallTyped DEF Opened, Sound
  <1>2. Own(c) \in Place
    BY <1>1, CallTyped, AdoptedTyped DEF Own
  <1>3. Shows(c) /\ UNCHANGED <<rows, site, counters, shown, entered, stray, erased>>
    BY DEF Opened
  <1>4. kept' \in Places /\ named' \in Switches
    <2>1. CASE AdoptsAll(call[c].places) /\ UNCHANGED named
      BY <2>1, CallTyped, AdoptsTyped
    <2>2. CASE Keeps(c, call[c].places, Own(c).step, call[c].lang)
      <3>1. Own(c).step \in Nat \ {0}
        BY <1>2 DEF Place
      <3>2. QED  BY <1>1, <2>2, <3>1, KeepsTyped
    <2>3. QED  BY <2>1, <2>2 DEF Opened
  <1>5. QED  BY <1>2, <1>3, <1>4, ShowsKeeps

(* The step a submit_answer asks for is one of a place it was told of.     *)
LEMMA SubmitsKeeps == ASSUME IInv, NEW c \in Calls, Submits(c) PROVE IInv'
  <1>. DEFINE r == [call[c] EXCEPT !.at = "here", !.lang = Own(c).lang]
              p == call[c].prog
  <1>1. /\ call[c].at = "listed" /\ call[c].tool = "submit" /\ Own(c) # None
        /\ AdoptsAll(call[c].places) /\ call' = [call EXCEPT ![c] = r]
        /\ UNCHANGED <<rows, site, counters, history>>
    BY DEF Submits, Answer
  <1>2. p \in Programs /\ call[c].places \in Places /\ Sound(call[c], shown, entered, stray, erased)
    BY CallTyped
  <1>3. Own(c) \in Place /\ call[c].places[p] # None
    BY <1>1, <1>2, AdoptedTyped DEF Own
  <1>4. call[c].places[p] \in Place /\ Own(c).lang \in Editions
    BY <1>2, <1>3 DEF Places, Place
  <1>5. /\ r \in ToolCall /\ r.at = "here" /\ r.lang \in Editions /\ r.tool = "submit" /\ r.prog = p
        /\ r.step = call[c].step /\ r.places = call[c].places /\ r.look = call[c].look
    BY <1>1, <1>4, CallTyped DEF ToolCall
  <1>6. call[c].look = erased => Ordered(p, entered, stray)
    BY <1>1, <1>2, <1>3 DEF Sound, With
  <1>7. call[c].look <= erased /\ <<p, call[c].step>> \in shown
    BY <1>1, <1>2 DEF Sound
  <1>. HIDE DEF r, p
  <1>8. Sound(r, shown, entered, stray, erased)
    BY <1>4, <1>5, <1>6, <1>7 DEF Sound
  <1>9. kept' \in Places
    BY <1>1, <1>2, AdoptsTyped
  <1>10. QED  BY <1>1, <1>5, <1>8, <1>9, AgentKeeps, CallTyped DEF counters, history

(* POST open makes a place in order, or the one that is there is told of.  *)
LEMMA OpenServedKeeps == ASSUME IInv, NEW c \in Calls, OpenServed(c) PROVE IInv'
  <1>. DEFINE p == call[c].prog
              place == IF rows[p] # None THEN rows[p] ELSE [step |-> 1, lang |-> call[c].lang]
              told == [NoPlaces EXCEPT ![p] = place]
              r == [call[c] EXCEPT !.at = "opened", !.places = told]
  <1>1. /\ call[c].at = "open" /\ call' = [call EXCEPT ![c] = r]
        /\ IF rows[p] # None THEN UNCHANGED <<rows, entered, stray>> ELSE Moves(p, place, call[c].look)
        /\ UNCHANGED <<record, owed, page, sending, kept, counters, shown, erased, named>>
    BY DEF OpenServed, site
  <1>2. /\ p \in Programs /\ call[c].look \in Nat /\ call[c].look <= erased /\ call[c].lang \in Editions
        /\ call[c].look = erased => Ordered(p, entered, stray)
    BY <1>1, CallTyped DEF Sound
  <1>3. place \in Place /\ (rows[p] = None => place.step = 1)
    BY <1>2, CursorInTheBook DEF IInv, Place
  <1>4. told \in Places /\ told[p] = place
    BY <1>2, <1>3 DEF NoPlaces, Places
  <1>. HIDE DEF place, told
  <1>5. /\ r \in ToolCall /\ r.at = "opened" /\ r.lang \in Editions /\ r.prog = p
        /\ r.places[p] \in Place /\ r.look = call[c].look
    BY <1>2, <1>3, <1>4, CallTyped DEF ToolCall
  <1>. HIDE DEF p, r
  <1>6. /\ rows' \in Places /\ \A q \in Programs : rows'[q] # None => rows'[q].step <= Length[q]
        /\ entered' \subseteq Programs /\ entered \subseteq entered'
        /\ stray' \subseteq Programs /\ stray \subseteq stray'
        /\ PlacesInOrder' /\ NoneSkipped'
    <2>1. CASE rows[p] # None
      <3>1. UNCHANGED <<rows, entered, stray>>
        BY <1>1, <2>1
      <3>2. QED  BY <1>1, <3>1 DEF IInv, TypeOK, PlacesInOrder, NoneSkipped, With
    <2>2. CASE rows[p] = None
      <3>1. place.step <= Length[p] /\ \A n \in 1 .. place.step - 1 : <<p, n>> \in shown
        BY <1>2, <1>3, <2>2, TheBook
      <3>2. QED  BY <1>1, <1>2, <1>3, <2>2, <3>1, MovesKeeps
    <2>3. QED  BY <2>1, <2>2
  <1>7. Sound(r, shown', entered', stray', erased')
    BY <1>1, <1>2, <1>5 DEF Sound
  <1>8. call' \in [Calls -> ToolCall] /\ CallsSound'
    BY <1>1, <1>5, <1>6, <1>7, OneCall DEF IInv
  <1>9. TypeOK'
    BY <1>1, <1>6, <1>8 DEF IInv, TypeOK, counters
  <1>10. SendingSound' /\ PageSound'
    BY <1>1, <1>6 DEF IInv, SendingSound, PageSound, Ordered
  <1>11. QED  BY <1>6, <1>8, <1>9, <1>10 DEF IInv

LEMMA ShownKeeps == ASSUME IInv, NEW c \in Calls, Shown(c) PROVE IInv'
  <1>. DEFINE p == call[c].prog
  <1>1. p \in Programs /\ call[c].step \in Nat /\ call[c].step > 0
    BY CallTyped DEF Shown, Sound
  <1>2. call[c].step <= Cursor(p) => <<p, call[c].step>> \in Frames
    BY <1>1, CursorInTheBook, FrameFields, TheBook DEF IInv
  <1>3. /\ shown' = IF call[c].step <= Cursor(p) THEN shown \cup {<<p, call[c].step>>} ELSE shown
        /\ Ends(c) /\ UNCHANGED <<rows, site, kept, counters, entered, stray, erased, named>>
    BY DEF Shown
  <1>4. shown \subseteq shown' /\ shown' \subseteq Frames
    BY <1>2, <1>3, CallTyped
  <1>5. QED  BY <1>3, <1>4, EndsKeeps, CallTyped DEF counters

(* An answer to another step shows the one the reader is on; an answer to  *)
(* it goes on, and it has been shown.                                      *)
LEMMA HereServedKeeps == ASSUME IInv, NEW c \in Calls, HereServed(c) PROVE IInv'
  <1>. DEFINE p == call[c].prog
              place == call[c].places[p]
              r == [call[c] EXCEPT !.at = "advance", !.step = place.step, !.places = NoPlaces]
  <1>1. /\ call[c].at = "here" /\ UNCHANGED <<rows, site, kept, counters, entered, stray, erased, named>>
        /\ \/ Ends(c) /\ UNCHANGED shown
           \/ place.step <= Cursor(p) /\ Ends(c) /\ shown' = shown \cup {<<p, place.step>>}
           \/ call[c].step = place.step /\ call' = [call EXCEPT ![c] = r] /\ UNCHANGED shown
    BY DEF HereServed, AnswersIt
  <1>2. /\ p \in Programs /\ place \in Place /\ call[c].tool = "submit"
        /\ Sound(call[c], shown, entered, stray, erased) /\ call[c].lang \in Editions
    BY <1>1, CallTyped DEF Sound
  <1>3. place.step \in Nat \ {0}
    BY <1>2 DEF Place
  <1>4. CASE Ends(c) /\ UNCHANGED shown
    BY <1>1, <1>4, EndsKeeps, CallTyped DEF counters
  <1>5. CASE place.step <= Cursor(p) /\ Ends(c) /\ shown' = shown \cup {<<p, place.step>>}
    <2>1. <<p, place.step>> \in Frames
      BY <1>2, <1>3, <1>5, CursorInTheBook, FrameFields, TheBook DEF IInv
    <2>2. shown \subseteq shown' /\ shown' \subseteq Frames
      BY <1>5, <2>1, CallTyped
    <2>3. QED  BY <1>1, <1>5, <2>2, EndsKeeps, CallTyped DEF counters
  <1>6. CASE call[c].step = place.step /\ call' = [call EXCEPT ![c] = r] /\ UNCHANGED shown
    <2>1. NoPlaces \in Places
      BY DEF NoPlaces, Places
    <2>2. /\ r \in ToolCall /\ r.at = "advance" /\ r.tool = "submit" /\ r.prog = p
          /\ r.step = call[c].step /\ r.lang \in Editions /\ r.look = call[c].look
      BY <1>2, <1>3, <1>6, <2>1, CallTyped DEF ToolCall
    <2>3. /\ call[c].look <= erased /\ <<p, call[c].step>> \in shown
          /\ call[c].look = erased => Ordered(p, entered, stray)
      BY <1>1, <1>2 DEF Sound
    <2>. HIDE DEF r, p, place
    <2>4. Sound(r, shown, entered, stray, erased)
      BY <1>3, <1>6, <2>2, <2>3 DEF Sound
    <2>5. QED  BY <1>1, <1>6, <2>2, <2>4, AgentKeeps, CallTyped DEF counters
  <1>7. QED  BY <1>1, <1>4, <1>5, <1>6

(* The advance of a step that has been shown; what is served next is the   *)
(* step the reader is on by then.                                          *)
LEMMA AdvanceServedKeeps == ASSUME IInv, NEW c \in Calls, AdvanceServed(c) PROVE IInv'
  <1>. DEFINE p == call[c].prog
              next == IF call[c].step = Length[p] /\ call[c].step = Cursor(p) THEN 0
                      ELSE IF rows'[p] = None THEN 1 ELSE rows'[p].step
              r == [Idle EXCEPT !.prog = p, !.at = "advanced", !.step = next]
  <1>1. /\ call[c].at = "advance" /\ call' = [call EXCEPT ![c] = r]
        /\ Advances(p, call[c].step, call[c].lang, call[c].look)
        /\ UNCHANGED <<record, owed, page, sending, kept, counters, shown, erased, named>>
    BY DEF AdvanceServed, site
  <1>2. /\ p \in Programs /\ call[c].step \in Nat /\ call[c].lang \in Editions /\ call[c].look \in Nat
        /\ call[c].look <= erased /\ <<p, call[c].step>> \in shown
        /\ call[c].look = erased => Ordered(p, entered, stray)
    BY <1>1, CallTyped DEF Sound
  <1>3. /\ rows' \in Places /\ \A q \in Programs : rows'[q] # None => rows'[q].step <= Length[q]
        /\ entered' \subseteq Programs /\ entered \subseteq entered'
        /\ stray' \subseteq Programs /\ stray \subseteq stray'
        /\ PlacesInOrder' /\ NoneSkipped'
    BY <1>1, <1>2, AdvancesKeeps
  <1>4. next \in Nat /\ next <= Length[p]
    <2>1. rows'[p] # None => rows'[p] \in Place
      BY <1>2, <1>3 DEF Places
    <2>2. QED  BY <1>2, <1>3, <2>1, TheBook DEF Place
  <1>. HIDE DEF next
  <1>5. r \in ToolCall /\ r.at = "advanced" /\ r.step = next /\ r.prog = p /\ r.look = 0
    BY <1>2, <1>4, IdleSound DEF ToolCall
  <1>. HIDE DEF p, r
  <1>6. Sound(r, shown', entered', stray', erased')
    <2>1. erased' \in Nat
      BY <1>1 DEF IInv, TypeOK
    <2>2. QED  BY <1>4, <1>5, <2>1 DEF Sound
  <1>7. call' \in [Calls -> ToolCall] /\ CallsSound'
    BY <1>1, <1>3, <1>5, <1>6, OneCall DEF IInv
  <1>8. TypeOK'
    BY <1>1, <1>3, <1>7 DEF IInv, TypeOK, counters
  <1>9. SendingSound' /\ PageSound'
    BY <1>1, <1>3 DEF IInv, SendingSound, PageSound, Ordered
  <1>10. QED  BY <1>3, <1>7, <1>8, <1>9 DEF IInv

LEMMA AdvancedKeeps == ASSUME IInv, NEW c \in Calls, Advanced(c) PROVE IInv'
  <1>. DEFINE p == call[c].prog
  <1>1. p \in Programs /\ call[c].step \in Nat /\ call[c].step <= Length[p]
    BY CallTyped DEF Advanced, Sound
  <1>2. /\ kept' = SwitchCarried(p, call[c].step)
        /\ shown' = IF call[c].step = 0 THEN shown ELSE shown \cup {<<p, call[c].step>>}
        /\ Ends(c) /\ UNCHANGED <<rows, site, counters, entered, stray, erased, named>>
    BY DEF Advanced
  <1>3. call[c].step # 0 => <<p, call[c].step>> \in Frames
    BY <1>1, FrameFields, TheBook
  <1>4. shown \subseteq shown' /\ shown' \subseteq Frames
    BY <1>2, <1>3, CallTyped
  <1>5. kept' \in Places
    BY <1>1, <1>2, CallTyped DEF SwitchCarried, Places
  <1>6. QED  BY <1>2, <1>4, <1>5, EndsKeeps, CallTyped DEF counters

LEMMA FailKeeps == ASSUME IInv, NEW c \in Calls, Fail(c) PROVE IInv'
  <1>1. /\ Ends(c) /\ lost < MaxLost /\ lost' = lost + 1
        /\ UNCHANGED <<rows, site, kept, begun, visits, reveals, forgets, history>>
    BY DEF Fail
  <1>2. lost' \in 0 .. MaxLost
    BY <1>1, CallTyped, Bounds
  <1>3. QED  BY <1>1, <1>2, EndsKeeps, CallTyped DEF history

(* A process that ends forgets its calls and its switches.                 *)
LEMMA RestartKeeps == ASSUME IInv, Restart PROVE IInv'
  <1>1. /\ lost < MaxLost /\ lost' = lost + 1 /\ call' = [c \in Calls |-> Idle]
        /\ kept' = NoPlaces /\ named' = NoPlaces
        /\ UNCHANGED <<rows, site, begun, visits, reveals, forgets, shown, entered, stray, erased>>
    BY DEF Restart
  <1>2. UNCHANGED <<rows, record, owed, page, sending, entered, stray, erased>>
    BY <1>1 DEF site
  <1>3. NoPlaces \in Places /\ NoPlaces \in Switches
    BY DEF NoPlaces, Places, Switches
  <1>4. lost' \in 0 .. MaxLost /\ kept' \in Places /\ named' \in Switches
    <2>1. lost' \in 0 .. MaxLost
      BY <1>1, Bounds DEF IInv, TypeOK
    <2>2. QED  BY <1>1, <1>3, <2>1
  <1>5. call' \in [Calls -> ToolCall] /\ CallsSound'
    <2>1. erased' \in Nat
      BY <1>1 DEF IInv, TypeOK
    <2>2. QED  BY <1>1, <2>1, IdleSound DEF CallsSound
  <1>6. TypeOK'
    BY <1>1, <1>2, <1>4, <1>5 DEF IInv, TypeOK, Switches
  <1>7. SendingSound' /\ PlacesInOrder' /\ PageSound' /\ NoneSkipped'
    BY <1>1, SiteKeeps
  <1>8. QED  BY <1>5, <1>6, <1>7 DEF IInv

-----------------------------------------------------------------------------
LEMMA NextKeeps == IInv /\ [Next]_vars => IInv'
  <1>. SUFFICES ASSUME IInv, [Next]_vars PROVE IInv'
    OBVIOUS
  <1>1. CASE UNCHANGED vars
    <2>1. /\ UNCHANGED <<rows, record, owed, page, sending, kept, call>>
          /\ UNCHANGED <<begun, visits, reveals, forgets, lost>>
          /\ UNCHANGED <<shown, entered, stray, erased, named>>
      BY <1>1 DEF vars, site, agent, counters, history
    <2>2. TypeOK'
      BY <2>1 DEF IInv, TypeOK
    <2>3. CallsSound'
      BY <2>1, CallsKept DEF IInv
    <2>4. SendingSound' /\ PlacesInOrder' /\ PageSound' /\ NoneSkipped'
      BY <2>1, SiteKeeps DEF site
    <2>5. QED  BY <2>2, <2>3, <2>4 DEF IInv
  <1>2. ASSUME NEW c \in Calls,
               Listed(c) \/ AnsweredOnly(c) \/ Resumes(c) \/ Submits(c) \/ OpenServed(c) \/ Opened(c)
               \/ Shown(c) \/ HereServed(c) \/ AdvanceServed(c) \/ Advanced(c) \/ Fail(c)
        PROVE  IInv'
    BY <1>2, ListedKeeps, AnsweredOnlyKeeps, ResumesKeeps, SubmitsKeeps, OpenServedKeeps, OpenedKeeps,
       ShownKeeps, HereServedKeeps, AdvanceServedKeeps, AdvancedKeeps, FailKeeps
  <1>3. QED
    BY <1>1, <1>2, VisitKeeps, RevealKeeps, RevealedKeeps, SyncKeeps, ForgetKeeps, ErasedKeeps,
       RestartKeeps, BeginKeeps, OpensFirstKeeps DEF Next

LEMMA Always == Spec => []IInv
  BY InitGood, NextKeeps, PTL DEF Spec

-----------------------------------------------------------------------------
(* SwitchHolds.  A switch made while no other call was under way is at or  *)
(* behind the account's place, and so is whatever a later call was told    *)
(* of, or answers; a call that was told of a later step carries it.        *)
Told == {"listed", "here", "opened"}

Follows(r, p, row, step) ==
    /\ r.at \in Told /\ r.places[p] # None => step <= r.places[p].step /\ r.places[p].step <= row.step
    /\ r.at = "advance" /\ r.prog = p => step <= r.step /\ r.step <= row.step
    /\ r.at = "advanced" /\ r.prog = p /\ r.step # 0 => step < row.step

SwitchesHeld ==
    \A p \in Programs : named[p] # None /\ ~ named[p].met =>
        /\ rows[p] # None /\ named[p].step <= rows[p].step
        /\ rows[p].step = named[p].step => kept[p] = [step |-> named[p].step, lang |-> named[p].lang]
        /\ \A c \in Calls : Follows(call[c], p, rows[p], named[p].step)

Behind(r, p, row, times) ==
    r.at \in Told /\ r.look = times /\ r.places[p] # None => row # None /\ r.places[p].step <= row.step

ToldIsBehind == \A c \in Calls, p \in Programs : Behind(call[c], p, rows[p], erased)

SInv == SwitchesHeld /\ ToldIsBehind

RowsGrow ==
    \A p \in Programs : rows[p] # None => rows'[p] # None /\ rows[p].step <= rows'[p].step

\* A row has a place of at least the first step.
LEMMA RowTyped ==
    ASSUME IInv, NEW p \in Programs, rows[p] # None PROVE rows[p] \in Place /\ rows[p].step \in Nat \ {0}
  BY CursorInTheBook DEF IInv, Place

LEMMA NamedTyped ==
    ASSUME IInv, NEW p \in Programs, named[p] # None PROVE named[p].step \in Nat
  BY DEF IInv, TypeOK

LEMMA ToldTyped ==
    ASSUME IInv, NEW c \in Calls, NEW p \in Programs, call[c].places[p] # None
    PROVE  call[c].places[p] \in Place /\ call[c].places[p].step \in Nat \ {0}
  BY CallTyped DEF Places, Place

(* A row that has grown is as far ahead of a call as it was.               *)
LEMMA CallBehind ==
    ASSUME IInv, IInv', SInv, RowsGrow, NEW c \in Calls, NEW p \in Programs
    PROVE  /\ named[p] # None /\ ~ named[p].met => Follows(call[c], p, rows'[p], named[p].step)
           /\ Behind(call[c], p, rows'[p], erased)
  <1>1. CASE rows[p] # None
    <2>1. rows[p].step \in Nat /\ rows'[p].step \in Nat /\ rows'[p] # None /\ rows[p].step <= rows'[p].step
      <3>1. rows'[p] # None /\ rows[p].step <= rows'[p].step
        BY <1>1 DEF RowsGrow
      <3>2. rows'[p] \in Place
        BY <3>1 DEF IInv, TypeOK, Places
      <3>3. QED  BY <1>1, <3>1, <3>2, RowTyped DEF Place
    <2>2. call[c].step \in Nat /\ (call[c].places[p] # None => call[c].places[p].step \in Nat)
      BY CallTyped, ToldTyped
    <2>3. Behind(call[c], p, rows'[p], erased)
      BY <2>1, <2>2 DEF SInv, ToldIsBehind, Behind
    <2>4. ASSUME named[p] # None, ~ named[p].met PROVE Follows(call[c], p, rows'[p], named[p].step)
      <3>1. Follows(call[c], p, rows[p], named[p].step) /\ named[p].step \in Nat
        BY <2>4, NamedTyped DEF SInv, SwitchesHeld
      <3>2. QED  BY <2>1, <2>2, <3>1 DEF Follows
    <2>5. QED  BY <2>3, <2>4
  <1>2. CASE rows[p] = None
    BY <1>2 DEF SInv, SwitchesHeld, ToldIsBehind, Behind
  <1>3. QED  BY <1>1, <1>2

(* One call goes on as r: switches that have not been overtaken stay.      *)
LEMMA OneCallSwitch ==
    ASSUME IInv, IInv', SInv, RowsGrow, NEW c \in Calls, NEW r \in ToolCall,
           call' = [call EXCEPT ![c] = r], UNCHANGED <<named, erased>>,
           \A p \in Programs :
               /\ named[p] # None /\ ~ named[p].met =>
                    /\ Follows(r, p, rows'[p], named[p].step)
                    /\ rows'[p].step = named[p].step => kept'[p] = kept[p]
               /\ Behind(r, p, rows'[p], erased)
    PROVE  SInv'
  <1>1. call'[c] = r /\ \A d \in Calls \ {c} : call'[d] = call[d]
    BY DEF IInv, TypeOK
  <1>2. ToldIsBehind'
    <2>1. ASSUME NEW d \in Calls, NEW p \in Programs PROVE Behind(call'[d], p, rows'[p], erased)
      BY <1>1, CallBehind
    <2>2. QED  BY <2>1 DEF ToldIsBehind
  <1>3. SwitchesHeld'
    <2>1. ASSUME NEW p \in Programs, named[p] # None, ~ named[p].met
          PROVE  /\ rows'[p] # None /\ named[p].step <= rows'[p].step
                 /\ rows'[p].step = named[p].step => kept'[p] = [step |-> named[p].step, lang |-> named[p].lang]
                 /\ \A d \in Calls : Follows(call'[d], p, rows'[p], named[p].step)
      <3>1. /\ rows[p] # None /\ named[p].step <= rows[p].step
            /\ rows[p].step = named[p].step => kept[p] = [step |-> named[p].step, lang |-> named[p].lang]
        BY <2>1 DEF SInv, SwitchesHeld
      <3>2. /\ rows'[p] # None /\ rows[p].step <= rows'[p].step
            /\ rows[p].step \in Nat /\ named[p].step \in Nat /\ rows'[p].step \in Nat
        <4>1. rows'[p] # None /\ rows[p].step <= rows'[p].step
          BY <3>1 DEF RowsGrow
        <4>2. rows'[p] \in Place
          BY <4>1 DEF IInv, TypeOK, Places
        <4>3. QED  BY <2>1, <3>1, <4>1, <4>2, RowTyped, NamedTyped DEF Place
      <3>3. \A d \in Calls : Follows(call'[d], p, rows'[p], named[p].step)
        BY <1>1, <2>1, CallBehind
      <3>4. rows'[p].step = named[p].step => kept'[p] = [step |-> named[p].step, lang |-> named[p].lang]
        BY <2>1, <3>1, <3>2
      <3>5. QED  BY <3>1, <3>2, <3>3, <3>4
    <2>2. QED  BY <2>1 DEF SwitchesHeld
  <1>4. QED  BY <1>2, <1>3 DEF SInv

(* A step of the website, or of the account for it.                        *)
LEMMA SiteSwitch ==
    ASSUME IInv, IInv', SInv, RowsGrow, UNCHANGED <<kept, call, named, erased>> PROVE SInv'
  <1>1. ToldIsBehind'
    BY CallBehind DEF ToldIsBehind
  <1>2. SwitchesHeld'
    <2>1. ASSUME NEW p \in Programs, named[p] # None, ~ named[p].met
          PROVE  /\ rows'[p] # None /\ named[p].step <= rows'[p].step
                 /\ rows'[p].step = named[p].step => kept[p] = [step |-> named[p].step, lang |-> named[p].lang]
                 /\ \A d \in Calls : Follows(call[d], p, rows'[p], named[p].step)
      <3>1. /\ rows[p] # None /\ named[p].step <= rows[p].step
            /\ rows[p].step = named[p].step => kept[p] = [step |-> named[p].step, lang |-> named[p].lang]
        BY <2>1 DEF SInv, SwitchesHeld
      <3>2. rows'[p] # None /\ rows[p].step <= rows'[p].step
        BY <3>1 DEF RowsGrow
      <3>3. rows'[p].step \in Nat /\ rows[p].step \in Nat /\ named[p].step \in Nat
        <4>1. rows'[p] \in Place
          BY <3>2 DEF IInv, TypeOK, Places
        <4>2. QED  BY <2>1, <3>1, <4>1, RowTyped, NamedTyped DEF Place
      <3>4. \A d \in Calls : Follows(call[d], p, rows'[p], named[p].step)
        BY <2>1, CallBehind
      <3>5. QED  BY <3>1, <3>2, <3>3, <3>4
    <2>2. QED  BY <2>1 DEF SwitchesHeld
  <1>3. QED  BY <1>1, <1>2 DEF SInv

\* A step that leaves the rows, or advances, takes no place back.
LEMMA SameRowsGrow == ASSUME IInv, UNCHANGED rows PROVE RowsGrow
  BY RowTyped DEF RowsGrow

LEMMA AdvancesGrow ==
    ASSUME IInv, NEW p \in Programs, NEW answering, NEW lang \in Editions, NEW look,
           Advances(p, answering, lang, look)
    PROVE  /\ RowsGrow
           /\ \/ UNCHANGED rows /\ ~ (answering = Cursor(p) /\ answering < Length[p])
              \/ rows'[p].step = answering + 1 /\ answering = Cursor(p)
  <1>1. CASE answering = Cursor(p) /\ answering < Length[p]
    <2>1. rows' = [rows EXCEPT ![p] = [step |-> answering + 1, lang |-> lang]]
      BY <1>1 DEF Advances, Moves
    <2>2. rows \in [Programs -> Place \cup {None}]
      BY DEF IInv, TypeOK, Places
    <2>3. rows'[p] = [step |-> answering + 1, lang |-> lang] /\ \A q \in Programs \ {p} : rows'[q] = rows[q]
      BY <2>1, <2>2
    <2>4. rows[p] # None => rows[p].step = answering
      BY <1>1 DEF Cursor
    <2>5. rows[p] # None => rows'[p] # None /\ rows[p].step <= rows'[p].step
      <3>1. answering + 1 \in Nat \ {0}
        BY <1>1, CursorInTheBook, TheBook DEF IInv
      <3>2. rows'[p] # None
        BY <2>3, <3>1, NoPlaceIsNone DEF Place
      <3>3. QED  BY <2>3, <2>4, <3>2, RowTyped
    <2>6. QED  BY <1>1, <2>3, <2>5, RowTyped DEF RowsGrow
  <1>2. CASE ~ (answering = Cursor(p) /\ answering < Length[p])
    BY <1>2, SameRowsGrow DEF Advances
  <1>3. QED  BY <1>1, <1>2

(* A call that waits for the list, opens, shows or has ended is told of    *)
(* nothing that a switch could be behind.                                  *)
LEMMA SaysNothing ==
    ASSUME NEW r, r.at \in {"idle", "places", "open", "show"}, NEW p, NEW row, NEW step, NEW times
    PROVE  Follows(r, p, row, step) /\ Behind(r, p, row, times)
  BY DEF Follows, Behind, Told

(* A list that is not behind a switch leaves it where the place is at it.  *)
LEMMA AdoptedHolds ==
    ASSUME IInv, SInv, NEW c \in Calls, call[c].at \in {"listed", "opened"}, NEW p \in Programs,
           named[p] # None, ~ named[p].met, rows[p].step = named[p].step
    PROVE  Adopted(call[c].places, p) = kept[p]
  <1>1. kept[p] = [step |-> named[p].step, lang |-> named[p].lang] /\ rows[p] # None
    BY DEF SInv, SwitchesHeld
  <1>2. CASE call[c].places[p] # None
    <2>1. Follows(call[c], p, rows[p], named[p].step)
      BY DEF SInv, SwitchesHeld
    <2>2. call[c].places[p].step = named[p].step
      BY <1>1, <1>2, <2>1, NamedTyped, ToldTyped, RowTyped DEF Follows, Told
    <2>3. QED  BY <1>1, <2>2 DEF Adopted
  <1>3. CASE call[c].places[p] = None
    BY <1>3 DEF Adopted
  <1>4. QED  BY <1>2, <1>3

\* What a call knows as its own is the place it was told, in the kept edition.
LEMMA OwnStep ==
    ASSUME IInv, NEW c \in Calls, Own(c) # None
    PROVE  call[c].places[call[c].prog] # None /\ Own(c).step = call[c].places[call[c].prog].step
  <1>. DEFINE p == call[c].prog
              places == call[c].places
  <1>1. p \in Programs /\ places \in Places
    BY CallTyped
  <1>. HIDE DEF p, places
  <1>2. places[p] # None
    BY <1>1, AdoptedTyped DEF Own, p, places
  <1>3. Known(places, p).step = places[p].step
    BY <1>2 DEF Known, Adopted
  <1>4. QED  BY <1>2, <1>3 DEF Own, p, places

(* A call that says nothing any more, having adopted what it was told.     *)
LEMMA QuietSwitch ==
    ASSUME IInv, IInv', SInv, NEW c \in Calls, NEW r \in ToolCall,
           r.at \in {"idle", "places", "open", "show"},
           call' = [call EXCEPT ![c] = r], UNCHANGED <<rows, named, erased>>,
           \/ UNCHANGED kept
           \/ call[c].at \in {"listed", "opened"} /\ AdoptsAll(call[c].places)
    PROVE  SInv'
  <1>1. RowsGrow
    BY SameRowsGrow
  <1>2. ASSUME NEW p \in Programs, named[p] # None, ~ named[p].met, rows[p].step = named[p].step
        PROVE  kept'[p] = kept[p]
    BY <1>2, AdoptedHolds DEF AdoptsAll
  <1>3. ASSUME NEW p \in Programs
        PROVE  Follows(r, p, rows'[p], named[p].step) /\ Behind(r, p, rows'[p], erased)
    BY SaysNothing
  <1>4. QED  BY <1>1, <1>2, <1>3, OneCallSwitch

(* An ended call says nothing, and ending one carries a switch only where  *)
(* the place has gone past it.                                             *)
LEMMA EndsSwitch ==
    ASSUME IInv, IInv', SInv, NEW c \in Calls, Ends(c), UNCHANGED <<rows, kept, named, erased>>
    PROVE  SInv'
  BY IdleSound, QuietSwitch DEF Ends

\* A call that goes on to show is a tool call at its showing.
LEMMA ShowFields ==
    ASSUME IInv, NEW c \in Calls, Shows(c), Own(c) \in Place
    PROVE  \E r \in ToolCall : r.at = "show" /\ call' = [call EXCEPT ![c] = r]
  <1>. DEFINE r == [Idle EXCEPT !.prog = call[c].prog, !.at = "show", !.step = Own(c).step]
  <1>1. r \in ToolCall /\ r.at = "show"
    BY IdleSound, CallTyped DEF ToolCall, Place
  <1>2. QED  BY <1>1 DEF Shows

(* A switch that is made now is at the place, or another was made when the *)
(* account had forgotten, or a call was under way.                         *)
LEMMA KeepsSwitch ==
    ASSUME IInv, IInv', SInv, NEW c \in Calls, NEW lang \in Editions,
           call[c].at \in {"listed", "opened"}, Own(c) \in Place, Own(c) # None,
           Keeps(c, call[c].places, Own(c).step, lang), Shows(c), UNCHANGED <<rows, erased>>
    PROVE  SInv'
  <1>. DEFINE p == call[c].prog
              step == Own(c).step
              met == call[c].look < erased \/ \E d \in Calls \ {c} : call[d].at # "idle"
  <1>1. PICK r \in ToolCall : r.at = "show" /\ call' = [call EXCEPT ![c] = r]
    BY ShowFields
  <1>2. call'[c] = r /\ \A d \in Calls \ {c} : call'[d] = call[d]
    BY <1>1 DEF IInv, TypeOK
  <1>3. p \in Programs /\ step \in Nat
    BY CallTyped DEF Place
  <1>4. /\ kept' = [q \in Programs |->
                      IF q = p THEN [step |-> step, lang |-> lang] ELSE Adopted(call[c].places, q)]
        /\ named' = [named EXCEPT ![p] = [step |-> step, lang |-> lang, met |-> met]]
    BY Zenon DEF Keeps
  <1>5. ToldIsBehind'
    <2>1. ASSUME NEW d \in Calls, NEW q \in Programs PROVE Behind(call'[d], q, rows[q], erased)
      <3>1. CASE d = c
        BY <1>1, <1>2, <3>1, SaysNothing
      <3>2. CASE d # c
        BY <1>2, <3>2 DEF SInv, ToldIsBehind
      <3>3. QED  BY <3>1, <3>2
    <2>2. QED  BY <2>1 DEF ToldIsBehind
  <1>6. ASSUME ~ met
        PROVE  /\ rows[p] # None /\ step <= rows[p].step
               /\ \A d \in Calls : call'[d].at \in {"idle", "show"}
    <2>1. call[c].look = erased /\ \A d \in Calls \ {c} : call[d].at = "idle"
      <3>1. ~ (call[c].look < erased) /\ \A d \in Calls \ {c} : call[d].at = "idle"
        BY <1>6, Zenon
      <3>2. call[c].look <= erased /\ call[c].look \in Nat /\ erased \in Nat
        BY CallTyped DEF Sound
      <3>3. QED  BY <3>1, <3>2
    <2>2. call[c].places[p] # None /\ step = call[c].places[p].step
      BY OwnStep
    <2>3. Behind(call[c], p, rows[p], erased)
      BY <1>3 DEF SInv, ToldIsBehind
    <2>4. QED  BY <1>1, <1>2, <2>1, <2>2, <2>3 DEF Behind, Told
  <1>. HIDE DEF p, step, met
  <1>7. /\ named'[p] = [step |-> step, lang |-> lang, met |-> met]
        /\ named'[p].met = met
        /\ \A q \in Programs \ {p} : named'[q] = named[q]
    BY <1>3, <1>4, CallTyped DEF Switches
  <1>8. SwitchesHeld'
    <2>1. ASSUME NEW q \in Programs, named'[q] # None, ~ named'[q].met
          PROVE  /\ rows[q] # None /\ named'[q].step <= rows[q].step
                 /\ rows[q].step = named'[q].step => kept'[q] = [step |-> named'[q].step, lang |-> named'[q].lang]
                 /\ \A d \in Calls : Follows(call'[d], q, rows[q], named'[q].step)
      <3>1. CASE q = p
        <4>1. ~ met
          BY <1>7, <2>1, <3>1, Zenon
        <4>2. named'[q].step = step /\ named'[q].lang = lang
          BY <1>7, <3>1
        <4>3. kept'[q] = [step |-> step, lang |-> lang]
          BY <1>3, <1>4, <3>1
        <4>4. \A d \in Calls : Follows(call'[d], q, rows[q], named'[q].step)
          BY <1>6, <4>1, SaysNothing
        <4>5. QED  BY <1>6, <3>1, <4>1, <4>2, <4>3, <4>4
      <3>2. CASE q # p
        <4>1. named'[q] = named[q] /\ kept'[q] = Adopted(call[c].places, q)
          BY <1>4, <1>7, <3>2
        <4>2. ASSUME NEW d \in Calls PROVE Follows(call'[d], q, rows[q], named[q].step)
          <5>1. CASE d = c
            BY <1>1, <1>2, <5>1, SaysNothing
          <5>2. CASE d # c
            BY <1>2, <2>1, <4>1, <5>2 DEF SInv, SwitchesHeld
          <5>3. QED  BY <5>1, <5>2
        <4>3. QED  BY <2>1, <4>1, <4>2, AdoptedHolds DEF SInv, SwitchesHeld
      <3>3. QED  BY <3>1, <3>2
    <2>2. QED  BY <2>1 DEF SwitchesHeld
  <1>9. QED  BY <1>5, <1>8 DEF SInv

(* A call that was told of its places says of the step it answers what it  *)
(* was told.                                                               *)
LEMMA SubmitsSwitch ==
    ASSUME IInv, IInv', SInv, NEW c \in Calls, Submits(c) PROVE SInv'
  <1>. DEFINE r == [call[c] EXCEPT !.at = "here", !.lang = Own(c).lang]
  <1>1. /\ call[c].at = "listed" /\ AdoptsAll(call[c].places) /\ call' = [call EXCEPT ![c] = r]
        /\ UNCHANGED <<rows, named, erased>>
    BY DEF Submits, Answer, history
  <1>2. call'[c] = r /\ call'[c] \in ToolCall
    <2>1. call \in [Calls -> ToolCall] /\ call' \in [Calls -> ToolCall]
      BY DEF IInv, TypeOK
    <2>2. QED  BY <1>1, <2>1
  <1>3. r.at = "here" /\ r.places = call[c].places /\ r.look = call[c].look
    BY CallTyped DEF ToolCall
  <1>. HIDE DEF r
  <1>4. ASSUME NEW p \in Programs
        PROVE  /\ named[p] # None /\ ~ named[p].met =>
                    /\ Follows(r, p, rows'[p], named[p].step)
                    /\ rows'[p].step = named[p].step => kept'[p] = kept[p]
               /\ Behind(r, p, rows'[p], erased)
    <2>1. Behind(r, p, rows[p], erased)
      BY <1>1, <1>3 DEF SInv, ToldIsBehind, Behind, Told
    <2>2. ASSUME named[p] # None, ~ named[p].met PROVE Follows(r, p, rows[p], named[p].step)
      BY <1>1, <1>3, <2>2 DEF SInv, SwitchesHeld, Follows, Told
    <2>3. ASSUME named[p] # None, ~ named[p].met, rows[p].step = named[p].step PROVE kept'[p] = kept[p]
      BY <1>1, <2>3, AdoptedHolds DEF AdoptsAll
    <2>4. QED  BY <1>1, <2>1, <2>2, <2>3
  <1>5. QED  BY <1>1, <1>2, <1>4, SameRowsGrow, OneCallSwitch

\* The switch's invariant, action by action.
LEMMA ListedSwitch ==
    ASSUME IInv, IInv', SInv, NEW c \in Calls, Listed(c) PROVE SInv'
  <1>. DEFINE r == [call[c] EXCEPT !.at = "listed", !.places = rows, !.look = erased]
  <1>1. call' = [call EXCEPT ![c] = r] /\ UNCHANGED <<rows, kept, named, erased>>
    BY DEF Listed, history
  <1>2. call'[c] = r /\ call'[c] \in ToolCall
    <2>1. call \in [Calls -> ToolCall] /\ call' \in [Calls -> ToolCall]
      BY DEF IInv, TypeOK
    <2>2. QED  BY <1>1, <2>1
  <1>3. r.at = "listed" /\ r.places = rows /\ r.look = erased
    BY CallTyped DEF ToolCall
  <1>. HIDE DEF r
  <1>4. ASSUME NEW p \in Programs
        PROVE  /\ named[p] # None /\ ~ named[p].met =>
                    /\ Follows(r, p, rows'[p], named[p].step)
                    /\ rows'[p].step = named[p].step => kept'[p] = kept[p]
               /\ Behind(r, p, rows'[p], erased)
    <2>1. rows[p] # None => rows[p].step \in Nat
      BY RowTyped
    <2>2. Behind(r, p, rows[p], erased)
      BY <1>3, <2>1 DEF Behind
    <2>3. ASSUME named[p] # None, ~ named[p].met PROVE Follows(r, p, rows[p], named[p].step)
      <3>1. rows[p] # None /\ named[p].step <= rows[p].step
        BY <2>3 DEF SInv, SwitchesHeld
      <3>2. QED  BY <1>3, <2>1, <3>1 DEF Follows
    <2>4. QED  BY <1>1, <2>2, <2>3
  <1>5. QED  BY <1>1, <1>2, <1>4, SameRowsGrow, OneCallSwitch

LEMMA OpenServedSwitch ==
    ASSUME IInv, IInv', SInv, NEW c \in Calls, OpenServed(c) PROVE SInv'
  <1>. DEFINE p == call[c].prog
              place == IF rows[p] # None THEN rows[p] ELSE [step |-> 1, lang |-> call[c].lang]
              told == [NoPlaces EXCEPT ![p] = place]
              r == [call[c] EXCEPT !.at = "opened", !.places = told]
  <1>1. /\ call' = [call EXCEPT ![c] = r] /\ UNCHANGED <<kept, named, erased>>
        /\ IF rows[p] # None THEN UNCHANGED rows ELSE rows' = [rows EXCEPT ![p] = place]
        /\ call[c].lang \in Editions /\ p \in Programs
    BY CallTyped DEF OpenServed, Moves, Sound
  <1>2. call'[c] = r /\ call'[c] \in ToolCall
    <2>1. call \in [Calls -> ToolCall] /\ call' \in [Calls -> ToolCall]
      BY DEF IInv, TypeOK
    <2>2. QED  BY <1>1, <2>1
  <1>3. r.at = "opened" /\ r.places = told
    BY CallTyped DEF ToolCall
  <1>4. told[p] = place /\ \A q \in Programs \ {p} : told[q] = None
    BY <1>1 DEF NoPlaces
  <1>5. rows \in [Programs -> Place \cup {None}]
    BY DEF IInv, TypeOK, Places
  <1>6. rows'[p] = place /\ (rows[p] # None => UNCHANGED rows) /\ \A q \in Programs \ {p} : rows'[q] = rows[q]
    BY <1>1, <1>5
  <1>7. place \in Place /\ place # None
    BY <1>1, <1>5, NoPlaceIsNone DEF Place
  <1>8. place.step \in Nat
    BY <1>7 DEF Place
  <1>. HIDE DEF r, told, place, p
  <1>9. RowsGrow
    <2>1. ASSUME NEW q \in Programs, rows[q] # None PROVE rows'[q] = rows[q] /\ rows[q].step \in Nat
      BY <1>6, <2>1, RowTyped
    <2>2. QED  BY <2>1 DEF RowsGrow
  <1>10. ASSUME NEW q \in Programs
         PROVE  /\ named[q] # None /\ ~ named[q].met =>
                     /\ Follows(r, q, rows'[q], named[q].step)
                     /\ rows'[q].step = named[q].step => kept'[q] = kept[q]
                /\ Behind(r, q, rows'[q], erased)
    <2>1. Behind(r, q, rows'[q], erased)
      BY <1>3, <1>4, <1>6, <1>7, <1>8 DEF Behind
    <2>2. ASSUME named[q] # None, ~ named[q].met PROVE Follows(r, q, rows'[q], named[q].step)
      <3>1. rows[q] # None /\ named[q].step <= rows[q].step
        BY <2>2 DEF SInv, SwitchesHeld
      <3>2. rows'[q] = rows[q]
        BY <1>6, <3>1
      <3>3. r.places[q] # None => r.places[q] = rows'[q]
        BY <1>3, <1>4, <1>6
      <3>4. QED  BY <1>3, <3>1, <3>2, <3>3, RowTyped DEF Follows
    <2>3. QED  BY <1>1, <2>1, <2>2
  <1>11. QED  BY <1>1, <1>2, <1>9, <1>10, OneCallSwitch

LEMMA HereServedSwitch ==
    ASSUME IInv, IInv', SInv, NEW c \in Calls, HereServed(c) PROVE SInv'
  <1>. DEFINE p == call[c].prog
              step == call[c].places[p].step
              r == [call[c] EXCEPT !.at = "advance", !.step = step, !.places = NoPlaces]
  <1>1. /\ call[c].at = "here" /\ UNCHANGED <<rows, kept, named, erased>>
        /\ Ends(c) \/ call' = [call EXCEPT ![c] = r]
    BY DEF HereServed
  <1>2. CASE Ends(c)
    BY <1>1, <1>2, EndsSwitch
  <1>3. CASE call' = [call EXCEPT ![c] = r]
    <2>1. call'[c] = r /\ call'[c] \in ToolCall
      <3>1. call \in [Calls -> ToolCall] /\ call' \in [Calls -> ToolCall]
        BY DEF IInv, TypeOK
      <3>2. QED  BY <1>3, <3>1
    <2>2. r.at = "advance" /\ r.prog = p /\ r.step = step
      BY CallTyped DEF ToolCall
    <2>3. call[c].places[p] # None
      BY <1>1, CallTyped, NoPlaceIsNone DEF Sound
    <2>. HIDE DEF r
    <2>4. ASSUME NEW q \in Programs
          PROVE  /\ named[q] # None /\ ~ named[q].met =>
                      /\ Follows(r, q, rows'[q], named[q].step)
                      /\ rows'[q].step = named[q].step => kept'[q] = kept[q]
                 /\ Behind(r, q, rows'[q], erased)
      <3>1. Behind(r, q, rows'[q], erased)
        BY <2>2 DEF Behind, Told
      <3>2. ASSUME named[q] # None, ~ named[q].met PROVE Follows(r, q, rows[q], named[q].step)
        <4>1. Follows(call[c], q, rows[q], named[q].step)
          BY <3>2 DEF SInv, SwitchesHeld
        <4>2. q = p => named[q].step <= step /\ step <= rows[q].step
          BY <1>1, <2>3, <4>1 DEF Follows, Told
        <4>. HIDE DEF p, step
        <4>3. QED  BY <2>2, <4>2 DEF Follows, Told
      <3>3. QED  BY <1>1, <3>1, <3>2
    <2>5. QED  BY <1>1, <1>3, <2>1, <2>4, SameRowsGrow, OneCallSwitch
  <1>4. QED  BY <1>1, <1>2, <1>3

(* An advance serves a step beyond a switch that is behind its answer, or  *)
(* nothing, at the end of the book.                                        *)
LEMMA AdvanceServedSwitch ==
    ASSUME IInv, IInv', SInv, NEW c \in Calls, AdvanceServed(c) PROVE SInv'
  <1>. DEFINE p == call[c].prog
              next == IF call[c].step = Length[p] /\ call[c].step = Cursor(p) THEN 0
                      ELSE IF rows'[p] = None THEN 1 ELSE rows'[p].step
              r == [Idle EXCEPT !.prog = p, !.at = "advanced", !.step = next]
  <1>1. /\ call[c].at = "advance" /\ call' = [call EXCEPT ![c] = r]
        /\ Advances(p, call[c].step, call[c].lang, call[c].look)
        /\ UNCHANGED <<kept, named, erased>>
    BY DEF AdvanceServed
  <1>2. p \in Programs /\ call[c].step \in Nat /\ call[c].lang \in Editions
    BY <1>1, CallTyped DEF Sound
  <1>3. /\ RowsGrow
        /\ \/ UNCHANGED rows /\ ~ (call[c].step = Cursor(p) /\ call[c].step < Length[p])
           \/ rows'[p].step = call[c].step + 1 /\ call[c].step = Cursor(p)
    BY <1>1, <1>2, AdvancesGrow
  <1>4. ASSUME named[p] # None, ~ named[p].met, next # 0 PROVE named[p].step < rows'[p].step
    <2>1. /\ named[p].step <= call[c].step /\ call[c].step <= rows[p].step
          /\ rows[p] # None /\ named[p].step \in Nat
      BY <1>1, <1>2, <1>4, NamedTyped DEF SInv, SwitchesHeld, Follows, Told
    <2>2. /\ rows[p].step \in Nat /\ Cursor(p) = rows[p].step /\ rows[p].step <= Length[p]
          /\ Length[p] \in Nat
      BY <1>2, <2>1, CursorInTheBook, RowTyped, TheBook DEF IInv
    <2>3. CASE rows'[p].step = call[c].step + 1
      BY <1>2, <2>1, <2>3
    <2>4. CASE UNCHANGED rows /\ ~ (call[c].step = Cursor(p) /\ call[c].step < Length[p])
      BY <1>2, <1>4, <2>1, <2>2, <2>4
    <2>5. QED  BY <1>3, <2>3, <2>4
  <1>5. call'[c] = r /\ call'[c] \in ToolCall
    <2>1. call \in [Calls -> ToolCall] /\ call' \in [Calls -> ToolCall]
      BY DEF IInv, TypeOK
    <2>2. QED  BY <1>1, <2>1
  <1>. HIDE DEF next
  <1>6. r.at = "advanced" /\ r.prog = p /\ r.step = next
    BY IdleSound DEF ToolCall
  <1>. HIDE DEF r, p
  <1>7. ASSUME NEW q \in Programs
        PROVE  /\ named[q] # None /\ ~ named[q].met =>
                    /\ Follows(r, q, rows'[q], named[q].step)
                    /\ rows'[q].step = named[q].step => kept'[q] = kept[q]
               /\ Behind(r, q, rows'[q], erased)
    <2>1. Behind(r, q, rows'[q], erased)
      BY <1>6 DEF Behind, Told
    <2>2. ASSUME named[q] # None, ~ named[q].met PROVE Follows(r, q, rows'[q], named[q].step)
      BY <1>4, <1>6, <2>2 DEF Follows, Told
    <2>3. QED  BY <1>1, <2>1, <2>2
  <1>8. QED  BY <1>1, <1>3, <1>5, <1>7, OneCallSwitch

(* The switch that an advance takes with it is one the place has passed.   *)
LEMMA AdvancedSwitch ==
    ASSUME IInv, IInv', SInv, NEW c \in Calls, Advanced(c) PROVE SInv'
  <1>. DEFINE p == call[c].prog
  <1>1. /\ call[c].at = "advanced" /\ kept' = SwitchCarried(p, call[c].step)
        /\ Ends(c) /\ UNCHANGED <<rows, named, erased>>
    BY DEF Advanced
  <1>2. call' = [call EXCEPT ![c] = Idle] /\ Idle \in ToolCall
    BY <1>1, IdleSound DEF Ends
  <1>3. ASSUME NEW q \in Programs, named[q] # None, ~ named[q].met, rows[q].step = named[q].step
        PROVE  kept'[q] = kept[q]
    <2>1. Follows(call[c], q, rows[q], named[q].step) /\ named[q].step \in Nat
      BY <1>3, NamedTyped DEF SInv, SwitchesHeld
    <2>2. q = p => call[c].step = 0
      BY <1>1, <1>3, <2>1 DEF Follows, Told
    <2>3. kept \in [Programs -> Place \cup {None}]
      BY CallTyped DEF Places
    <2>. HIDE DEF p
    <2>4. QED  BY <1>1, <2>2, <2>3 DEF SwitchCarried
  <1>4. ASSUME NEW q \in Programs
        PROVE  Follows(Idle, q, rows[q], named[q].step) /\ Behind(Idle, q, rows[q], erased)
    BY IdleSound, SaysNothing
  <1>5. QED  BY <1>1, <1>2, <1>3, <1>4, SameRowsGrow, OneCallSwitch

LEMMA QuietSteps ==
    ASSUME IInv, IInv', SInv, NEW c \in Calls,
           \/ AnsweredOnly(c) \/ Shown(c) \/ Fail(c)
           \/ \E lang \in Editions : OpensFirst(c, lang)
           \/ \E tool \in Tools, p \in Programs, lang \in Editions \cup {None} :
                 \E step \in 0 .. Length[p] : Begin(c, tool, p, lang, step)
    PROVE  SInv'
  <1>. DEFINE Quiet == \/ UNCHANGED kept
                       \/ call[c].at \in {"listed", "opened"} /\ AdoptsAll(call[c].places)
  <1>1. \E r : /\ r.at \in {"idle", "places", "open", "show"} /\ call' = [call EXCEPT ![c] = r]
    <2>1. CASE AnsweredOnly(c) \/ Shown(c) \/ Fail(c)
      BY <2>1, IdleSound DEF AnsweredOnly, Shown, Fail, Ends
    <2>2. ASSUME NEW lang \in Editions, OpensFirst(c, lang)
          PROVE  \E r : r.at = "open" /\ call' = [call EXCEPT ![c] = r]
      <3>1. call' = [call EXCEPT ![c] = [call[c] EXCEPT !.at = "open", !.lang = lang, !.places = NoPlaces]]
        BY <2>2 DEF OpensFirst
      <3>2. [call[c] EXCEPT !.at = "open", !.lang = lang, !.places = NoPlaces].at = "open"
        BY CallTyped DEF ToolCall
      <3>3. QED  BY <3>1, <3>2
    <2>3. ASSUME NEW tool \in Tools, NEW p \in Programs, NEW lang \in Editions \cup {None},
                 NEW step \in 0 .. Length[p], Begin(c, tool, p, lang, step)
          PROVE  \E r : r.at = "places" /\ call' = [call EXCEPT ![c] = r]
      <3>. DEFINE r == [Idle EXCEPT !.tool = tool, !.prog = p, !.at = "places", !.lang = lang, !.step = step]
      <3>1. call' = [call EXCEPT ![c] = r]
        BY <2>3 DEF Begin
      <3>2. r.at = "places"
        BY IdleSound DEF ToolCall
      <3>3. QED  BY <3>1, <3>2
    <2>4. QED  BY <2>1, <2>2, <2>3
  <1>2. UNCHANGED <<rows, named, erased>>
    BY DEF AnsweredOnly, Shown, Fail, OpensFirst, Begin, history
  <1>3. Quiet
    BY DEF AnsweredOnly, Shown, Fail, OpensFirst, Begin, Answer
  <1>4. call \in [Calls -> ToolCall] /\ call' \in [Calls -> ToolCall]
    BY DEF IInv, TypeOK
  <1>5. PICK r : /\ r.at \in {"idle", "places", "open", "show"} /\ call' = [call EXCEPT ![c] = r]
    BY <1>1
  <1>6. r \in ToolCall
    BY <1>4, <1>5
  <1>7. QED  BY <1>2, <1>3, <1>5, <1>6, QuietSwitch

LEMMA ShowingSteps ==
    ASSUME IInv, IInv', SInv, NEW c \in Calls, Resumes(c) \/ Opened(c) PROVE SInv'
  <1>1. Own(c) \in Place /\ Own(c) # None
    <2>1. CASE Resumes(c)
      <3>1. Own(c) # None
        BY <2>1 DEF Resumes
      <3>2. QED  BY <3>1, CallTyped, AdoptedTyped DEF Own
    <2>2. CASE Opened(c)
      <3>1. call[c].at = "opened"
        BY <2>2 DEF Opened
      <3>2. call[c].places[call[c].prog] \in Place
        BY <3>1, CallTyped DEF Sound
      <3>3. call[c].places[call[c].prog] # None
        BY <3>2, NoPlaceIsNone
      <3>4. QED  BY <3>3, CallTyped, AdoptedTyped DEF Own
    <2>3. QED  BY <2>1, <2>2
  <1>2. Shows(c) /\ UNCHANGED <<rows, erased>> /\ call[c].at \in {"listed", "opened"}
    BY DEF Resumes, Opened, Answer
  <1>3. CASE AdoptsAll(call[c].places) /\ UNCHANGED named
    BY <1>1, <1>2, <1>3, ShowFields, QuietSwitch
  <1>4. CASE call[c].lang \in Editions /\ Keeps(c, call[c].places, Own(c).step, call[c].lang)
    BY <1>1, <1>2, <1>4, KeepsSwitch
  <1>5. CASE Resumes(c)
    <2>1. call[c].lang \notin {None, Own(c).lang} => call[c].lang \in Editions
      BY CallTyped DEF ToolCall
    <2>2. QED  BY <1>3, <1>4, <1>5, <2>1 DEF Resumes
  <1>6. CASE Opened(c)
    <2>1. call[c].lang \in Editions
      BY <1>6, CallTyped DEF Opened, Sound
    <2>2. QED  BY <1>3, <1>4, <1>6, <2>1 DEF Opened
  <1>7. QED  BY <1>5, <1>6

LEMMA SiteSteps ==
    ASSUME IInv, IInv', SInv,
           \/ \E p \in Programs : \E n \in 1 .. Length[p] : Visit(p, n)
           \/ \E lang \in Editions : Reveal(lang)
           \/ Revealed \/ Sync \/ Forget \/ UNCHANGED vars
    PROVE  SInv'
  <1>1. UNCHANGED <<kept, call, named, erased>>
    BY DEF Visit, Reveal, Revealed, Sync, Forget, agent, history, vars
  <1>2. CASE Revealed
    <2>1. CASE UNCHANGED rows
      BY <1>1, <2>1, SameRowsGrow, SiteSwitch
    <2>2. CASE Advances(sending.frame[1], sending.frame[2], sending.lang, sending.look)
      <3>1. sending.frame[1] \in Programs /\ sending.lang \in Editions
        BY <1>2, FrameFields DEF Revealed, IInv, TypeOK
      <3>2. QED  BY <1>1, <2>2, <3>1, AdvancesGrow, SiteSwitch
    <2>3. QED  BY <1>2, <2>1, <2>2 DEF Revealed
  <1>3. CASE UNCHANGED rows
    BY <1>1, <1>3, SameRowsGrow, SiteSwitch
  <1>4. QED  BY <1>2, <1>3 DEF Visit, Reveal, Sync, Forget, vars

LEMMA NextSwitch ==
    ASSUME IInv, IInv', SInv, [Next]_vars PROVE SInv'
  <1>1. CASE Erased
    <2>1. /\ named' = NoPlaces /\ erased' = erased + 1 /\ UNCHANGED call
      BY <1>1 DEF Erased, agent
    <2>2. \A p \in Programs : named'[p] = None
      BY <2>1 DEF NoPlaces
    <2>3. \A c \in Calls : call[c].look # erased + 1
      <3>1. \A c \in Calls : call[c].look \in Nat /\ call[c].look <= erased
        BY CallTyped DEF ToolCall, Sound
      <3>2. erased \in Nat
        BY DEF IInv, TypeOK
      <3>3. QED  BY <3>1, <3>2
    <2>4. QED  BY <2>1, <2>2, <2>3 DEF SInv, SwitchesHeld, ToldIsBehind, Behind
  <1>2. CASE Restart
    <2>1. named' = NoPlaces /\ call' = [c \in Calls |-> Idle]
      BY <1>2 DEF Restart
    <2>2. \A p \in Programs : named'[p] = None
      BY <2>1 DEF NoPlaces
    <2>3. \A c \in Calls : call'[c].at = "idle"
      BY <2>1, IdleSound
    <2>4. QED  BY <2>2, <2>3 DEF SInv, SwitchesHeld, ToldIsBehind, Behind, Told
  <1>3. ASSUME NEW c \in Calls,
               \/ AnsweredOnly(c) \/ Shown(c) \/ Fail(c)
               \/ \E lang \in Editions : OpensFirst(c, lang)
               \/ \E tool \in Tools, p \in Programs, lang \in Editions \cup {None} :
                     \E step \in 0 .. Length[p] : Begin(c, tool, p, lang, step)
        PROVE  SInv'
    BY <1>3, QuietSteps
  <1>4. ASSUME NEW c \in Calls,
               Listed(c) \/ Resumes(c) \/ Submits(c) \/ OpenServed(c) \/ Opened(c)
               \/ HereServed(c) \/ AdvanceServed(c) \/ Advanced(c)
        PROVE  SInv'
    BY <1>4, ListedSwitch, ShowingSteps, SubmitsSwitch, OpenServedSwitch, HereServedSwitch,
       AdvanceServedSwitch, AdvancedSwitch
  <1>5. QED  BY <1>1, <1>2, <1>3, <1>4, SiteSteps DEF Next

LEMMA InitSwitch == Init => SInv
  <1>. SUFFICES ASSUME Init PROVE SInv
    OBVIOUS
  <1>1. \A p \in Programs : named[p] = None
    BY DEF Init, NoPlaces
  <1>2. \A c \in Calls : call[c].at = "idle"
    BY IdleSound DEF Init
  <1>3. QED  BY <1>1, <1>2 DEF SInv, SwitchesHeld, ToldIsBehind, Behind, Told

-----------------------------------------------------------------------------
(* The state has its type, however long the book and however many calls.   *)
THEOREM OrderTypeCorrect == Spec => []TypeOK
  <1>1. IInv => TypeOK
    BY DEF IInv
  <1>2. QED  BY <1>1, Always, PTL

(* Both surfaces keep the book's order (gate.ts, ADR-0051): a place out of *)
(* it was made by a request that looked before the account forgot.         *)
THEOREM TheBookIsReadInOrder == Spec => []InOrder
  <1>1. IInv => InOrder
    BY DEF IInv, PlacesInOrder, InOrder, Ordered
  <1>2. QED  BY <1>1, Always, PTL

(* No step is skipped (tools.ts, submit_answer), whatever calls overlap,   *)
(* are repeated or lose their answer.                                      *)
THEOREM NoStepIsSkipped == Spec => []NoneSkipped
  <1>1. IInv => NoneSkipped
    BY DEF IInv
  <1>2. QED  BY <1>1, Always, PTL

(* An edition switched to on a step is kept for the answer to that step    *)
(* (api.ts, #editionAt), but where another call was under way.             *)
THEOREM SwitchesHold == Spec => []SwitchHolds
  <1>1. Init => IInv /\ SInv
    BY InitGood, InitSwitch
  <1>2. IInv /\ SInv /\ [Next]_vars => IInv' /\ SInv'
    BY NextKeeps, NextSwitch
  <1>3. SInv => SwitchHolds
    BY DEF SInv, SwitchesHeld, SwitchHolds
  <1>4. QED  BY <1>1, <1>2, <1>3, PTL DEF Spec

=============================================================================

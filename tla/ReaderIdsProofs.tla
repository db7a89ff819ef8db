---------------------------- MODULE ReaderIdsProofs ----------------------------
(***************************************************************************)
(* ReaderIds for any number of processes, origins, ids and appends that    *)
(* are cut short: what the user's servers keep for an origin is one id,    *)
(* and the first line that names an origin wins for good.                  *)
(*                                                                         *)
(* OneReader is about what was kept, the file about what is kept next.     *)
(* They are tied together by KeptIsFirst: every id that was kept for an    *)
(* origin is the one that its first line still holds.  That an id belongs  *)
(* to one origin needs that the file's ids do, and those that were kept    *)
(* before their line was spoiled (IdsApart).                               *)
(***************************************************************************)
EXTENDS ReaderIds, TLAPS, WellFoundedInduction

KeptIsFirst == \A o \in Origins \ spoiled : \A i \in used[o] : i = IdIn(o, lines)

\* Two lines with one id name one origin; so do a line and an id that was kept.
IdsApart ==
    /\ \A o \in Origins : \A k \in Naming(o, lines) :
          /\ lines[k].id \in 1 .. minted
          /\ \A other \in Origins : \A l \in Naming(other, lines) :
                lines[k].id = lines[l].id => o = other
          /\ \A other \in Origins : lines[k].id \in used[other] => o = other
    /\ \A o \in Origins : used[o] \subseteq 1 .. minted
    /\ \A o, other \in Origins : \A i \in used[o] \cap used[other] : o = other

\* An empty file has no last line to be ended.
EmptyIsEnded == lines = << >> => ended

IInv == TypeOK /\ EmptyIsEnded /\ KeptIsFirst /\ IdsApart

-----------------------------------------------------------------------------
(* The file.                                                               *)

\* An index is the first that names an origin.
IsFirst(k, o, file) == k \in Naming(o, file) /\ \A j \in Naming(o, file) : k <= j

\* A file that names an origin has a first line that does, and its id is what
\* idIn finds.
LEMMA FirstLine ==
    ASSUME NEW file \in Seq(Line \cup {Other}), NEW o \in Origins, Naming(o, file) # {}
    PROVE  \E k \in Nat : IsFirst(k, o, file)
<1> DEFINE T == Naming(o, file)
           R == OpToRel(<, Nat)
<1>1. T \subseteq Nat /\ T # {}
  BY DEF Naming
<1>2. IsWellFoundedOn(R, Nat)
  BY NatLessThanWellFounded
<1>3. PICK k \in T : \A j \in T : ~ (<<j, k>> \in R)
  BY <1>1, <1>2, WFMin
<1>4. \A j \in T : ~ (j < k)
  BY <1>1, <1>3 DEF OpToRel
<1>5. \A j \in T : k <= j
  BY <1>1, <1>4
<1> QED
  BY <1>1, <1>5 DEF IsFirst

\* The id of an origin is that of the first line that names it.
LEMMA FirstLineId ==
    ASSUME NEW file \in Seq(Line \cup {Other}), NEW o \in Origins,
           NEW k \in Nat, IsFirst(k, o, file)
    PROVE  /\ IdIn(o, file) = file[k].id
           /\ Naming(o, file) # {}
<1> DEFINE T == Naming(o, file)
           first == CHOOSE i \in T : \A j \in T : i <= j
<1>1. T \subseteq Nat
  BY DEF Naming
<1>2. k \in T /\ \A j \in T : k <= j
  BY DEF IsFirst
<1>3. first \in T /\ \A j \in T : first <= j
  <2> HIDE DEF T
  <2> QED
    BY <1>2
<1>4. first = k
  <2>1. first <= k /\ k <= first
    BY <1>2, <1>3
  <2>2. first \in Nat /\ k \in Nat
    BY <1>1, <1>3
  <2> HIDE DEF first
  <2> QED
    BY <2>1, <2>2
<1> QED
  BY <1>2, <1>4 DEF IdIn

\* What idIn finds is the id of a line that names the origin.
LEMMA IdIsThere ==
    ASSUME NEW file \in Seq(Line \cup {Other}), NEW o \in Origins, IdIn(o, file) # 0
    PROVE  \E k \in Naming(o, file) : IdIn(o, file) = file[k].id
<1>1. Naming(o, file) # {}
  BY DEF IdIn
<1>2. PICK k \in Nat : IsFirst(k, o, file)
  BY <1>1, FirstLine
<1>3. IdIn(o, file) = file[k].id
  BY <1>2, FirstLineId
<1> QED
  BY <1>2, <1>3 DEF IsFirst

\* An append adds a line, or makes the last one unreadable and says so.
LEMMA Appended ==
    ASSUME TypeOK, EmptyIsEnded, NEW line \in Line \cup {Other}, NEW breakFirst \in BOOLEAN,
           NEW how \in Cuts, Appends(line, breakFirst, how)
    PROVE  /\ lines' \in Seq(Line \cup {Other}) /\ ended' \in BOOLEAN /\ EmptyIsEnded'
           /\ torn' \in 0 .. MaxTorn
           /\ spoiled \subseteq spoiled' /\ spoiled' \subseteq Origins
           /\ \/ \E x \in {line, Other} : lines' = Append(lines, x)
              \/ /\ Len(lines) \in DOMAIN lines
                 /\ lines' = [lines EXCEPT ![Len(lines)] = Other]
                 /\ \A o \in Origins : Len(lines) \in Naming(o, lines) => o \in spoiled'
<1> DEFINE Lines == Line \cup {Other}
           runsOn == ~ ended /\ ~ breakFirst
<1>1. lines \in Seq(Lines) /\ line \in Lines /\ Other \in Lines
  BY DEF TypeOK
<1>2. torn' \in 0 .. MaxTorn /\ ended' \in BOOLEAN
  BY IdsAssumption DEF TypeOK, Appends
<1>3. spoiled \subseteq spoiled' /\ spoiled' \subseteq Origins
  BY DEF TypeOK, Appends
<1>4. CASE runsOn
  <2>1. lines # << >>
    BY <1>4 DEF EmptyIsEnded
  <2>2. Len(lines) \in DOMAIN lines
    BY <1>1, <2>1
  <2>3. lines' = [lines EXCEPT ![Len(lines)] = Other]
    BY <1>4 DEF Appends
  <2>4. lines' \in Seq(Lines) /\ Len(lines') = Len(lines)
    BY <1>1, <2>2, <2>3
  <2>5. lines' # << >>
    BY <2>1, <2>4, <1>1
  <2>6. \A o \in Origins : Len(lines) \in Naming(o, lines) => o \in spoiled'
    BY <1>4 DEF Appends
  <2> QED
    BY <1>2, <1>3, <2>2, <2>3, <2>4, <2>5, <2>6 DEF EmptyIsEnded
<1>5. CASE ~ runsOn
  <2>1. PICK x \in {line, Other} : lines' = Append(lines, x)
    BY <1>5 DEF Appends
  <2>2. lines' \in Seq(Lines) /\ lines' # << >>
    BY <1>1, <2>1
  <2> QED
    BY <1>2, <1>3, <2>1, <2>2 DEF EmptyIsEnded
<1> QED
  BY <1>4, <1>5

\* A line that names an origin afterwards did so before, or is the one appended.
LEMMA NamedBefore ==
    ASSUME TypeOK, EmptyIsEnded, NEW line \in Line \cup {Other}, NEW breakFirst \in BOOLEAN,
           NEW how \in Cuts, Appends(line, breakFirst, how),
           NEW o \in Origins, NEW k \in Naming(o, lines')
    PROVE  \/ k \in Naming(o, lines) /\ lines'[k] = lines[k]
           \/ line # Other /\ line.origin = o /\ lines'[k] = line
<1>1. lines \in Seq(Line \cup {Other})
  BY DEF TypeOK
<1>2. k \in DOMAIN lines' /\ lines'[k] # Other /\ lines'[k].origin = o
  BY DEF Naming
<1>3. ASSUME NEW x \in {line, Other}, lines' = Append(lines, x)
      PROVE  \/ k \in DOMAIN lines /\ lines'[k] = lines[k]
             \/ lines'[k] = line
  <2>1. k \in DOMAIN lines => lines'[k] = lines[k]
    BY <1>1, <1>3
  <2>2. k \notin DOMAIN lines => lines'[k] = x
    BY <1>1, <1>2, <1>3
  <2> QED
    BY <1>2, <2>1, <2>2
<1>4. ASSUME Len(lines) \in DOMAIN lines, lines' = [lines EXCEPT ![Len(lines)] = Other]
      PROVE  k \in DOMAIN lines /\ lines'[k] = lines[k]
  BY <1>1, <1>2, <1>4
<1>5. \/ k \in DOMAIN lines /\ lines'[k] = lines[k]
      \/ lines'[k] = line
  BY <1>3, <1>4, Appended
<1> QED
  BY <1>2, <1>5 DEF Naming

\* The first line of an origin stays the first, unless it is run into.
LEMMA FirstStays ==
    ASSUME TypeOK, EmptyIsEnded, NEW line \in Line \cup {Other}, NEW breakFirst \in BOOLEAN,
           NEW how \in Cuts, Appends(line, breakFirst, how),
           NEW o \in Origins, o \notin spoiled', IdIn(o, lines) # 0
    PROVE  IdIn(o, lines') = IdIn(o, lines)
<1>1. lines \in Seq(Line \cup {Other}) /\ lines' \in Seq(Line \cup {Other})
  BY Appended DEF TypeOK
<1>2. Naming(o, lines) # {}
  BY DEF IdIn
<1>3. PICK k \in Nat : IsFirst(k, o, lines)
  BY <1>1, <1>2, FirstLine
<1>4. k \in DOMAIN lines /\ lines[k] # Other /\ lines[k].origin = o
  BY <1>3 DEF IsFirst, Naming
<1>5. ASSUME NEW x \in {line, Other}, lines' = Append(lines, x)
      PROVE  IsFirst(k, o, lines') /\ lines'[k] = lines[k]
  <2>1. k \in DOMAIN lines' /\ lines'[k] = lines[k]
    BY <1>1, <1>4, <1>5
  <2>2. ASSUME NEW j \in Naming(o, lines') PROVE k <= j
    <3>1. j \in DOMAIN lines' /\ (j \in DOMAIN lines => j \in Naming(o, lines))
      BY <1>1, <1>5 DEF Naming
    <3>2. CASE j \in DOMAIN lines
      BY <1>3, <3>1, <3>2 DEF IsFirst
    <3>3. CASE j \notin DOMAIN lines
      BY <1>1, <1>4, <1>5, <3>1, <3>3
    <3> QED
      BY <3>2, <3>3
  <2> QED
    BY <1>4, <2>1, <2>2 DEF IsFirst, Naming
<1>6. ASSUME Len(lines) \in DOMAIN lines, lines' = [lines EXCEPT ![Len(lines)] = Other],
             Len(lines) \notin Naming(o, lines)
      PROVE  IsFirst(k, o, lines') /\ lines'[k] = lines[k]
  <2>1. k # Len(lines)
    BY <1>3, <1>6 DEF IsFirst
  <2>2. Naming(o, lines') \subseteq Naming(o, lines)
    BY <1>1, <1>6 DEF Naming
  <2>3. k \in DOMAIN lines' /\ lines'[k] = lines[k]
    BY <1>1, <1>4, <1>6, <2>1
  <2>4. k \in Naming(o, lines')
    BY <1>4, <2>3 DEF Naming
  <2> QED
    BY <1>3, <2>2, <2>3, <2>4 DEF IsFirst
<1>7. IsFirst(k, o, lines') /\ lines'[k] = lines[k]
  BY <1>5, <1>6, Appended
<1> QED
  BY <1>1, <1>3, <1>7, FirstLineId

-----------------------------------------------------------------------------
(* The steps.                                                              *)

LEMMA InitGood == Init => IInv
<1> SUFFICES ASSUME Init PROVE IInv
  OBVIOUS
<1>1. TypeOK
  <2>1. lines \in Seq(Line \cup {Other})
    BY DEF Init
  <2>2. None \in [id : 0 .. MaxMinted, kept : BOOLEAN]
    BY IdsAssumption DEF None
  <2>3. /\ minted \in 0 .. MaxMinted /\ torn \in 0 .. MaxTorn
        /\ used \in [Origins -> SUBSET (1 .. MaxMinted)]
    BY IdsAssumption DEF Init
  <2> QED
    BY <2>1, <2>2, <2>3 DEF Init, TypeOK, Steps
<1>2. EmptyIsEnded /\ KeptIsFirst
  BY DEF Init, EmptyIsEnded, KeptIsFirst
<1>3. IdsApart
  BY DEF Init, IdsApart, Naming
<1> QED
  BY <1>1, <1>2, <1>3 DEF IInv

\* Where the file and what was kept stay, only the types are to be looked at.
LEMMA FileStays ==
    ASSUME IInv, TypeOK', UNCHANGED <<text, used>>, minted' \in {minted, minted + 1}
    PROVE  IInv'
<1>1. EmptyIsEnded' /\ KeptIsFirst'
  BY DEF IInv, EmptyIsEnded, KeptIsFirst, text, IdIn, Naming
<1>2. 1 .. minted \subseteq 1 .. minted'
  BY DEF IInv, TypeOK
<1>3. IdsApart'
  BY <1>2 DEF IInv, IdsApart, text, Naming
<1> QED
  BY <1>1, <1>3 DEF IInv

\* A process that keeps the file's id keeps what its first line holds.
LEMMA KeepsGood ==
    ASSUME IInv, NEW p \in Processes, Keeps(p), UNCHANGED <<exists, minted, text>>
    PROVE  IInv'
<1> DEFINE o == Origin[p]
           id == IdIn(o, lines)
<1>1. lines \in Seq(Line \cup {Other}) /\ o \in Origins /\ used \in [Origins -> SUBSET (1 .. MaxMinted)]
  BY IdsAssumption DEF IInv, TypeOK
<1>2. PICK k \in Naming(o, lines) : id = lines[k].id
  BY <1>1, IdIsThere DEF Keeps
<1>3. id \in 1 .. minted /\ id \in 1 .. MaxMinted
  <2>1. id \in 1 .. minted
    BY <1>1, <1>2 DEF IInv, IdsApart
  <2>2. minted \in 0 .. MaxMinted /\ MaxMinted \in Nat
    BY IdsAssumption DEF IInv, TypeOK
  <2> HIDE DEF id
  <2> QED
    BY <2>1, <2>2
<1>4. used' = [used EXCEPT ![o] = @ \cup {id}] /\ lines' = lines /\ minted' = minted /\ spoiled' = spoiled
  BY DEF Keeps, text
<1>5. TypeOK'
  <2>1. held' \in [Processes -> [id : 0 .. MaxMinted, kept : BOOLEAN]]
    <3>1. id \in 0 .. MaxMinted
      BY <1>3
    <3> QED
      BY <3>1 DEF Keeps, IInv, TypeOK
  <2>2. at' \in [Processes -> Steps]
    BY DEF Keeps, Goes, Steps, IInv, TypeOK
  <2>3. used' \in [Origins -> SUBSET (1 .. MaxMinted)]
    <3> HIDE DEF id
    <3> QED
      BY <1>1, <1>3, <1>4
  <2> QED
    BY <2>1, <2>2, <2>3 DEF IInv, TypeOK, text
<1>6. \A other \in Origins : used'[other] = (IF other = o THEN used[o] \cup {id} ELSE used[other])
  BY <1>1, <1>4
<1>7. KeptIsFirst'
  <2>1. \A other \in Origins : IdIn(other, lines)' = IdIn(other, lines)
    BY <1>4 DEF IdIn, Naming
  <2> SUFFICES ASSUME NEW other \in Origins, other \notin spoiled, NEW i \in used'[other]
               PROVE  i = IdIn(other, lines)
    BY <1>4, <2>1 DEF KeptIsFirst
  <2> QED
    BY <1>6 DEF IInv, KeptIsFirst
<1>8. IdsApart'
  <2>1. ASSUME NEW other \in Origins, id \in used[other] PROVE other = o
    BY <1>1, <1>2, <2>1 DEF IInv, IdsApart
  <2>2. ASSUME NEW other \in Origins, NEW l \in Naming(other, lines), lines[l].id = id
        PROVE  other = o
    BY <1>1, <1>2, <2>2 DEF IInv, IdsApart
  <2>3. Naming(o, lines)' = Naming(o, lines) /\ \A other \in Origins : Naming(other, lines)' = Naming(other, lines)
    BY <1>4 DEF Naming
  <2> HIDE DEF id, o
  <2> QED
    BY <1>1, <1>3, <1>4, <1>6, <2>1, <2>2, <2>3 DEF IInv, IdsApart
<1>9. EmptyIsEnded'
  BY DEF IInv, EmptyIsEnded, text
<1> QED
  BY <1>5, <1>7, <1>8, <1>9 DEF IInv

\* An append, of a comment or of a line with an id that was not there before.
LEMMA AppendsGood ==
    ASSUME IInv, TypeOK', NEW line \in Line \cup {Other}, NEW breakFirst \in BOOLEAN,
           NEW how \in Cuts, Appends(line, breakFirst, how), UNCHANGED used,
           \/ line = Other /\ minted' = minted
           \/ line \in Line /\ minted' = minted + 1 /\ line.id = minted'
    PROVE  IInv'
<1>1. TypeOK /\ EmptyIsEnded /\ minted \in Nat /\ minted' \in {minted, minted + 1}
  BY DEF IInv, TypeOK
<1>2. EmptyIsEnded' /\ spoiled \subseteq spoiled'
  BY <1>1, Appended
<1>3. KeptIsFirst'
  <2> SUFFICES ASSUME NEW o \in Origins, o \notin spoiled', NEW i \in used[o]
               PROVE  i = IdIn(o, lines')
    BY DEF KeptIsFirst
  <2>1. i = IdIn(o, lines)
    BY <1>2 DEF IInv, KeptIsFirst
  <2>2. i # 0
    BY DEF IInv, TypeOK
  <2> QED
    BY <1>1, <2>1, <2>2, FirstStays
<1>4. IdsApart'
  <2>1. \A o \in Origins : \A k \in Naming(o, lines') :
           \/ k \in Naming(o, lines) /\ lines'[k] = lines[k]
           \/ line # Other /\ line.origin = o /\ lines'[k] = line
    BY <1>1, NamedBefore
  <2>2. line # Other => minted' = minted + 1 /\ line.id = minted'
    BY IdsAssumption
  <2>3. \A o \in Origins : \A k \in Naming(o, lines) : lines[k].id \in 1 .. minted
    BY DEF IInv, IdsApart
  <2>4. \A o \in Origins : used[o] \subseteq 1 .. minted
    BY DEF IInv, IdsApart
  <2>5. 1 .. minted \subseteq 1 .. minted' /\ \A i \in 1 .. minted : i # minted + 1
    BY <1>1
  <2>6. ASSUME NEW o \in Origins, NEW k \in Naming(o, lines') PROVE lines'[k].id \in 1 .. minted'
    BY <1>1, <2>1, <2>2, <2>3, <2>5, <2>6
  <2>7. ASSUME NEW o \in Origins, NEW k \in Naming(o, lines'),
               NEW other \in Origins, NEW l \in Naming(other, lines'), lines'[k].id = lines'[l].id
        PROVE  o = other
    BY <1>1, <2>1, <2>2, <2>3, <2>5, <2>7 DEF IInv, IdsApart
  <2>8. ASSUME NEW o \in Origins, NEW k \in Naming(o, lines'),
               NEW other \in Origins, lines'[k].id \in used[other]
        PROVE  o = other
    BY <1>1, <2>1, <2>2, <2>4, <2>5, <2>8 DEF IInv, IdsApart
  <2>9. \A o \in Origins : used'[o] \subseteq 1 .. minted'
    BY <2>4, <2>5
  <2>10. \A o, other \in Origins : \A i \in used'[o] \cap used'[other] : o = other
    BY DEF IInv, IdsApart
  <2> QED
    BY <2>6, <2>7, <2>8, <2>9, <2>10 DEF IdsApart, Naming
<1> QED
  BY <1>2, <1>3, <1>4 DEF IInv

\* Every step of a server, a failure or a restart keeps the invariant.
LEMMA NextGood ==
    ASSUME IInv, [Next]_vars
    PROVE  IInv'
<1>1. CASE UNCHANGED vars
  <2>1. TypeOK' /\ UNCHANGED <<text, used, minted>>
    BY <1>1 DEF IInv, TypeOK, vars, text
  <2> QED
    BY <2>1, FileStays
<1>2. ASSUME NEW p \in Processes, Look(p) PROVE IInv'
  <2>1. CASE Keeps(p)
    BY <1>2, <2>1, KeepsGood DEF Look
  <2>2. CASE ~ Keeps(p)
    <3>1. TypeOK' /\ UNCHANGED <<text, used, minted>>
      BY <1>2, <2>2 DEF IInv, TypeOK, Look, Goes, Steps, text
    <3> QED
      BY <3>1, FileStays
  <2> QED
    BY <2>1, <2>2
<1>3. ASSUME NEW p \in Processes, Create(p) PROVE IInv'
  <2>1. TypeOK' /\ UNCHANGED <<text, used, minted>>
    BY <1>3 DEF IInv, TypeOK, Create, Goes, Steps, text
  <2> QED
    BY <2>1, FileStays
<1>4. ASSUME NEW p \in Processes, Header(p) PROVE IInv'
  <2>1. PICK how \in Cuts : Appends(Other, FALSE, how)
    BY <1>4 DEF Header
  <2>2. TypeOK'
    <3>1. /\ lines' \in Seq(Line \cup {Other}) /\ ended' \in BOOLEAN
          /\ torn' \in 0 .. MaxTorn /\ spoiled' \subseteq Origins
      BY <2>1, Appended DEF IInv
    <3>2. at' \in [Processes -> Steps]
      BY <1>4 DEF IInv, TypeOK, Header, Goes, Steps
    <3> QED
      BY <1>4, <3>1, <3>2 DEF IInv, TypeOK, Header
  <2> QED
    BY <1>4, <2>1, <2>2, AppendsGood DEF Header
<1>5. ASSUME NEW p \in Processes, LookAgain(p) PROVE IInv'
  <2>1. TypeOK' /\ UNCHANGED <<text, used, minted>>
    BY <1>5 DEF IInv, TypeOK, LookAgain, Goes, Steps, text
  <2> QED
    BY <2>1, FileStays
<1>6. ASSUME NEW p \in Processes, AppendLine(p) PROVE IInv'
  <2> DEFINE line == [origin |-> Origin[p], id |-> minted']
             breakFirst == at[p] = "break"
  <2>1. minted' = minted + 1 /\ minted' \in 0 .. MaxMinted
    BY <1>6, IdsAssumption DEF AppendLine, IInv, TypeOK
  <2>2. line \in Line /\ line.id = minted'
    BY <2>1, IdsAssumption DEF Line, IInv, TypeOK
  <2>3. PICK how \in Cuts : Appends(line, breakFirst, how)
    BY <1>6 DEF AppendLine
  <2> HIDE DEF line
  <2>4. TypeOK'
    <3>1. /\ lines' \in Seq(Line \cup {Other}) /\ ended' \in BOOLEAN
          /\ torn' \in 0 .. MaxTorn /\ spoiled' \subseteq Origins
      BY <2>2, <2>3, Appended DEF IInv
    <3>2. at' \in [Processes -> Steps]
      BY <1>6 DEF IInv, TypeOK, AppendLine, Goes, Steps
    <3> QED
      BY <1>6, <2>1, <3>1, <3>2 DEF IInv, TypeOK, AppendLine
  <2> QED
    BY <1>6, <2>1, <2>2, <2>3, <2>4, AppendsGood DEF AppendLine
<1>7. ASSUME NEW p \in Processes, Settle(p) PROVE IInv'
  BY <1>7, KeepsGood DEF Settle
<1>8. ASSUME NEW p \in Processes, CannotKeep(p) PROVE IInv'
  <2>1. minted' = minted + 1 /\ minted' \in 0 .. MaxMinted
    BY <1>8, IdsAssumption DEF CannotKeep, IInv, TypeOK
  <2>2. TypeOK' /\ UNCHANGED <<text, used>>
    BY <1>8, <2>1 DEF IInv, TypeOK, CannotKeep, Goes, Steps, text
  <2> QED
    BY <2>1, <2>2, FileStays
<1>9. ASSUME NEW p \in Processes, Restart(p) PROVE IInv'
  <2>1. None \in [id : 0 .. MaxMinted, kept : BOOLEAN]
    BY IdsAssumption DEF None
  <2>2. TypeOK' /\ UNCHANGED <<text, used, minted>>
    BY <1>9, <2>1 DEF IInv, TypeOK, Restart, Goes, Steps, text
  <2> QED
    BY <2>2, FileStays
<1> QED
  BY <1>1, <1>2, <1>3, <1>4, <1>5, <1>6, <1>7, <1>8, <1>9 DEF Next

LEMMA Inductive == Spec => []IInv
<1>1. IInv /\ [Next]_vars => IInv'
  BY NextGood
<1> QED
  BY InitGood, <1>1, PTL DEF Spec

-----------------------------------------------------------------------------
\* The file, the processes and what was kept keep their types, for any number
\* of servers and origins (identity.ts).
THEOREM IdsTypeCorrect == Spec => []TypeOK
<1>1. IInv => TypeOK
  BY DEF IInv
<1> QED
  BY <1>1, Inductive, PTL

\* However many of the user's servers start at once, restart or are cut short,
\* they keep one id for an origin, and no two origins share one (readerIdFor).
THEOREM OneReaderAnOrigin == Spec => []OneReader
<1>1. ASSUME IInv PROVE OneReader
  BY <1>1 DEF IInv, KeptIsFirst, IdsApart, OneReader
<1> QED
  BY <1>1, Inductive, PTL

\* No step: the first line for an origin wins and goes on winning, whatever is
\* appended behind it by a process that did not see it, unless it is run into.
FirstLineWins ==
    \A o \in Origins \ spoiled' : IdIn(o, lines) # 0 => IdIn(o, lines') = IdIn(o, lines)

\* The rule of the file's header, "the first line for an origin wins", of every
\* step of every process.
THEOREM FirstLinesWin == Spec => [][FirstLineWins]_vars
<1>1. ASSUME IInv, Next PROVE FirstLineWins
  <2> SUFFICES ASSUME NEW o \in Origins, o \notin spoiled', IdIn(o, lines) # 0
               PROVE  IdIn(o, lines') = IdIn(o, lines)
    BY DEF FirstLineWins
  <2>1. PICK p \in Processes :
           \/ Look(p) \/ Create(p) \/ Header(p) \/ LookAgain(p) \/ AppendLine(p) \/ Settle(p)
           \/ CannotKeep(p) \/ Restart(p)
    BY <1>1 DEF Next
  <2>2. CASE lines' = lines
    BY <2>2
  <2>3. ASSUME NEW line \in Line \cup {Other}, NEW breakFirst \in BOOLEAN, NEW how \in Cuts,
               Appends(line, breakFirst, how)
        PROVE  IdIn(o, lines') = IdIn(o, lines)
    BY <1>1, <2>3, FirstStays DEF IInv
  <2>4. CASE Header(p)
    BY <2>3, <2>4 DEF Header
  <2>5. CASE AppendLine(p)
    <3> DEFINE line == [origin |-> Origin[p], id |-> minted']
    <3>1. line \in Line
      BY <1>1, <2>5, IdsAssumption DEF AppendLine, Line, IInv, TypeOK
    <3>2. \E how \in Cuts : Appends(line, at[p] = "break", how)
      BY <2>5 DEF AppendLine
    <3> HIDE DEF line
    <3> QED
      BY <2>3, <3>1, <3>2
  <2>6. CASE ~ Header(p) /\ ~ AppendLine(p)
    BY <2>1, <2>2, <2>6 DEF Look, Create, LookAgain, Settle, CannotKeep, Restart, text
  <2> QED
    BY <2>4, <2>5, <2>6
<1> QED
  BY <1>1, Inductive, PTL DEF Spec

=============================================================================

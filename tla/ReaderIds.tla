------------------------------- MODULE ReaderIds -------------------------------
(***************************************************************************)
(* The file of anonymous reader ids that the MCP servers of one user share *)
(* (web/mcp/src/identity.ts).  An agent's host runs a server of its own;   *)
(* each asks for the id of its API's origin once (readerIdFor), and all of *)
(* them read as one reader of an origin.  Their only lock is an exclusive  *)
(* create, and appends that the system keeps apart.                        *)
(*                                                                         *)
(* One action is one call to the system.  An append may be cut short, as a *)
(* full disk does without an error, and a process may end anywhere.  The   *)
(* directory, the modes, and a file that the user takes away are left out. *)
(***************************************************************************)
EXTENDS Naturals, Sequences

CONSTANTS Processes, Origins,
          Origin,               \* Origin[p]: the API that process p is configured with
          Other,                \* a line that no id is read from: a comment, or a broken line
          MaxMinted, MaxTorn    \* ids minted, appends cut short (bounds)

Line == [origin : Origins, id : Nat \ {0}]

ASSUME IdsAssumption ==
    /\ Origin \in [Processes -> Origins]
    /\ {MaxMinted, MaxTorn} \subseteq Nat
    /\ Other \notin Line

VARIABLES
    exists,     \* the file is there
    lines,      \* what it holds, its last line even where that is not ended
    ended,      \* it is empty, or ends with a line break
    at,         \* at[p]: what process p does next
    held,       \* held[p]: the id it reads under, 0 for none yet, and whether it is kept
    minted, torn,
    used,       \* history: used[o], the ids kept for origin o by any process, also by ended ones
    spoiled     \* history: the origins whose line another append ran into

vars == <<exists, lines, ended, at, held, minted, torn, used, spoiled>>
text == <<lines, ended, torn, spoiled>>

\* An append puts a line break in front ("break") or does not ("append").
Steps == {"look", "create", "header", "again", "append", "break", "settle", "held"}
Cuts == {"whole", "unended", "piece"}
None == [id |-> 0, kept |-> FALSE]

TypeOK ==
    /\ exists \in BOOLEAN /\ ended \in BOOLEAN
    /\ lines \in Seq(Line \cup {Other})
    /\ at \in [Processes -> Steps]
    /\ held \in [Processes -> [id : 0 .. MaxMinted, kept : BOOLEAN]]
    /\ minted \in 0 .. MaxMinted /\ torn \in 0 .. MaxTorn
    /\ used \in [Origins -> SUBSET (1 .. MaxMinted)]
    /\ spoiled \subseteq Origins

Init ==
    /\ exists = FALSE /\ lines = << >> /\ ended = TRUE
    /\ at = [p \in Processes |-> "look"]
    /\ held = [p \in Processes |-> None]
    /\ minted = 0 /\ torn = 0
    /\ used = [o \in Origins |-> {}] /\ spoiled = {}

-----------------------------------------------------------------------------
\* The lines that name an origin.
Naming(o, file) == {i \in DOMAIN file : file[i] # Other /\ file[i].origin = o}

\* Slip: the last line that names it.
LastIdIn(o, file) ==
    IF Naming(o, file) = {} THEN 0
    ELSE file[CHOOSE i \in Naming(o, file) : \A j \in Naming(o, file) : j <= i].id

\* The id that the file holds for an origin, 0 for none: the first line's.
IdIn(o, file) ==
    IF Naming(o, file) = {} THEN 0
    ELSE file[CHOOSE i \in Naming(o, file) : \A j \in Naming(o, file) : i <= j].id

\* What an append makes of the file: it adds all of a line, all but the line
\* break at its end, or a piece.  Where the last line is not ended, and no line
\* break comes first, the two become one line, from which nothing is read.
Appends(line, breakFirst, how) ==
    LET runsOn == ~ ended /\ ~ breakFirst IN
    /\ how # "whole" => torn < MaxTorn
    /\ torn' = IF how = "whole" THEN torn ELSE torn + 1
    /\ lines' = IF runsOn THEN [lines EXCEPT ![Len(lines)] = Other]
                ELSE Append(lines, IF how = "piece" THEN Other ELSE line)
    /\ ended' = (how = "whole")
    /\ spoiled' = spoiled \cup {o \in Origins : runsOn /\ Len(lines) \in Naming(o, lines)}

Goes(p, step) == at' = [at EXCEPT ![p] = step]

\* Slip: the line just appended is taken to be there.
KeepsUnread(p) ==
    LET id == IdIn(Origin[p], lines) IN
    /\ held' = [held EXCEPT ![p] = [id |-> id, kept |-> TRUE]]
    /\ used' = [used EXCEPT ![Origin[p]] = @ \cup {id}]
    /\ Goes(p, "held")

\* The file's id for the process's origin is its reader from now on.
Keeps(p) ==
    LET id == IdIn(Origin[p], lines) IN
    /\ id # 0
    /\ held' = [held EXCEPT ![p] = [id |-> id, kept |-> TRUE]]
    /\ used' = [used EXCEPT ![Origin[p]] = @ \cup {id}]
    /\ Goes(p, "held")

Look(p) ==
    /\ at[p] = "look"
    /\ \/ Keeps(p)
       \/ IdIn(Origin[p], lines) = 0 /\ Goes(p, "create") /\ UNCHANGED <<held, used>>
    /\ UNCHANGED <<exists, minted, text>>

\* The exclusive create, which one process wins.
Create(p) ==
    /\ at[p] = "create"
    /\ exists' = TRUE
    /\ Goes(p, IF exists THEN "again" ELSE "header")
    /\ UNCHANGED <<held, minted, used, text>>

Header(p) ==
    /\ at[p] = "header"
    /\ \E how \in Cuts : Appends(Other, FALSE, how)
    /\ Goes(p, "again")
    /\ UNCHANGED <<exists, held, minted, used>>

\* The file is read a second time, for how it ends.
LookAgain(p) ==
    /\ at[p] = "again"
    /\ Goes(p, IF ended THEN "append" ELSE "break")
    /\ UNCHANGED <<exists, held, minted, used, text>>

AppendLine(p) ==
    /\ at[p] \in {"append", "break"}
    /\ minted < MaxMinted /\ minted' = minted + 1
    /\ \E how \in Cuts : Appends([origin |-> Origin[p], id |-> minted'], at[p] = "break", how)
    /\ Goes(p, "settle")
    /\ UNCHANGED <<exists, held, used>>

Settle(p) ==
    /\ at[p] = "settle"
    /\ Keeps(p)
    /\ UNCHANGED <<exists, minted, text>>

\* A call fails, or the line just appended is not there: an id in memory alone.
CannotKeep(p) ==
    /\ at[p] # "held"
    /\ minted < MaxMinted /\ minted' = minted + 1
    /\ held' = [held EXCEPT ![p] = [id |-> minted', kept |-> FALSE]]
    /\ Goes(p, "held")
    /\ UNCHANGED <<exists, used, text>>

\* The host ends the process, wherever it is, and starts another.
Restart(p) ==
    /\ held' = [held EXCEPT ![p] = None] /\ Goes(p, "look")
    /\ UNCHANGED <<exists, minted, used, text>>

Next ==
    \E p \in Processes :
        \/ Look(p) \/ Create(p) \/ Header(p) \/ LookAgain(p) \/ AppendLine(p) \/ Settle(p)
        \/ CannotKeep(p) \/ Restart(p)

Spec == Init /\ [][Next]_vars

-----------------------------------------------------------------------------
(* Everything that the user's servers, together or one after another, keep *)
(* for an origin is one id, so the reader has one place in each book and a *)
(* restart finds it, and no API's operator is told an id that is kept for  *)
(* another.  The exception is an origin whose line lost its line break and *)
(* was run into by a process that had read the file before it was there.   *)
OneReader ==
    \A o, other \in Origins : \A i \in used[o], j \in used[other] :
        /\ i = j => o = other
        /\ o = other /\ o \notin spoiled => i = j

=============================================================================

------------------------------ MODULE ContentCache ------------------------------
(***************************************************************************)
(* ContentBundleCache and the two handlers that touch it: every content    *)
(* read (GetLatest) and the ingestion of a bundle (POST /content/bundles), *)
(* for one track; tracks share nothing.                                    *)
(*                                                                         *)
(* GetLatest looks in the dictionary, awaits a query when it finds nothing, *)
(* and stores what the query returned.  Ingestion awaits its own query and *)
(* its SaveChanges, then drops the entry.  Anything may run at each await. *)
(* The newest bundle is the one with the largest IngestedAt, a wall clock's *)
(* reading: equal and even earlier readings than a stored one may occur.   *)
(***************************************************************************)
EXTENDS Naturals

CONSTANTS Tags,         \* release tags
          Bodies,       \* bundle contents
          Times,        \* readings of the clock (bound)
          Reads,        \* content reads in flight (bound)
          Posts,        \* ingestions in flight (bound)
          LostAnswers,  \* may a SaveChanges commit and still throw?
          NoBundle          \* no entry, no bundle

Bundle == [tag : Tags, body : Bodies, at : Times]

ASSUME TimesAssumption == Times \subseteq Nat
ASSUME NoBundleAssumption == NoBundle \notin Bundle
ASSUME LostAnswersAssumption == LostAnswers \in BOOLEAN

VARIABLES
    stored,    \* the ContentBundles table
    entry,     \* the dictionary's entry, in the process
    read,      \* read[r]: a GetLatest in flight
    post       \* post[p]: an ingestion in flight

cacheVars == <<stored, entry, read, post>>

\* The `late' flags are history: this bundle was read from the table before a
\* save that has committed since, or the save that replaced it never returned.
Entry == [bundle : Bundle, late : BOOLEAN]

IdleRead == [phase |-> "idle", bundle |-> NoBundle, late |-> FALSE]
IdlePost == [phase |-> "idle", bundle |-> NoBundle]

CacheTypeOK ==
    /\ stored \subseteq Bundle
    /\ \A b, c \in stored : b.tag = c.tag => b = c
    /\ entry \in Entry \cup {NoBundle}
    /\ read \in [Reads -> [phase : {"query"}, bundle : {NoBundle}, late : {FALSE}]
                          \cup [phase : {"store"}, bundle : stored, late : BOOLEAN]
                          \cup {IdleRead}]
    /\ post \in [Posts -> [phase : {"save"}, bundle : Bundle]
                          \cup [phase : {"invalidate"}, bundle : stored]
                          \cup {IdlePost}]

CacheInit ==
    /\ stored = {}
    /\ entry = NoBundle
    /\ read = [r \in Reads |-> IdleRead]
    /\ post = [p \in Posts |-> IdlePost]

\* ORDER BY IngestedAt DESC, of which the first row is taken.
Newest == {b \in stored : \A c \in stored : c.at <= b.at}

-----------------------------------------------------------------------------
(* GetLatest.  A hit is answered from the entry and changes nothing.       *)

Miss(r) ==
    /\ read[r] = IdleRead
    /\ entry = NoBundle
    /\ read' = [read EXCEPT ![r] = [phase |-> "query", bundle |-> NoBundle, late |-> FALSE]]
    /\ UNCHANGED <<stored, entry, post>>

\* With no bundle of the track the answer is null and nothing is stored.
Query(r) ==
    /\ read[r].phase = "query"
    /\ IF Newest = {}
       THEN read' = [read EXCEPT ![r] = IdleRead]
       ELSE \E b \in Newest :
               read' = [read EXCEPT ![r] = [phase |-> "store", bundle |-> b, late |-> FALSE]]
    /\ UNCHANGED <<stored, entry, post>>

Store(r) ==
    /\ read[r].phase = "store"
    /\ entry' = [bundle |-> read[r].bundle, late |-> read[r].late]
    /\ read' = [read EXCEPT ![r] = IdleRead]
    /\ UNCHANGED <<stored, post>>

-----------------------------------------------------------------------------
(* Ingestion.                                                              *)

\* A tag already stored is answered 200 and left alone, whatever the body.
Receive(p, tag, body, at) ==
    /\ post[p] = IdlePost
    /\ \A b \in stored : b.tag # tag
    /\ post' = [post EXCEPT ![p] = [phase |-> "save",
                                    bundle |-> [tag |-> tag, body |-> body, at |-> at]]]
    /\ UNCHANGED <<stored, entry, read>>

\* Reads that have queried and not yet stored are late from here on.
Overtaken ==
    [r \in Reads |-> IF read[r].phase = "store" THEN [read[r] EXCEPT !.late = TRUE]
                     ELSE read[r]]

\* Slip: two rows of one tag.
CommitAgain(bundle) ==
    /\ stored' = stored \cup {bundle}
    /\ read' = Overtaken

\* The insert: its key, the track and the tag, must still be free.
Commit(bundle) ==
    /\ \A b \in stored : b.tag # bundle.tag
    /\ stored' = stored \cup {bundle}
    /\ read' = Overtaken

SaveBundle(p) ==
    /\ post[p].phase = "save"
    /\ Commit(post[p].bundle)
    /\ post' = [post EXCEPT ![p].phase = "invalidate"]
    /\ UNCHANGED entry

\* Slip: the entry survives an ingestion.
InvalidateNothing(p) ==
    /\ post[p].phase = "invalidate"
    /\ post' = [post EXCEPT ![p] = IdlePost]
    /\ UNCHANGED <<stored, entry, read>>

Invalidate(p) ==
    /\ post[p].phase = "invalidate"
    /\ entry' = NoBundle
    /\ post' = [post EXCEPT ![p] = IdlePost]
    /\ UNCHANGED <<stored, read>>

\* SaveChanges throws with nothing written: the key was taken, or it failed.
SaveFails(p) ==
    /\ post[p].phase = "save"
    /\ post' = [post EXCEPT ![p] = IdlePost]
    /\ UNCHANGED <<stored, entry, read>>

\* The commit is done, its answer is lost (the request is cancelled; or the
\* connection drops, EF sends the insert again and finds its own row's key taken):
\* SaveChanges throws and Invalidate is never called.  Posting the pin again finds
\* it stored, and does not call it either.
SaveUnanswered(p) ==
    /\ LostAnswers
    /\ post[p].phase = "save"
    /\ Commit(post[p].bundle)
    /\ post' = [post EXCEPT ![p] = IdlePost]
    /\ entry' = IF entry = NoBundle THEN NoBundle ELSE [entry EXCEPT !.late = TRUE]

\* The process stops and starts: the table is all that is left.
Restart ==
    /\ entry' = NoBundle
    /\ read' = [r \in Reads |-> IdleRead]
    /\ post' = [p \in Posts |-> IdlePost]
    /\ UNCHANGED stored

CacheNext ==
    \/ \E r \in Reads : Miss(r) \/ Query(r) \/ Store(r)
    \/ \E p \in Posts :
          \/ \E tag \in Tags, body \in Bodies, at \in Times : Receive(p, tag, body, at)
          \/ SaveBundle(p) \/ Invalidate(p) \/ SaveFails(p) \/ SaveUnanswered(p)
    \/ Restart

CacheSpec == CacheInit /\ [][CacheNext]_cacheVars

-----------------------------------------------------------------------------
(* Properties.                                                             *)

Invalidating == \E p \in Posts : post[p].phase = "invalidate"

Stale == entry # NoBundle /\ entry.bundle \notin Newest

\* A stale entry has one of two causes: a read that took its bundle from the
\* table before a save and stored it after that save's Invalidate, or a save
\* whose answer was lost.  In every other interleaving the cache serves the
\* newest bundle as soon as the ingestion's Invalidate has run.
StaleOnlyWhenLate == Stale /\ ~ Invalidating => entry.late


=============================================================================

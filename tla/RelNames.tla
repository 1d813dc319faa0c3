------------------------------- MODULE RelNames --------------------------------
(***************************************************************************)
(* The names RawFeed puts on changes (raw.py RelResolver, push_committed): *)
(* a committed change bears a relfilenode; its name is looked up in the    *)
(* catalog once, kept for the session, and passed on if the client-side    *)
(* filter wants it.  Meanwhile tables are renamed and rewritten, and a     *)
(* commit is streamed before the catalog shows what it did.                *)
(*                                                                         *)
(* One database: changes of others are dropped before any lookup.  A       *)
(* relfilenode is a relation and a version of it.  RawFeed composes a      *)
(* resolver whose tables keep their names with all the rest; here is the   *)
(* resolver alone, and every record of a commit is one event.              *)
(***************************************************************************)
EXTENDS Naturals, Sequences, Functions

CONSTANTS
  Rel,          \* relations
  Name,         \* schema.table
  System,       \* names in system schemas
  Tables,       \* the filter; all names if None was given
  MaxRewrites,  \* bound of the model: rewrites of a relation
  QueueBound    \* bound of the model: commits not yet read

ASSUME NamesAssumption ==
  /\ System \subseteq Name
  /\ Tables \subseteq Name
  /\ {MaxRewrites, QueueBound} \subseteq Nat

Unknown == "not in names"
Drop == "cached as a drop"

Version == 0..MaxRewrites
Node == Rel \X Version

VARIABLES
  nameOf,   \* catalog: the name of each relation
  shown,    \* catalog: the version of its relfilenode
  logged,   \* WAL: the version its changes bear, ahead of the catalog for a while
  live,     \* a session is up
  commits,  \* the changes of commits not yet read, by commit
  names,    \* RelResolver.names
  asked,    \* the changes push_committed awaits names for
  waiting,  \* it is in that await
  reply,    \* the catalog's answer, not yet read: <<node, name>>
  replied,  \* there is one
  unseen,   \* history: relations with a commit, under their present name, that its readers
            \* were not told of
  missed,   \* history: relations with a change that found no name
  renamed   \* history: relations whose name was changed behind the resolver's back

catalog == <<nameOf, shown, logged>>
lookup == <<names, asked, waiting, reply, replied>>
history == <<unseen, missed, renamed>>
vars == <<catalog, live, commits, lookup, history>>

NoNames == [n \in Node |-> Unknown]

Settled(r) == shown[r] = logged[r]

Init ==
  /\ nameOf \in Injection(Rel, Name)
  /\ shown = [r \in Rel |-> 0]
  /\ logged = shown
  /\ live = FALSE
  /\ commits = <<>>
  /\ names = NoNames
  /\ asked = {}
  /\ waiting = FALSE
  /\ reply = {}
  /\ replied = FALSE
  /\ unseen = Rel
  /\ missed = {}
  /\ renamed = {}

------------------------------------------------------------------------------
\* What the resolver asks for: the relfilenodes it has not seen.
Unseen(nodes) == {n \in nodes : names[n] = Unknown}

\* Seeded faults.

\* The resolver outlives its session.
KeptNames == names

\* A relfilenode that was not found is cached as a drop.
CachedAll ==
  [n \in Node |-> IF \E row \in reply : row[1] = n THEN (CHOOSE row \in reply : row[1] = n)[2]
                  ELSE IF n \in asked /\ names[n] = Unknown THEN Drop ELSE names[n]]

\* resolve() returns the rows of its query, not the names it had.
PassesRows(cached, nodes) == {row[2] : row \in reply} \cap Tables

------------------------------------------------------------------------------
\* The server (external).

Streams(nodes) ==
  IF live
    THEN Len(commits) < QueueBound /\ commits' = Append(commits, nodes)
    ELSE UNCHANGED commits

\* A commit, visible at once.
Commit(S) ==
  /\ S # {}
  /\ \A r \in S : Settled(r)
  /\ Streams({<<r, logged[r]>> : r \in S})
  /\ unseen' = unseen \cup S
  /\ UNCHANGED <<catalog, live, lookup, missed, renamed>>

\* A transaction gives r a new relfilenode and writes to it (CREATE TABLE AS, TRUNCATE
\* and INSERT): its record is streamed, and the catalog still has the old one.
Rewrite(r) ==
  /\ Settled(r)
  /\ logged[r] < MaxRewrites
  /\ logged' = [logged EXCEPT ![r] = @ + 1]
  /\ Streams({<<r, logged'[r]>>})
  /\ unseen' = unseen \cup {r}
  /\ UNCHANGED <<nameOf, shown, live, lookup, missed, renamed>>

BecomesVisible(r) ==
  /\ ~Settled(r)
  /\ shown' = [shown EXCEPT ![r] = logged[r]]
  /\ UNCHANGED <<nameOf, logged, live, commits, lookup, history>>

\* ALTER TABLE ... RENAME or SET SCHEMA.  Who reads it under the new name is owed what is
\* committed from here on.
Rename(r, name) ==
  /\ Settled(r)
  /\ {name, nameOf[r]} \cap System = {}
  /\ name \notin Range(nameOf)
  /\ nameOf' = [nameOf EXCEPT ![r] = name]
  /\ LET n == <<r, shown[r]>> IN
       renamed' = IF live /\ (names[n] # Unknown \/ \E row \in reply : row[1] = n)
                    THEN renamed \cup {r} ELSE renamed
  /\ unseen' = IF live THEN unseen \ {r} ELSE unseen
  /\ UNCHANGED <<shown, logged, live, commits, lookup, missed>>

\* The resolver's query is run.
Entry(name) == IF name \in System THEN Drop ELSE name

CatalogAnswers ==
  /\ waiting
  /\ ~replied
  /\ replied' = TRUE
  /\ reply' = {<<n, Entry(nameOf[n[1]])>> : n \in {n \in Unseen(asked) : n[2] = shown[n[1]]}}
  /\ UNCHANGED <<catalog, live, commits, names, asked, waiting, history>>

------------------------------------------------------------------------------
\* The feed.

\* The resolver a session starts with.
FirstNames == NoNames

\* A session goes live and is announced by a Resync; what is committed and not visible
\* is missed by the refetch.
SessionStarts ==
  /\ ~live
  /\ live' = TRUE
  /\ names' = FirstNames
  /\ missed' = {r \in Rel : ~Settled(r)}
  /\ unseen' = missed'
  /\ renamed' = {}
  /\ UNCHANGED <<catalog, commits, asked, waiting, reply, replied>>

\* The stream or the lookup fails; the Resync to come is owed to all.
SessionEnds ==
  /\ live
  /\ live' = FALSE
  /\ commits' = <<>>
  /\ asked' = {}
  /\ waiting' = FALSE
  /\ reply' = {}
  /\ replied' = FALSE
  /\ unseen' = Rel
  /\ missed' = {}
  /\ renamed' = {}
  /\ UNCHANGED <<catalog, names>>

\* The names passed on for a commit's changes.
Passes(cached, nodes) == {cached[n] : n \in nodes} \cap Tables

\* They are pushed: their readers refetch, and see what is visible.
Pushes(cached, nodes) ==
  LET told == {r \in Rel : nameOf[r] \in Passes(cached, nodes) /\ Settled(r)} IN
  /\ unseen' = unseen \ told
  /\ missed' = (missed \ told) \cup {n[1] : n \in {n \in nodes : cached[n] = Unknown}}
  /\ UNCHANGED renamed

\* push_committed: names that are known are pushed at once.
ReadCommit ==
  /\ live
  /\ ~waiting
  /\ commits # <<>>
  /\ commits' = Tail(commits)
  /\ IF Unseen(Head(commits)) = {}
       THEN Pushes(names, Head(commits)) /\ UNCHANGED <<asked, waiting>>
       ELSE asked' = Head(commits) /\ waiting' = TRUE /\ UNCHANGED history
  /\ UNCHANGED <<catalog, live, names, reply, replied>>

\* What resolve() caches of the rows: what was found.
Cached ==
  [n \in Node |-> IF \E row \in reply : row[1] = n THEN (CHOOSE row \in reply : row[1] = n)[2]
                  ELSE names[n]]

\* The rows have arrived.
ReadReply ==
  /\ waiting
  /\ replied
  /\ names' = Cached
  /\ Pushes(Cached, asked)
  /\ asked' = {}
  /\ waiting' = FALSE
  /\ reply' = {}
  /\ replied' = FALSE
  /\ UNCHANGED <<catalog, live, commits>>

Next ==
  \/ \E S \in SUBSET Rel : Commit(S)
  \/ \E r \in Rel : Rewrite(r) \/ BecomesVisible(r) \/ \E name \in Name : Rename(r, name)
  \/ CatalogAnswers
  \/ SessionStarts \/ SessionEnds
  \/ ReadCommit \/ ReadReply

Spec == Init /\ [][Next]_vars

\* The catalog answers, what has come is read, and a session follows a session.
FairSpec ==
  /\ Spec
  /\ WF_vars(CatalogAnswers)
  /\ WF_vars(ReadCommit \/ ReadReply)
  /\ WF_vars(SessionStarts)

------------------------------------------------------------------------------
\* The types of the variables; a name or a drop is cached, nothing else.
TypeOK ==
  /\ nameOf \in Injection(Rel, Name)
  /\ {shown, logged} \subseteq [Rel -> Version]
  /\ live \in BOOLEAN
  /\ commits \in Seq(SUBSET Node) /\ Len(commits) <= QueueBound
  /\ names \in [Node -> (Name \ System) \cup {Drop, Unknown}]
  /\ asked \subseteq Node
  /\ {waiting, replied} \subseteq BOOLEAN
  /\ reply \subseteq Node \X ((Name \ System) \cup {Drop})
  /\ {unseen, missed, renamed} \subseteq SUBSET Rel

\* The relations whose changes are still to be read or named.
OnItsWay == {n[1] : n \in asked \cup (UNION Range(commits))}

\* The names that are passed on: of system schemas none.
Wanted == Tables \ System

\* The readers of r's present name are not told of a commit, and nothing will tell them.
LeftOut(r) == live /\ nameOf[r] \in Wanted /\ r \in unseen \ OnItsWay

\* A commit to a table reaches who reads it under its present name, whenever its name was
\* looked up, cached, or changed before the lookup: but for a change whose relfilenode the
\* catalog did not show ("dropped uncached so the next occurrence retries", RelResolver),
\* until the next one, and for a table renamed since its name was cached.
NamedByNow == \A r \in Rel : LeftOut(r) => r \in missed \cup renamed

\* The inductive invariant.  A session that is down has nothing under way, and resolve()
\* asks only in its await.
UnderWay ==
  /\ ~live => commits = <<>> /\ ~waiting
  /\ ~waiting => asked = {} /\ ~replied
  /\ ~replied => reply = {}

\* The resolver has names for relfilenodes the catalog has shown, no later ones.
NamesAreShown ==
  live => /\ \A n \in Node : names[n] # Unknown => n[2] <= shown[n[1]]
          /\ \A row \in reply : row[1][2] <= shown[row[1][1]]

\* The catalog lags by a version at most, never ahead.
ShownIsLogged == \A r \in Rel : shown[r] <= logged[r]

\* What it has for a table's present relfilenode is the table's present name.
NamesAreRight ==
  live => \A r \in Rel \ renamed :
    LET n == <<r, shown[r]>> IN
    /\ names[n] \in {Unknown, Entry(nameOf[r])}
    /\ \A row \in reply : row[1] = n => row[2] = Entry(nameOf[r])

\* The relfilenodes on their way.
NodesOnTheirWay == asked \cup (UNION Range(commits))

\* A lagging table's change is on its way, or has been missed.
LagIsMissed ==
  live => \A r \in Rel : Settled(r) \/ <<r, logged[r]>> \in NodesOnTheirWay \/ r \in missed

\* What its readers were not told of comes under the present relfilenode too.
ToldByNow ==
  live => \A r \in unseen :
    \/ <<r, logged[r]>> \in NodesOnTheirWay
    \/ r \in missed \cup renamed
    \/ nameOf[r] \notin Wanted

NamesIInv ==
  /\ TypeOK
  /\ UnderWay
  /\ NamesAreShown /\ ShownIsLogged /\ NamesAreRight
  /\ LagIsMissed
  /\ ToldByNow

\* The same with renames ("Handle Resync and nothing can make your view wrong", README).
NamedAsOfNow == \A r \in Rel : LeftOut(r) => r \in missed

\* Every commit's names arrive, through lookups and lost sessions.
NamedInTheEnd ==
  \A r \in Rel : r \in unseen ~> r \notin unseen \/ r \in missed \cup renamed \/ nameOf[r] \notin Wanted
==============================================================================

----------------------------- MODULE CatalogProofs -----------------------------
(***************************************************************************)
(* The two parts that ask the server for facts.  RelNames: for any         *)
(* relations, names, filter and rewrites, a commit reaches the readers of  *)
(* a table's present name.  Doctor: for any plugins, what the preflight    *)
(* says of the server is so.                                               *)
(***************************************************************************)
EXTENDS RelNames, Doctor, TLAPS

\* What a queue holds once an entry is added, and before its head is taken.
LEMMA HeldAppend ==
  ASSUME NEW q \in Seq(SUBSET Node), NEW N \in SUBSET Node
  PROVE  UNION Range(Append(q, N)) = (UNION Range(q)) \cup N
<1> DEFINE r == Append(q, N)
<1>1. /\ DOMAIN r = 1..Len(q) + 1 /\ DOMAIN q = 1..Len(q) /\ Len(q) \in Nat
      /\ \A i \in 1..Len(q) : r[i] = q[i]
      /\ r[Len(q) + 1] = N
  OBVIOUS
<1> HIDE DEF r
<1>2. Range(r) = Range(q) \cup {N}
  BY <1>1 DEF Range
<1> QED
  BY <1>2 DEF r

LEMMA HeldTail ==
  ASSUME NEW q \in Seq(SUBSET Node), q # <<>>
  PROVE  /\ UNION Range(q) = Head(q) \cup (UNION Range(Tail(q)))
         /\ Head(q) \in SUBSET Node /\ Tail(q) \in Seq(SUBSET Node)
         /\ Len(Tail(q)) <= Len(q)
<1> DEFINE r == Tail(q)
<1>1. /\ DOMAIN q = 1..Len(q) /\ DOMAIN r = 1..Len(q) - 1 /\ Len(q) \in Nat \ {0}
      /\ Len(r) = Len(q) - 1
      /\ \A i \in 1..Len(q) - 1 : r[i] = q[i + 1]
      /\ Head(q) = q[1]
      /\ Head(q) \in SUBSET Node /\ r \in Seq(SUBSET Node)
  OBVIOUS
<1> HIDE DEF r
<1>2. ASSUME NEW N \in Range(q)
      PROVE  N = Head(q) \/ N \in Range(r)
  <2>1. PICK i \in 1..Len(q) : N = q[i]
    BY <1>1 DEF Range
  <2>2. CASE i = 1
    BY <1>1, <2>1, <2>2
  <2>3. CASE i # 1
    <3>1. i - 1 \in 1..Len(q) - 1 /\ r[i - 1] = N
      BY <1>1, <2>1, <2>3
    <3> QED
      BY <1>1, <3>1 DEF Range
  <2> QED
    BY <2>2, <2>3
<1>3. ASSUME NEW N, N = Head(q) \/ N \in Range(r)
      PROVE  N \in Range(q)
  <2>1. \A i \in 1..Len(q) - 1 : i + 1 \in 1..Len(q)
    BY <1>1
  <2> QED
    BY <1>1, <1>3, <2>1 DEF Range
<1>4. Range(q) = {Head(q)} \cup Range(r)
  BY <1>2, <1>3
<1>5. UNION Range(q) = Head(q) \cup (UNION Range(r))
  BY <1>4
<1>6. Len(r) <= Len(q)
  BY <1>1
<1> QED
  BY <1>1, <1>5, <1>6 DEF r

LEMMA HeldEmpty == <<>> \in Seq(SUBSET Node) /\ UNION Range(<<>>) = {}
BY DEF Range

------------------------------------------------------------------------------
\* Types.

LEMMA NodeIs == \A r \in Rel, v \in Version : <<r, v>> \in Node
BY DEF Node

LEMMA InitNamesType == Init => TypeOK
<1> SUFFICES ASSUME Init
             PROVE  TypeOK
  OBVIOUS
<1>1. 0 \in Version
  BY NamesAssumption DEF Version
<1>2. [r \in Rel |-> 0] \in [Rel -> Version]
  BY <1>1
<1>3. Len(commits) <= QueueBound
  BY NamesAssumption DEF Init
<1> QED
  BY <1>2, <1>3, HeldEmpty DEF Init, TypeOK, NoNames

LEMMA StreamsType ==
  ASSUME TypeOK, NEW N \in SUBSET Node, Streams(N)
  PROVE  commits' \in Seq(SUBSET Node) /\ Len(commits') <= QueueBound
<1>1. commits \in Seq(SUBSET Node) /\ Len(commits) <= QueueBound /\ QueueBound \in Nat
  BY NamesAssumption DEF TypeOK
<1>2. CASE live
  BY <1>1, <1>2 DEF Streams
<1>3. CASE ~live
  BY <1>1, <1>3 DEF Streams
<1> QED
  BY <1>2, <1>3

\* What Pushes leaves of the histories.
LEMMA PushesType ==
  ASSUME TypeOK, NEW cached, NEW N \in SUBSET Node, Pushes(cached, N)
  PROVE  {unseen', missed', renamed'} \subseteq SUBSET Rel
<1>1. {n[1] : n \in {n \in N : cached[n] = Unknown}} \subseteq Rel
  BY DEF Node
<1>2. /\ unseen' \subseteq unseen
      /\ missed' \subseteq missed \cup {n[1] : n \in {n \in N : cached[n] = Unknown}}
      /\ renamed' = renamed
  BY DEF Pushes
<1>3. unseen \in SUBSET Rel /\ missed \in SUBSET Rel /\ renamed \in SUBSET Rel
  BY DEF TypeOK
<1> QED
  BY <1>1, <1>2, <1>3

LEMMA EntryType == \A name \in Name : Entry(name) \in (Name \ System) \cup {Drop}
BY DEF Entry

LEMMA CachedType ==
  ASSUME TypeOK
  PROVE  Cached \in [Node -> (Name \ System) \cup {Drop, Unknown}]
<1>1. \A row \in reply : row[2] \in (Name \ System) \cup {Drop}
  BY DEF TypeOK
<1> QED
  BY <1>1 DEF Cached, TypeOK

LEMMA StepNamesType ==
  ASSUME TypeOK, [Next]_vars
  PROVE  TypeOK'
<1> USE DEF catalog, lookup, history
<1>1. ASSUME NEW S \in SUBSET Rel, Commit(S)
      PROVE  TypeOK'
  <2>1. \A r \in Rel : logged[r] \in Version
    BY DEF TypeOK
  <2>2. {<<r, logged[r]>> : r \in S} \in SUBSET Node
    BY <2>1, NodeIs
  <2>3. commits' \in Seq(SUBSET Node) /\ Len(commits') <= QueueBound
    BY <1>1, <2>2, StreamsType DEF Commit
  <2> QED
    BY <1>1, <2>3 DEF Commit, TypeOK
<1>2. ASSUME NEW r \in Rel, Rewrite(r)
      PROVE  TypeOK'
  <2>1. logged' \in [Rel -> Version]
    BY <1>2, NamesAssumption DEF Rewrite, TypeOK, Version
  <2>2. {<<r, logged'[r]>>} \in SUBSET Node
    BY <2>1, NodeIs
  <2>3. commits' \in Seq(SUBSET Node) /\ Len(commits') <= QueueBound
    BY <1>2, <2>2, StreamsType DEF Rewrite
  <2> QED
    BY <1>2, <2>1, <2>3 DEF Rewrite, TypeOK
<1>3. ASSUME NEW r \in Rel, BecomesVisible(r)
      PROVE  TypeOK'
  BY <1>3 DEF BecomesVisible, TypeOK
<1>4. ASSUME NEW r \in Rel, NEW name \in Name, Rename(r, name)
      PROVE  TypeOK'
  <2>1. nameOf' \in Injection(Rel, Name)
    BY <1>4 DEF Rename, TypeOK, Injection, IsInjective, Range
  <2> QED
    BY <1>4, <2>1 DEF Rename, TypeOK
<1>5. CASE CatalogAnswers
  <2>1. \A n \in Node : Entry(nameOf[n[1]]) \in (Name \ System) \cup {Drop}
    BY EntryType DEF TypeOK, Injection, Node
  <2>2. reply' \subseteq Node \X ((Name \ System) \cup {Drop})
    BY <1>5, <2>1 DEF CatalogAnswers, TypeOK, Unseen
  <2> QED
    BY <1>5, <2>2 DEF CatalogAnswers, TypeOK
<1>6. CASE SessionStarts
  BY <1>6 DEF SessionStarts, FirstNames, NoNames, TypeOK
<1>7. CASE SessionEnds
  <2>1. Len(commits') <= QueueBound
    BY <1>7, NamesAssumption DEF SessionEnds
  <2> QED
    BY <1>7, <2>1, HeldEmpty DEF SessionEnds, TypeOK
<1>8. CASE ReadCommit
  <2>1. /\ commits' \in Seq(SUBSET Node) /\ Head(commits) \in SUBSET Node
        /\ Len(commits') <= QueueBound
    <3>1. commits \in Seq(SUBSET Node) /\ commits # <<>> /\ commits' = Tail(commits)
          /\ Len(commits) <= QueueBound /\ Len(commits) \in Nat /\ QueueBound \in Nat
      BY <1>8, NamesAssumption DEF ReadCommit, TypeOK
    <3>2. Len(commits') \in Nat
      BY <3>1
    <3> QED
      BY <3>1, <3>2, HeldTail
  <2>2. CASE Unseen(Head(commits)) = {}
    BY <1>8, <2>1, <2>2, PushesType DEF ReadCommit, TypeOK
  <2>3. CASE Unseen(Head(commits)) # {}
    BY <1>8, <2>1, <2>3 DEF ReadCommit, TypeOK
  <2> QED
    BY <2>2, <2>3
<1>9. CASE ReadReply
  <2>1. asked \in SUBSET Node
    BY DEF TypeOK
  <2>2. {unseen', missed', renamed'} \subseteq SUBSET Rel
    BY <1>9, <2>1, PushesType DEF ReadReply
  <2> QED
    BY <1>9, <2>2, CachedType DEF ReadReply, TypeOK
<1>10. CASE UNCHANGED vars
  BY <1>10 DEF vars, TypeOK
<1> QED
  BY <1>1, <1>2, <1>3, <1>4, <1>5, <1>6, <1>7, <1>8, <1>9, <1>10 DEF Next

------------------------------------------------------------------------------
\* The names.

\* A lookup that has the names right, and none that the catalog has not shown, misses or
\* tells whatever was to be told by it.
LEMMA PushesTell ==
  ASSUME NamesIInv, live, NEW cached, NEW N \in SUBSET Node, Pushes(cached, N),
         UNCHANGED <<nameOf, shown, logged, live>>,
         NodesOnTheirWay \subseteq NodesOnTheirWay' \cup N,
         \A n \in Node : cached[n] # Unknown => n[2] <= shown[n[1]],
         \A r \in Rel \ renamed : cached[<<r, shown[r]>>] \in {Unknown, Entry(nameOf[r])}
  PROVE  LagIsMissed' /\ ToldByNow'
<1> DEFINE told == {r \in Rel : nameOf[r] \in Passes(cached, N) /\ Settled(r)}
<1>1. /\ unseen' = unseen \ told
      /\ missed' = (missed \ told) \cup {n[1] : n \in {n \in N : cached[n] = Unknown}}
      /\ renamed' = renamed
  BY DEF Pushes
<1>2. ASSUME NEW r \in Rel
      PROVE  /\ shown[r] \in Int /\ logged[r] \in Int /\ shown[r] <= logged[r]
             /\ <<r, logged[r]>> \in Node
             /\ <<r, logged[r]>>[1] = r /\ <<r, logged[r]>>[2] = logged[r]
    BY NodeIs, NamesAssumption DEF NamesIInv, TypeOK, ShownIsLogged, Version
<1>3. ASSUME NEW r \in Rel, <<r, logged[r]>> \in N, r \notin missed'
      PROVE  Settled(r) /\ cached[<<r, shown[r]>>] # Unknown
  <2>1. cached[<<r, logged[r]>>] # Unknown
    BY <1>1, <1>2, <1>3
  <2>2. logged[r] <= shown[r]
    BY <1>2, <2>1
  <2>3. shown[r] = logged[r]
    <3>1. shown[r] \in Int /\ logged[r] \in Int /\ shown[r] <= logged[r]
      BY <1>2
    <3> QED
      BY <2>2, <3>1
  <2> QED
    BY <2>1, <2>3 DEF Settled
<1>4. \A r \in Rel : Settled(r)' <=> Settled(r)
  BY DEF Settled
<1>5. LagIsMissed'
  <2> SUFFICES ASSUME NEW r \in Rel, ~Settled(r), r \notin missed'
               PROVE  <<r, logged[r]>> \in NodesOnTheirWay'
    BY <1>4 DEF LagIsMissed
  <2>1. r \notin told
    OBVIOUS
  <2>2. <<r, logged[r]>> \in NodesOnTheirWay
    BY <1>1, <2>1 DEF NamesIInv, LagIsMissed
  <2> QED
    BY <1>3, <2>2
<1>6. ToldByNow'
  <2> SUFFICES ASSUME NEW r \in unseen', r \notin missed', r \notin renamed',
                      nameOf[r] \in Wanted, <<r, logged[r]>> \notin NodesOnTheirWay'
               PROVE  FALSE
    BY DEF ToldByNow
  <2>1. r \in Rel /\ r \in unseen /\ r \notin told /\ r \notin missed /\ r \notin renamed
    BY <1>1 DEF NamesIInv, TypeOK
  <2>2. <<r, logged[r]>> \in N
    BY <2>1 DEF NamesIInv, ToldByNow
  <2>3. Settled(r) /\ cached[<<r, shown[r]>>] = Entry(nameOf[r])
    BY <1>3, <2>1, <2>2
  <2>4. cached[<<r, logged[r]>>] = nameOf[r]
    BY <2>3 DEF Settled, Entry, Wanted
  <2>5. nameOf[r] \in Passes(cached, N)
    BY <2>2, <2>4 DEF Passes, Wanted
  <2> QED
    BY <2>1, <2>3, <2>5
<1> QED
  BY <1>5, <1>6

LEMMA InitNamesIInv == Init => NamesIInv
<1> SUFFICES ASSUME Init
             PROVE  NamesIInv
  OBVIOUS
<1>1. ShownIsLogged
  BY DEF Init, ShownIsLogged
<1> QED
  BY <1>1, InitNamesType
  DEF Init, NamesIInv, UnderWay, NamesAreShown, NamesAreRight, LagIsMissed, ToldByNow

\* A commit that is streamed leaves on its way what was, and is on its way itself.
LEMMA StreamsHolds ==
  ASSUME TypeOK, NEW N \in SUBSET Node, Streams(N), UNCHANGED asked
  PROVE  /\ NodesOnTheirWay \subseteq NodesOnTheirWay'
         /\ live => N \subseteq NodesOnTheirWay'
         /\ ~live => UNCHANGED commits
<1>1. commits \in Seq(SUBSET Node)
  BY DEF TypeOK
<1>2. CASE live
  <2>1. UNION Range(commits') = (UNION Range(commits)) \cup N
    BY <1>1, <1>2, HeldAppend DEF Streams
  <2> QED
    BY <1>2, <2>1 DEF NodesOnTheirWay
<1>3. CASE ~live
  BY <1>3 DEF Streams, NodesOnTheirWay
<1> QED
  BY <1>2, <1>3

LEMMA CommitNames ==
  ASSUME NamesIInv, TypeOK', NEW S \in SUBSET Rel, Commit(S)
  PROVE  NamesIInv'
<1> DEFINE N == {<<r, logged[r]>> : r \in S}
<1>1. N \in SUBSET Node
  BY NodeIs DEF NamesIInv, TypeOK
<1>2. /\ Streams(N) /\ unseen' = unseen \cup S
      /\ UNCHANGED <<nameOf, shown, logged, live, names, asked, waiting, reply, replied,
                     missed, renamed>>
  BY DEF Commit, catalog, lookup
<1>3. /\ NodesOnTheirWay \subseteq NodesOnTheirWay'
      /\ live => N \subseteq NodesOnTheirWay'
      /\ ~live => UNCHANGED commits
  BY <1>1, <1>2, StreamsHolds DEF NamesIInv
<1>4. UnderWay' /\ NamesAreShown' /\ ShownIsLogged' /\ NamesAreRight'
  BY <1>2, <1>3 DEF NamesIInv, UnderWay, NamesAreShown, ShownIsLogged, NamesAreRight
<1>5. LagIsMissed'
  BY <1>2, <1>3 DEF NamesIInv, LagIsMissed, Settled
<1>6. ToldByNow'
  BY <1>2, <1>3 DEF NamesIInv, ToldByNow
<1> QED
  BY <1>4, <1>5, <1>6 DEF NamesIInv

LEMMA RewriteNames ==
  ASSUME NamesIInv, TypeOK', NEW r \in Rel, Rewrite(r)
  PROVE  NamesIInv'
<1> DEFINE N == {<<r, logged'[r]>>}
<1>1. N \in SUBSET Node
  BY NodeIs DEF TypeOK
<1>2. /\ Streams(N) /\ unseen' = unseen \cup {r}
      /\ logged' = [logged EXCEPT ![r] = @ + 1]
      /\ shown[r] = logged[r]
      /\ UNCHANGED <<nameOf, shown, live, names, asked, waiting, reply, replied, missed, renamed>>
  BY DEF Rewrite, lookup, Settled
<1>3. /\ NodesOnTheirWay \subseteq NodesOnTheirWay'
      /\ live => N \subseteq NodesOnTheirWay'
      /\ ~live => UNCHANGED commits
  BY <1>1, <1>2, StreamsHolds DEF NamesIInv
<1>4. /\ \A s \in Rel : s # r => logged'[s] = logged[s]
      /\ logged'[r] = logged[r] + 1 /\ logged[r] \in Int
  BY <1>2, NamesAssumption DEF NamesIInv, TypeOK, Version
<1>5. UnderWay' /\ NamesAreShown' /\ NamesAreRight'
  BY <1>2, <1>3 DEF NamesIInv, UnderWay, NamesAreShown, NamesAreRight
<1>6. ShownIsLogged'
  BY <1>2, <1>4 DEF NamesIInv, ShownIsLogged
<1>7. LagIsMissed'
  BY <1>2, <1>3, <1>4 DEF NamesIInv, LagIsMissed, Settled
<1>8. ToldByNow'
  <2> SUFFICES ASSUME live, NEW s \in unseen'
               PROVE  \/ <<s, logged'[s]>> \in NodesOnTheirWay'
                      \/ s \in missed \cup renamed
                      \/ nameOf[s] \notin Wanted
    BY <1>2 DEF ToldByNow
  <2>1. CASE s = r
    BY <1>3, <2>1
  <2>2. CASE s # r
    <3>1. s \in Rel /\ s \in unseen
      BY <1>2, <2>2 DEF NamesIInv, TypeOK
    <3> QED
      BY <1>3, <1>4, <2>2, <3>1 DEF NamesIInv, ToldByNow
  <2> QED
    BY <2>1, <2>2
<1> QED
  BY <1>5, <1>6, <1>7, <1>8 DEF NamesIInv

\* The catalog shows the next version, of which the resolver has heard nothing yet.
LEMMA VisibleNames ==
  ASSUME NamesIInv, TypeOK', NEW r \in Rel, BecomesVisible(r)
  PROVE  NamesIInv'
<1>1. /\ shown' = [shown EXCEPT ![r] = logged[r]]
      /\ UNCHANGED <<nameOf, logged, live, commits, names, asked, waiting, reply, replied,
                     unseen, missed, renamed>>
  BY DEF BecomesVisible, lookup, history
<1>2. /\ \A s \in Rel : /\ shown[s] \in Int /\ logged[s] \in Int /\ shown[s] <= logged[s]
                        /\ <<s, logged[s]>> \in Node
      /\ shown[r] < logged[r]
      /\ \A s \in Rel : shown'[s] = IF s = r THEN logged[r] ELSE shown[s]
      /\ \A n \in Node : n[1] \in Rel /\ n[2] \in Int
  BY <1>1, NodeIs, NamesAssumption
  DEF BecomesVisible, NamesIInv, TypeOK, ShownIsLogged, Version, Settled, Node
<1>3. \A row \in reply : row[1] \in Node
  BY DEF NamesIInv, TypeOK
<1>4. UnderWay' /\ ShownIsLogged'
  <2>1. ASSUME NEW s \in Rel
        PROVE  shown'[s] <= logged[s]
    <3>1. logged[r] \in Int /\ logged[s] \in Int /\ shown[s] <= logged[s]
      BY <1>2
    <3>2. shown'[s] = IF s = r THEN logged[r] ELSE shown[s]
      BY <1>2
    <3> QED
      BY <3>1, <3>2
  <2> QED
    BY <1>1, <2>1 DEF NamesIInv, UnderWay, ShownIsLogged
<1>5. NamesAreShown'
  <2>1. ASSUME NEW n \in Node, n[2] <= shown[n[1]]
        PROVE  n[2] <= shown'[n[1]]
    <3>1. n[1] \in Rel /\ n[2] \in Int
      BY <1>2
    <3>2. /\ shown[n[1]] \in Int /\ logged[r] \in Int
          /\ shown[r] < logged[r]
          /\ shown'[n[1]] = IF n[1] = r THEN logged[r] ELSE shown[n[1]]
      BY <1>2, <3>1
    <3> QED
      BY <2>1, <3>1, <3>2
  <2> QED
    BY <1>1, <1>3, <2>1 DEF NamesIInv, NamesAreShown
<1>6. NamesAreRight'
  <2> SUFFICES ASSUME live, NEW s \in Rel \ renamed
               PROVE  /\ names[<<s, shown'[s]>>] \in {Unknown, Entry(nameOf[s])}
                      /\ \A row \in reply :
                           row[1] = <<s, shown'[s]>> => row[2] = Entry(nameOf[s])
    BY <1>1 DEF NamesAreRight, Entry
  <2>1. CASE s = r
    <3> DEFINE n == <<r, logged[r]>>
    <3>1. n[1] = r /\ n[2] = logged[r] /\ ~(logged[r] <= shown[r])
      <4>1. shown[r] \in Int /\ logged[r] \in Int /\ shown[r] < logged[r]
        BY <1>2
      <4> QED
        BY <4>1
    <3>2. n \in Node
      BY <1>2
    <3> HIDE DEF n
    <3>3. names[n] = Unknown /\ \A row \in reply : row[1] # n
      BY <3>1, <3>2 DEF NamesIInv, NamesAreShown
    <3> QED
      BY <1>2, <2>1, <3>3 DEF n
  <2>2. CASE s # r
    <3>1. shown'[s] = shown[s]
      BY <1>2, <2>2
    <3> QED
      BY <3>1 DEF NamesIInv, NamesAreRight
  <2> QED
    BY <2>1, <2>2
<1>7. LagIsMissed'
  <2>1. \A s \in Rel : Settled(s) => Settled(s)'
    BY <1>1, <1>2 DEF Settled
  <2> QED
    BY <1>1, <2>1 DEF NamesIInv, LagIsMissed, NodesOnTheirWay
<1>8. ToldByNow'
  BY <1>1 DEF NamesIInv, ToldByNow, NodesOnTheirWay
<1> QED
  BY <1>4, <1>5, <1>6, <1>7, <1>8 DEF NamesIInv

\* A rename: whoever has the old name, or is about to, is known.
LEMMA RenameNames ==
  ASSUME NamesIInv, TypeOK', NEW r \in Rel, NEW name \in Name, Rename(r, name)
  PROVE  NamesIInv'
<1> DEFINE n == <<r, shown[r]>>
<1>1. /\ nameOf' = [nameOf EXCEPT ![r] = name]
      /\ renamed' = IF live /\ (names[n] # Unknown \/ \E row \in reply : row[1] = n)
                      THEN renamed \cup {r} ELSE renamed
      /\ unseen' = IF live THEN unseen \ {r} ELSE unseen
      /\ UNCHANGED <<shown, logged, live, commits, names, asked, waiting, reply, replied, missed>>
  BY DEF Rename, lookup
<1>2. \A s \in Rel : s # r => nameOf'[s] = nameOf[s]
  BY <1>1 DEF NamesIInv, TypeOK, Injection
<1>3. UnderWay' /\ NamesAreShown' /\ ShownIsLogged' /\ LagIsMissed'
  BY <1>1 DEF NamesIInv, UnderWay, NamesAreShown, ShownIsLogged, LagIsMissed, Settled,
              NodesOnTheirWay
<1>4. NamesAreRight'
  <2> SUFFICES ASSUME live, NEW s \in Rel \ renamed'
               PROVE  /\ names[<<s, shown[s]>>] \in {Unknown, Entry(nameOf'[s])}
                      /\ \A row \in reply :
                           row[1] = <<s, shown[s]>> => row[2] = Entry(nameOf'[s])
    BY <1>1 DEF NamesAreRight, Entry
  <2>1. CASE s = r
    BY <1>1, <2>1
  <2>2. CASE s # r
    <3>1. s \in Rel \ renamed
      BY <1>1
    <3>2. nameOf'[s] = nameOf[s]
      BY <1>2, <2>2
    <3> QED
      BY <3>1, <3>2 DEF NamesIInv, NamesAreRight
  <2> QED
    BY <2>1, <2>2
<1>5. ToldByNow'
  <2> SUFFICES ASSUME live, NEW s \in unseen'
               PROVE  \/ <<s, logged[s]>> \in NodesOnTheirWay
                      \/ s \in missed \cup renamed
                      \/ nameOf'[s] \notin Wanted
    BY <1>1 DEF ToldByNow, NodesOnTheirWay
  <2>1. s # r /\ s \in unseen /\ s \in Rel
    BY <1>1 DEF NamesIInv, TypeOK
  <2> QED
    BY <1>2, <2>1 DEF NamesIInv, ToldByNow
<1> QED
  BY <1>3, <1>4, <1>5 DEF NamesIInv

\* The catalog's answer is right when it is given.
LEMMA AnswersNames ==
  ASSUME NamesIInv, TypeOK', CatalogAnswers
  PROVE  NamesIInv'
<1>1. /\ waiting /\ replied'
      /\ reply' = {<<n, Entry(nameOf[n[1]])>> : n \in {n \in Unseen(asked) : n[2] = shown[n[1]]}}
      /\ UNCHANGED <<nameOf, shown, logged, live, commits, names, asked, waiting, unseen,
                     missed, renamed>>
  BY DEF CatalogAnswers, catalog, history
<1>2. asked \subseteq Node
  BY DEF NamesIInv, TypeOK
<1>3. \A row \in reply' : /\ row[1] \in Node /\ row[1][2] = shown[row[1][1]]
                          /\ row[2] = Entry(nameOf[row[1][1]])
  BY <1>1, <1>2 DEF Unseen
<1>4. \A m \in Node : m[2] = shown[m[1]] => m[2] <= shown[m[1]]
  BY NamesAssumption DEF Node, Version
<1>5. NamesAreShown'
  BY <1>1, <1>3, <1>4 DEF NamesIInv, NamesAreShown
<1>6. NamesAreRight'
  BY <1>1, <1>3 DEF NamesIInv, NamesAreRight, Entry
<1>7. UnderWay' /\ ShownIsLogged' /\ LagIsMissed' /\ ToldByNow'
  BY <1>1 DEF NamesIInv, UnderWay, ShownIsLogged, LagIsMissed, ToldByNow, Settled, NodesOnTheirWay
<1> QED
  BY <1>5, <1>6, <1>7 DEF NamesIInv

LEMMA SessionNames ==
  ASSUME NamesIInv, TypeOK', SessionStarts \/ SessionEnds \/ UNCHANGED vars
  PROVE  NamesIInv'
<1>1. CASE SessionStarts
  <2>1. /\ ~live /\ live' /\ names' = NoNames
        /\ missed' = {r \in Rel : ~Settled(r)} /\ unseen' = missed'
        /\ UNCHANGED <<nameOf, shown, logged, commits, asked, waiting, reply, replied>>
    BY <1>1 DEF SessionStarts, FirstNames, catalog
  <2>2. reply = {} /\ ~waiting /\ ~replied /\ asked = {}
    BY <2>1 DEF NamesIInv, UnderWay
  <2>3. \A n \in Node : names'[n] = Unknown
    BY <2>1 DEF NoNames
  <2>4. NamesAreShown' /\ UnderWay' /\ ShownIsLogged'
    BY <2>1, <2>2, <2>3 DEF NamesIInv, NamesAreShown, UnderWay, ShownIsLogged
  <2>5. NamesAreRight'
    <3>1. \A r \in Rel : <<r, shown[r]>> \in Node
      BY NodeIs DEF NamesIInv, TypeOK
    <3> QED
      BY <2>1, <2>2, <2>3, <3>1 DEF NamesAreRight
  <2>6. LagIsMissed' /\ ToldByNow'
    BY <2>1 DEF LagIsMissed, ToldByNow, Settled
  <2> QED
    BY <2>4, <2>5, <2>6 DEF NamesIInv
<1>2. CASE SessionEnds
  BY <1>2 DEF SessionEnds, catalog, NamesIInv, UnderWay, NamesAreShown, NamesAreRight,
              ShownIsLogged, LagIsMissed, ToldByNow
<1>3. CASE UNCHANGED vars
  BY <1>3 DEF vars, catalog, lookup, history, NamesIInv, UnderWay, NamesAreShown, NamesAreRight,
              ShownIsLogged, LagIsMissed, ToldByNow, Settled, NodesOnTheirWay, Entry
<1> QED
  BY <1>1, <1>2, <1>3

\* The parts that neither a lookup nor its end touches.
LEMMA LookupKeeps ==
  ASSUME NamesIInv, live, UNCHANGED <<nameOf, shown, logged, live, renamed>>,
         \A n \in Node : names'[n] # Unknown => n[2] <= shown[n[1]],
         \A r \in Rel \ renamed : names'[<<r, shown[r]>>] \in {Unknown, Entry(nameOf[r])},
         reply' \subseteq reply
  PROVE  NamesAreShown' /\ ShownIsLogged' /\ NamesAreRight'
<1>1. NamesAreShown' /\ ShownIsLogged'
  BY DEF NamesIInv, NamesAreShown, ShownIsLogged
<1>2. NamesAreRight'
  BY DEF NamesIInv, NamesAreRight, Entry
<1> QED
  BY <1>1, <1>2

LEMMA ReadCommitNames ==
  ASSUME NamesIInv, TypeOK', ReadCommit
  PROVE  NamesIInv'
<1> DEFINE N == Head(commits)
<1>1. /\ live /\ ~waiting /\ commits # <<>> /\ commits' = Tail(commits)
      /\ UNCHANGED <<nameOf, shown, logged, live, names, reply, replied>>
  BY DEF ReadCommit, catalog
<1>2. /\ UNION Range(commits) = N \cup (UNION Range(commits'))
      /\ N \in SUBSET Node
  BY <1>1, HeldTail DEF NamesIInv, TypeOK
<1>3. asked = {} /\ ~replied /\ reply = {}
  BY <1>1 DEF NamesIInv, UnderWay
<1>4. /\ \A n \in Node : names[n] # Unknown => n[2] <= shown[n[1]]
      /\ \A r \in Rel \ renamed : names[<<r, shown[r]>>] \in {Unknown, Entry(nameOf[r])}
  BY <1>1 DEF NamesIInv, NamesAreShown, NamesAreRight
<1>5. CASE Unseen(N) = {}
  <2>1. Pushes(names, N) /\ UNCHANGED <<asked, waiting>>
    BY <1>5 DEF ReadCommit
  <2>2. NodesOnTheirWay \subseteq NodesOnTheirWay' \cup N
    BY <1>2, <2>1 DEF NodesOnTheirWay
  <2>3. LagIsMissed' /\ ToldByNow'
    BY <1>1, <1>2, <1>4, <2>1, <2>2, PushesTell
  <2>4. renamed' = renamed
    BY <2>1 DEF Pushes
  <2>5. NamesAreShown' /\ ShownIsLogged' /\ NamesAreRight'
    BY <1>1, <1>4, <2>4, LookupKeeps
  <2>6. UnderWay'
    BY <1>1, <1>3, <2>1 DEF UnderWay
  <2> QED
    BY <2>3, <2>5, <2>6 DEF NamesIInv
<1>6. CASE Unseen(N) # {}
  <2>1. asked' = N /\ waiting' = TRUE /\ UNCHANGED <<unseen, missed, renamed>>
    BY <1>6 DEF ReadCommit, history
  <2>2. NodesOnTheirWay \subseteq NodesOnTheirWay'
    BY <1>2, <1>3, <2>1 DEF NodesOnTheirWay
  <2>3. NamesAreShown' /\ ShownIsLogged' /\ NamesAreRight'
    BY <1>1, <1>4, <2>1, LookupKeeps
  <2>4. LagIsMissed' /\ ToldByNow'
    BY <1>1, <2>1, <2>2 DEF NamesIInv, LagIsMissed, ToldByNow, Settled
  <2>5. UnderWay'
    BY <1>1, <1>3, <2>1 DEF UnderWay
  <2> QED
    BY <2>3, <2>4, <2>5 DEF NamesIInv
<1> QED
  BY <1>5, <1>6

LEMMA ReadReplyNames ==
  ASSUME NamesIInv, TypeOK', ReadReply
  PROVE  NamesIInv'
<1>1. /\ waiting /\ replied /\ names' = Cached /\ Pushes(Cached, asked)
      /\ asked' = {} /\ waiting' = FALSE /\ reply' = {} /\ replied' = FALSE
      /\ UNCHANGED <<nameOf, shown, logged, live, commits>>
  BY DEF ReadReply, catalog
<1>2. live
  BY <1>1 DEF NamesIInv, UnderWay
<1>3. asked \in SUBSET Node
  BY DEF NamesIInv, TypeOK
<1>4. ASSUME NEW n \in Node
      PROVE  Cached[n] = names[n] \/ \E row \in reply : row[1] = n /\ Cached[n] = row[2]
  BY DEF Cached
<1>5. \A n \in Node : Cached[n] # Unknown => n[2] <= shown[n[1]]
  BY <1>2, <1>4 DEF NamesIInv, NamesAreShown
<1>6. \A r \in Rel \ renamed : Cached[<<r, shown[r]>>] \in {Unknown, Entry(nameOf[r])}
  <2>1. \A r \in Rel : <<r, shown[r]>> \in Node
    BY NodeIs DEF NamesIInv, TypeOK
  <2> QED
    BY <1>2, <1>4, <2>1 DEF NamesIInv, NamesAreRight
<1>7. LagIsMissed' /\ ToldByNow'
  <2>1. NodesOnTheirWay \subseteq NodesOnTheirWay' \cup asked
    BY <1>1 DEF NodesOnTheirWay
  <2> HIDE DEF Cached
  <2> QED
    BY <1>1, <1>2, <1>3, <1>5, <1>6, <2>1, PushesTell
<1>8. renamed' = renamed
  BY <1>1 DEF Pushes
<1>9. NamesAreShown' /\ ShownIsLogged' /\ NamesAreRight'
  BY <1>1, <1>2, <1>5, <1>6, <1>8, LookupKeeps
<1>10. UnderWay'
  BY <1>1, <1>2 DEF UnderWay
<1> QED
  BY <1>7, <1>9, <1>10 DEF NamesIInv

LEMMA NamesInvariant == Spec => []NamesIInv
<1>1. NamesIInv /\ [Next]_vars => NamesIInv'
  <2> SUFFICES ASSUME NamesIInv, [Next]_vars
               PROVE  NamesIInv'
    OBVIOUS
  <2>1. TypeOK'
    BY StepNamesType DEF NamesIInv
  <2> QED
    BY <2>1, CommitNames, RewriteNames, VisibleNames, RenameNames, AnswersNames, SessionNames,
       ReadCommitNames, ReadReplyNames DEF Next
<1> QED
  BY <1>1, InitNamesIInv, PTL DEF Spec

\* A commit reaches the readers of a table's present name, but for a relfilenode the
\* catalog did not show and for a name that changed after its lookup (RelResolver,
\* push_committed).
THEOREM NamesAreByNow == Spec => []NamedByNow
<1>1. NamesIInv => NamedByNow
  <2> SUFFICES ASSUME NamesIInv, NEW r \in Rel, LeftOut(r)
               PROVE  r \in missed \cup renamed
    BY DEF NamedByNow
  <2>1. <<r, logged[r]>> \notin NodesOnTheirWay
    BY DEF LeftOut, OnItsWay, NodesOnTheirWay
  <2> QED
    BY <2>1 DEF LeftOut, NamesIInv, ToldByNow
<1> QED
  BY <1>1, NamesInvariant, PTL

------------------------------------------------------------------------------
\* The preflight.

\* The end of a step that has the server's word for what it found.
LEMMA LeavesKeeps ==
  ASSUME DoctorIInv, NEW why \in {"ok", "missing", "failed"}, Leaves(why),
         UNCHANGED <<can, plugin, session, slot>>,
         why = "ok" /\ step \in Probes => step \in slot,
         why = "ok" /\ step = "physical" => can.physical,
         why = "missing" => step \in Probes /\ Named(step) \notin can.plugins
  PROVE  DoctorIInv'
<1>1. queries' = 0 /\ sock' = FALSE /\ Concludes(why)
  BY DEF Leaves, StaysOpen
<1>2. SlotsAreGranted' /\ LetIn'
  BY <1>1 DEF DoctorIInv, SlotsAreGranted, LetIn, Named
<1>3. /\ can' \in [plugins : SUBSET Plugin, logical : BOOLEAN, physical : BOOLEAN]
      /\ plugin' \in Plugin /\ queries' \in 0..4 /\ sock' \in BOOLEAN
      /\ session' \subseteq Steps /\ slot' \subseteq session' \cap Probes
  <2>1. DoctorTypeOK /\ UNCHANGED <<can, plugin, session, slot>>
    BY DEF DoctorIInv
  <2>2. can' \in [plugins : SUBSET Plugin, logical : BOOLEAN, physical : BOOLEAN]
    BY <2>1 DEF DoctorTypeOK
  <2>3. queries' \in 0..4
    BY <1>1, SMT
  <2>4. sock' \in BOOLEAN
    BY <1>1, Zenon
  <2> QED
    BY <2>1, <2>2, <2>3, <2>4 DEF DoctorTypeOK
<1>4. CASE step = "basic"
  <2>1. UNCHANGED <<walfeed, physical>> /\ step' \in {"logical", "raised", "done"}
    BY <1>1, <1>4 DEF Concludes, Probes
  <2> QED
    BY <1>2, <1>3, <2>1
    DEF DoctorIInv, DoctorTypeOK, FoundIsSo, FallbackIsForWant, Steps, Ended, Probes
<1>5. CASE step = "logical" /\ why = "ok"
  <2>1. UNCHANGED physical /\ step' = "physical" /\ walfeed' = "ok"
    BY <1>1, <1>5 DEF Concludes, Probes, ReturnsNone, Retries
  <2>2. can.logical /\ plugin \in can.plugins
    BY <1>5 DEF DoctorIInv, SlotsAreGranted, Named, Probes
  <2> QED
    BY <1>2, <1>3, <2>1, <2>2
    DEF DoctorIInv, DoctorTypeOK, FoundIsSo, FallbackIsForWant, Steps, Ended, Probes
<1>6. CASE step = "logical" /\ why # "ok"
  <2>1. /\ UNCHANGED physical
        /\ \/ step' = "fallback" /\ walfeed' = "none" /\ why = "missing"
           \/ step' = "physical" /\ walfeed' = "failed"
    BY <1>1, <1>6 DEF Concludes, Probes, ReturnsNone, Retries
  <2>2. why = "missing" => plugin \notin can.plugins
    BY <1>6 DEF Named
  <2> QED
    BY <1>2, <1>3, <2>1, <2>2
    DEF DoctorIInv, DoctorTypeOK, FoundIsSo, FallbackIsForWant, Steps, Ended, Probes
<1>7. CASE step = "fallback"
  <2>1. /\ UNCHANGED physical /\ step' = "physical"
        /\ walfeed' = IF why = "ok" THEN "fallback" ELSE "failed"
    BY <1>1, <1>7 DEF Concludes, Probes, ReturnsNone
  <2>2. why = "ok" => can.logical /\ Fallback \in can.plugins
    BY <1>7 DEF DoctorIInv, SlotsAreGranted, Named, Probes
  <2> QED
    BY <1>2, <1>3, <1>7, <2>1, <2>2
    DEF DoctorIInv, DoctorTypeOK, FoundIsSo, FallbackIsForWant, Steps, Ended, Probes
<1>8. CASE step = "physical"
  <2>1. /\ UNCHANGED walfeed /\ step' = "done"
        /\ physical' = IF why = "ok" THEN "ok" ELSE "failed"
    BY <1>1, <1>8 DEF Concludes, Probes
  <2> QED
    BY <1>2, <1>3, <1>8, <2>1
    DEF DoctorIInv, DoctorTypeOK, FoundIsSo, FallbackIsForWant, Steps, Ended, Probes
<1> QED
  BY <1>1, <1>4, <1>5, <1>6, <1>7, <1>8 DEF Concludes, Probes

LEMMA DoctorInductive == DoctorIInv /\ [DoctorNext]_doctorVars => DoctorIInv'
<1> SUFFICES ASSUME DoctorIInv, [DoctorNext]_doctorVars
             PROVE  DoctorIInv'
  OBVIOUS
<1> USE DEF DoctorIInv, DoctorTypeOK, FoundIsSo, FallbackIsForWant, SlotsAreGranted, LetIn
<1>1. CASE Connects
  BY <1>1 DEF Connects, QueriesOf, Steps, Probes, Named
<1>2. CASE ConnectRaises
  <2> HIDE DEF DoctorIInv
  <2> QED
    BY <1>2, LeavesKeeps DEF ConnectRaises
<1>3. CASE QueryReturns
  <2>1. CASE queries > 1
    <3>1. queries' = queries - 1 /\ UNCHANGED <<can, plugin, step, walfeed, physical, sock, session, slot>>
      BY <1>3, <2>1 DEF QueryReturns
    <3> QED
      BY <2>1, <3>1 DEF Named
  <2>2. CASE ~(queries > 1)
    <3>1. /\ Leaves("ok") /\ UNCHANGED <<can, plugin, session, slot>>
          /\ step \in Probes => step \in slot
          /\ step = "physical" => can.physical
      BY <1>3, <2>2 DEF QueryReturns
    <3> HIDE DEF DoctorIInv
    <3> QED
      BY <3>1, LeavesKeeps
  <2> QED
    BY <2>1, <2>2
<1>4. CASE QueryRaises
  <2> HIDE DEF DoctorIInv
  <2> QED
    BY <1>4, LeavesKeeps DEF QueryRaises
<1>5. CASE PluginIsMissing
  <2> HIDE DEF DoctorIInv
  <2> QED
    BY <1>5, LeavesKeeps DEF PluginIsMissing
<1>6. CASE Interrupt
  <2>1. /\ step' = "interrupted" /\ queries' = 0 /\ sock' \in BOOLEAN
        /\ UNCHANGED <<can, plugin, walfeed, physical, session, slot>>
    BY <1>6 DEF Interrupt, StaysOpen
  <2> QED
    BY <2>1 DEF Named, Ended
<1>7. ASSUME NEW s \in Probes, SlotCreated(s)
      PROVE  DoctorIInv'
  BY <1>7 DEF SlotCreated, Named
<1>8. ASSUME NEW s \in Steps, BackendExits(s)
      PROVE  DoctorIInv'
  <2>1. /\ session' = session \ {s} /\ slot' = slot \ {s}
        /\ UNCHANGED <<can, plugin, step, queries, walfeed, physical, sock>>
    BY <1>8 DEF BackendExits, DropsSlot
  <2> QED
    BY <2>1 DEF Named
<1>9. CASE UNCHANGED doctorVars
  BY <1>9 DEF doctorVars, Named
<1> QED
  BY <1>1, <1>2, <1>3, <1>4, <1>5, <1>6, <1>7, <1>8, <1>9 DEF DoctorNext

LEMMA DoctorInvariant == DoctorSpec => []DoctorIInv
<1>1. DoctorInit => DoctorIInv
  <2> SUFFICES ASSUME DoctorInit
               PROVE  DoctorIInv
    OBVIOUS
  <2>1. /\ plugin \in Plugin /\ step = "basic" /\ queries = 0 /\ walfeed = "none"
        /\ physical = "none" /\ sock = FALSE /\ session = {} /\ slot = {}
    BY DEF DoctorInit
  <2>2. can \in [plugins : SUBSET Plugin, logical : BOOLEAN, physical : BOOLEAN]
    BY DEF DoctorInit
  <2>3. queries \in 0..4
    BY <2>1, SMT
  <2>4. sock \in BOOLEAN
    BY <2>1, Zenon
  <2>5. DoctorTypeOK
    BY <2>1, <2>2, <2>3, <2>4 DEF DoctorTypeOK, Steps
  <2> QED
    BY <2>1, <2>5 DEF DoctorIInv, FoundIsSo, FallbackIsForWant, SlotsAreGranted, LetIn
<1> QED
  BY <1>1, DoctorInductive, PTL DEF DoctorSpec

\* The transport that is recommended works on this server (diagnose).
THEOREM DoctorRecommendsWhatWorks == DoctorSpec => []RecommendsWhatWorks
<1>1. DoctorIInv => RecommendsWhatWorks
  BY DEF DoctorIInv, FoundIsSo, RecommendsWhatWorks, Recommended
<1> QED
  BY <1>1, DoctorInvariant, PTL

\* A plugin that is said to be missing is missing (diagnose).
THEOREM DoctorBlamesRightly == DoctorSpec => []BlamesThePluginRightly
<1>1. DoctorIInv => BlamesThePluginRightly
  BY DEF DoctorIInv, FallbackIsForWant, BlamesThePluginRightly
<1> QED
  BY <1>1, DoctorInvariant, PTL
==============================================================================

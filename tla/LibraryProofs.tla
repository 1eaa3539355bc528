---------------------------- MODULE LibraryProofs ----------------------------
(***************************************************************************)
(* The safety of the sample library for any number of files, folders, rows  *)
(* of a drain and events: the search never silently lags behind the         *)
(* database, the worker never sleeps through a wake-up, and no file is      *)
(* analysed twice as long as no watched folder lies inside another.         *)
(***************************************************************************)
EXTENDS Library, FiniteSetTheorems, TLAPS

DbShape == db = [rows |-> db.rows, tags |-> db.tags, watched |-> db.watched]

(* What "Similar" answers from is what the database holds, or a flag or the  *)
(* batch being written says that it does not.                               *)
SearchInv ==
  /\ mpc # "down" => dirty \/ wrote \/ corpus = All(db)
  /\ wrote => mpc = "write"

(* A statement that watches a folder or forgets one changes no row and no   *)
(* correction.                                                              *)
LEMMA WatchedOnly ==
  ASSUME DbShape, NEW f
  PROVE  /\ AddWatchedFolder(db, f) = [rows |-> db.rows, tags |-> db.tags, watched |-> db.watched \cup {f}]
         /\ RemoveWatchedFolder(db, f) = [rows |-> db.rows, tags |-> db.tags, watched |-> db.watched \ {f}]
         /\ All(AddWatchedFolder(db, f)) = All(db)
         /\ All(RemoveWatchedFolder(db, f)) = All(db)
<1>1. AddWatchedFolder(db, f) = [rows |-> db.rows, tags |-> db.tags, watched |-> db.watched \cup {f}]
  BY DEF AddWatchedFolder, DbShape
<1>2. RemoveWatchedFolder(db, f) = [rows |-> db.rows, tags |-> db.tags, watched |-> db.watched \ {f}]
  BY DEF RemoveWatchedFolder, DbShape
<1> QED BY <1>1, <1>2 DEF All, AllPaths

LEMMA InitSearch == Init => DbShape /\ SearchInv
<1> SUFFICES ASSUME Init PROVE DbShape /\ SearchInv OBVIOUS
<1>1. PICK w \in SUBSET Folders : db = [EmptyDb EXCEPT !.watched = w]
  BY DEF Init
<1>2. DbShape
  BY <1>1 DEF DbShape, EmptyDb
<1> QED BY <1>2 DEF Init, SearchInv

LEMMA NextShape == DbShape /\ [Next]_vars => DbShape'
<1> SUFFICES ASSUME DbShape, [Next]_vars PROVE DbShape' OBVIOUS
<1>1. CASE db' = db
  BY <1>1 DEF DbShape
<1>2. CASE AddFolder
  <2>1. PICK f : db' = AddWatchedFolder(db, f) BY <1>2 DEF AddFolder
  <2> QED BY <2>1, WatchedOnly DEF DbShape
<1>3. CASE RemoveFolder
  <2>1. PICK f : db' = RemoveWatchedFolder(db, f) BY <1>3 DEF RemoveFolder
  <2> QED BY <2>1, WatchedOnly DEF DbShape
<1>4. CASE Retag
  BY <1>4 DEF Retag, SetCategoryOverride, DbShape
<1>5. CASE WriteRow
  BY <1>5 DEF WriteRow, Upsert, DbShape
<1>6. CASE Process
  BY <1>6, <1>1 DEF Process, Launch, Crash, Quit, Joined
<1>7. CASE Rescan \/ FileChanges \/ Remount \/ Poke \/ Work \/ UNCHANGED vars
  BY <1>7, <1>1 DEF Rescan, FileChanges, Remount, Poke, Work, vars
<1>8. CASE TakeBatch \/ NothingToDrain \/ WriteFails \/ BatchWritten \/ Look \/ Count \/ BrowserTick
  BY <1>8, <1>1 DEF TakeBatch, NothingToDrain, WriteFails, BatchWritten, Look, Count, BrowserTick
<1> QED BY <1>2, <1>3, <1>4, <1>5, <1>6, <1>7, <1>8 DEF Next, Events, Timers

LEMMA NextSearch == DbShape /\ SearchInv /\ [Next]_vars => SearchInv'
<1> SUFFICES ASSUME DbShape, SearchInv, [Next]_vars PROVE SearchInv' OBVIOUS
<1> USE DEF SearchInv
<1>1. CASE Launch
  <2>1. db' = db /\ corpus' = All(db) /\ wrote' = wrote /\ mpc = "down" BY <1>1 DEF Launch
  <2> QED BY <2>1
<1>2. CASE Crash \/ Joined
  BY <1>2 DEF Crash, Joined, Gone
<1>3. CASE AddFolder
  <2>1. PICK f : db' = AddWatchedFolder(db, f) BY <1>3 DEF AddFolder
  <2>2. All(db') = All(db) BY <2>1, WatchedOnly
  <2> QED BY <1>3, <2>2 DEF AddFolder, message, caches
<1>4. CASE RemoveFolder
  <2>1. PICK f : db' = RemoveWatchedFolder(db, f) BY <1>4 DEF RemoveFolder
  <2>2. All(db') = All(db) BY <2>1, WatchedOnly
  <2> QED BY <1>4, <2>2 DEF RemoveFolder, message, caches
<1>5. CASE Retag
  BY <1>5 DEF Retag, message
<1>6. CASE Quit \/ Rescan \/ FileChanges \/ Remount \/ Poke
  BY <1>6 DEF Quit, Rescan, FileChanges, Remount, Poke, message, caches
<1>7. CASE Work \/ UNCHANGED vars
  BY <1>7 DEF Work, vars, message, caches
<1>8. CASE TakeBatch \/ NothingToDrain
  BY <1>8 DEF TakeBatch, NothingToDrain, caches
<1>9. CASE WriteRow
  BY <1>9 DEF WriteRow, caches
<1>10. CASE WriteFails
  BY <1>10 DEF WriteFails, caches
<1>11. CASE BatchWritten
  BY <1>11 DEF BatchWritten
<1>12. CASE Look
  BY <1>12 DEF Look, caches
<1>13. CASE Count
  <2>1. mpc = "count" /\ mpc' = "idle" /\ wrote' = wrote /\ db' = db
    BY <1>13 DEF Count
  <2>2. CASE results = <<>> BY <1>13, <2>1, <2>2 DEF Count
  <2>3. CASE results # <<>> BY <1>13, <2>1, <2>3 DEF Count
  <2> QED BY <2>2, <2>3
<1>14. CASE BrowserTick
  BY <1>14 DEF BrowserTick, message
<1> QED
  BY <1>1, <1>2, <1>3, <1>4, <1>5, <1>6, <1>7, <1>8, <1>9, <1>10, <1>11, <1>12, <1>13, <1>14
  DEF Next, Process, Events, Timers

(* MainComponent.cpp:2017-2021: putting the rebuild off never loses it, and *)
(* neither does a row that arrives while the timer decides.                 *)
THEOREM SpecSearchKnowsLibrary == Spec => []SearchKnowsLibrary
<1>1. DbShape /\ SearchInv => SearchKnowsLibrary
  BY DEF SearchInv, SearchKnowsLibrary
<1> QED BY <1>1, InitSearch, NextShape, NextSearch, PTL DEF Spec

-----------------------------------------------------------------------------
(* Facts about sequences without repetitions. *)

LEMMA ConcatDistinct ==
  ASSUME NEW S, NEW s \in Seq(S), NEW t \in Seq(S), IsInjective(s), IsInjective(t),
         ToSet(s) \cap ToSet(t) = {}
  PROVE  IsInjective(s \o t) /\ ToSet(s \o t) = ToSet(s) \cup ToSet(t) /\ s \o t \in Seq(S)
<1> DEFINE c == s \o t
<1>1. c \in Seq(S) /\ Len(c) = Len(s) + Len(t) OBVIOUS
<1>2. \A i \in 1 .. Len(s) : c[i] = s[i] OBVIOUS
<1>3. \A i \in 1 .. Len(t) : c[Len(s) + i] = t[i] OBVIOUS
<1>4. DOMAIN s = 1 .. Len(s) /\ DOMAIN t = 1 .. Len(t) /\ DOMAIN c = 1 .. Len(s) + Len(t)
  BY <1>1
<1>5. Len(s) \in Nat /\ Len(t) \in Nat OBVIOUS
<1>6. \A i \in DOMAIN c : i \in DOMAIN s \/ (i - Len(s) \in DOMAIN t /\ c[i] = t[i - Len(s)])
  <2> TAKE i \in DOMAIN c
  <2> SUFFICES ASSUME i \notin DOMAIN s PROVE i - Len(s) \in DOMAIN t /\ c[i] = t[i - Len(s)]
    OBVIOUS
  <2>1. i - Len(s) \in 1 .. Len(t) BY <1>4, <1>5
  <2>2. c[Len(s) + (i - Len(s))] = t[i - Len(s)] BY <1>3, <2>1
  <2>3. Len(s) + (i - Len(s)) = i BY <1>4, <1>5
  <2> QED BY <2>1, <2>2, <2>3, <1>4
<1>7. \A i \in DOMAIN s : i \in DOMAIN c /\ c[i] = s[i] BY <1>2, <1>4, <1>5
<1>8. \A i \in DOMAIN t : Len(s) + i \in DOMAIN c /\ c[Len(s) + i] = t[i]
  <2>1. \A i \in 1 .. Len(t) : Len(s) + i \in 1 .. Len(s) + Len(t) BY <1>5
  <2> QED BY <2>1, <1>3, <1>4
<1> HIDE DEF c
<1>9. ToSet(c) = ToSet(s) \cup ToSet(t)
  <2>1. ToSet(c) \subseteq ToSet(s) \cup ToSet(t) BY <1>6, <1>7 DEF ToSet
  <2>2. ToSet(s) \subseteq ToSet(c) BY <1>7 DEF ToSet
  <2>3. ToSet(t) \subseteq ToSet(c) BY <1>8 DEF ToSet
  <2> QED BY <2>1, <2>2, <2>3
<1>10. IsInjective(c)
  <2> SUFFICES ASSUME NEW a \in DOMAIN c, NEW b \in DOMAIN c, c[a] = c[b] PROVE a = b
    BY DEF IsInjective
  <2>1. CASE a \in DOMAIN s /\ b \in DOMAIN s BY <2>1, <1>7 DEF IsInjective
  <2>2. CASE a \in DOMAIN s /\ b \notin DOMAIN s
    <3>1. c[a] \in ToSet(s) /\ c[b] \in ToSet(t) BY <2>2, <1>6, <1>7 DEF ToSet
    <3> QED BY <3>1
  <2>3. CASE a \notin DOMAIN s /\ b \in DOMAIN s
    <3>1. c[b] \in ToSet(s) /\ c[a] \in ToSet(t) BY <2>3, <1>6, <1>7 DEF ToSet
    <3> QED BY <3>1
  <2>4. CASE a \notin DOMAIN s /\ b \notin DOMAIN s
    <3>1. a - Len(s) \in DOMAIN t /\ b - Len(s) \in DOMAIN t /\ t[a - Len(s)] = t[b - Len(s)]
      BY <2>4, <1>6
    <3>2. a - Len(s) = b - Len(s) BY <3>1 DEF IsInjective
    <3> QED BY <3>2, <1>4, <1>5
  <2> QED BY <2>1, <2>2, <2>3, <2>4
<1> QED BY <1>1, <1>9, <1>10 DEF c

LEMMA TailDistinct ==
  ASSUME NEW S, NEW s \in Seq(S), s # <<>>, IsInjective(s)
  PROVE  /\ Tail(s) \in Seq(S) /\ IsInjective(Tail(s)) /\ Head(s) \in S
         /\ Head(s) \in ToSet(s) /\ Head(s) \notin ToSet(Tail(s))
         /\ ToSet(Tail(s)) \subseteq ToSet(s)
<1>1. Len(s) \in Nat /\ Len(s) # 0 /\ DOMAIN s = 1 .. Len(s) OBVIOUS
<1>2. Tail(s) \in Seq(S) /\ Len(Tail(s)) = Len(s) - 1 /\ Head(s) = s[1] OBVIOUS
<1>3. \A i \in 1 .. Len(s) - 1 : Tail(s)[i] = s[i + 1] OBVIOUS
<1>4. DOMAIN Tail(s) = 1 .. Len(s) - 1 BY <1>2
<1>5. \A i \in DOMAIN Tail(s) : i + 1 \in DOMAIN s /\ Tail(s)[i] = s[i + 1] /\ i + 1 # 1
  BY <1>1, <1>3, <1>4
<1>6. 1 \in DOMAIN s BY <1>1
<1>7. IsInjective(Tail(s))
  <2> SUFFICES ASSUME NEW a \in DOMAIN Tail(s), NEW b \in DOMAIN Tail(s), Tail(s)[a] = Tail(s)[b]
               PROVE a = b
    BY DEF IsInjective
  <2>1. a + 1 = b + 1 BY <1>5 DEF IsInjective
  <2> QED BY <2>1, <1>1, <1>4
<1>8. Head(s) \in S /\ Head(s) \in ToSet(s) BY <1>2, <1>6 DEF ToSet
<1>9. Head(s) \notin ToSet(Tail(s)) BY <1>2, <1>5, <1>6 DEF ToSet, IsInjective
<1>10. ToSet(Tail(s)) \subseteq ToSet(s) BY <1>5 DEF ToSet
<1> QED BY <1>2, <1>7, <1>8, <1>9, <1>10

LEMMA AppendDistinct ==
  ASSUME NEW S, NEW s \in Seq(S), NEW x \in S
  PROVE  /\ Append(s, x) \in Seq(S) /\ ToSet(Append(s, x)) = ToSet(s) \cup {x}
         /\ IsInjective(s) /\ x \notin ToSet(s) => IsInjective(Append(s, x))
<1>1. Len(s) \in Nat /\ DOMAIN s = 1 .. Len(s) OBVIOUS
<1>2. Append(s, x) \in Seq(S) /\ DOMAIN Append(s, x) = 1 .. Len(s) + 1 OBVIOUS
<1>3. \A i \in DOMAIN s : Append(s, x)[i] = s[i] /\ i \in DOMAIN Append(s, x) /\ i # Len(s) + 1 BY <1>1, <1>2
<1>4. Append(s, x)[Len(s) + 1] = x /\ Len(s) + 1 \in DOMAIN Append(s, x) BY <1>1, <1>2
<1>5. \A i \in DOMAIN Append(s, x) : i \in DOMAIN s \/ i = Len(s) + 1 BY <1>1, <1>2
<1>6. ToSet(Append(s, x)) = ToSet(s) \cup {x} BY <1>3, <1>4, <1>5 DEF ToSet
<1>7. ASSUME IsInjective(s), x \notin ToSet(s) PROVE IsInjective(Append(s, x))
  <2> SUFFICES ASSUME NEW a \in DOMAIN Append(s, x), NEW b \in DOMAIN Append(s, x),
                      Append(s, x)[a] = Append(s, x)[b]
               PROVE a = b
    BY DEF IsInjective
  <2>1. CASE a \in DOMAIN s /\ b \in DOMAIN s BY <1>3, <1>7, <2>1 DEF IsInjective
  <2>2. CASE a \in DOMAIN s /\ b = Len(s) + 1 BY <1>3, <1>4, <1>7, <2>2 DEF ToSet
  <2>3. CASE b \in DOMAIN s /\ a = Len(s) + 1 BY <1>3, <1>4, <1>7, <2>3 DEF ToSet
  <2> QED BY <1>5, <2>1, <2>2, <2>3
<1> QED BY <1>2, <1>6, <1>7

LEMMA SplitDistinct ==
  ASSUME NEW S, NEW s \in Seq(S), IsInjective(s), NEW n \in 0 .. Len(s)
  PROVE  LET l == SubSeq(s, 1, n)
             r == SubSeq(s, n + 1, Len(s))
         IN  /\ l \in Seq(S) /\ r \in Seq(S) /\ IsInjective(l) /\ IsInjective(r)
             /\ ToSet(l) \subseteq ToSet(s) /\ ToSet(r) \subseteq ToSet(s)
             /\ ToSet(l) \cap ToSet(r) = {}
<1> DEFINE l == SubSeq(s, 1, n)
<1> DEFINE r == SubSeq(s, n + 1, Len(s))
<1>1. Len(s) \in Nat /\ n \in Nat /\ n <= Len(s) /\ DOMAIN s = 1 .. Len(s) OBVIOUS
<1>2. l \in Seq(S) /\ DOMAIN l = 1 .. n BY <1>1
<1>3. r \in Seq(S) /\ DOMAIN r = 1 .. Len(s) - n BY <1>1
<1>4. \A i \in DOMAIN l : l[i] = s[i] /\ i \in DOMAIN s /\ i <= n BY <1>1, <1>2
<1>5. \A i \in DOMAIN r : r[i] = s[n + i] /\ n + i \in DOMAIN s /\ n + i > n BY <1>1, <1>3
<1> HIDE DEF l, r
<1>6. IsInjective(l) BY <1>4 DEF IsInjective
<1>7. IsInjective(r)
  <2> SUFFICES ASSUME NEW a \in DOMAIN r, NEW b \in DOMAIN r, r[a] = r[b] PROVE a = b
    BY DEF IsInjective
  <2>1. n + a = n + b BY <1>5 DEF IsInjective
  <2> QED BY <2>1, <1>1, <1>3
<1>8. ToSet(l) \subseteq ToSet(s) /\ ToSet(r) \subseteq ToSet(s) BY <1>4, <1>5 DEF ToSet
<1>9. ToSet(l) \cap ToSet(r) = {}
  <2> SUFFICES ASSUME NEW a \in DOMAIN l, NEW b \in DOMAIN r, l[a] = r[b] PROVE FALSE
    BY DEF ToSet
  <2>1. a = n + b /\ a <= n /\ n + b > n BY <1>4, <1>5 DEF IsInjective
  <2> QED BY <2>1, <1>1, <1>2, <1>3
<1> QED BY <1>2, <1>3, <1>6, <1>7, <1>8, <1>9 DEF l, r

LEMMA RemoveAtDistinct ==
  ASSUME NEW S, NEW s \in Seq(S), IsInjective(s), NEW k \in DOMAIN s
  PROVE  RemoveAt(s, k) \in Seq(S) /\ IsInjective(RemoveAt(s, k)) /\ ToSet(RemoveAt(s, k)) \subseteq ToSet(s)
<1> DEFINE l == SubSeq(s, 1, k - 1)
<1> DEFINE r == SubSeq(s, k + 1, Len(s))
<1> DEFINE t == SubSeq(s, k, Len(s))
<1>1. k \in 1 .. Len(s) /\ Len(s) \in Nat OBVIOUS
<1>2. k - 1 \in 0 .. Len(s) /\ k \in 0 .. Len(s) /\ (k - 1) + 1 = k BY <1>1
<1>3. /\ l \in Seq(S) /\ IsInjective(l) /\ ToSet(l) \subseteq ToSet(s)
      /\ ToSet(l) \cap ToSet(t) = {}
  BY <1>2, SplitDistinct
<1>4. r \in Seq(S) /\ IsInjective(r) /\ ToSet(r) \subseteq ToSet(s) BY <1>2, SplitDistinct
<1>5. ToSet(r) \subseteq ToSet(t)
  <2>1. DOMAIN r = 1 .. Len(s) - k /\ DOMAIN t = 1 .. Len(s) - k + 1 BY <1>1
  <2>2. \A i \in DOMAIN r : r[i] = s[k + i] BY <1>1, <2>1
  <2>3. \A i \in DOMAIN t : t[i] = s[k + i - 1] BY <1>1, <2>1
  <2>4. \A i \in DOMAIN r : i + 1 \in DOMAIN t /\ k + (i + 1) - 1 = k + i BY <1>1, <2>1
  <2> HIDE DEF r, t
  <2>5. \A i \in DOMAIN r : i + 1 \in DOMAIN t /\ r[i] = t[i + 1] BY <2>2, <2>3, <2>4
  <2> QED BY <2>5 DEF ToSet
<1>6. ToSet(l) \cap ToSet(r) = {} BY <1>3, <1>5
<1>7. RemoveAt(s, k) = l \o r BY DEF RemoveAt
<1> HIDE DEF l, r, t
<1>8. IsInjective(l \o r) /\ ToSet(l \o r) = ToSet(l) \cup ToSet(r) /\ l \o r \in Seq(S)
  BY <1>3, <1>4, <1>6, ConcatDistinct
<1> QED BY <1>3, <1>4, <1>7, <1>8

LEMMA SetToSeqDistinct ==
  ASSUME NEW S, IsFiniteSet(S)
  PROVE  SetToSeq(S) \in Seq(S) /\ IsInjective(SetToSeq(S)) /\ ToSet(SetToSeq(S)) \subseteq S
<1>1. Cardinality(S) \in Nat BY FS_CardinalityType
<1>2. \E f \in [1 .. Cardinality(S) -> S] : IsInjective(f)
  <2>1. PICK f \in Bijection(1 .. Cardinality(S), S) : TRUE
    BY FS_CardinalityType DEF ExistsBijection
  <2> QED BY <2>1 DEF Bijection, Injection, IsInjective
<1>3. SetToSeq(S) \in [1 .. Cardinality(S) -> S] /\ IsInjective(SetToSeq(S))
  BY <1>2 DEF SetToSeq
<1>4. SetToSeq(S) \in Seq(S) BY <1>1, <1>3
<1> QED BY <1>3, <1>4 DEF ToSet
-----------------------------------------------------------------------------
Entries == [path : Paths, category : Categories]

(* The types the arguments below rest on, and what is empty when. *)
Shapes ==
  /\ DbShape /\ db.watched \subseteq Folders /\ mounted \subseteq Folders
  /\ worker \in [pc : {"off", "top", "list", "analyse", "wait"}, toScan : SUBSET Folders,
                 left : Seq(Folders), candidates : Seq(Paths)]
  /\ folderList \in Seq(Folders) /\ IsInjective(folderList) /\ IsInjective(worker.left)
  /\ results \in Seq(Entries) /\ batch \in Seq(Entries)
  /\ mpc = "down" => worker.pc = "off" /\ results = <<>>
  /\ batch # <<>> => mpc = "write"

NewIn(f) == {p \in Under[f] : files[p] # Absent /\ p \notin seen}

(* What a listed folder adds to the candidates. *)
LEMMA NewFiles ==
  ASSUME NEW f \in Folders
  PROVE  /\ SetToSeq(NewIn(f)) \in Seq(Paths) /\ IsInjective(SetToSeq(NewIn(f)))
         /\ ToSet(SetToSeq(NewIn(f))) \subseteq Under[f]
         /\ ToSet(SetToSeq(NewIn(f))) \cap seen = {}
<1>1. NewIn(f) \subseteq Under[f] /\ NewIn(f) \subseteq Paths /\ NewIn(f) \cap seen = {}
  BY UnderAssumption DEF NewIn
<1>2. IsFiniteSet(NewIn(f)) BY <1>1, UnderAssumption, FS_Subset
<1>3. SetToSeq(NewIn(f)) \in Seq(NewIn(f)) /\ IsInjective(SetToSeq(NewIn(f)))
      /\ ToSet(SetToSeq(NewIn(f))) \subseteq NewIn(f)
  BY <1>2, SetToSeqDistinct
<1>4. SetToSeq(NewIn(f)) \in Seq(Paths) BY <1>1, <1>3
<1> QED BY <1>1, <1>3, <1>4

LEMMA EmptyDistinct == IsInjective(<<>>) /\ ToSet(<<>>) = {} /\ \A S : <<>> \in Seq(S)
  BY DEF IsInjective, ToSet

LEMMA InitShapes == Init => Shapes
<1> SUFFICES ASSUME Init PROVE Shapes OBVIOUS
<1>1. PICK w \in SUBSET Folders : db = [EmptyDb EXCEPT !.watched = w]
  BY DEF Init
<1>2. DbShape /\ db.watched \subseteq Folders
  BY <1>1 DEF DbShape, EmptyDb
<1>3. worker = [pc |-> "off", toScan |-> {}, left |-> <<>>, candidates |-> <<>>]
  BY DEF Init, WorkerOff
<1>4. folderList = <<>> /\ results = <<>> /\ batch = <<>> /\ mpc = "down" /\ mounted = Folders
  BY DEF Init
<1> QED BY <1>2, <1>3, <1>4, EmptyDistinct DEF Shapes

(* The worker's own steps. *)
LEMMA WorkShapes == Shapes /\ Work => Shapes'
<1> SUFFICES ASSUME Shapes, Work PROVE Shapes' OBVIOUS
<1> USE DEF Shapes
<1>1. UNCHANGED <<db, mpc, batch, mounted, folderList>> /\ DbShape'
  BY DEF Work, WorkerNext, message, shared, disk, BeginPass, ListFolder, ListedAll, Analyse,
         EndPass, Woken, PollAgain, DbShape
<1>2. CASE BeginPass
  <2>1. results' = results BY <1>2 DEF BeginPass, shared
  <2>2. worker.pc = "top" BY <1>2 DEF BeginPass
  <2>3. worker' = [pc |-> "off", toScan |-> {}, left |-> <<>>, candidates |-> <<>>]
        \/ worker' = [pc |-> "wait", toScan |-> {}, left |-> <<>>, candidates |-> <<>>]
        \/ worker' = [pc |-> "list", toScan |-> ToSet(folderList), left |-> folderList,
                      candidates |-> <<>>]
    BY <1>2 DEF BeginPass, WorkerOff
  <2>4. ToSet(folderList) \subseteq Folders BY DEF ToSet
  <2>5. mpc # "down" BY <2>2
  <2>6. worker' \in [pc : {"off", "top", "list", "analyse", "wait"}, toScan : SUBSET Folders,
                     left : Seq(Folders), candidates : Seq(Paths)]
    <3>1. <<>> \in Seq(Folders) /\ <<>> \in Seq(Paths) /\ {} \subseteq Folders OBVIOUS
    <3>2. CASE worker' = [pc |-> "off", toScan |-> {}, left |-> <<>>, candidates |-> <<>>]
      BY <3>1, <3>2
    <3>3. CASE worker' = [pc |-> "wait", toScan |-> {}, left |-> <<>>, candidates |-> <<>>]
      BY <3>1, <3>3
    <3>4. CASE worker' = [pc |-> "list", toScan |-> ToSet(folderList), left |-> folderList,
                          candidates |-> <<>>]
      BY <3>1, <3>4, <2>4
    <3> QED BY <2>3, <3>2, <3>3, <3>4
  <2>7. IsInjective(worker'.left) BY <2>3, EmptyDistinct
  <2> QED BY <1>1, <2>1, <2>5, <2>6, <2>7
<1>3. CASE ListFolder
  <2>1. results' = results /\ worker.pc = "list" /\ worker.left # <<>>
    BY <1>3 DEF ListFolder, shared
  <2>2. mpc # "down" BY <2>1
  <2>3. CASE exit
    <3>1. worker' = [worker EXCEPT !.pc = "off", !.left = <<>>, !.candidates = <<>>]
      BY <1>3, <2>3 DEF ListFolder, PassEnds
    <3> QED BY <1>1, <2>1, <2>2, <3>1, EmptyDistinct
  <2>4. CASE ~exit
    <3>1. Head(worker.left) \in Folders /\ Tail(worker.left) \in Seq(Folders)
          /\ IsInjective(Tail(worker.left))
      BY <2>1, TailDistinct
    <3>2. PICK found \in {SetToSeq(NewIn(Head(worker.left))), <<>>} :
            worker' = [worker EXCEPT !.left = Tail(@), !.candidates = @ \o found]
      BY <1>3, <2>4 DEF ListFolder, NewIn
    <3>3. found \in Seq(Paths) BY <3>1, <3>2, NewFiles, EmptyDistinct
    <3>4. worker.candidates \o found \in Seq(Paths) BY <3>3
    <3> QED BY <1>1, <2>1, <2>2, <3>1, <3>2, <3>4
  <2> QED BY <2>3, <2>4
<1>4. CASE ListedAll
  <2>1. results' = results /\ worker.pc = "list" /\ worker' = [worker EXCEPT !.pc = "analyse"]
    BY <1>4 DEF ListedAll, shared
  <2> QED BY <1>1, <2>1
<1>5. CASE Analyse
  <2> DEFINE p == Head(worker.candidates)
  <2>1. worker.pc = "analyse" /\ worker.candidates # <<>>
        /\ worker' = [worker EXCEPT !.candidates = Tail(@)]
    BY <1>5 DEF Analyse
  <2>2. p \in Paths /\ Tail(worker.candidates) \in Seq(Paths) BY <2>1
  <2>3. results' = results \/ (files[p] \in Categories /\ results' = Append(results, Entry(p)))
    BY <1>5 DEF Analyse
  <2>4. results' \in Seq(Entries)
    <3>1. files[p] \in Categories => Entry(p) \in Entries BY <2>2 DEF Entry, Entries
    <3>2. \A e \in Entries : Append(results, e) \in Seq(Entries) OBVIOUS
    <3> QED BY <2>3, <3>1, <3>2
  <2> HIDE DEF p
  <2>5. mpc # "down" BY <2>1
  <2> QED BY <1>1, <2>1, <2>2, <2>4, <2>5
<1>6. CASE EndPass
  <2>1. results' = results /\ worker.pc = "analyse"
    BY <1>6 DEF EndPass, shared
  <2>2. PICK pc \in {"off", "wait"} :
          worker' = [worker EXCEPT !.pc = pc, !.left = <<>>, !.candidates = <<>>]
    BY <1>6 DEF EndPass, PassEnds
  <2> QED BY <1>1, <2>1, <2>2, EmptyDistinct
<1>7. CASE Woken \/ PollAgain
  <2>1. results' = results /\ worker.pc = "wait" /\ worker' = [worker EXCEPT !.pc = "top"]
    BY <1>7 DEF Woken, PollAgain, shared
  <2> QED BY <1>1, <2>1
<1> QED BY <1>2, <1>3, <1>4, <1>5, <1>6, <1>7 DEF Work, WorkerNext

(* The end of the process leaves nothing in memory. *)
LEMMA GoneShapes == Shapes /\ Gone /\ UNCHANGED <<disk, db>> => Shapes'
<1> SUFFICES ASSUME Shapes, Gone, UNCHANGED <<disk, db>> PROVE Shapes' OBVIOUS
<1>1. worker' = [pc |-> "off", toScan |-> {}, left |-> <<>>, candidates |-> <<>>]
  BY DEF Gone, WorkerOff
<1>2. folderList' = <<>> /\ results' = <<>> /\ batch' = <<>> BY DEF Gone
<1>3. db' = db /\ mounted' = mounted /\ DbShape' BY DEF disk, Shapes, DbShape
<1> QED BY <1>1, <1>2, <1>3, EmptyDistinct DEF Shapes

LEMMA NextShapes == Shapes /\ [Next]_vars => Shapes'
<1> SUFFICES ASSUME Shapes, [Next]_vars PROVE Shapes' OBVIOUS
<1>0. DbShape' BY NextShape DEF Shapes
<1> USE DEF Shapes
<1>1. CASE Launch
  <2>1. worker' = [pc |-> "top", toScan |-> {}, left |-> <<>>, candidates |-> <<>>]
    BY <1>1 DEF Launch, WorkerOff
  <2>2. folderList' = SetToSeq(db.watched) /\ UNCHANGED <<mounted, results, db, batch>>
        /\ mpc = "down" /\ mpc' = "idle"
    BY <1>1 DEF Launch, disk
  <2>3. folderList' \in Seq(db.watched) /\ IsInjective(folderList')
    <3>1. IsFiniteSet(db.watched) BY FoldersAssumption, FS_Subset
    <3> QED BY <2>2, <3>1, SetToSeqDistinct
  <2>4. folderList' \in Seq(Folders) BY <2>3
  <2>5. batch = <<>> BY <2>2
  <2> QED BY <1>0, <2>1, <2>2, <2>3, <2>4, <2>5, EmptyDistinct
<1>2. CASE Crash \/ Joined
  BY <1>2, GoneShapes DEF Crash, Joined
<1>3. CASE AddFolder
  <2>1. PICK f \in mounted : /\ db' = AddWatchedFolder(db, f)
                             /\ folderList' = IF f \in ToSet(folderList) THEN folderList
                                              ELSE Append(folderList, f)
    BY <1>3 DEF AddFolder
  <2>2. UNCHANGED <<mounted, worker, results, batch>> /\ mpc = "idle" /\ mpc' = "poke"
    BY <1>3 DEF AddFolder, disk
  <2>3. folderList' \in Seq(Folders) /\ IsInjective(folderList') BY <2>1, AppendDistinct
  <2>4. db'.watched = db.watched \cup {f} BY <2>1, WatchedOnly
  <2> QED BY <1>0, <2>1, <2>2, <2>3, <2>4
<1>4. CASE RemoveFolder
  <2>1. PICK i \in DOMAIN folderList : /\ db' = RemoveWatchedFolder(db, folderList[i])
                                       /\ folderList' = RemoveAt(folderList, i)
    BY <1>4 DEF RemoveFolder
  <2>2. UNCHANGED <<mounted, worker, results, batch, mpc>> BY <1>4 DEF RemoveFolder, disk, message
  <2>3. folderList' \in Seq(Folders) /\ IsInjective(folderList') BY <2>1, RemoveAtDistinct
  <2>4. db'.watched = db.watched \ {folderList[i]} BY <2>1, WatchedOnly
  <2> QED BY <1>0, <2>2, <2>3, <2>4
<1>5. CASE Retag
  <2>1. db'.watched = db.watched BY <1>5 DEF Retag, SetCategoryOverride, DbShape
  <2> QED BY <1>0, <1>5, <2>1 DEF Retag, disk, shared, message
<1>6. CASE Remount
  <2>1. mounted' \subseteq Folders BY <1>6 DEF Remount
  <2> QED BY <1>0, <1>6, <2>1 DEF Remount, shared, message
<1>7. CASE Quit \/ Rescan \/ FileChanges \/ Poke \/ UNCHANGED vars
  BY <1>0, <1>7 DEF Quit, Rescan, FileChanges, Poke, vars, disk, shared, message
<1>8. CASE TakeBatch
  <2>1. PICK n \in 0 .. Len(results) : batch' = SubSeq(results, 1, n)
                                       /\ results' = SubSeq(results, n + 1, Len(results))
    <3>1. Len(results) \in Nat OBVIOUS
    <3>2. (IF Len(results) < MaxRows THEN Len(results) ELSE MaxRows) \in 0 .. Len(results)
      BY <3>1, MaxRowsAssumption
    <3> QED BY <1>8, <3>2 DEF TakeBatch
  <2>2. batch' \in Seq(Entries) /\ results' \in Seq(Entries) BY <2>1
  <2> QED BY <1>0, <1>8, <2>2 DEF TakeBatch, disk
<1>9. CASE WriteRow
  <2>1. db'.watched = db.watched BY <1>9 DEF WriteRow, Upsert, DbShape
  <2> QED BY <1>0, <1>9, <2>1 DEF WriteRow, disk, shared
<1>10. CASE WriteFails
  BY <1>0, <1>10 DEF WriteFails, disk, shared
<1>11. CASE NothingToDrain \/ BatchWritten \/ Look
  BY <1>0, <1>11 DEF NothingToDrain, BatchWritten, Look, disk, shared
<1>12. CASE Count \/ BrowserTick
  BY <1>0, <1>12 DEF Count, BrowserTick, disk, shared, message
<1>13. CASE Work BY <1>13, WorkShapes
<1> QED
  BY <1>1, <1>2, <1>3, <1>4, <1>5, <1>6, <1>7, <1>8, <1>9, <1>10, <1>11, <1>12, <1>13
  DEF Next, Process, Events, Timers

-----------------------------------------------------------------------------
(* Whatever changed the list since the worker copied it, and whoever wants   *)
(* the worker to end, has left a wake-up or is about to.                    *)
WakeInv ==
  /\ (worker.pc \in {"list", "analyse", "wait"} /\ ~notified /\ mpc # "poke")
       => ToSet(folderList) \subseteq worker.toScan
  /\ exit /\ worker.pc = "wait" => notified \/ mpc = "poke"

LEMMA WorkWake == Shapes /\ WakeInv /\ Work => WakeInv'
<1> SUFFICES ASSUME Shapes, WakeInv, Work PROVE WakeInv' OBVIOUS
<1> USE DEF WakeInv
<1>0. worker = [pc |-> worker.pc, toScan |-> worker.toScan, left |-> worker.left,
                candidates |-> worker.candidates]
  BY DEF Shapes
<1>1. UNCHANGED <<mpc, folderList>>
  BY DEF Work, WorkerNext, message, shared, BeginPass, ListFolder, ListedAll, Analyse,
         EndPass, Woken, PollAgain
<1>2. CASE BeginPass
  <2>1. UNCHANGED <<exit, notified>> BY <1>2 DEF BeginPass, signals
  <2>2. CASE exit /\ worker' = WorkerOff BY <1>1, <2>1, <2>2 DEF WorkerOff
  <2>3. CASE ~exit /\ folderList = <<>> /\ worker' = [WorkerOff EXCEPT !.pc = "wait"]
    BY <1>1, <2>1, <2>3, EmptyDistinct DEF WorkerOff
  <2>4. CASE ~exit /\ worker' = [pc |-> "list", toScan |-> ToSet(folderList),
                                 left |-> folderList, candidates |-> <<>>]
    BY <1>1, <2>1, <2>4
  <2> QED BY <1>2, <2>2, <2>3, <2>4 DEF BeginPass
<1>3. CASE ListFolder
  <2>1. UNCHANGED <<exit, notified>> /\ worker.pc = "list" BY <1>3 DEF ListFolder, signals
  <2>2. worker'.toScan = worker.toScan /\ (worker'.pc = worker.pc \/ (exit /\ worker'.pc = "off"))
    BY <1>0, <1>3 DEF ListFolder, PassEnds
  <2> QED BY <1>1, <2>1, <2>2
<1>4. CASE ListedAll \/ Analyse
  <2>1. UNCHANGED <<exit, notified>> /\ worker.pc \in {"list", "analyse"}
        /\ worker'.toScan = worker.toScan /\ worker'.pc = "analyse"
    BY <1>0, <1>4 DEF ListedAll, Analyse, signals
  <2> QED BY <1>1, <2>1
<1>5. CASE EndPass
  <2>1. UNCHANGED <<exit, notified>> /\ worker.pc = "analyse" /\ worker'.toScan = worker.toScan
        /\ worker'.pc = IF exit THEN "off" ELSE "wait"
    BY <1>0, <1>5 DEF EndPass, PassEnds, signals
  <2> QED BY <1>1, <2>1
<1>6. CASE Woken \/ PollAgain
  <2>1. worker'.pc = "top" BY <1>0, <1>6 DEF Woken, PollAgain
  <2> QED BY <2>1
<1> QED BY <1>2, <1>3, <1>4, <1>5, <1>6 DEF Work, WorkerNext

LEMMA NextWake == Shapes /\ WakeInv /\ [Next]_vars => WakeInv'
<1> SUFFICES ASSUME Shapes, WakeInv, [Next]_vars PROVE WakeInv' OBVIOUS
<1> USE DEF WakeInv
<1>1. CASE Launch
  BY <1>1 DEF Launch, WorkerOff
<1>2. CASE Crash \/ Joined
  <2>1. worker'.pc = "off" BY <1>2 DEF Crash, Joined, Gone, WorkerOff
  <2> QED BY <2>1
<1>3. CASE Quit \/ AddFolder \/ Rescan
  <2>1. mpc' = "poke" BY <1>3 DEF Quit, AddFolder, Rescan
  <2> QED BY <2>1
<1>4. CASE RemoveFolder
  <2>1. PICK i \in DOMAIN folderList : folderList' = RemoveAt(folderList, i)
    BY <1>4 DEF RemoveFolder
  <2>2. ToSet(folderList') \subseteq ToSet(folderList)
    BY <2>1, RemoveAtDistinct DEF Shapes
  <2> QED BY <1>4, <2>2 DEF RemoveFolder, signals, message
<1>5. CASE Poke
  BY <1>5 DEF Poke
<1>6. CASE Retag \/ FileChanges \/ Remount \/ UNCHANGED vars
  BY <1>6 DEF Retag, FileChanges, Remount, vars, shared, signals, message
<1>7. CASE TakeBatch \/ NothingToDrain \/ WriteRow \/ WriteFails
  BY <1>7 DEF TakeBatch, NothingToDrain, WriteRow, WriteFails, shared, signals
<1>8. CASE BatchWritten \/ Look \/ Count \/ BrowserTick
  BY <1>8 DEF BatchWritten, Look, Count, BrowserTick, shared, signals, message
<1>9. CASE Work BY <1>9, WorkWake
<1> QED
  BY <1>1, <1>2, <1>3, <1>4, <1>5, <1>6, <1>7, <1>8, <1>9 DEF Next, Process, Events, Timers

(* FolderWatcher.cpp:13 and :80: a folder is added, or the application quits, *)
(* at any moment of the worker's pass, and it does not sleep on it.          *)
THEOREM SpecNoLostWakeup == Spec => []NoLostWakeup
<1>1. Init => WakeInv
  BY DEF Init, WakeInv, WorkerOff
<1>2. WakeInv => NoLostWakeup
  BY DEF WakeInv, NoLostWakeup
<1> QED BY <1>1, <1>2, InitShapes, NextShapes, NextWake, PTL DEF Spec

-----------------------------------------------------------------------------
(* No folder lies inside another that can be watched as well. *)
Disjoint == \A f, g \in Folders : f # g => Under[f] \cap Under[g] = {}

(* A path that is waiting or has a row is claimed, one that is to be         *)
(* analysed is not, and none is in a folder the pass has yet to list.       *)
OnceInv ==
  /\ mpc # "down" => ToSet(PathsOf(results)) \cup ToSet(PathsOf(batch)) \cup AllPaths(db)
                       \subseteq seen
  /\ ToSet(worker.candidates) \cap seen = {}
  /\ IsInjective(worker.candidates)
  /\ IsInjective(PathsOf(results)) /\ IsInjective(PathsOf(batch))
  /\ ToSet(PathsOf(results)) \cap ToSet(PathsOf(batch)) = {}
  /\ AllPaths(db) \cap (ToSet(PathsOf(results)) \cup ToSet(PathsOf(batch))) = {}
  /\ \A f \in ToSet(worker.left) : ToSet(worker.candidates) \cap Under[f] = {}
  /\ mpc = "down" => worker.candidates = <<>>

LEMMA PathsOfEntries ==
  ASSUME NEW s \in Seq(Entries)
  PROVE  /\ PathsOf(s) \in Seq(Paths)
         /\ s # <<>> => /\ PathsOf(Tail(s)) = Tail(PathsOf(s)) /\ PathsOf(s) # <<>>
                        /\ Head(PathsOf(s)) = Head(s).path
         /\ \A e \in Entries : PathsOf(Append(s, e)) = Append(PathsOf(s), e.path)
         /\ \A n \in 0 .. Len(s) :
              /\ PathsOf(SubSeq(s, 1, n)) = SubSeq(PathsOf(s), 1, n)
              /\ PathsOf(SubSeq(s, n + 1, Len(s))) = SubSeq(PathsOf(s), n + 1, Len(PathsOf(s)))
         /\ Len(PathsOf(s)) = Len(s)
<1> USE DEF PathsOf
<1>1. Len(s) \in Nat /\ DOMAIN s = 1 .. Len(s) /\ \A i \in DOMAIN s : s[i].path \in Paths
  <2>1. \A e \in Entries : e.path \in Paths BY DEF Entries
  <2>2. \A i \in DOMAIN s : s[i] \in Entries OBVIOUS
  <2>3. Len(s) \in Nat /\ DOMAIN s = 1 .. Len(s) OBVIOUS
  <2> QED BY <2>1, <2>2, <2>3
<1>2. PathsOf(s) \in Seq(Paths) /\ Len(PathsOf(s)) = Len(s) /\ DOMAIN PathsOf(s) = DOMAIN s BY <1>1
<1>3. ASSUME s # <<>>
      PROVE  PathsOf(Tail(s)) = Tail(PathsOf(s)) /\ PathsOf(s) # <<>>
             /\ Head(PathsOf(s)) = Head(s).path
  <2>1. Len(s) # 0 BY <1>3
  <2>2. PathsOf(s) # <<>> BY <1>2, <2>1
  <2>3. Head(PathsOf(s)) = Head(s).path BY <1>1, <1>2, <2>1
  <2>4. Tail(s) \in Seq(Entries) /\ Len(Tail(s)) = Len(s) - 1
        /\ \A i \in 1 .. Len(s) - 1 : Tail(s)[i] = s[i + 1]
    BY <1>3, <2>1
  <2>5. PathsOf(Tail(s)) = [i \in 1 .. Len(s) - 1 |-> s[i + 1].path] BY <2>4
  <2>6. Tail(PathsOf(s)) = [i \in 1 .. Len(s) - 1 |-> PathsOf(s)[i + 1]] BY <1>2, <2>2
  <2>7. \A i \in 1 .. Len(s) - 1 : PathsOf(s)[i + 1] = s[i + 1].path BY <1>1
  <2> QED BY <2>2, <2>3, <2>5, <2>6, <2>7
<1>4. ASSUME NEW e \in Entries PROVE PathsOf(Append(s, e)) = Append(PathsOf(s), e.path)
  <2>1. Append(s, e) \in Seq(Entries) /\ DOMAIN Append(s, e) = 1 .. Len(s) + 1 OBVIOUS
  <2>2. e.path \in Paths BY DEF Entries
  <2>3. Append(PathsOf(s), e.path) \in Seq(Paths)
        /\ DOMAIN Append(PathsOf(s), e.path) = 1 .. Len(s) + 1
    BY <1>2, <2>2
  <2>4. \A i \in 1 .. Len(s) : Append(s, e)[i] = s[i]
                               /\ Append(PathsOf(s), e.path)[i] = PathsOf(s)[i]
    BY <1>2, <2>2
  <2>5. Append(s, e)[Len(s) + 1] = e /\ Append(PathsOf(s), e.path)[Len(s) + 1] = e.path
    BY <1>1, <1>2, <2>2
  <2>6. \A i \in 1 .. Len(s) : PathsOf(s)[i] = s[i].path BY <1>1
  <2>7. PathsOf(Append(s, e)) = [i \in 1 .. Len(s) + 1 |-> Append(s, e)[i].path] BY <2>1
  <2> HIDE DEF PathsOf
  <2>8. \A i \in 1 .. Len(s) + 1 : Append(s, e)[i].path = Append(PathsOf(s), e.path)[i]
    <3>1. \A i \in 1 .. Len(s) + 1 : i \in 1 .. Len(s) \/ i = Len(s) + 1 BY <1>1
    <3> QED BY <2>4, <2>5, <2>6, <3>1
  <2>9. Append(PathsOf(s), e.path)
          = [i \in 1 .. Len(s) + 1 |-> Append(PathsOf(s), e.path)[i]]
    BY <2>3
  <2> QED BY <2>7, <2>8, <2>9
<1>5. ASSUME NEW n \in 0 .. Len(s)
      PROVE  PathsOf(SubSeq(s, 1, n)) = SubSeq(PathsOf(s), 1, n)
  <2>1. n \in Nat /\ n <= Len(s) BY <1>1
  <2>2. PathsOf(SubSeq(s, 1, n)) = [i \in 1 .. n |-> s[i].path] BY <1>1, <2>1
  <2>3. SubSeq(PathsOf(s), 1, n) = [i \in 1 .. n |-> PathsOf(s)[i]] BY <1>1, <1>2, <2>1
  <2>4. \A i \in 1 .. n : PathsOf(s)[i] = s[i].path BY <1>1, <2>1
  <2> QED BY <2>2, <2>3, <2>4
<1>6. ASSUME NEW n \in 0 .. Len(s)
      PROVE  PathsOf(SubSeq(s, n + 1, Len(s))) = SubSeq(PathsOf(s), n + 1, Len(PathsOf(s)))
  <2>1. n \in Nat /\ n <= Len(s) BY <1>1
  <2>2. PathsOf(SubSeq(s, n + 1, Len(s))) = [i \in 1 .. Len(s) - n |-> s[n + i].path]
    BY <1>1, <2>1
  <2>3. SubSeq(PathsOf(s), n + 1, Len(PathsOf(s))) = [i \in 1 .. Len(s) - n |-> PathsOf(s)[n + i]]
    BY <1>1, <1>2, <2>1
  <2>4. \A i \in 1 .. Len(s) - n : PathsOf(s)[n + i] = s[n + i].path BY <1>1, <2>1
  <2> QED BY <2>2, <2>3, <2>4
<1> QED BY <1>2, <1>3, <1>4, <1>5, <1>6

LEMMA WorkOnce == Shapes /\ OnceInv /\ Disjoint /\ Work => OnceInv'
<1> SUFFICES ASSUME Shapes, OnceInv, Disjoint, Work PROVE OnceInv' OBVIOUS
<1> DEFINE R == PathsOf(results)
<1> DEFINE B == PathsOf(batch)
<1>1. UNCHANGED <<db, mpc, batch>>
  BY DEF Work, message
<1>2. /\ worker \in [pc : {"off", "top", "list", "analyse", "wait"}, toScan : SUBSET Folders,
                     left : Seq(Folders), candidates : Seq(Paths)]
      /\ IsInjective(worker.left) /\ results \in Seq(Entries)
      /\ mpc' # "down"
  <2>1. worker.pc # "off"
    BY DEF Work, WorkerNext, BeginPass, ListFolder, ListedAll, Analyse, EndPass, Woken, PollAgain
  <2> QED BY <1>1, <2>1 DEF Shapes
<1>3. ASSUME UNCHANGED <<seen, results>>, worker'.candidates = <<>>, worker'.left = <<>>
      PROVE  OnceInv'
  BY <1>1, <1>3, EmptyDistinct DEF OnceInv
<1>4. ASSUME UNCHANGED <<seen, results>>, worker'.candidates = worker.candidates,
             worker'.left = worker.left
      PROVE  OnceInv'
  BY <1>1, <1>4 DEF OnceInv
<1>5. CASE BeginPass
  <2>1. UNCHANGED <<seen, results>> /\ worker'.candidates = <<>> BY <1>5 DEF BeginPass, shared, WorkerOff
  <2>2. \A f \in ToSet(worker'.left) : ToSet(worker'.candidates) \cap Under[f] = {}
    BY <2>1, EmptyDistinct
  <2> QED BY <1>1, <2>1, <2>2, EmptyDistinct DEF OnceInv
<1>6. CASE ListFolder
  <2>1. UNCHANGED <<seen, results>> /\ worker.left # <<>> BY <1>6 DEF ListFolder, shared
  <2>2. CASE exit
    <3>1. worker'.candidates = <<>> /\ worker'.left = <<>>
      BY <1>2, <1>6, <2>2 DEF ListFolder, PassEnds
    <3> QED BY <1>3, <2>1, <3>1
  <2>3. CASE ~exit
    <3> DEFINE f == Head(worker.left)
    <3>1. f \in Folders /\ f \in ToSet(worker.left) /\ f \notin ToSet(Tail(worker.left))
          /\ ToSet(Tail(worker.left)) \subseteq ToSet(worker.left)
      BY <1>2, <2>1, TailDistinct
    <3>2. PICK found \in {SetToSeq(NewIn(f)), <<>>} :
            worker' = [worker EXCEPT !.left = Tail(@), !.candidates = @ \o found]
      BY <1>6, <2>3 DEF ListFolder, NewIn
    <3>3. found \in Seq(Paths) /\ IsInjective(found) /\ ToSet(found) \subseteq Under[f]
          /\ ToSet(found) \cap seen = {}
      BY <3>1, <3>2, NewFiles, EmptyDistinct
    <3>4. worker'.candidates = worker.candidates \o found /\ worker'.left = Tail(worker.left)
      BY <1>2, <3>2
    <3>5. ToSet(worker.candidates) \cap ToSet(found) = {}
      BY <3>1, <3>3 DEF OnceInv
    <3>6. IsInjective(worker'.candidates)
          /\ ToSet(worker'.candidates) = ToSet(worker.candidates) \cup ToSet(found)
      BY <1>2, <3>3, <3>4, <3>5, ConcatDistinct DEF OnceInv
    <3>7. \A g \in ToSet(worker'.left) : ToSet(worker'.candidates) \cap Under[g] = {}
      <4> SUFFICES ASSUME NEW g \in ToSet(Tail(worker.left))
                   PROVE  ToSet(worker'.candidates) \cap Under[g] = {}
        BY <3>4
      <4>1. g # f /\ g \in ToSet(worker.left) BY <3>1
      <4>2. g \in Folders BY <1>2, <4>1 DEF ToSet
      <4>3. Under[g] \cap Under[f] = {} BY <3>1, <4>1, <4>2 DEF Disjoint
      <4>4. ToSet(worker.candidates) \cap Under[g] = {} BY <4>1 DEF OnceInv
      <4> QED BY <3>3, <3>6, <4>3, <4>4
    <3>8. ToSet(worker'.candidates) \cap seen' = {} BY <2>1, <3>3, <3>6 DEF OnceInv
    <3> QED BY <1>1, <1>2, <2>1, <3>6, <3>7, <3>8 DEF OnceInv
  <2> QED BY <2>2, <2>3
<1>7. CASE ListedAll
  BY <1>2, <1>4, <1>7 DEF ListedAll, shared
<1>8. CASE Analyse
  <2> DEFINE p == Head(worker.candidates)
  <2>1. worker.pc = "analyse" /\ worker.candidates # <<>>
        /\ worker' = [worker EXCEPT !.candidates = Tail(@)]
    BY <1>8 DEF Analyse
  <2>2. worker'.left = worker.left /\ worker'.candidates = Tail(worker.candidates) /\ mpc # "down"
    BY <1>1, <1>2, <2>1
  <2>3. /\ p \in Paths /\ p \in ToSet(worker.candidates) /\ p \notin ToSet(worker'.candidates)
        /\ ToSet(worker'.candidates) \subseteq ToSet(worker.candidates)
        /\ IsInjective(worker'.candidates)
    BY <1>2, <2>1, <2>2, TailDistinct DEF OnceInv
  <2>4. \A f \in ToSet(worker'.left) : ToSet(worker'.candidates) \cap Under[f] = {}
    BY <2>2, <2>3 DEF OnceInv
  <2>5. CASE UNCHANGED <<seen, results>>
    <3>1. ToSet(worker'.candidates) \cap seen' = {} BY <2>3, <2>5 DEF OnceInv
    <3> QED BY <1>1, <1>2, <2>3, <2>4, <2>5, <3>1 DEF OnceInv
  <2>6. CASE files[p] \in Categories /\ seen' = seen \cup {p} /\ results' = Append(results, Entry(p))
    <3>1. p \notin seen BY <2>3 DEF OnceInv
    <3>2. p \notin ToSet(R) /\ p \notin ToSet(B) /\ p \notin AllPaths(db)
      BY <2>2, <3>1 DEF OnceInv
    <3>3. Entry(p) \in Entries /\ Entry(p).path = p BY <2>3, <2>6 DEF Entry, Entries
    <3>4. R \in Seq(Paths) /\ PathsOf(results') = Append(R, p)
      BY <1>2, <2>6, <3>3, PathsOfEntries
    <3>5. ToSet(PathsOf(results')) = ToSet(R) \cup {p} /\ IsInjective(PathsOf(results'))
      <4>1. IsInjective(R) BY DEF OnceInv
      <4> HIDE DEF R, p
      <4> QED BY <2>3, <3>2, <3>4, <4>1, AppendDistinct
    <3>6. ToSet(worker'.candidates) \cap seen' = {} BY <2>3, <2>6 DEF OnceInv
    <3>7. ToSet(PathsOf(results')) \cup ToSet(B) \cup AllPaths(db) \subseteq seen'
      BY <2>2, <2>6, <3>5 DEF OnceInv
    <3>8. ToSet(PathsOf(results')) \cap ToSet(B) = {}
          /\ AllPaths(db) \cap (ToSet(PathsOf(results')) \cup ToSet(B)) = {}
      BY <3>2, <3>5 DEF OnceInv
    <3>9. PathsOf(batch') = B /\ AllPaths(db') = AllPaths(db) /\ IsInjective(B)
      BY <1>1 DEF OnceInv
    <3> QED BY <1>2, <2>3, <2>4, <3>5, <3>6, <3>7, <3>8, <3>9 DEF OnceInv
  <2>7. UNCHANGED <<seen, results>>
        \/ (files[p] \in Categories /\ seen' = seen \cup {p} /\ results' = Append(results, Entry(p)))
    BY <1>8 DEF Analyse
  <2> QED BY <2>5, <2>6, <2>7
<1>9. CASE EndPass
  BY <1>2, <1>3, <1>9 DEF EndPass, PassEnds, shared
<1>10. CASE Woken \/ PollAgain
  BY <1>2, <1>4, <1>10 DEF Woken, PollAgain, shared
<1> QED BY <1>5, <1>6, <1>7, <1>8, <1>9, <1>10 DEF Work, WorkerNext

LEMMA NextOnce == Shapes /\ OnceInv /\ Disjoint /\ [Next]_vars => OnceInv'
<1> SUFFICES ASSUME Shapes, OnceInv, Disjoint, [Next]_vars PROVE OnceInv' OBVIOUS
<1>1. ASSUME UNCHANGED <<seen, results, worker, batch>>, AllPaths(db') = AllPaths(db),
             (mpc = "down") = (mpc' = "down")
      PROVE  OnceInv'
  BY <1>1 DEF OnceInv
<1>2. PathsOf(<<>>) = <<>> BY DEF PathsOf
<1>3. CASE Launch
  <2>1. mpc = "down" /\ seen' = AllPaths(db) /\ UNCHANGED <<results, batch, db>>
        /\ worker'.candidates = <<>> /\ worker'.left = <<>>
    BY <1>3 DEF Launch, WorkerOff
  <2>2. results = <<>> /\ batch = <<>> BY <2>1 DEF Shapes
  <2>3. AllPaths(db') = AllPaths(db) BY <2>1
  <2> QED BY <1>2, <2>1, <2>2, <2>3, EmptyDistinct DEF OnceInv
<1>4. CASE Crash \/ Joined
  <2>1. /\ mpc' = "down" /\ seen' = {} /\ results' = <<>> /\ batch' = <<>>
        /\ worker'.candidates = <<>> /\ worker'.left = <<>>
    BY <1>4 DEF Crash, Joined, Gone, WorkerOff
  <2> QED BY <1>2, <2>1, EmptyDistinct DEF OnceInv
<1>5. CASE AddFolder
  <2>1. PICK f : db' = AddWatchedFolder(db, f) BY <1>5 DEF AddFolder
  <2>2. AllPaths(db') = AllPaths(db) BY <2>1, WatchedOnly DEF AllPaths, Shapes
  <2> QED BY <1>1, <1>5, <2>2 DEF AddFolder
<1>6. CASE RemoveFolder
  <2>1. PICK f : db' = RemoveWatchedFolder(db, f) BY <1>6 DEF RemoveFolder
  <2>2. AllPaths(db') = AllPaths(db) BY <2>1, WatchedOnly DEF AllPaths, Shapes
  <2> QED BY <1>1, <1>6, <2>2 DEF RemoveFolder, message
<1>7. CASE Retag
  <2>1. AllPaths(db') = AllPaths(db)
    BY <1>7 DEF Retag, SetCategoryOverride, AllPaths, Shapes, DbShape
  <2> QED BY <1>1, <1>7, <2>1 DEF Retag, shared, message
<1>8. CASE Quit \/ Rescan \/ FileChanges \/ Remount \/ Poke \/ UNCHANGED vars
  <2>1. UNCHANGED <<seen, results, worker, batch, db>> /\ (mpc = "down") = (mpc' = "down")
    BY <1>8 DEF Quit, Rescan, FileChanges, Remount, Poke, vars, shared, message
  <2> QED BY <1>1, <2>1
<1>9. CASE NothingToDrain \/ BatchWritten \/ Look \/ Count \/ BrowserTick
  <2>1. UNCHANGED <<seen, results, worker, batch, db>> /\ (mpc = "down") = (mpc' = "down")
    BY <1>9 DEF NothingToDrain, BatchWritten, Look, Count, BrowserTick, shared, message
  <2> QED BY <1>1, <2>1
<1>10. CASE TakeBatch
  <2>1. PICK n \in 0 .. Len(results) : batch' = SubSeq(results, 1, n)
                                       /\ results' = SubSeq(results, n + 1, Len(results))
    <3>1. Len(results) \in Nat BY DEF Shapes
    <3>2. (IF Len(results) < MaxRows THEN Len(results) ELSE MaxRows) \in 0 .. Len(results)
      BY <3>1, MaxRowsAssumption
    <3> QED BY <1>10, <3>2 DEF TakeBatch
  <2> DEFINE R == PathsOf(results)
  <2>2. results \in Seq(Entries) /\ IsInjective(R) BY DEF Shapes, OnceInv
  <2>3. R \in Seq(Paths) /\ Len(R) = Len(results)
        /\ PathsOf(batch') = SubSeq(R, 1, n) /\ PathsOf(results') = SubSeq(R, n + 1, Len(R))
    BY <2>1, <2>2, PathsOfEntries
  <2> HIDE DEF R
  <2>4. /\ IsInjective(PathsOf(batch')) /\ IsInjective(PathsOf(results'))
        /\ ToSet(PathsOf(batch')) \subseteq ToSet(R) /\ ToSet(PathsOf(results')) \subseteq ToSet(R)
        /\ ToSet(PathsOf(batch')) \cap ToSet(PathsOf(results')) = {}
    <3>1. n \in 0 .. Len(R) BY <2>3
    <3> DEFINE l == SubSeq(R, 1, n)
    <3> DEFINE r == SubSeq(R, n + 1, Len(R))
    <3>2. /\ IsInjective(l) /\ IsInjective(r) /\ ToSet(l) \subseteq ToSet(R)
          /\ ToSet(r) \subseteq ToSet(R) /\ ToSet(l) \cap ToSet(r) = {}
      BY <2>2, <2>3, <3>1, SplitDistinct
    <3>3. PathsOf(batch') = l /\ PathsOf(results') = r BY <2>3
    <3> QED BY <3>2, <3>3
  <2>5. UNCHANGED <<seen, worker, db>> /\ mpc = "idle" /\ mpc' = "write" BY <1>10 DEF TakeBatch
  <2>6. AllPaths(db') = AllPaths(db) BY <2>5
  <2>7. ToSet(R) \subseteq seen /\ AllPaths(db) \subseteq seen /\ AllPaths(db) \cap ToSet(R) = {}
    BY <2>5 DEF OnceInv, R
  <2>8. AllPaths(db') \cap (ToSet(PathsOf(results')) \cup ToSet(PathsOf(batch'))) = {}
        /\ ToSet(PathsOf(results')) \cup ToSet(PathsOf(batch')) \cup AllPaths(db') \subseteq seen'
    BY <2>4, <2>5, <2>6, <2>7
  <2> QED BY <2>4, <2>5, <2>8 DEF OnceInv
<1>11. CASE WriteRow \/ WriteFails
  <2> DEFINE B == PathsOf(batch)
  <2>1. mpc = "write" /\ batch # <<>> /\ batch' = Tail(batch) /\ UNCHANGED <<seen, results, worker, mpc>>
    BY <1>11 DEF WriteRow, WriteFails, shared
  <2>2. batch \in Seq(Entries) /\ IsInjective(B) BY DEF Shapes, OnceInv
  <2>3. B \in Seq(Paths) /\ B # <<>> /\ PathsOf(batch') = Tail(B) /\ Head(B) = Head(batch).path
    BY <2>1, <2>2, PathsOfEntries
  <2>4. AllPaths(db') \subseteq AllPaths(db) \cup {Head(B)}
    <3>1. CASE WriteRow
      <4>1. db' = Upsert(db, Head(B), Head(batch).category) BY <2>3, <3>1 DEF WriteRow
      <4> HIDE DEF B
      <4>2. db = [rows |-> db.rows, tags |-> db.tags, watched |-> db.watched]
        BY DEF Shapes, DbShape
      <4>3. db'.rows = With(db.rows, Head(B), Head(batch).category)
        BY <4>1, <4>2 DEF Upsert
      <4> QED BY <4>3 DEF AllPaths, With
    <3>2. CASE WriteFails BY <3>2 DEF WriteFails
    <3> QED BY <1>11, <3>1, <3>2
  <2> HIDE DEF B
  <2>5. /\ IsInjective(PathsOf(batch')) /\ Head(B) \in ToSet(B)
        /\ Head(B) \notin ToSet(PathsOf(batch')) /\ ToSet(PathsOf(batch')) \subseteq ToSet(B)
    BY <2>2, <2>3, TailDistinct
  <2>6. /\ ToSet(PathsOf(results)) \subseteq seen /\ ToSet(B) \subseteq seen
        /\ AllPaths(db) \subseteq seen
        /\ ToSet(PathsOf(results)) \cap ToSet(B) = {}
        /\ AllPaths(db) \cap (ToSet(PathsOf(results)) \cup ToSet(B)) = {}
    BY <2>1 DEF OnceInv, B
  <2>7. /\ ToSet(PathsOf(results')) \cup ToSet(PathsOf(batch')) \cup AllPaths(db') \subseteq seen'
        /\ ToSet(PathsOf(results')) \cap ToSet(PathsOf(batch')) = {}
        /\ AllPaths(db') \cap (ToSet(PathsOf(results')) \cup ToSet(PathsOf(batch'))) = {}
    BY <2>1, <2>4, <2>5, <2>6
  <2> QED BY <2>1, <2>5, <2>7 DEF OnceInv
<1>12. CASE Work BY <1>12, WorkOnce
<1> QED
  BY <1>3, <1>4, <1>5, <1>6, <1>7, <1>8, <1>9, <1>10, <1>11, <1>12
  DEF Next, Process, Events, Timers

LEMMA OnceIsOnce == Shapes /\ OnceInv => AnalysedOnce
<1> SUFFICES ASSUME Shapes, OnceInv PROVE AnalysedOnce OBVIOUS
<1> DEFINE R == PathsOf(results)
<1> DEFINE B == PathsOf(batch)
<1> DEFINE C == worker.candidates
<1> DEFINE D == C \o R
<1>1. R \in Seq(Paths) /\ B \in Seq(Paths) /\ C \in Seq(Paths)
  BY PathsOfEntries DEF Shapes
<1>2. CASE mpc = "down"
  <2>1. results = <<>> /\ batch = <<>> /\ C = <<>> BY <1>2 DEF OnceInv, Shapes
  <2>2. OnTheirWay = <<>> BY <2>1 DEF OnTheirWay, PathsOf
  <2> QED BY <2>2, EmptyDistinct DEF AnalysedOnce
<1>3. CASE mpc # "down"
  <2>1. /\ IsInjective(R) /\ IsInjective(B) /\ IsInjective(C)
        /\ ToSet(R) \cap ToSet(B) = {} /\ ToSet(C) \cap (ToSet(R) \cup ToSet(B)) = {}
        /\ AllPaths(db) \cap (ToSet(R) \cup ToSet(B)) = {} /\ ToSet(C) \cap AllPaths(db) = {}
    BY <1>3 DEF OnceInv
  <2>2. OnTheirWay = D \o B BY <1>1 DEF OnTheirWay
  <2> HIDE DEF R, B, C
  <2>3. IsInjective(D) /\ ToSet(D) = ToSet(C) \cup ToSet(R) /\ D \in Seq(Paths)
    BY <1>1, <2>1, ConcatDistinct
  <2> HIDE DEF D
  <2>4. ToSet(D) \cap ToSet(B) = {} BY <2>1, <2>3
  <2>5. IsInjective(D \o B) /\ ToSet(D \o B) = ToSet(D) \cup ToSet(B)
    BY <1>1, <2>1, <2>3, <2>4, ConcatDistinct
  <2>6. ToSet(D \o B) \cap AllPaths(db) = {} BY <2>1, <2>3, <2>5
  <2> QED BY <2>2, <2>5, <2>6 DEF AnalysedOnce
<1> QED BY <1>2, <1>3

(* FolderWatcher.h:17 and :24: whatever was quit, lost, removed or watched   *)
(* again, no path waits twice and none waits that has a row - provided that *)
(* no folder that can be watched lies inside another. Library's             *)
(* counterexample for nested folders shows that the hypothesis is needed.   *)
THEOREM SpecAnalysedOnce == ASSUME Disjoint PROVE Spec => []AnalysedOnce
<1>1. Init => OnceInv
  <2> SUFFICES ASSUME Init PROVE OnceInv OBVIOUS
  <2>1. PICK w \in SUBSET Folders : db = [EmptyDb EXCEPT !.watched = w] BY DEF Init
  <2>2. AllPaths(db) = {} BY <2>1 DEF AllPaths, EmptyDb, EmptyTable
  <2>3. worker.candidates = <<>> /\ worker.left = <<>> BY DEF Init, WorkerOff
  <2>4. PathsOf(results) = <<>> /\ PathsOf(batch) = <<>> BY DEF Init, PathsOf
  <2>5. mpc = "down" /\ seen = {} BY DEF Init
  <2> QED BY <2>2, <2>3, <2>4, <2>5, EmptyDistinct DEF OnceInv
<1>2. OnceInv /\ Shapes /\ [Next]_vars => OnceInv' BY NextOnce
<1> QED BY <1>1, <1>2, InitShapes, NextShapes, OnceIsOnce, PTL DEF Spec

=============================================================================

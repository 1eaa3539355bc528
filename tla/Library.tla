------------------------------- MODULE Library -------------------------------
(***************************************************************************)
(* The sample library at work: the watcher's thread (FolderWatcher), the    *)
(* message thread that writes its rows into the database (LibraryDb) from   *)
(* MainComponent's 30 Hz timer, the two caches of the database on the       *)
(* message thread - the corpus of SimilarSearch and the list of             *)
(* BrowserPanel - the disk, and the process, which may be quit or crash at  *)
(* any moment and be launched again. The browser is open throughout.        *)
(***************************************************************************)
EXTENDS FolderWatcher

CONSTANTS StartFiles,   (* what the disk may hold before the first launch   *)
          MaxRows,      (* rows of one drain, at least 1                    *)
          MaxOps        (* bound: the events that are not part of a loop    *)

ASSUME MaxRowsAssumption == MaxRows \in Nat \ {0}
ASSUME StartFilesAssumption == StartFiles \subseteq [Paths -> Categories \cup {Absent, Unreadable}]

VARIABLES db,           (* on disk                                          *)
          mpc, batch,   (* the message thread's place; rows being written   *)
          wrote,        (* a row of this batch was written                  *)
          dirty,        (* similarSearchDirty                               *)
          corpus,       (* SimilarSearch::corpus                            *)
          shown, news, wasBusy,  (* BrowserPanel: its list; added #         *)
                        (* lastAdded; and busy at its last tick             *)
          lost,         (* paths whose row could not be written             *)
          ops           (* events left                                      *)

caches  == <<dirty, corpus, shown, news, wasBusy>>
message == <<mpc, batch, wrote>>
vars    == <<disk, shared, busy, signals, worker, db, message, caches, lost, ops>>

Running == mpc # "down"

(* The library before the first launch: some files, and any folders that an *)
(* earlier version had saved in the settings.                               *)
Init ==
  /\ files \in StartFiles
  /\ mounted = Folders
  /\ db \in {[EmptyDb EXCEPT !.watched = w] : w \in SUBSET Folders}
  /\ folderList = <<>> /\ seen = {} /\ results = <<>>
  /\ busy = FALSE /\ exit = FALSE /\ notified = FALSE /\ worker = WorkerOff
  /\ mpc = "down" /\ batch = <<>> /\ wrote = FALSE
  /\ dirty = FALSE /\ corpus = EmptyTable
  /\ shown = EmptyTable /\ news = FALSE /\ wasBusy = FALSE
  /\ lost = {} /\ ops = MaxOps

-----------------------------------------------------------------------------
(* The process. *)

(* The constructor: rebuildSimilarSearch(), watcher.start().                *)
Launch ==
  /\ mpc = "down"
  /\ folderList' = SetToSeq(db.watched) /\ seen' = AllPaths(db)
  /\ worker' = [WorkerOff EXCEPT !.pc = "top"] /\ notified' = TRUE
  /\ corpus' = All(db) /\ shown' = All(db)
  /\ mpc' = "idle"
  /\ UNCHANGED <<disk, results, busy, exit, db, batch, wrote, dirty, news, wasBusy, lost, ops>>

(* What only lives in memory is gone. *)
Gone ==
  /\ folderList' = <<>> /\ seen' = {} /\ results' = <<>>
  /\ busy' = FALSE /\ exit' = FALSE /\ notified' = FALSE /\ worker' = WorkerOff
  /\ mpc' = "down" /\ batch' = <<>> /\ wrote' = FALSE
  /\ dirty' = FALSE /\ corpus' = EmptyTable
  /\ shown' = EmptyTable /\ news' = FALSE /\ wasBusy' = FALSE
  /\ lost' = {}

Op == ops > 0 /\ ops' = ops - 1

Crash == Running /\ Op /\ Gone /\ UNCHANGED <<disk, db>>

(* ~FolderWatcher: the flag, then (Poke) the event, then the join.          *)
Quit ==
  /\ mpc = "idle" /\ Op
  /\ exit' = TRUE /\ mpc' = "poke"
  /\ UNCHANGED <<disk, shared, busy, notified, worker, db, batch, wrote, caches, lost>>

Joined ==
  /\ mpc = "join" /\ worker.pc = "off"
  /\ Gone
  /\ UNCHANGED <<disk, db, ops>>

-----------------------------------------------------------------------------
(* The user and the disk. *)

(* Mutant: the worker is not woken for the new folder. *)
AddFolderUnpoked ==
  /\ mpc = "idle" /\ Op
  /\ \E f \in mounted :
       /\ db' = AddWatchedFolder(db, f)
       /\ folderList' = IF f \in ToSet(folderList) THEN folderList ELSE Append(folderList, f)
  /\ UNCHANGED <<disk, seen, results, busy, signals, worker, message, caches, lost>>

(* addFolder: the table, the list under the lock, and then (Poke) the event. *)
AddFolder ==
  /\ mpc = "idle" /\ Op
  /\ \E f \in mounted :
       /\ db' = AddWatchedFolder(db, f)
       /\ folderList' = IF f \in ToSet(folderList) THEN folderList ELSE Append(folderList, f)
  /\ mpc' = "poke"
  /\ UNCHANGED <<disk, seen, results, busy, signals, worker, batch, wrote, caches, lost>>

(* removeString() removes every copy of the name; the list has one of each.  *)
RemoveFolder ==
  /\ mpc = "idle" /\ Op
  /\ \E i \in DOMAIN folderList :
       /\ db' = RemoveWatchedFolder(db, folderList[i])
       /\ folderList' = RemoveAt(folderList, i)
  /\ UNCHANGED <<disk, seen, results, busy, signals, worker, message, caches, lost>>

(* "Look for new files now" in the browser. *)
Rescan ==
  /\ mpc = "idle" /\ Op /\ folderList # <<>>
  /\ mpc' = "poke"
  /\ UNCHANGED <<disk, shared, busy, signals, worker, db, batch, wrote, caches, lost>>

(* notify(); from poke() and from the destructor. *)
Poke ==
  /\ mpc = "poke"
  /\ notified' = TRUE
  /\ mpc' = IF exit THEN "join" ELSE "idle"
  /\ UNCHANGED <<disk, shared, busy, exit, worker, db, batch, wrote, caches, lost, ops>>

(* "Re-tag as" in the browser: the table, refresh(), onLibraryChanged.      *)
Retag ==
  /\ mpc = "idle" /\ Op
  /\ \E p \in DOMAIN shown, c \in Categories : db' = SetCategoryOverride(db, p, c)
  /\ shown' = All(db') /\ corpus' = All(db')
  /\ UNCHANGED <<disk, shared, busy, signals, worker, message, dirty, news, wasBusy, lost>>

(* A file is written, replaced, finished or deleted; a drive comes or goes. *)
FileChanges ==
  /\ Op
  /\ \E p \in Paths, c \in Categories \cup {Absent, Unreadable} :
       c # files[p] /\ files' = [files EXCEPT ![p] = c]
  /\ UNCHANGED <<mounted, shared, busy, signals, worker, db, message, caches, lost>>

Remount ==
  /\ Op
  /\ \E f \in Folders : mounted' = IF f \in mounted THEN mounted \ {f} ELSE mounted \cup {f}
  /\ UNCHANGED <<files, shared, busy, signals, worker, db, message, caches, lost>>

-----------------------------------------------------------------------------
(* The timers of the message thread. *)

(* MainComponent::timerCallback: drainIntoDb takes a batch under the lock ... *)
TakeBatch ==
  /\ mpc = "idle" /\ results # <<>>
  /\ LET n == IF Len(results) < MaxRows THEN Len(results) ELSE MaxRows
     IN  /\ batch' = SubSeq(results, 1, n)
         /\ results' = SubSeq(results, n + 1, Len(results))
  /\ mpc' = "write"
  /\ UNCHANGED <<disk, folderList, seen, busy, signals, worker, db, wrote, caches, lost, ops>>

(* ... or returns 0, and only an older dirty flag is left to look at ...     *)
NothingToDrain ==
  /\ mpc = "idle" /\ results = <<>> /\ dirty
  /\ mpc' = "look"
  /\ UNCHANGED <<disk, shared, busy, signals, worker, db, batch, wrote, caches, lost, ops>>

(* ... and writes its rows. *)
WriteRow ==
  /\ mpc = "write" /\ batch # <<>>
  /\ db' = Upsert(db, Head(batch).path, Head(batch).category)
  /\ wrote' = TRUE /\ batch' = Tail(batch)
  /\ UNCHANGED <<disk, shared, busy, signals, worker, mpc, caches, lost, ops>>

(* The statement fails: a full disk, or another instance has the file locked. *)
WriteFails ==
  /\ mpc = "write" /\ batch # <<>> /\ Op
  /\ lost' = lost \cup {Head(batch).path}
  /\ batch' = Tail(batch)
  /\ UNCHANGED <<disk, shared, busy, signals, worker, db, mpc, wrote, caches>>

BatchWritten ==
  /\ mpc = "write" /\ batch = <<>>
  /\ dirty' = (dirty \/ wrote) /\ news' = (news \/ wrote)
  /\ wrote' = FALSE /\ mpc' = "look"
  /\ UNCHANGED <<disk, shared, busy, signals, worker, db, batch, corpus, shown, wasBusy, lost, ops>>

(* similarSearchDirty && ! watcher.isBusy() ... *)
Look ==
  /\ mpc = "look"
  /\ mpc' = IF dirty /\ ~busy THEN "count" ELSE "idle"
  /\ UNCHANGED <<disk, shared, busy, signals, worker, db, batch, wrote, caches, lost, ops>>

(* Mutant: the flag is cleared although the rebuild is put off.             *)
CountClearsFirst ==
  /\ mpc = "count" /\ mpc' = "idle"
  /\ dirty' = FALSE
  /\ corpus' = IF results = <<>> THEN All(db) ELSE corpus
  /\ UNCHANGED <<disk, shared, busy, signals, worker, db, batch, wrote, shown, news, wasBusy,
                 lost, ops>>

(* ... && watcher.pendingRows() == 0. *)
Count ==
  /\ mpc = "count" /\ mpc' = "idle"
  /\ IF results = <<>> THEN dirty' = FALSE /\ corpus' = All(db) ELSE UNCHANGED <<dirty, corpus>>
  /\ UNCHANGED <<disk, shared, busy, signals, worker, db, batch, wrote, shown, news, wasBusy,
                 lost, ops>>

(* Mutant: the count of added rows is noted before the dust has settled.    *)
BrowserTickEager ==
  /\ mpc = "idle"
  /\ news' = FALSE
  /\ shown' = IF ~busy /\ results = <<>> /\ (news \/ wasBusy) THEN All(db) ELSE shown
  /\ wasBusy' = FALSE
  /\ UNCHANGED <<disk, shared, busy, signals, worker, db, message, dirty, corpus, lost, ops>>

(* BrowserPanel::timerCallback. Of what it reads only `busy` and `results`  *)
(* belong to the other thread, and a refresh is never wrong, only early.    *)
BrowserTick ==
  /\ mpc = "idle"
  /\ IF ~busy /\ results = <<>> /\ (news \/ wasBusy)
     THEN news' = FALSE /\ shown' = All(db)
     ELSE UNCHANGED <<news, shown>>
  /\ wasBusy' = busy
  /\ UNCHANGED <<disk, shared, busy, signals, worker, db, message, dirty, corpus, lost, ops>>

-----------------------------------------------------------------------------
Work    == WorkerNext /\ UNCHANGED <<db, message, caches, lost, ops>>
Process == Launch \/ Crash \/ Quit \/ Joined
Events  == AddFolder \/ RemoveFolder \/ Rescan \/ Retag \/ FileChanges \/ Remount
Timers  == TakeBatch \/ NothingToDrain \/ WriteRow \/ WriteFails \/ BatchWritten \/ Look \/ Count
           \/ BrowserTick

Next == Process \/ Events \/ Poke \/ Timers \/ Work

Spec == Init /\ [][Next]_vars

(* Both threads keep running. The worker sleeps four seconds between two    *)
(* passes and the timers tick thirty and five times a second, so their      *)
(* steps also happen, again and again, while it sleeps.                     *)
Asleep == worker.pc = "wait"

Fairness ==
  /\ WF_vars(Work) /\ WF_vars(WriteRow) /\ WF_vars(BatchWritten) /\ WF_vars(Poke)
  /\ SF_vars(TakeBatch /\ Asleep) /\ SF_vars(NothingToDrain /\ Asleep)
  /\ SF_vars(Look /\ Asleep) /\ SF_vars(Count /\ Asleep) /\ SF_vars(BrowserTick /\ Asleep)

FairSpec == Spec /\ Fairness

-----------------------------------------------------------------------------
TypeOK ==
  /\ files \in [Paths -> Categories \cup {Absent, Unreadable}] /\ mounted \subseteq Folders
  /\ db.rows \in UNION {[S -> Categories] : S \in SUBSET Paths}
  /\ db.tags \in UNION {[S -> Categories] : S \in SUBSET AllPaths(db)}
  /\ db.watched \subseteq Folders /\ ToSet(folderList) \subseteq Folders
  /\ seen \subseteq Paths /\ lost \subseteq Paths
  /\ ToSet(results) \cup ToSet(batch) \subseteq [path : Paths, category : Categories]
  /\ {busy, exit, notified, wrote, dirty, news, wasBusy} \subseteq BOOLEAN
  /\ worker.pc \in {"off", "top", "list", "analyse", "wait"}
  /\ mpc \in {"down", "idle", "poke", "join", "write", "look", "count"}
  /\ ops \in 0 .. MaxOps

(* The paths on their way into the database: still to be analysed, waiting  *)
(* in the queue, or being written.                                          *)
OnTheirWay == worker.candidates \o PathsOf(results) \o PathsOf(batch)

(* FolderWatcher.h:17: "a row waiting in the queue is not analysed twice",  *)
(* and :24: "It ingests NEW paths only". No path is on its way twice, and   *)
(* none that already has a row, whatever was quit, lost or watched again.   *)
AnalysedOnce == IsInjective(OnTheirWay) /\ ToSet(OnTheirWay) \cap AllPaths(db) = {}

(* FolderWatcher.cpp:13: the worker "spends nearly all its life inside       *)
(* wait()". It never sleeps through a quit, nor on a folder that was added  *)
(* since it last copied the list, without a wake-up being on its way.       *)
NoLostWakeup ==
  (worker.pc = "wait" /\ ~notified /\ mpc # "poke")
    => ~exit /\ ToSet(folderList) \subseteq worker.toScan

(* Between two callbacks of the message thread, "Similar" answers from what  *)
(* the database holds, corrections included, or the flag says it does not.  *)
SearchKnowsLibrary == mpc \in {"idle", "poke"} => dirty \/ corpus = All(db)

(* A file the loader can read, in a watched folder that is there.           *)
Offered(p) ==
  /\ mpc \notin {"down", "join"} /\ ~exit
  /\ \E f \in ToSet(folderList) \cap mounted : p \in Under[f]
  /\ files[p] \in Categories /\ p \notin lost

(* "Anything you drop in later is picked up on its own" (FolderWatcher.h:6): *)
(* also one that was half written when it was first looked at, one that was *)
(* waiting in the queue at a crash, and one on a drive that was away. Only a *)
(* row the database refused is gone until the next launch.                  *)
EveryFileArrives == \A p \in Paths : <>[]Offered(p) => <>(p \in AllPaths(db))

(* Once nothing more happens, the search and the list hold the library.     *)
EverybodyCatchesUp == <>[]Running /\ <>[]~exit => <>[](corpus = All(db) /\ shown = All(db))

(* Without the exception for refused rows: the member's comment,             *)
(* FolderWatcher.h:109, "paths in the DB, or already in `results`".         *)
SeenIsClaimed ==
  seen \subseteq AllPaths(db) \cup ToSet(PathsOf(results)) \cup ToSet(PathsOf(batch))
=============================================================================

---------------------------- MODULE FolderWatcher ----------------------------
(***************************************************************************)
(* library/FolderWatcher.{h,cpp}: the worker thread that enumerates the     *)
(* watched folders and analyses what is new in them, and what it shares     *)
(* with the message thread. `folderList`, `seen` and `results` are guarded  *)
(* by one lock, so each locked section is one action; `busy` is an atomic.  *)
(* The worker sleeps in Thread::wait, which returns at once if notify() was *)
(* called since it last returned: `notified` is that event.                 *)
(*                                                                          *)
(* `files` and `mounted` are the disk: what each path holds and which       *)
(* folders are directories at the moment.                                   *)
(***************************************************************************)
EXTENDS LibraryDb, Integers, FiniteSets, SequencesExt

CONSTANTS Under,        (* the paths findChildFiles lists below each folder *)
          Absent, Unreadable   (* no file; a file the loader cannot decode  *)

ASSUME FoldersAssumption == IsFiniteSet(Folders)
ASSUME UnderAssumption ==
  Under \in [Folders -> SUBSET Paths] /\ \A f \in Folders : IsFiniteSet(Under[f])

VARIABLES files, mounted,            (* the disk                            *)
          folderList, seen, results, (* guarded by `lock`                   *)
          busy, exit, notified,      (* atomics, the thread's flag and event *)
          worker                     (* the worker's place and its locals    *)

disk    == <<files, mounted>>
shared  == <<folderList, seen, results>>
signals == <<exit, notified>>

(* toScan: the folders copied for the last pass; left: those not yet listed. *)
WorkerOff == [pc |-> "off", toScan |-> {}, left |-> <<>>, candidates |-> <<>>]

Entry(p) == [path |-> p, category |-> files[p]]
PathsOf(entries) == [i \in DOMAIN entries |-> entries[i].path]

(* The end of scanOnce, and the test of run() after it. *)
PassEnds ==
  /\ busy' = FALSE
  /\ worker' = [worker EXCEPT !.pc = IF exit THEN "off" ELSE "wait",
                              !.left = <<>>, !.candidates = <<>>]

(* The top of run()'s loop and the copy of the folder list. An empty list   *)
(* ends the pass without the busy flag.                                     *)
BeginPass ==
  /\ worker.pc = "top"
  /\ UNCHANGED <<disk, shared, signals>>
  /\ \/ exit /\ worker' = WorkerOff /\ UNCHANGED busy
     \/ ~exit /\ folderList = <<>>
        /\ worker' = [WorkerOff EXCEPT !.pc = "wait"] /\ UNCHANGED busy
     \/ ~exit /\ folderList # <<>> /\ busy' = TRUE
        /\ worker' = [pc |-> "list", toScan |-> ToSet(folderList),
                      left |-> folderList, candidates |-> <<>>]

(* One folder listed, and each of its files looked up in `seen`.            *)
ListFolder ==
  /\ worker.pc = "list" /\ worker.left # <<>>
  /\ UNCHANGED <<disk, shared, signals>>
  /\ LET folder == Head(worker.left)
         new    == {p \in Under[folder] : files[p] # Absent /\ p \notin seen}
         found  == IF folder \in mounted THEN SetToSeq(new) ELSE <<>>
     IN  IF exit THEN PassEnds
         ELSE /\ worker' = [worker EXCEPT !.left = Tail(@), !.candidates = @ \o found]
              /\ UNCHANGED busy

ListedAll ==
  /\ worker.pc = "list" /\ worker.left = <<>>
  /\ worker' = [worker EXCEPT !.pc = "analyse"]
  /\ UNCHANGED <<disk, shared, signals, busy>>

(* Mutant: the path is not claimed until its row is in the database.        *)
AnalyseUnclaimed ==
  /\ worker.pc = "analyse" /\ worker.candidates # <<>> /\ ~exit
  /\ LET p == Head(worker.candidates)
     IN  IF files[p] \in Categories
         THEN UNCHANGED seen /\ results' = Append(results, Entry(p))
         ELSE UNCHANGED <<seen, results>>
  /\ worker' = [worker EXCEPT !.candidates = Tail(@)]
  /\ UNCHANGED <<disk, folderList, signals, busy>>

(* Mutant: the path is claimed whether the file could be decoded or not.    *)
AnalyseClaimsAll ==
  /\ worker.pc = "analyse" /\ worker.candidates # <<>> /\ ~exit
  /\ LET p == Head(worker.candidates)
     IN  /\ seen' = seen \cup {p}
         /\ results' = IF files[p] \in Categories THEN Append(results, Entry(p)) ELSE results
  /\ worker' = [worker EXCEPT !.candidates = Tail(@)]
  /\ UNCHANGED <<disk, folderList, signals, busy>>

(* One file decoded, claimed and queued. One that cannot be decoded is left *)
(* for the next pass.                                                       *)
Analyse ==
  /\ worker.pc = "analyse" /\ worker.candidates # <<>> /\ ~exit
  /\ LET p == Head(worker.candidates)
     IN  IF files[p] \in Categories
         THEN seen' = seen \cup {p} /\ results' = Append(results, Entry(p))
         ELSE UNCHANGED <<seen, results>>
  /\ worker' = [worker EXCEPT !.candidates = Tail(@)]
  /\ UNCHANGED <<disk, folderList, signals, busy>>

EndPass ==
  /\ worker.pc = "analyse" /\ (worker.candidates = <<>> \/ exit)
  /\ PassEnds
  /\ UNCHANGED <<disk, shared, signals>>

(* wait() returns: somebody called notify(), or the poll interval is over.  *)
Woken ==
  /\ worker.pc = "wait" /\ notified
  /\ notified' = FALSE
  /\ worker' = [worker EXCEPT !.pc = "top"]
  /\ UNCHANGED <<disk, shared, exit, busy>>

PollAgain ==
  /\ worker.pc = "wait" /\ ~notified
  /\ worker' = [worker EXCEPT !.pc = "top"]
  /\ UNCHANGED <<disk, shared, signals, busy>>

WorkerNext ==
  BeginPass \/ ListFolder \/ ListedAll \/ Analyse \/ EndPass \/ Woken \/ PollAgain
=============================================================================

------------------------------ MODULE LibraryDb ------------------------------
(***************************************************************************)
(* library/LibraryDb.{h,cpp}: the library's three tables. `rows` (samples)  *)
(* has one row for each analysed path; a row is abstracted to the category  *)
(* the analyser heard in the file. `tags` (category_overrides) holds the    *)
(* user's corrections, `watched` (watched_folders) the folders to scan.     *)
(* Each statement commits by itself, so what was written survives a crash.  *)
(***************************************************************************)
CONSTANTS Paths, Folders, Categories

EmptyTable == [p \in {} |-> p]

EmptyDb == [rows |-> EmptyTable, tags |-> EmptyTable, watched |-> {}]

AllPaths(db) == DOMAIN db.rows

(* Insert or replace by path. *)
With(table, p, c) == [q \in DOMAIN table \cup {p} |-> IF q = p THEN c ELSE table[q]]

Upsert(db, p, c) == [db EXCEPT !.rows = With(@, p, c)]

SetCategoryOverride(db, p, c) == [db EXCEPT !.tags = With(@, p, c)]

AddWatchedFolder(db, f)    == [db EXCEPT !.watched = @ \cup {f}]
RemoveWatchedFolder(db, f) == [db EXCEPT !.watched = @ \ {f}]

(* What every query reads: the override if there is one, else the row.      *)
All(db) ==
  [p \in AllPaths(db) |-> IF p \in DOMAIN db.tags THEN db.tags[p] ELSE db.rows[p]]
=============================================================================

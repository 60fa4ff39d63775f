----------------------------- MODULE RocksShell -----------------------------
(***************************************************************************)
(* rocksdb_playground: an interactive shell over RocksDB.  Each command    *)
(* that src/main.c dispatches is an action; the global `rocks' of          *)
(* functions.h is the variables db, cp and wr_batch.                       *)
(*                                                                         *)
(* RocksDB itself is external and modelled by what the shell relies on: a  *)
(* handle holds the lock of its path until it is closed; what was written  *)
(* is in memory (view) until a flush puts it on disk; closing a handle     *)
(* flushes; and, as the shell disables the write-ahead log, a process that *)
(* dies loses what was not flushed.  A checkpoint copies what is flushed.  *)
(***************************************************************************)
EXTENDS Integers

CONSTANTS Path,      \* database and checkpoint directories
          Key, Value,
          None,      \* no value for a key, no put for a key in a batch
          Absent,    \* no such directory
          NULL,
          MaxOpens   \* bound on rocksdb_open calls that succeed

ASSUME BoundAssumption == MaxOpens \in Nat
ASSUME ValueAssumption ==
  None \notin Value /\ Absent \notin [Key -> Value \cup {None}]

VARIABLES db,        \* rocks.db: NULL or the handle in use
          cp,        \* rocks.cp: NULL or the handle it was created from
          wr_batch,  \* rocks.wr_batch: NULL or the puts collected
          done,      \* "run", "quit", or "fault" after undefined behaviour
          holder,    \* path -> generation of the handle that holds its lock
          view,      \* path -> what a reader of the open database sees
          disk,      \* path -> what is flushed
          opens,     \* handles opened so far, their generations
          careful    \* history: this session has kept the rules of Keeps

vars == <<db, cp, wr_batch, done, holder, view, disk, opens, careful>>

Content == [Key -> Value \cup {None}]
Empty == [k \in Key |-> None]
Handle == [path : Path, gen : 1 .. MaxOpens]
Put(c, puts) == [k \in Key |-> IF puts[k] = None THEN c[k] ELSE puts[k]]

TypeOK ==
  /\ db \in Handle \cup {NULL} /\ cp \in Handle \cup {NULL}
  /\ wr_batch \in Content \cup {NULL}
  /\ done \in {"run", "quit", "fault"}
  /\ holder \in [Path -> 0 .. MaxOpens]
  /\ view \in [Path -> Content \cup {Absent}]
  /\ disk \in [Path -> Content \cup {Absent}]
  /\ opens \in 0 .. MaxOpens

Live(h) == holder[h.path] = h.gen

Init ==
  /\ db = NULL /\ cp = NULL /\ wr_batch = NULL /\ done = "run"
  /\ holder = [p \in Path |-> 0]
  /\ view = [p \in Path |-> Absent] /\ disk = [p \in Path |-> Absent]
  /\ opens = 0 /\ careful = TRUE

\* Undefined behaviour: the shell may go down.
Fault ==
  /\ done' = "fault"
  /\ UNCHANGED <<db, cp, wr_batch, holder, view, disk, opens>>

is_open == db # NULL
-----------------------------------------------------------------------------
\* rocksdb_open fails on a path whose lock is held, also by this process.
rocksdb_open(path) ==
  /\ holder[path] = 0 /\ opens < MaxOpens
  /\ opens' = opens + 1
  /\ holder' = [holder EXCEPT ![path] = opens + 1]
  /\ view' = [view EXCEPT ![path] = IF @ = Absent THEN Empty ELSE @]
  /\ disk' = [disk EXCEPT ![path] = IF @ = Absent THEN Empty ELSE @]

\* rocks.db is overwritten, whether or not the open succeeds.
open_db(path) ==
  /\ \/ /\ rocksdb_open(path)
        /\ db' = [path |-> path, gen |-> opens + 1]
     \/ /\ holder[path] # 0
        /\ db' = NULL
        /\ UNCHANGED <<holder, view, disk, opens>>
  /\ UNCHANGED <<cp, wr_batch, done>>

\* rocksdb_close flushes and gives the lock back.
rocksdb_close(h) ==
  /\ disk' = [disk EXCEPT ![h.path] = view[h.path]]
  /\ holder' = [holder EXCEPT ![h.path] = 0]

close_db_keep_pointer ==
  /\ is_open
  /\ rocksdb_close(db)
  /\ UNCHANGED <<db, cp, wr_batch, done, view, opens>>

close_db ==
  /\ is_open
  /\ rocksdb_close(db) /\ db' = NULL
  /\ UNCHANGED <<cp, wr_batch, done, view, opens>>

\* A deletion goes to the database at once, also when there is a batch.
handle_delete(key) ==
  /\ is_open
  /\ view' = [view EXCEPT ![db.path][key] = None]
  /\ UNCHANGED <<db, cp, wr_batch, done, holder, disk, opens>>

handle_write(key, val) ==
  /\ is_open
  /\ \/ /\ wr_batch # NULL
        /\ wr_batch' = [wr_batch EXCEPT ![key] = val]
        /\ UNCHANGED view
     \/ /\ wr_batch = NULL
        /\ view' = [view EXCEPT ![db.path][key] = val]
        /\ UNCHANGED wr_batch
  /\ UNCHANGED <<db, cp, done, holder, disk, opens>>

\* rocksdb_checkpoint_create on the object made from handle h: an existing
\* directory is refused; a closed handle is freed memory.
rocksdb_checkpoint_create(h, dir) ==
  \/ /\ disk[dir] = Absent
     /\ disk' = [disk EXCEPT ![dir] = disk[h.path]]
     /\ view' = [view EXCEPT ![dir] = disk[h.path]]
     /\ UNCHANGED done
  \/ /\ disk[dir] # Absent
     /\ UNCHANGED <<view, disk, done>>
  \/ /\ ~Live(h)
     /\ done' = "fault" /\ UNCHANGED <<view, disk>>

handle_checkpoint(dir) ==
  /\ is_open
  /\ cp' = IF cp = NULL THEN db ELSE cp
  /\ rocksdb_checkpoint_create(cp', dir)
  /\ UNCHANGED <<db, wr_batch, holder, opens>>

\* A batch that was not destroyed is overwritten.
create_writebatch ==
  /\ wr_batch' = Empty
  /\ UNCHANGED <<db, cp, done, holder, view, disk, opens>>

\* Commits the batch to the database in use, then frees it.  The write may
\* fail, which keeps the batch; there may be no database.
destroy_writebatch ==
  /\ IF wr_batch # NULL /\ ~is_open
       THEN Fault
       ELSE /\ \/ /\ wr_batch # NULL
                  /\ view' = [view EXCEPT ![db.path] = Put(@, wr_batch)]
                  /\ wr_batch' = NULL
               \/ /\ wr_batch # NULL /\ UNCHANGED <<view, wr_batch>>
               \/ /\ wr_batch = NULL /\ UNCHANGED <<view, wr_batch>>
            /\ UNCHANGED <<db, cp, done, holder, disk, opens>>

\* quit and end of input: main leaves its loop, deconstruct closes what the
\* globals still name, and the process ends.
deconstruct_unclosed ==
  /\ done' = "quit"
  /\ UNCHANGED <<db, cp, wr_batch, holder, view, disk, opens>>

deconstruct ==
  /\ done' = "quit"
  /\ IF db # NULL THEN rocksdb_close(db) ELSE UNCHANGED <<disk, holder>>
  /\ UNCHANGED <<db, cp, wr_batch, view, opens>>
-----------------------------------------------------------------------------
\* RocksDB writes a memtable out whenever it likes.
Flush(path) ==
  /\ holder[path] # 0 /\ done = "run"
  /\ disk' = [disk EXCEPT ![path] = view[path]]
  /\ UNCHANGED <<db, cp, wr_batch, done, holder, view, opens, careful>>

\* A new process: memory and locks are gone, whichever way the old one ended
\* (done = "run": it was killed).
Restart ==
  /\ db' = NULL /\ cp' = NULL /\ wr_batch' = NULL /\ done' = "run"
  /\ holder' = [p \in Path |-> 0]
  /\ view' = disk /\ careful' = TRUE
  /\ UNCHANGED <<disk, opens>>

\* A careful user closes a database before opening another, opens none once a
\* checkpoint was made in the session, and commits a batch before close, quit
\* or a new batch, while a database is open.
Keeps(rule) == careful' = (careful /\ rule)

execute_line ==
  /\ done = "run"
  /\ \/ \E p \in Path : open_db(p) /\ Keeps(db = NULL /\ cp = NULL)
     \/ \E p \in Path : handle_checkpoint(p) /\ Keeps(TRUE)
     \/ /\ \E k \in Key : \/ handle_delete(k)
                          \/ \E v \in Value : handle_write(k, v)
        /\ Keeps(TRUE)
     \/ (close_db \/ create_writebatch \/ deconstruct) /\ Keeps(wr_batch = NULL)
     \/ destroy_writebatch /\ Keeps(is_open)

Next == execute_line \/ (\E p \in Path : Flush(p)) \/ Restart

Spec == Init /\ [][Next]_vars
-----------------------------------------------------------------------------
(***************************************************************************)
(* rocks.db never dangles: it is NULL or an open handle, so that the       *)
(* is_open() test at the head of each command is a sufficient guard.       *)
(***************************************************************************)
DbIsLive == db # NULL /\ done = "run" => Live(db)

(***************************************************************************)
(* Writes that are only in memory belong to an open handle: nothing that   *)
(* close_db has closed can lose writes when the process dies.              *)
(***************************************************************************)
ClosedIsDurable ==
  \A p \in Path : holder[p] = 0 => view[p] = disk[p]

(***************************************************************************)
(* A read answers the same after the shell was left with `quit' and        *)
(* started again, for every database that no other open had displaced from *)
(* rocks.db.                                                               *)
(***************************************************************************)
handle_read(path, key) == view[path][key]
Displaced(p) == holder[p] # 0 /\ (db = NULL \/ db.path # p)
QuitKeepsWrites ==
  [][done = "quit" /\ Restart =>
       \A p \in Path : view[p] # Absent /\ ~Displaced(p) =>
         \A k \in Key : handle_read(p, k)' = handle_read(p, k)]_vars

(***************************************************************************)
(* In a careful session no command uses a freed or a null handle, although *)
(* close_db leaves rocks.cp and rocks.wr_batch behind.                     *)
(***************************************************************************)
CarefulNeverFaults == careful => done # "fault"

(***************************************************************************)
(* ckpt copies the database that is open ("Create a checkpoint").          *)
(***************************************************************************)
CheckpointOfOpenDb ==
  [][\A dir \in Path :
       handle_checkpoint(dir) /\ disk'[dir] # disk[dir]
         => disk'[dir] = disk[db.path]]_vars
=============================================================================

------------------------------- MODULE DiskCache -------------------------------
(***************************************************************************)
(* The disk cache of compiled cubins, cuda/tile/_cache.py, as compile_tile *)
(* of cuda/tile/_compile.py uses it: look up, compile on a miss, store,    *)
(* evict.  Within a process the calls are made one after the other, under  *)
(* _compiler_lock; several processes share the directory.                  *)
(*                                                                         *)
(* The cache is an SQLite database, used through one short connection per  *)
(* operation.  SQLite (external) gives each file one writer at a time, a   *)
(* commit that happens entirely or not at all, and an error after five     *)
(* seconds when another process is in the way.  Any error while the        *)
(* database is opened makes _connect unlink it and create another, while   *)
(* other processes may still use the old file.                             *)
(***************************************************************************)
EXTENDS Integers, FiniteSets, FiniteSetsExt

CONSTANTS Procs, NoProc,
          Keys,         \* cache_key values, which are ordered
          NoKey,
          Size,         \* [Keys -> Nat]: blob_size
          Limit,        \* size_limit
          Times,        \* values of time.time(), which may go backwards
          Absent,       \* atime of a key that has no row
          Files, NoFile,
          RowLimit, RowGrowth   \* 100 and 10 in the code

ASSUME CacheAssumption ==
  /\ NoProc \notin Procs
  /\ Keys \subseteq Nat /\ IsFiniteSet(Keys)
  /\ Size \in [Keys -> Nat \ {0}]
  /\ Limit \in Nat
  /\ Times \subseteq Nat
  /\ Absent \notin Times
  /\ NoFile \notin Files
  /\ RowLimit \in Nat \ {0} /\ RowGrowth \in Nat \ {0, 1}

VARIABLES
  current,   \* the file at db_path
  table,     \* table[f]: the atime of each row of the file
  writer,    \* writer[f]: the process in a write transaction
  damaged,   \* the files that SQLite cannot read
  pc, op,    \* where each process is, and in which function of the cache
  key,       \* the cubin it wants
  conn,      \* the file it has open
  pending,   \* the rows as its transaction leaves them
  batch      \* row_limit

vars == <<current, table, writer, damaged, pc, op, key, conn, pending, batch>>

Operations == {"lookup", "store", "evict"}
Empty == [k \in Keys |-> Absent]
Rows(t) == {k \in Keys : t[k] # Absent}

-----------------------------------------------------------------------------
(* The statement of evict_lru *)

\* Mutant: the order is turned around.
Before_Newest(t, j, k) == t[j] > t[k] \/ (t[j] = t[k] /\ j < k)

\* ORDER BY atime, key
Before(t, j, k) == t[j] < t[k] \/ (t[j] = t[k] /\ j < k)

Total(S) == MapThenSumSet(LAMBDA k : Size[k], S)

Cumulated(t, k) == Total({k} \cup {j \in Rows(t) : Before(t, j, k)})

FirstRows(t, n) ==
  {k \in Rows(t) : Cardinality({j \in Rows(t) : Before(t, j, k)}) < n}

Excess(t) == Total(Rows(t)) - Limit

\* Mutant: the last byte is counted twice.
Doomed_Strict(t, n) == {k \in FirstRows(t, n) : Cumulated(t, k) < Excess(t)}

Doomed(t, n) == {k \in FirstRows(t, n) : Cumulated(t, k) <= Excess(t)}

Without(t, S) == [k \in Keys |-> IF k \in S THEN Absent ELSE t[k]]

-----------------------------------------------------------------------------
Goto(p, at) == pc' = [pc EXCEPT ![p] = at]

\* files that nobody can reach any more, and that may be allocated again
Unreached(cur, con) == {f \in Files : f # cur /\ \A q \in Procs : con[q] # f}

\* what is left of the files when those are gone
Reaped(cur, con, tables) ==
  [f \in Files |-> IF f \in Unreached(cur, con) THEN Empty ELSE tables[f]]

Init ==
  /\ current = NoFile
  /\ table = [f \in Files |-> Empty]
  /\ writer = [f \in Files |-> NoProc]
  /\ damaged = {}
  /\ pc = [p \in Procs |-> "idle"]
  /\ op = [p \in Procs |-> "lookup"]
  /\ key = [p \in Procs |-> NoKey]
  /\ conn = [p \in Procs |-> NoFile]
  /\ pending = [p \in Procs |-> Empty]
  /\ batch = [p \in Procs |-> RowLimit]

\* compile_tile reaches the cache with the key of its bytecode
Call(p, k) ==
  /\ pc[p] = "idle"
  /\ key' = [key EXCEPT ![p] = k]
  /\ op' = [op EXCEPT ![p] = "lookup"]
  /\ Goto(p, "connect")
  /\ UNCHANGED <<current, table, writer, damaged, conn, pending, batch>>

-----------------------------------------------------------------------------
(* _connect *)

\* sqlite3.connect opens the file that is there, or makes an empty one
Opened(f) == IF current # NoFile THEN {current}
             ELSE Unreached(current, conn)

OpenFile(p) ==
  \E f \in Opened(current) :
    /\ f \notin damaged
    /\ current' = f
    /\ conn' = [conn EXCEPT ![p] = f]
    /\ Goto(p, "execute")
    /\ UNCHANGED <<table, writer, damaged, op, key, pending, batch>>

Connect(p) == pc[p] = "connect" /\ OpenFile(p)

\* the database cannot be made or read, or another process is committing
Unusable(f) == f # NoFile => (f \in damaged \/ writer[f] # NoProc)

OpenFails(p) ==
  /\ pc[p] = "connect"
  /\ Unusable(current)
  /\ Goto(p, "unlink")
  /\ UNCHANGED <<current, table, writer, damaged, op, key, conn, pending,
                 batch>>

\* By now the path may lead to another file than the one that failed; an error
\* of os.unlink is ignored.
Unlink(p) ==
  /\ pc[p] = "unlink"
  /\ current' \in {NoFile, current}
  /\ table' = Reaped(current', conn, table)
  /\ damaged' = damaged \ Unreached(current', conn)
  /\ Goto(p, "reopen")
  /\ UNCHANGED <<writer, op, key, conn, pending, batch>>

Reopen(p) == pc[p] = "reopen" /\ OpenFile(p)

-----------------------------------------------------------------------------
(* The end of an operation *)

\* Mutant: a connection that is closed keeps its lock.
Unlocked_Not(p) == writer
Unlocked(p) == [f \in Files |-> IF writer[f] = p THEN NoProc ELSE writer[f]]

\* _close rolls an open transaction back
Close(p, tables) ==
  /\ conn' = [conn EXCEPT ![p] = NoFile]
  /\ writer' = Unlocked(p)
  /\ table' = Reaped(current, conn', tables)
  /\ damaged' = damaged \ Unreached(current, conn')
  /\ pending' = [pending EXCEPT ![p] = Empty]
  /\ batch' = [batch EXCEPT ![p] = RowLimit]

\* compile_tile returns, or raises
Return(p) ==
  /\ Goto(p, "idle")
  /\ op' = [op EXCEPT ![p] = "lookup"]
  /\ key' = [key EXCEPT ![p] = NoKey]

\* compile_tile goes on after an operation of the cache
Continue(p) ==
  \/ op[p] = "lookup" /\ Goto(p, "compile") /\ UNCHANGED <<op, key>>
  \/ /\ op[p] = "store"
     /\ Goto(p, "connect")
     /\ op' = [op EXCEPT ![p] = "evict"]
     /\ UNCHANGED key
  \/ op[p] = "evict" /\ Return(p)

\* Mutant: SQLite waits for other processes without a timeout.
GivesUp_Never(p) == FALSE

\* An error of SQLite ends any of the operations: the database is busy for
\* longer than the timeout, damaged, or cannot be created.
GivesUp(p) == TRUE

Fails(p) ==
  /\ pc[p] \in {"reopen", "execute", "delete", "commit"}
  /\ GivesUp(p)
  /\ Close(p, table)
  /\ Continue(p)
  /\ UNCHANGED current

\* os.makedirs fails: lookup and store go on, evict_lru does not catch it
DirectoryFails(p) ==
  /\ pc[p] = "connect"
  /\ IF op[p] = "evict" THEN Return(p) ELSE Continue(p)
  /\ UNCHANGED <<current, table, writer, damaged, conn, pending, batch>>

-----------------------------------------------------------------------------
(* cache_lookup, cache_store and evict_lru *)

Miss(p) ==
  /\ pc[p] = "execute" /\ op[p] = "lookup"
  /\ table[conn[p]][key[p]] = Absent
  /\ Close(p, table)
  /\ Continue(p)
  /\ UNCHANGED current

\* a write transaction begins, with the rows of t
Write(p, t, at) ==
  /\ writer[conn[p]] = NoProc
  /\ writer' = [writer EXCEPT ![conn[p]] = p]
  /\ pending' = [pending EXCEPT ![p] = t]
  /\ Goto(p, at)
  /\ UNCHANGED <<current, table, damaged, op, key, conn, batch>>

\* UPDATE of the atime of the row that was found
Touch(p, now) ==
  /\ pc[p] = "execute" /\ op[p] = "lookup"
  /\ table[conn[p]][key[p]] # Absent
  /\ Write(p, [table[conn[p]] EXCEPT ![key[p]] = now], "commit")

\* INSERT OR IGNORE
Insert(p, now) ==
  /\ pc[p] = "execute" /\ op[p] = "store"
  /\ LET t == table[conn[p]]
     IN Write(p, IF t[key[p]] = Absent THEN [t EXCEPT ![key[p]] = now] ELSE t,
              "commit")

BeginEvict(p) ==
  /\ pc[p] = "execute" /\ op[p] = "evict"
  /\ Write(p, table[conn[p]], "delete")

\* one DELETE statement of the loop, for the first row_limit rows
Delete(p) ==
  /\ pc[p] = "delete"
  /\ LET gone == Doomed(pending[p], batch[p])
     IN /\ pending' = [pending EXCEPT ![p] = Without(@, gone)]
        /\ IF Cardinality(gone) < batch[p]
           THEN Goto(p, "commit") /\ UNCHANGED batch
           ELSE /\ batch' = [batch EXCEPT ![p] = @ * RowGrowth]
                /\ UNCHANGED pc
  /\ UNCHANGED <<current, table, writer, damaged, op, key, conn>>

Committed(p) == [table EXCEPT ![conn[p]] = pending[p]]

Commit(p) ==
  /\ pc[p] = "commit"
  /\ Close(p, Committed(p))
  /\ IF op[p] = "lookup" THEN Return(p) ELSE Continue(p)
  /\ UNCHANGED current

\* tileiras: the cubin is there, or TileCompilerError is raised
Compile(p) ==
  /\ pc[p] = "compile"
  /\ \/ /\ op' = [op EXCEPT ![p] = "store"]
        /\ Goto(p, "connect")
        /\ UNCHANGED key
     \/ Return(p)
  /\ UNCHANGED <<current, table, writer, damaged, conn, pending, batch>>

-----------------------------------------------------------------------------
(* The environment *)

\* A process is killed; the next one to open the file rolls it back.
Crash(p) ==
  /\ pc[p] # "idle"
  /\ Close(p, table)
  /\ Return(p)
  /\ UNCHANGED current

\* the file system damages the database
Damage ==
  /\ current # NoFile /\ damaged = {}
  /\ damaged' = {current}
  /\ UNCHANGED <<current, table, writer, pc, op, key, conn, pending, batch>>

Work(p) == \/ Connect(p) \/ OpenFails(p) \/ Unlink(p) \/ Reopen(p)
           \/ Miss(p) \/ BeginEvict(p) \/ Delete(p) \/ Commit(p)
           \/ \E now \in Times : Touch(p, now) \/ Insert(p, now)
           \/ Compile(p) \/ Fails(p)

Next == \/ \E p \in Procs : \/ \E k \in Keys : Call(p, k)
                            \/ Work(p)
                            \/ DirectoryFails(p) \/ Crash(p)
        \/ Damage

Spec == Init /\ [][Next]_vars

\* Every process runs, and SQLite's busy timeout ends every wait.
FairSpec == Spec /\ \A p \in Procs : WF_vars(Work(p))

-----------------------------------------------------------------------------
(* Properties *)

TypeOK ==
  /\ current \in Files \cup {NoFile}
  /\ table \in [Files -> [Keys -> Times \cup {Absent}]]
  /\ writer \in [Files -> Procs \cup {NoProc}]
  /\ damaged \subseteq Files
  /\ pc \in [Procs -> {"idle", "connect", "unlink", "reopen", "execute",
                       "delete", "commit", "compile"}]
  /\ op \in [Procs -> Operations]
  /\ key \in [Procs -> Keys \cup {NoKey}]
  /\ conn \in [Procs -> Files \cup {NoFile}]
  /\ pending \in [Procs -> [Keys -> Times \cup {Absent}]]
  /\ batch \in [Procs -> Nat]
  /\ \A p \in Procs : pc[p] \in {"execute", "delete", "commit"} =>
                        conn[p] # NoFile

\* A process holds the lock of a database only inside a transaction of its own,
\* however the operation before ended.
NoStaleLock ==
  \A f \in Files : writer[f] # NoProc =>
    conn[writer[f]] = f /\ pc[writer[f]] \in {"delete", "commit"}

\* Rows leave a database only when it is over the limit, and the oldest first:
\* a row that is kept was not used before one that is evicted.
OldestFirst ==
  [][\A f \in Files \ Unreached(current, conn) :
       \A gone \in Rows(table[f]) \ Rows(table'[f]) :
         f \notin Unreached(current', conn') =>
           /\ Excess(table[f]) > 0
           /\ \A k \in Rows(table'[f]) : table[f][gone] <= table[f][k]]_vars

\* evict_lru stops within one row of the limit: without the oldest row that it
\* leaves, the cache would be below it.
OverByOneRow ==
  \A p \in Procs : pc[p] = "commit" /\ op[p] = "evict" =>
    \A k \in Rows(pending[p]) :
      \/ \E j \in Rows(pending[p]) : Before(pending[p], j, k)
      \/ Total(Rows(pending[p]) \ {k}) < Limit

\* Every compilation returns, whatever the other processes do to the database.
CallReturns == \A p \in Procs : pc[p] # "idle" ~> pc[p] = "idle"
=============================================================================

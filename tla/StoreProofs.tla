---------------------------- MODULE StoreProofs -----------------------------
(***************************************************************************)
(* The programs over an embedded store: the RocksDB shell, for any set of  *)
(* databases, keys and values, any number of opens and any session,        *)
(* careful or not; and the UDP receiver whose threads each open a LevelDB  *)
(* (and the receiver of how-to-receive-a-million-packets, the same without *)
(* it), for any number of threads, sockets, datagrams and lengths.         *)
(***************************************************************************)
EXTENDS RocksShell, UdpReceiver, CommonLemmas

\* An open database exists, in memory and on disk.
OpenExists ==
  \A p \in Path : holder[p] # 0 => view[p] # Absent /\ disk[p] # Absent

\* What deconstruct leaves when main returns.
QuitClosedDb == done = "quit" /\ db # NULL => holder[db.path] = 0

\* The inductive invariant of the shell
IInv == TypeOK /\ DbIsLive /\ ClosedIsDurable /\ OpenExists /\ QuitClosedDb

\* It holds when the shell starts.
LEMMA InitIInv == Init => IInv
  BY BoundAssumption DEF Init, IInv, TypeOK, DbIsLive, ClosedIsDurable,
     OpenExists, QuitClosedDb

\* A database in use has contents to read, change and copy.
LEMMA OpenContent ==
  ASSUME IInv, done = "run", db # NULL
  PROVE  /\ db.path \in Path /\ db.gen \in 1 .. MaxOpens
         /\ holder[db.path] = db.gen /\ holder[db.path] # 0
         /\ view[db.path] \in Content
  BY BoundAssumption DEF IInv, TypeOK, DbIsLive, OpenExists, Live, Handle

\* A change of what the database in use holds, in memory.
LEMMA ViewChange ==
  ASSUME IInv, done = "run", db # NULL, NEW c \in Content,
         view' = [view EXCEPT ![db.path] = c],
         wr_batch' \in Content \cup {NULL},
         UNCHANGED <<db, cp, done, holder, disk, opens>>
  PROVE  IInv'
<1>1. /\ view' \in [Path -> Content \cup {Absent}]
      /\ \A p \in Path : holder[p] # 0 => view'[p] # Absent
      /\ \A p \in Path : holder[p] = 0 => view'[p] = view[p]
  BY ValueAssumption, OpenContent DEF IInv, TypeOK, OpenExists, Content
<1>. QED
  BY <1>1 DEF IInv, TypeOK, DbIsLive, ClosedIsDurable, OpenExists,
     QuitClosedDb, Live

\* Every command, kill and restart keeps it.
LEMMA NextIInv == IInv /\ [Next]_vars => IInv'
<1>. SUFFICES ASSUME IInv, [Next]_vars PROVE IInv'
  OBVIOUS
<1>. USE BoundAssumption
     DEF IInv, TypeOK, DbIsLive, ClosedIsDurable, OpenExists, QuitClosedDb,
         Live, is_open
<1>1. ASSUME done = "run", NEW path \in Path, open_db(path) PROVE IInv'
  <2>1. CASE rocksdb_open(path) /\ db' = [path |-> path, gen |-> opens + 1]
    <3>1. opens + 1 \in 1 .. MaxOpens /\ opens' = opens + 1
      BY <2>1 DEF rocksdb_open
    <3>2. db' \in Handle /\ db'.path = path /\ db'.gen = opens + 1
      BY <2>1, <3>1 DEF Handle
    <3>3. holder' = [holder EXCEPT ![path] = opens + 1] /\ holder[path] = 0
      BY <2>1 DEF rocksdb_open
    <3>4. Empty \in Content /\ Empty # Absent
      BY ValueAssumption DEF Empty, Content
    <3>5. \E c \in Content :
             /\ view' = [view EXCEPT ![path] = c]
             /\ disk' = [disk EXCEPT ![path] = c]
      BY <2>1, <3>3, <3>4, Zenon DEF rocksdb_open
    <3>6. cp' = cp /\ wr_batch' = wr_batch /\ done' = "run"
      BY <1>1 DEF open_db
    <3>. QED
      BY <3>1, <3>2, <3>3, <3>4, <3>5, <3>6, ValueAssumption DEF Content
  <2>2. CASE db' = NULL /\ UNCHANGED <<holder, view, disk, opens>>
    BY <1>1, <2>2 DEF open_db
  <2>. QED
    BY <1>1, <2>1, <2>2 DEF open_db
<1>2. ASSUME done = "run", close_db PROVE IInv'
  BY <1>2, OpenContent DEF close_db, rocksdb_close
<1>3. ASSUME done = "run", NEW key \in Key, handle_delete(key) PROVE IInv'
  <2>1. PICK c : c = [view[db.path] EXCEPT ![key] = None]
    BY Zenon
  <2>2. c \in Content /\ view' = [view EXCEPT ![db.path] = c]
    BY <1>3, <2>1, OpenContent DEF handle_delete, Content
  <2>. QED
    BY <1>3, <2>2, ViewChange, Zenon DEF handle_delete
<1>4. ASSUME done = "run", NEW key \in Key, NEW val \in Value,
             handle_write(key, val)
      PROVE  IInv'
  <2>1. CASE wr_batch # NULL
    <3>1. wr_batch' \in Content /\ view' = view
      BY <1>4, <2>1 DEF handle_write, Content
    <3>. QED
      BY <1>4, <3>1 DEF handle_write
  <2>2. CASE wr_batch = NULL
    <3>1. PICK c : c = [view[db.path] EXCEPT ![key] = val]
      BY Zenon
    <3>2. c \in Content /\ view' = [view EXCEPT ![db.path] = c]
      BY <1>4, <2>2, <3>1, OpenContent DEF handle_write, Content
    <3>. QED
      BY <1>4, <2>2, <3>2, ViewChange, Zenon DEF handle_write
  <2>. QED
    BY <2>1, <2>2
<1>5. ASSUME done = "run", NEW dir \in Path, handle_checkpoint(dir) PROVE IInv'
  <2>1. cp' \in Handle
    BY <1>5 DEF handle_checkpoint
  <2>2. CASE /\ disk[dir] = Absent
             /\ disk' = [disk EXCEPT ![dir] = disk[cp'.path]]
             /\ view' = [view EXCEPT ![dir] = disk[cp'.path]]
             /\ UNCHANGED done
    <3>1. disk[cp'.path] \in Content \cup {Absent} /\ holder[dir] = 0
      BY <2>1, <2>2 DEF Handle
    <3>. QED
      BY <1>5, <2>1, <2>2, <3>1 DEF handle_checkpoint
  <2>3. CASE UNCHANGED <<view, disk, done>>
    BY <1>5, <2>1, <2>3 DEF handle_checkpoint
  <2>4. CASE done' = "fault" /\ UNCHANGED <<view, disk>>
    BY <1>5, <2>1, <2>4 DEF handle_checkpoint
  <2>. QED
    BY <1>5, <2>2, <2>3, <2>4 DEF handle_checkpoint, rocksdb_checkpoint_create
<1>6. ASSUME done = "run", create_writebatch PROVE IInv'
  <2>1. Empty \in Content
    BY DEF Empty, Content
  <2>. QED
    BY <1>6, <2>1 DEF create_writebatch
<1>7. ASSUME done = "run", destroy_writebatch PROVE IInv'
  <2>1. CASE wr_batch # NULL /\ db # NULL /\ wr_batch' = NULL
    <3>1. PICK c : c = Put(view[db.path], wr_batch)
      OBVIOUS
    <3>2. c \in Content
      BY <1>7, <2>1, <3>1, OpenContent DEF Put, Content
    <3>. QED
      BY <1>7, <2>1, <3>1, <3>2, ViewChange DEF destroy_writebatch
  <2>2. CASE UNCHANGED <<db, cp, wr_batch, done, holder, view, disk, opens>>
    BY <1>7, <2>2
  <2>3. CASE Fault
    BY <2>3 DEF Fault
  <2>. QED
    BY <1>7, <2>1, <2>2, <2>3 DEF destroy_writebatch
<1>8. ASSUME done = "run", deconstruct PROVE IInv'
  <2>1. CASE db # NULL
    <3>1. /\ db.path \in Path /\ holder[db.path] # 0
          /\ view[db.path] \in Content /\ view[db.path] # Absent
      BY <1>8, <2>1, OpenContent, Zenon
    <3>2. /\ disk' = [disk EXCEPT ![db.path] = view[db.path]]
          /\ holder' = [holder EXCEPT ![db.path] = 0]
          /\ UNCHANGED <<db, cp, wr_batch, view, opens>> /\ done' = "quit"
      BY <1>8, <2>1, Zenon DEF deconstruct, rocksdb_close
    <3>. QED
      BY <3>1, <3>2
  <2>2. CASE db = NULL
    BY <1>8, <2>2 DEF deconstruct
  <2>. QED
    BY <2>1, <2>2
<1>9. ASSUME NEW path \in Path, Flush(path) PROVE IInv'
  BY <1>9 DEF Flush
<1>10. CASE Restart
  BY <1>10 DEF Restart
<1>11. CASE UNCHANGED vars
  BY <1>11 DEF vars
<1>. QED
  BY <1>1, <1>2, <1>3, <1>4, <1>5, <1>6, <1>7, <1>8, <1>9, <1>10, <1>11, Zenon
     DEF Next, execute_line

\* It holds in every state.
LEMMA Inductive == Spec => []IInv
  BY InitIInv, NextIInv, PTL DEF Spec

\* The shell's globals and the databases always have their types.
THEOREM TypeCorrect == Spec => []TypeOK
<1>1. IInv => TypeOK
  BY DEF IInv
<1>. QED
  BY <1>1, Inductive, PTL

\* rocks.db is never a closed handle, so is_open() guards every command.
THEOREM DbNeverDangles == Spec => []DbIsLive
<1>1. IInv => DbIsLive
  BY DEF IInv
<1>. QED
  BY <1>1, Inductive, PTL

\* Whatever the session, what close_db closed is on disk.
THEOREM ClosedAlwaysDurable == Spec => []ClosedIsDurable
<1>1. IInv => ClosedIsDurable
  BY DEF IInv
<1>. QED
  BY <1>1, Inductive, PTL

\* A database that was open, and not displaced by another open_db, when the
\* user quit answers every read as before in the next session.
THEOREM QuitLosesNothing == Spec => QuitKeepsWrites
<1>1. IInv /\ done = "quit" /\ Restart =>
        \A p \in Path : view[p] # Absent /\ ~Displaced(p) =>
          \A k \in Key : handle_read(p, k)' = handle_read(p, k)
  BY DEF IInv, ClosedIsDurable, QuitClosedDb, Displaced, handle_read, Restart
<1>2. IInv /\ [Next]_vars =>
        [done = "quit" /\ Restart =>
           \A p \in Path : view[p] # Absent /\ ~Displaced(p) =>
             \A k \in Key : handle_read(p, k)' = handle_read(p, k)]_vars
  BY <1>1
<1>. QED
  BY <1>2, Inductive, PTL DEF Spec, QuitKeepsWrites
\* A careful session does not open a database once it has made a checkpoint
\* object: the object is that of the database in use.
CInv ==
  careful => /\ done # "fault"
             /\ done = "run" /\ cp # NULL /\ db # NULL => cp = db

\* A careful session keeps the checkpoint object to the database in use.
LEMMA NextCInv == IInv /\ CInv /\ [Next]_vars => CInv'
<1>. SUFFICES ASSUME IInv, CInv, [Next]_vars PROVE CInv'
  OBVIOUS
<1>. USE DEF CInv, Keeps
<1>1. ASSUME done = "run", NEW path \in Path, open_db(path),
             Keeps(db = NULL /\ cp = NULL)
      PROVE  CInv'
  BY <1>1, Zenon DEF open_db
<1>2. ASSUME done = "run", NEW dir \in Path, handle_checkpoint(dir),
             Keeps(TRUE), careful
      PROVE  CInv'
  <2>1. cp' = db /\ db' = db /\ db # NULL
    BY <1>2 DEF handle_checkpoint, is_open
  <2>2. Live(cp')
    BY <1>2, <2>1 DEF IInv, DbIsLive, Live
  <2>3. done' = done
    BY <1>2, <2>2 DEF handle_checkpoint, rocksdb_checkpoint_create
  <2>. QED
    BY <1>2, <2>1, <2>3
<1>3. ASSUME done = "run", Keeps(TRUE),
             \E key \in Key : \/ handle_delete(key)
                             \/ \E val \in Value : handle_write(key, val)
      PROVE  CInv'
  BY <1>3, Zenon DEF handle_delete, handle_write
<1>4. ASSUME done = "run", Keeps(wr_batch = NULL),
             close_db \/ create_writebatch \/ deconstruct
      PROVE  CInv'
  BY <1>4, Zenon DEF close_db, create_writebatch, deconstruct
<1>5. ASSUME done = "run", destroy_writebatch, Keeps(is_open)
      PROVE  CInv'
  BY <1>5, Zenon DEF destroy_writebatch, Fault, is_open
<1>6. ASSUME NEW path \in Path, Flush(path) PROVE CInv'
  BY <1>6 DEF Flush
<1>7. CASE Restart
  BY <1>7 DEF Restart
<1>8. CASE UNCHANGED vars
  BY <1>8 DEF vars
<1>9. ASSUME done = "run", NEW dir \in Path, handle_checkpoint(dir),
             Keeps(TRUE), ~careful
      PROVE  CInv'
  BY <1>9, Zenon
<1>. QED
  BY <1>1, <1>2, <1>3, <1>4, <1>5, <1>6, <1>7, <1>8, <1>9, Zenon
     DEF Next, execute_line

\* A user who closes a database before opening another, opens none once
\* rocks.cp exists and commits a batch while a database is open never makes
\* handle_checkpoint or destroy_writebatch use a freed or a null handle.
THEOREM CarefulIsSafe == Spec => []CarefulNeverFaults
<1>1. Init => CInv
  BY DEF Init, CInv
<1>2. CInv => CarefulNeverFaults
  BY DEF CInv, CarefulNeverFaults
<1>. QED
  BY <1>1, <1>2, NextCInv, Inductive, PTL DEF Spec
-----------------------------------------------------------------------------
(***************************************************************************)
(* The counters of the UDP receiver.                                       *)
(***************************************************************************)
ReceiverTypeOK ==
  /\ t \in Thread /\ spawned \in Nat
  /\ socket \in [Thread -> Seq(Lengths)]
  /\ at \in [Thread -> {"recv", "add_pps", "add_bps"}]
  /\ r \in [Thread -> Nat] /\ bytes \in [Thread -> Nat]
  /\ pps \in [Thread -> Nat] /\ bps \in [Thread -> Nat]
  /\ taken \in Nat /\ takenBytes \in Nat

\* No packet and no byte is forgotten or counted twice.
Counted ==
  /\ Sum(pps) + Sum(Uncounted) = taken
  /\ Sum(bps) + Sum(UncountedBytes) = takenBytes

(***************************************************************************)
(* A sample: the counters c of the threads have only grown since the last  *)
(* one, L, whose sum is `last', and `now' is the sum of the values N that  *)
(* the counters of the threads in S had when they were loaded.             *)
(***************************************************************************)
Below(f, g, S) == \A i \in S : f[i] <= g[i]

\* The sum main took last is that of values the counters have passed.
LastSample(c, last) ==
  \E L \in [Thread -> Nat] :
    SumFunctionOnSet(L, Thread) = last /\ Below(L, c, Thread)

\* The sum main is taking is that of values between those and the present.
Sampling(c, last, now_, S) ==
  \E L, N \in [Thread -> Nat] :
    /\ SumFunctionOnSet(L, Thread) = last /\ Below(L, c, Thread)
    /\ SumFunctionOnSet(N, S) = now_ /\ Below(L, N, S) /\ Below(N, c, S)

\* The threads whose packet counter main has loaded in this second
PpsLoaded == IF main = "load_pps" THEN 1 .. t - 1
             ELSE IF main = "load_bps" THEN 1 .. t ELSE Thread
BpsLoaded == IF main = "print" THEN Thread ELSE 1 .. t - 1

\* main is between two calls of select.
InSample == main \in {"load_pps", "load_bps", "print"}

\* Both counters
Samples ==
  /\ LastSample(pps, last_pps) /\ LastSample(bps, last_bps)
  /\ InSample => /\ Sampling(pps, last_pps, now_pps, PpsLoaded)
                 /\ Sampling(bps, last_bps, now_bps, BpsLoaded)
  /\ main \in {"select", "print"} => t = 1

\* The inductive invariant of the receiver
RInv == ReceiverTypeOK /\ Counted /\ (Alive => Samples)

\* There are finitely many threads.
LEMMA ThreadFinite ==
  IsFiniteSet(Thread) /\ \A S \in SUBSET Thread : IsFiniteSet(S)
<1>1. IsFiniteSet(Thread)
  BY FS_Interval, ReceiverAssumption DEF Thread
<1>. QED
  BY <1>1, FS_Subset

\* The threads up to one, and those before it.
LEMMA ThreadsUpTo ==
  ASSUME NEW k \in Thread
  PROVE  /\ 1 .. k = (1 .. k - 1) \cup {k} /\ k \notin 1 .. k - 1
         /\ 1 .. k - 1 \in SUBSET Thread /\ 1 .. k \in SUBSET Thread
  BY ReceiverAssumption DEF Thread

\* The counters of any of them can be summed.
LEMMA CountersSummable ==
  ASSUME NEW f \in [Thread -> Nat], NEW S \in SUBSET Thread
  PROVE  Summable(f, S) /\ SumFunctionOnSet(f, S) \in Nat
<1>1. IsFiniteSet(S) /\ \A x \in S : f[x] \in Nat
  BY ThreadFinite
<1>. QED
  BY <1>1, SumNat DEF Summable

\* Sum is the sum over the threads.
LEMMA SumOfCounters ==
  ASSUME NEW f \in [Thread -> Nat]
  PROVE  Sum(f) = SumFunctionOnSet(f, Thread) /\ Sum(f) \in Nat
<1>1. DOMAIN f = Thread
  OBVIOUS
<1>2. Sum(f) = SumFunctionOnSet(f, Thread)
  BY <1>1 DEF Sum, SumFunction
<1>. QED
  BY <1>2, CountersSummable

\* Counters that go on growing keep a sample that has been started.
LEMMA SampleGrows ==
  ASSUME NEW c \in [Thread -> Nat], NEW d \in [Thread -> Nat],
         Below(c, d, Thread), NEW last, NEW n, NEW S \in SUBSET Thread
  PROVE  /\ LastSample(c, last) => LastSample(d, last)
         /\ Sampling(c, last, n, S) => Sampling(d, last, n, S)
<1>1. \A f \in [Thread -> Nat], T \in SUBSET Thread :
        Below(f, c, T) => Below(f, d, T)
  BY DEF Below
<1>. QED
  BY <1>1 DEF LastSample, Sampling

\* A sample with no counter loaded yet
LEMMA SampleStarts ==
  ASSUME NEW c \in [Thread -> Nat], NEW last, LastSample(c, last)
  PROVE  Sampling(c, last, 0, {})
<1>1. PICK L \in [Thread -> Nat] :
        SumFunctionOnSet(L, Thread) = last /\ Below(L, c, Thread)
  BY DEF LastSample
<1>2. SumFunctionOnSet(L, {}) = 0
  BY SumUnfolds, FS_EmptySet
<1>. QED
  BY <1>1, <1>2 DEF Sampling, Below

\* Loading one more counter
LEMMA SampleLoads ==
  ASSUME NEW c \in [Thread -> Nat], NEW last, NEW n, NEW S \in SUBSET Thread,
         Sampling(c, last, n, S), NEW i \in Thread, i \notin S
  PROVE  Sampling(c, last, n + c[i], S \cup {i})
<1>1. PICK L \in [Thread -> Nat], N \in [Thread -> Nat] :
        /\ SumFunctionOnSet(L, Thread) = last /\ Below(L, c, Thread)
        /\ SumFunctionOnSet(N, S) = n /\ Below(L, N, S) /\ Below(N, c, S)
  BY DEF Sampling
<1>. DEFINE M == [N EXCEPT ![i] = c[i]]
            T == S \cup {i}
<1>2. /\ M \in [Thread -> Nat] /\ M[i] = c[i] /\ T \in SUBSET Thread /\ i \in T
      /\ T \ {i} = S /\ Agree(M, N, S)
  BY DEF Agree
<1>3. Below(L, M, T) /\ Below(M, c, T)
  BY <1>1, <1>2 DEF Below
<1>. HIDE DEF M, T
<1>4. SumFunctionOnSet(M, T) = M[i] + SumFunctionOnSet(M, T \ {i})
  BY <1>2, SumTakeOut, CountersSummable
<1>5. SumFunctionOnSet(M, S) = n
  BY <1>1, <1>2, SumAgrees, ThreadFinite
<1>6. n \in Nat /\ c[i] \in Nat
  BY <1>1, CountersSummable
<1>7. SumFunctionOnSet(M, T) = n + c[i]
  <2>1. SumFunctionOnSet(M, T) = c[i] + n
    BY <1>2, <1>4, <1>5, Zenon
  <2>. QED
    BY <2>1, <1>6
<1>8. Sampling(c, last, n + c[i], T)
  BY <1>1, <1>2, <1>3, <1>7 DEF Sampling
<1>. QED
  BY <1>8 DEF T

\* A sample of all threads is between the last one and what is counted now.
LEMMA SampleEnds ==
  ASSUME NEW c \in [Thread -> Nat], NEW last, NEW n,
         Sampling(c, last, n, Thread)
  PROVE  n \in Nat /\ last <= n /\ n <= Sum(c) /\ LastSample(c, n)
<1>1. PICK L \in [Thread -> Nat], N \in [Thread -> Nat] :
        /\ SumFunctionOnSet(L, Thread) = last /\ Below(L, c, Thread)
        /\ SumFunctionOnSet(N, Thread) = n /\ Below(L, N, Thread)
        /\ Below(N, c, Thread)
  BY DEF Sampling
<1>2. Summable(L, Thread) /\ Summable(N, Thread) /\ Summable(c, Thread)
  BY CountersSummable
<1>3. last <= n
  BY <1>1, <1>2, SumMonotone DEF Below
<1>4. n <= Sum(c)
  BY <1>1, <1>2, SumMonotone, SumOfCounters DEF Below
<1>. QED
  BY <1>1, <1>3, <1>4, CountersSummable DEF LastSample
-----------------------------------------------------------------------------
LEMMA ReceiverInitRInv == ReceiverInit => RInv
<1>. SUFFICES ASSUME ReceiverInit PROVE RInv
  OBVIOUS
<1>1. ThreadZero \in [Thread -> Nat] /\ Below(ThreadZero, ThreadZero, Thread)
  BY DEF ThreadZero, Below
<1>2. SumFunctionOnSet(ThreadZero, Thread) = 0
  BY SumOfZeros, ThreadFinite DEF ThreadZero
<1>3. Sum(ThreadZero) = 0
  BY <1>1, <1>2, SumOfCounters
<1>4. Uncounted = ThreadZero /\ UncountedBytes = ThreadZero
  BY DEF ReceiverInit, Uncounted, UncountedBytes, ThreadZero
<1>5. Counted
  BY <1>3, <1>4 DEF ReceiverInit, Counted
<1>6. Samples
  BY <1>1, <1>2 DEF ReceiverInit, Samples, InSample, LastSample
<1>7. ReceiverTypeOK
  BY <1>1, ReceiverAssumption DEF ReceiverInit, ReceiverTypeOK, Thread
<1>. QED
  BY <1>5, <1>6, <1>7 DEF RInv

\* Main only reads the counters.
LEMMA MainKeeps ==
  ASSUME RInv, Alive, Main PROVE RInv'
<1>. USE DEF startup, network, threads, sums
<1>1. /\ UNCHANGED <<socket, taken, takenBytes, at, r, bytes, pps, bps>>
      /\ t' \in Thread /\ spawned' \in Nat
  <2>1. t \in Thread /\ spawned \in Nat /\ thread_num \in Nat \ {0}
    BY ReceiverAssumption DEF RInv, ReceiverTypeOK
  <2>2. /\ UNCHANGED <<socket, taken, takenBytes, at, r, bytes, pps, bps>>
        /\ t' \in {t, 1} \/ (t < thread_num /\ t' = t + 1)
        /\ spawned' \in {spawned, spawned + 1}
    <3>1. CASE \E host \in Host : parse_addr(host)
      BY <3>1 DEF parse_addr
    <3>2. CASE net_bind_udp \/ state_init \/ thread_spawn
      BY <3>2 DEF net_bind_udp, state_init, thread_spawn
    <3>3. CASE select \/ load_pps \/ load_bps \/ print
      BY <3>3 DEF select, load_pps, load_bps, print
    <3>. QED
      BY <3>1, <3>2, <3>3 DEF Main
  <2>. QED
    BY <2>1, <2>2 DEF Thread
<1>2. ReceiverTypeOK' /\ Counted'
  BY <1>1 DEF RInv, ReceiverTypeOK, Counted, Uncounted, UncountedBytes
<1>3. /\ t \in Thread /\ pps \in [Thread -> Nat] /\ bps \in [Thread -> Nat]
      /\ Samples /\ thread_num \in Nat \ {0}
  BY ReceiverAssumption DEF RInv, ReceiverTypeOK
<1>4. CASE (\E host \in Host : parse_addr(host)) \/ net_bind_udp \/ state_init
             \/ thread_spawn
  <2>1. UNCHANGED sums /\ ~ InSample' /\ (main' = "select" => t' = 1)
    BY <1>4 DEF parse_addr, net_bind_udp, state_init, thread_spawn, InSample
  <2>2. main' # "print"
    BY <2>1 DEF InSample
  <2>. QED
    BY <1>1, <1>2, <1>3, <2>1, <2>2 DEF RInv, Samples
<1>5. CASE select
  <2>1. /\ main' = "load_pps" /\ t' = 1 /\ now_pps' = 0 /\ now_bps' = 0
        /\ last_pps' = last_pps /\ last_bps' = last_bps
    BY <1>3, <1>5 DEF select, Samples
  <2>2. PpsLoaded' = {} /\ BpsLoaded' = {}
    BY <2>1 DEF PpsLoaded, BpsLoaded
  <2>3. Sampling(pps, last_pps, 0, {}) /\ Sampling(bps, last_bps, 0, {})
    BY <1>3, SampleStarts DEF Samples
  <2>. QED
    BY <1>1, <1>2, <1>3, <2>1, <2>2, <2>3 DEF RInv, Samples
<1>6. CASE load_pps
  <2>1. /\ main = "load_pps" /\ main' = "load_bps" /\ t' = t
        /\ now_pps' = now_pps + pps[t] /\ now_bps' = now_bps
        /\ last_pps' = last_pps /\ last_bps' = last_bps
    BY <1>6 DEF load_pps
  <2>2. /\ PpsLoaded = 1 .. t - 1 /\ PpsLoaded' = PpsLoaded \cup {t}
        /\ t \notin PpsLoaded /\ PpsLoaded \in SUBSET Thread
        /\ BpsLoaded' = BpsLoaded
    BY <1>3, <2>1 DEF PpsLoaded, BpsLoaded, Thread
  <2>3. Sampling(pps, last_pps, now_pps + pps[t], PpsLoaded \cup {t})
    BY <1>3, <2>1, <2>2, SampleLoads, Zenon DEF Samples, InSample
  <2>4. Sampling(pps', last_pps', now_pps', PpsLoaded')
    BY <1>1, <2>1, <2>2, <2>3, Zenon
  <2>5. Sampling(bps', last_bps', now_bps', BpsLoaded')
    BY <1>1, <1>3, <2>1, <2>2 DEF Samples, InSample
  <2>. QED
    BY <1>1, <1>2, <1>3, <2>1, <2>4, <2>5 DEF RInv, Samples
<1>7. CASE load_bps
  <2>1. /\ main = "load_bps" /\ now_bps' = now_bps + bps[t]
        /\ \/ t < thread_num /\ main' = "load_pps" /\ t' = t + 1
           \/ ~ (t < thread_num) /\ main' = "print" /\ t' = 1
        /\ now_pps' = now_pps /\ last_pps' = last_pps /\ last_bps' = last_bps
    BY <1>7 DEF load_bps
  <2>2. /\ BpsLoaded = 1 .. t - 1 /\ BpsLoaded' = BpsLoaded \cup {t}
        /\ t \notin BpsLoaded /\ BpsLoaded \in SUBSET Thread
        /\ PpsLoaded' = PpsLoaded
    <3>1. CASE t < thread_num
      <4>1. t' - 1 = t /\ main' = "load_pps"
        BY <1>3, <2>1, <3>1 DEF Thread
      <4>2. PpsLoaded' = 1 .. t /\ BpsLoaded' = 1 .. t
        BY <4>1 DEF PpsLoaded, BpsLoaded
      <4>3. PpsLoaded = 1 .. t /\ BpsLoaded = 1 .. t - 1
        BY <2>1 DEF PpsLoaded, BpsLoaded
      <4>. QED
        BY <1>3, <4>2, <4>3, ThreadsUpTo, Zenon
    <3>2. CASE ~ (t < thread_num)
      <4>1. t = thread_num /\ main' = "print"
        BY <1>3, <2>1, <3>2 DEF Thread
      <4>2. PpsLoaded' = 1 .. t /\ BpsLoaded' = 1 .. t
        BY <4>1 DEF PpsLoaded, BpsLoaded, Thread
      <4>3. PpsLoaded = 1 .. t /\ BpsLoaded = 1 .. t - 1
        BY <2>1 DEF PpsLoaded, BpsLoaded
      <4>. QED
        BY <1>3, <4>2, <4>3, ThreadsUpTo, Zenon
    <3>. QED
      BY <3>1, <3>2
  <2>3. Sampling(bps, last_bps, now_bps + bps[t], BpsLoaded \cup {t})
    BY <1>3, <2>1, <2>2, SampleLoads, Zenon DEF Samples, InSample
  <2>4. Sampling(bps', last_bps', now_bps', BpsLoaded')
    BY <1>1, <2>1, <2>2, <2>3, Zenon
  <2>5. Sampling(pps', last_pps', now_pps', PpsLoaded')
    BY <1>1, <1>3, <2>1, <2>2 DEF Samples, InSample
  <2>. QED
    BY <1>1, <1>2, <1>3, <2>1, <2>4, <2>5 DEF RInv, Samples
<1>8. CASE print
  <2>1. /\ main = "print" /\ main' = "select" /\ t' = t
        /\ last_pps' = now_pps /\ last_bps' = now_bps
    BY <1>8 DEF print
  <2>2. PpsLoaded = Thread /\ BpsLoaded = Thread
    BY <2>1 DEF PpsLoaded, BpsLoaded
  <2>3. LastSample(pps, now_pps) /\ LastSample(bps, now_bps)
    BY <1>3, <2>1, <2>2, SampleEnds DEF Samples, InSample
  <2>. QED
    BY <1>1, <1>2, <1>3, <2>1, <2>3 DEF RInv, Samples, InSample
<1>. QED
  BY <1>4, <1>5, <1>6, <1>7, <1>8 DEF Main

\* A batch and what it leaves are datagrams, with lengths that add up.
LEMMA BatchSums ==
  ASSUME NEW s \in Seq(Lengths), NEW n \in 0 .. Len(s)
  PROVE  /\ SubSeq(s, 1, n) \in Seq(Lengths) /\ Sum(SubSeq(s, 1, n)) \in Nat
         /\ SubSeq(s, n + 1, Len(s)) \in Seq(Lengths)
<1>1. \A i \in 1 .. Len(s) : s[i] \in Lengths
  OBVIOUS
<1>2. Len(s) \in Nat
  OBVIOUS
<1>3. SubSeq(s, 1, n) \in Seq(Lengths) /\ Len(SubSeq(s, 1, n)) = n
  BY <1>1, <1>2
<1>4. SubSeq(s, n + 1, Len(s)) \in Seq(Lengths)
  BY <1>1, <1>2
<1>5. PICK b \in Seq(Lengths) : b = SubSeq(s, 1, n) /\ Len(b) = n
  BY <1>3, Zenon
<1>6. DOMAIN b = 1 .. n /\ \A i \in 1 .. n : b[i] \in Nat
  <2>1. DOMAIN b = 1 .. Len(b)
    OBVIOUS
  <2>2. \A i \in 1 .. Len(b) : b[i] \in Lengths
    OBVIOUS
  <2>. QED
    BY <1>5, <2>1, <2>2, ReceiverAssumption, Zenon
<1>7. IsFiniteSet(1 .. n)
  BY FS_Interval
<1>8. Sum(b) \in Nat
  BY <1>6, <1>7, SumNat DEF Sum, SumFunction
<1>. QED
  BY <1>3, <1>4, <1>5, <1>8

\* One counter of a table changes: so does the sum.
LEMMA SumOfUpdated ==
  ASSUME NEW f \in [Thread -> Nat], NEW g \in [Thread -> Nat],
         NEW i \in Thread, DifferAt(f, g, Thread, i)
  PROVE  Sum(g) = Sum(f) - f[i] + g[i]
<1>1. /\ Summable(f, Thread) /\ Summable(g, Thread)
      /\ Sum(f) = SumFunctionOnSet(f, Thread)
      /\ Sum(g) = SumFunctionOnSet(g, Thread)
  BY CountersSummable, SumOfCounters
<1>. QED
  BY <1>1, SumUpdate

\* What is not counted yet is a number for each thread.
LEMMA UncountedType ==
  ReceiverTypeOK => /\ Uncounted \in [Thread -> Nat]
                    /\ UncountedBytes \in [Thread -> Nat]
  BY DEF ReceiverTypeOK, Uncounted, UncountedBytes

\* main's sample is not disturbed by a counter that grows.
LEMMA SamplesKept ==
  ASSUME RInv, UNCHANGED <<main, t, sums>>,
         pps' \in [Thread -> Nat], bps' \in [Thread -> Nat],
         Below(pps, pps', Thread), Below(bps, bps', Thread)
  PROVE  (Alive => Samples)'
<1>. SUFFICES ASSUME Alive' PROVE Samples'
  OBVIOUS
<1>1. /\ Samples /\ t \in Thread
      /\ pps \in [Thread -> Nat] /\ bps \in [Thread -> Nat]
  BY DEF Alive, RInv, ReceiverTypeOK
<1>2. /\ PpsLoaded' = PpsLoaded /\ BpsLoaded' = BpsLoaded
      /\ PpsLoaded \in SUBSET Thread /\ BpsLoaded \in SUBSET Thread
  <2>1. /\ PpsLoaded \in {1 .. t - 1, 1 .. t, Thread}
        /\ BpsLoaded \in {1 .. t - 1, Thread}
    BY Zenon DEF PpsLoaded, BpsLoaded
  <2>2. /\ 1 .. t - 1 \in SUBSET Thread /\ 1 .. t \in SUBSET Thread
        /\ Thread \in SUBSET Thread
    BY <1>1, ThreadsUpTo, Zenon
  <2>3. PpsLoaded' = PpsLoaded /\ BpsLoaded' = BpsLoaded
    BY DEF PpsLoaded, BpsLoaded
  <2>. QED
    BY <2>1, <2>2, <2>3, Zenon
<1>3. LastSample(pps', last_pps) /\ LastSample(bps', last_bps)
  BY <1>1, SampleGrows DEF Samples
<1>4. InSample => /\ Sampling(pps', last_pps, now_pps, PpsLoaded)
                  /\ Sampling(bps', last_bps, now_bps, BpsLoaded)
  BY <1>1, <1>2, SampleGrows DEF Samples
<1>. QED
  BY <1>1, <1>2, <1>3, <1>4 DEF Samples, InSample, sums

\* A counter to which n is added
LEMMA CounterGrows ==
  ASSUME NEW f \in [Thread -> Nat], NEW i \in Thread, NEW n \in Nat,
         NEW g, g = [f EXCEPT ![i] = @ + n]
  PROVE  /\ g \in [Thread -> Nat] /\ g[i] = f[i] + n /\ f[i] \in Nat
         /\ DifferAt(f, g, Thread, i) /\ Below(f, g, Thread)
<1>1. /\ g \in [Thread -> Nat] /\ g[i] = f[i] + n
      /\ \A j \in Thread \ {i} : g[j] = f[j]
  OBVIOUS
<1>2. \A j \in Thread : f[j] \in Nat /\ f[j] <= g[j]
  BY <1>1
<1>. QED
  BY <1>1, <1>2, Zenon DEF DifferAt, Below

\* What is counted and what is still to be counted, when n of them are added
\* to a counter that had c.
SameTotal(p, u, c, n) == (p - c + (c + n)) + (u - n + 0) = p + u

\* Counting moves a number from one sum to the other.
LEMMA MoreCounted ==
  ASSUME NEW p \in Nat, NEW u \in Nat, NEW c \in Nat, NEW n \in Nat
  PROVE  SameTotal(p, u, c, n)
  BY DEF SameTotal

\* A counter that did not change is not below itself.
LEMMA SameIsBelow == \A f \in [Thread -> Nat] : Below(f, f, Thread)
  BY DEF Below

\* What recvmmsg returns is in the batch of the thread, still to be counted.
LEMMA RecvmmsgKeeps ==
  ASSUME RInv, NEW i \in Thread, recvmmsg(i) PROVE RInv'
<1>1. PICK k \in Thread : k = fd(i)
  BY ReceiverAssumption DEF fd, Thread
<1>2. PICK q \in Seq(Lengths) : q = socket[k]
  BY DEF RInv, ReceiverTypeOK
<1>3. PICK n : n = Min({MAX_MSG, Len(q)})
  OBVIOUS
<1>4. n \in {MAX_MSG, Len(q)} /\ n <= MAX_MSG /\ n <= Len(q)
  <2>1. MAX_MSG \in Nat /\ Len(q) \in Nat
    BY ReceiverAssumption
  <2>2. \E x \in {MAX_MSG, Len(q)} : \A y \in {MAX_MSG, Len(q)} : x <= y
    BY <2>1
  <2>. QED
    BY <1>3, <2>2 DEF Min
<1>5. n \in 0 .. Len(q) /\ n \in Nat
  BY <1>4, ReceiverAssumption
<1>6. PICK b \in Nat, rest \in Seq(Lengths) :
        b = Sum(SubSeq(q, 1, n)) /\ rest = SubSeq(q, n + 1, Len(q))
  BY <1>5, BatchSums, Zenon
<1>7. /\ at[i] = "recv" /\ at' = [at EXCEPT ![i] = "add_pps"]
      /\ socket' = [socket EXCEPT ![k] = rest]
      /\ r' = [r EXCEPT ![i] = n] /\ bytes' = [bytes EXCEPT ![i] = b]
      /\ taken' = taken + n /\ takenBytes' = takenBytes + b
      /\ UNCHANGED <<main, startup, arrivals, pps, bps, t, sums>>
  BY <1>1, <1>2, <1>3, <1>6, Zenon DEF recvmmsg
<1>8. ReceiverTypeOK'
  <2>1. /\ socket' \in [Thread -> Seq(Lengths)]
        /\ at' \in [Thread -> {"recv", "add_pps", "add_bps"}]
    BY <1>7, Zenon DEF RInv, ReceiverTypeOK
  <2>2. r' \in [Thread -> Nat] /\ bytes' \in [Thread -> Nat]
    BY <1>5, <1>7, Zenon DEF RInv, ReceiverTypeOK
  <2>3. /\ t' \in Thread /\ spawned' \in Nat
        /\ pps' \in [Thread -> Nat] /\ bps' \in [Thread -> Nat]
    <3>1. t' = t /\ spawned' = spawned /\ pps' = pps /\ bps' = bps
      BY <1>7, Zenon DEF startup
    <3>. QED
      BY <3>1, Zenon DEF RInv, ReceiverTypeOK
  <2>4. taken' \in Nat /\ takenBytes' \in Nat
    <3>1. /\ taken \in Nat /\ takenBytes \in Nat
          /\ taken' = taken + n /\ takenBytes' = takenBytes + b
      BY <1>7, Zenon DEF RInv, ReceiverTypeOK
    <3>. QED
      BY <1>5, <3>1
  <2>. QED
    BY <2>1, <2>2, <2>3, <2>4, Zenon DEF ReceiverTypeOK
<1>9. /\ Uncounted \in [Thread -> Nat] /\ UncountedBytes \in [Thread -> Nat]
      /\ Uncounted' \in [Thread -> Nat] /\ UncountedBytes' \in [Thread -> Nat]
  <2>1. Uncounted' \in [Thread -> Nat] /\ UncountedBytes' \in [Thread -> Nat]
    BY <1>8, Zenon DEF Uncounted, UncountedBytes, ReceiverTypeOK
  <2>. QED
    BY <2>1, UncountedType DEF RInv
<1>10. /\ Uncounted[i] = 0 /\ UncountedBytes[i] = 0
       /\ Uncounted'[i] = n /\ UncountedBytes'[i] = b
       /\ DifferAt(Uncounted, Uncounted', Thread, i)
       /\ DifferAt(UncountedBytes, UncountedBytes', Thread, i)
  BY <1>7 DEF Uncounted, UncountedBytes, DifferAt, RInv, ReceiverTypeOK
<1>11. /\ Sum(Uncounted') = Sum(Uncounted) - 0 + n
       /\ Sum(UncountedBytes') = Sum(UncountedBytes) - 0 + b
  <2>1. Sum(Uncounted') = Sum(Uncounted) - Uncounted[i] + Uncounted'[i]
    BY <1>9, <1>10, SumOfUpdated, Zenon
  <2>2. Sum(UncountedBytes')
          = Sum(UncountedBytes) - UncountedBytes[i] + UncountedBytes'[i]
    BY <1>9, <1>10, SumOfUpdated, Zenon
  <2>. QED
    BY <1>10, <2>1, <2>2
<1>12. /\ Sum(pps) \in Nat /\ Sum(bps) \in Nat /\ Sum(Uncounted) \in Nat
       /\ Sum(UncountedBytes) \in Nat /\ pps' = pps /\ bps' = bps
  BY <1>7, <1>9, SumOfCounters, Zenon DEF RInv, ReceiverTypeOK
<1>13. Counted'
  <2>1. /\ Sum(pps) + Sum(Uncounted) = taken
        /\ Sum(bps) + Sum(UncountedBytes) = takenBytes
        /\ taken' = taken + n /\ takenBytes' = takenBytes + b
    BY <1>7, Zenon DEF RInv, Counted
  <2>2. /\ Sum(pps) + Sum(Uncounted') = taken'
        /\ Sum(bps) + Sum(UncountedBytes') = takenBytes'
    <3>1. /\ Sum(pps) + (Sum(Uncounted) - 0 + n) = (Sum(pps) + Sum(Uncounted)) + n
          /\ Sum(bps) + (Sum(UncountedBytes) - 0 + b)
               = (Sum(bps) + Sum(UncountedBytes)) + b
      <4>1. /\ Sum(pps) \in Nat /\ Sum(bps) \in Nat /\ n \in Nat /\ b \in Nat
            /\ Sum(Uncounted) \in Nat /\ Sum(UncountedBytes) \in Nat
        BY <1>5, <1>12, Zenon
      <4>. QED
        BY <4>1
    <3>. QED
      BY <1>11, <2>1, <3>1, Zenon
  <2>. QED
    BY <1>12, <2>2, Zenon DEF Counted
<1>14. (Alive => Samples)'
  BY <1>7, <1>8, <1>12, SameIsBelow, SamplesKept, Zenon DEF RInv, ReceiverTypeOK
<1>. QED
  BY <1>8, <1>13, <1>14 DEF RInv

\* A thread counts the packets of its batch.
LEMMA AddPpsKeeps ==
  ASSUME RInv, NEW i \in Thread, add_pps(i) PROVE RInv'
<1>1. /\ at[i] = "add_pps" /\ at' = [at EXCEPT ![i] = "add_bps"]
      /\ pps' = [pps EXCEPT ![i] = @ + r[i]]
      /\ UNCHANGED <<main, startup, network, r, bytes, bps, t, sums>>
  BY Zenon DEF add_pps
<1>2. /\ pps \in [Thread -> Nat] /\ bps \in [Thread -> Nat] /\ ReceiverTypeOK
      /\ r \in [Thread -> Nat]
  BY Zenon DEF RInv, ReceiverTypeOK
<1>3. r[i] \in Nat
  BY <1>2
<1>4. /\ pps' \in [Thread -> Nat] /\ pps'[i] = pps[i] + r[i] /\ pps[i] \in Nat
      /\ DifferAt(pps, pps', Thread, i) /\ Below(pps, pps', Thread)
      /\ Below(bps, bps', Thread) /\ bps' = bps
  BY <1>1, <1>2, <1>3, CounterGrows, SameIsBelow, Zenon
<1>5. ReceiverTypeOK'
  <2>1. at' \in [Thread -> {"recv", "add_pps", "add_bps"}]
    BY <1>1, <1>2 DEF ReceiverTypeOK
  <2>. QED
    BY <1>1, <1>2, <1>4, <2>1, Zenon DEF ReceiverTypeOK, startup, network
<1>6. Uncounted \in [Thread -> Nat] /\ Uncounted' \in [Thread -> Nat]
  <2>1. Uncounted' \in [Thread -> Nat]
    BY <1>5 DEF Uncounted, ReceiverTypeOK
  <2>. QED
    BY <1>2, <2>1, UncountedType, Zenon
<1>7. /\ Uncounted[i] = r[i] /\ Uncounted'[i] = 0
      /\ DifferAt(Uncounted, Uncounted', Thread, i)
  BY <1>1, <1>2 DEF Uncounted, DifferAt, ReceiverTypeOK
<1>8. UncountedBytes' = UncountedBytes
  BY <1>1, <1>2 DEF UncountedBytes, ReceiverTypeOK
<1>9. /\ Sum(Uncounted') = Sum(Uncounted) - r[i] + 0
      /\ Sum(pps') = Sum(pps) - pps[i] + (pps[i] + r[i])
  <2>1. Sum(Uncounted') = Sum(Uncounted) - Uncounted[i] + Uncounted'[i]
    BY <1>6, <1>7, SumOfUpdated, Zenon
  <2>2. Sum(pps') = Sum(pps) - pps[i] + pps'[i]
    BY <1>2, <1>4, SumOfUpdated, Zenon
  <2>. QED
    BY <1>4, <1>7, <2>1, <2>2, Zenon
<1>10. Sum(pps) \in Nat /\ Sum(Uncounted) \in Nat
  BY <1>2, <1>6, SumOfCounters, Zenon
<1>11. Sum(pps') + Sum(Uncounted') = Sum(pps) + Sum(Uncounted)
  <2>1. (Sum(pps) - pps[i] + (pps[i] + r[i])) + (Sum(Uncounted) - r[i] + 0)
          = Sum(pps) + Sum(Uncounted)
    <3>1. /\ pps[i] \in Nat /\ r[i] \in Nat
          /\ Sum(pps) \in Nat /\ Sum(Uncounted) \in Nat
      BY <1>3, <1>4, <1>10, Zenon
    <3>2. SameTotal(Sum(pps), Sum(Uncounted), pps[i], r[i])
      BY <3>1, MoreCounted, Zenon
    <3>. QED
      BY <3>2, Zenon DEF SameTotal
  <2>. QED
    BY <1>9, <2>1, Zenon
<1>12. Counted'
  BY <1>1, <1>8, <1>11, Zenon DEF RInv, Counted, network
<1>13. (Alive => Samples)'
  BY <1>1, <1>2, <1>4, SamplesKept, Zenon
<1>. QED
  BY <1>5, <1>12, <1>13 DEF RInv

\* A thread counts their bytes.
LEMMA AddBpsKeeps ==
  ASSUME RInv, NEW i \in Thread, add_bps(i) PROVE RInv'
<1>1. /\ at[i] = "add_bps" /\ at' = [at EXCEPT ![i] = "recv"]
      /\ bps' = [bps EXCEPT ![i] = @ + bytes[i]]
      /\ UNCHANGED <<main, startup, network, r, bytes, pps, t, sums>>
  BY Zenon DEF add_bps
<1>2. /\ bps \in [Thread -> Nat] /\ pps \in [Thread -> Nat] /\ ReceiverTypeOK
      /\ bytes \in [Thread -> Nat]
  BY Zenon DEF RInv, ReceiverTypeOK
<1>3. bytes[i] \in Nat
  BY <1>2
<1>4. /\ bps' \in [Thread -> Nat] /\ bps'[i] = bps[i] + bytes[i] /\ bps[i] \in Nat
      /\ DifferAt(bps, bps', Thread, i) /\ Below(bps, bps', Thread)
      /\ Below(pps, pps', Thread) /\ pps' = pps
  BY <1>1, <1>2, <1>3, CounterGrows, SameIsBelow, Zenon
<1>5. ReceiverTypeOK'
  <2>1. at' \in [Thread -> {"recv", "add_pps", "add_bps"}]
    BY <1>1, <1>2 DEF ReceiverTypeOK
  <2>. QED
    BY <1>1, <1>2, <1>4, <2>1, Zenon DEF ReceiverTypeOK, startup, network
<1>6. UncountedBytes \in [Thread -> Nat] /\ UncountedBytes' \in [Thread -> Nat]
  <2>1. UncountedBytes' \in [Thread -> Nat]
    BY <1>5 DEF UncountedBytes, ReceiverTypeOK
  <2>. QED
    BY <1>2, <2>1, UncountedType, Zenon
<1>7. /\ UncountedBytes[i] = bytes[i] /\ UncountedBytes'[i] = 0
      /\ DifferAt(UncountedBytes, UncountedBytes', Thread, i)
  BY <1>1, <1>2 DEF UncountedBytes, DifferAt, ReceiverTypeOK
<1>8. Uncounted' = Uncounted
  BY <1>1, <1>2 DEF Uncounted, ReceiverTypeOK
<1>9. /\ Sum(UncountedBytes') = Sum(UncountedBytes) - bytes[i] + 0
      /\ Sum(bps') = Sum(bps) - bps[i] + (bps[i] + bytes[i])
  <2>1. Sum(UncountedBytes') = Sum(UncountedBytes) - UncountedBytes[i] + UncountedBytes'[i]
    BY <1>6, <1>7, SumOfUpdated, Zenon
  <2>2. Sum(bps') = Sum(bps) - bps[i] + bps'[i]
    BY <1>2, <1>4, SumOfUpdated, Zenon
  <2>. QED
    BY <1>4, <1>7, <2>1, <2>2, Zenon
<1>10. Sum(bps) \in Nat /\ Sum(UncountedBytes) \in Nat
  BY <1>2, <1>6, SumOfCounters, Zenon
<1>11. Sum(bps') + Sum(UncountedBytes') = Sum(bps) + Sum(UncountedBytes)
  <2>1. (Sum(bps) - bps[i] + (bps[i] + bytes[i])) + (Sum(UncountedBytes) - bytes[i] + 0)
          = Sum(bps) + Sum(UncountedBytes)
    <3>1. /\ bps[i] \in Nat /\ bytes[i] \in Nat
          /\ Sum(bps) \in Nat /\ Sum(UncountedBytes) \in Nat
      BY <1>3, <1>4, <1>10, Zenon
    <3>2. SameTotal(Sum(bps), Sum(UncountedBytes), bps[i], bytes[i])
      BY <3>1, MoreCounted, Zenon
    <3>. QED
      BY <3>2, Zenon DEF SameTotal
  <2>. QED
    BY <1>9, <2>1, Zenon
<1>12. Counted'
  BY <1>1, <1>8, <1>11, Zenon DEF RInv, Counted, network
<1>13. (Alive => Samples)'
  BY <1>1, <1>2, <1>4, SamplesKept, Zenon
<1>. QED
  BY <1>5, <1>12, <1>13 DEF RInv

\* A datagram that arrives, a failing read and a stutter change no counter.
LEMMA QuietKeeps ==
  ASSUME RInv,
         \/ Arrive \/ UNCHANGED receiverVars
         \/ \E i \in Thread : recvmmsg_error(i)
  PROVE  RInv'
<1>1. /\ UNCHANGED <<t, sums, spawned, threads, taken, takenBytes>>
      /\ main' = main \/ main' = "failed"
  BY DEF Arrive, receiverVars, recvmmsg_error, startup, network
<1>2. socket' \in [Thread -> Seq(Lengths)]
  <2>1. ASSUME NEW s \in 1 .. bound, NEW len \in Lengths
        PROVE  [socket EXCEPT ![s] = Append(@, len)] \in [Thread -> Seq(Lengths)]
    <3>1. \A q \in Seq(Lengths) : Append(q, len) \in Seq(Lengths)
      OBVIOUS
    <3>. QED
      BY <3>1, Zenon DEF RInv, ReceiverTypeOK
  <2>2. socket \in [Thread -> Seq(Lengths)]
    BY DEF RInv, ReceiverTypeOK
  <2>3. CASE Arrive
    <3>1. \/ socket' = socket
          \/ \E s \in 1 .. bound, len \in Lengths :
               socket' = [socket EXCEPT ![s] = Append(@, len)]
      BY <2>3, Zenon DEF Arrive
    <3>2. CASE socket' = socket
      BY <2>2, <3>2, Zenon
    <3>3. ASSUME NEW s \in 1 .. bound, NEW len \in Lengths,
                 socket' = [socket EXCEPT ![s] = Append(@, len)]
          PROVE  socket' \in [Thread -> Seq(Lengths)]
      BY <2>1, <3>3, Zenon
    <3>. QED
      BY <3>1, <3>2, <3>3, Zenon
  <2>4. CASE ~ Arrive
    BY <2>2, <2>4 DEF receiverVars, recvmmsg_error, network
  <2>. QED
    BY <2>3, <2>4
<1>3. ReceiverTypeOK' /\ Counted'
  BY <1>1, <1>2 DEF RInv, ReceiverTypeOK, Counted, Uncounted, UncountedBytes,
     threads
<1>4. CASE main' = "failed"
  BY <1>3, <1>4 DEF RInv, Alive
<1>5. CASE main' = main
  <2>1. (Alive => Samples)'
    BY <1>1, <1>5, SameIsBelow, SamplesKept DEF threads, RInv, ReceiverTypeOK
  <2>. QED
    BY <1>3, <2>1 DEF RInv
<1>. QED
  BY <1>1, <1>4, <1>5

\* Every step of main, the threads and the network
LEMMA NextRInv == RInv /\ [ReceiverNext]_receiverVars => RInv'
<1>1. Main => Alive
  BY DEF Main, parse_addr, net_bind_udp, state_init, thread_spawn, select,
     load_pps, load_bps, print, Alive
<1>. QED
  BY <1>1, MainKeeps, RecvmmsgKeeps, AddPpsKeeps, AddBpsKeeps, QuietKeeps
     DEF ReceiverNext, thread_loop

\* The rates of udpreceiver1.c are real for any number of threads and sockets:
\* the sample that main takes counter by counter, while the threads add to
\* them, lies between the last one and what recvmmsg has returned, and no
\* packet or byte is forgotten or counted twice.
THEOREM RatesAlwaysReal == ReceiverSpec => []RatesAreReal
<1>1. ASSUME RInv PROVE RatesAreReal
  <2>1. CASE main = "print"
    <3>1. /\ Sampling(pps, last_pps, now_pps, Thread)
          /\ Sampling(bps, last_bps, now_bps, Thread)
      BY <1>1, <2>1
         DEF RInv, Alive, Samples, InSample, PpsLoaded, BpsLoaded
    <3>2. /\ pps \in [Thread -> Nat] /\ bps \in [Thread -> Nat]
          /\ Sum(Uncounted) \in Nat /\ Sum(UncountedBytes) \in Nat
          /\ Sum(pps) \in Nat /\ Sum(bps) \in Nat
      BY <1>1, UncountedType, SumOfCounters DEF RInv, ReceiverTypeOK
    <3>3. /\ last_pps <= now_pps /\ now_pps <= Sum(pps)
          /\ last_bps <= now_bps /\ now_bps <= Sum(bps)
          /\ now_pps \in Nat /\ now_bps \in Nat
      BY <3>1, <3>2, SampleEnds
    <3>. QED
      BY <1>1, <2>1, <3>2, <3>3 DEF RInv, Counted, RatesAreReal
  <2>. QED
    BY <1>1, <2>1 DEF RInv, Counted, RatesAreReal
<1>. QED
  BY <1>1, ReceiverInitRInv, NextRInv, PTL DEF ReceiverSpec
=============================================================================

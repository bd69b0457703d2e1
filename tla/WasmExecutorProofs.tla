------------------------- MODULE WasmExecutorProofs -------------------------
(***************************************************************************)
(* Proofs about WasmExecutor, for any threads, requests, batches and       *)
(* guests, whether or not guests write, and about GuestMemory for words    *)
(* and memories of any size.                                               *)
(***************************************************************************)
EXTENDS WasmExecutor, SequenceTheorems, TLAPS

(* Division undoes packing. *)
LEMMA DivMod ==
  ASSUME NEW W \in Nat \ {0}, NEW a \in Nat, NEW b \in 0..(W - 1)
  PROVE  (a * W + b) \div W = a /\ (a * W + b) % W = b
  <1> DEFINE n == a * W + b
             q == n \div W
             r == n % W
  <1>1. n \in Int
    OBVIOUS
  <1>2. q \in Int /\ r \in 0..(W - 1) /\ n = q * W + r
    BY <1>1
  <1>3. (a - q) * W = r - b /\ r - b < W /\ r - b > -W
    BY <1>2
  <1>4. a - q = 0
    BY <1>2, <1>3
  <1> QED
    BY <1>2, <1>3, <1>4

(* A 32-bit sum is the sum, or less than either term. *)
LEMMA SliceEnd ==
  ASSUME NEW p \in Words, NEW n \in Words
  PROVE  \/ p + n < WordSize /\ slice_end(p, n) = p + n
         \/ p + n >= WordSize /\ slice_end(p, n) = p + n - WordSize /\ slice_end(p, n) < p
  <1>1. WordSize \in Nat \ {0}
    BY MemoryConstants
  <1>2. CASE p + n < WordSize
    <2>1. p + n \in 0..(WordSize - 1)
      BY <1>1, <1>2 DEF Words
    <2>2. (0 * WordSize + (p + n)) % WordSize = p + n
      BY <1>1, <2>1, DivMod
    <2> QED
      BY <1>1, <1>2, <2>1, <2>2 DEF slice_end, Words
  <1>3. CASE p + n >= WordSize
    <2>1. p + n - WordSize \in 0..(WordSize - 1)
      BY <1>1, <1>3 DEF Words
    <2>2. (1 * WordSize + (p + n - WordSize)) % WordSize = p + n - WordSize
      BY <1>1, <2>1, DivMod
    <2>3. p + n - WordSize < p
      BY <1>1 DEF Words
    <2>4. 1 * WordSize + (p + n - WordSize) = p + n
      BY <1>1 DEF Words
    <2> QED
      BY <1>3, <2>2, <2>3, <2>4 DEF slice_end
  <1> QED
    BY <1>1, <1>2, <1>3 DEF Words

(* The region the host reads is the one the guest named, for every word     *)
(* size and memory size (wasm_executor.rs, the slice of the result).        *)
LEMMA SlicesExact == SlicesAreExact
  <1> SUFFICES ASSUME NEW ptr \in Words, NEW len \in Words
               PROVE  LET p == packed_ptr(Pack(ptr, len))
                          n == packed_len(Pack(ptr, len))
                      IN  /\ p = ptr /\ n = len
                          /\ InBounds(p, n) <=> ptr + len <= MemorySize /\ ptr + len < WordSize
                          /\ InBounds(p, n) => Slice(p, n) = ptr..(ptr + len - 1)
    BY DEF SlicesAreExact
  <1>1. packed_ptr(Pack(ptr, len)) = ptr /\ packed_len(Pack(ptr, len)) = len
    BY DivMod, MemoryConstants DEF Words, Pack, packed_ptr, packed_len
  <1>2. \/ ptr + len < WordSize /\ slice_end(ptr, len) = ptr + len
        \/ ptr + len >= WordSize /\ slice_end(ptr, len) < ptr
    BY SliceEnd
  <1>3. ptr \in Nat /\ len \in Nat /\ WordSize \in Nat /\ MemorySize \in Nat
    BY MemoryConstants DEF Words
  <1>4. InBounds(ptr, len) => slice_end(ptr, len) = ptr + len
    BY <1>2, <1>3, SliceEnd DEF InBounds
  <1>5. InBounds(ptr, len) <=> ptr + len <= MemorySize /\ ptr + len < WordSize
    BY <1>2, <1>3, SliceEnd DEF InBounds
  <1>6. InBounds(ptr, len) => Slice(ptr, len) = ptr..(ptr + len - 1)
    <2>1. ASSUME InBounds(ptr, len) PROVE Slice(ptr, len) = ptr..(ptr + len - 1)
      <3>1. slice_end(ptr, len) = ptr + len
        BY <2>1, <1>4
      <3> QED
        BY <3>1, <1>3 DEF Slice
    <2> QED
      BY <2>1 DEF InBounds
  <1> QED
    BY <1>1, <1>5, <1>6 DEF InBounds

----------------------------------------------------------------------------
(* SQL keeps databases databases. *)
LEMMA AccountsMembers ==
  /\ \A held \in SUBSET Dids : [held -> Amounts \cup {None}] \subseteq Accounts
  /\ \A db \in Accounts : \E held \in SUBSET Dids : db \in [held -> Amounts \cup {None}]
  BY DEF Accounts

LEMMA EffectType ==
  ASSUME NEW db \in Databases, db # None, NEW sql \in Statements, ~Fails(db, sql)
  PROVE  Effect(db, sql) \in Accounts
  <1>1. CASE sql.op = "create"
    <2>1. [d \in {} |-> None] \in [{} -> Amounts \cup {None}]
      OBVIOUS
    <2> QED
      BY <1>1, <2>1, AccountsMembers DEF Effect
  <1>2. CASE sql.op # "create"
    <2>1. db \in Accounts
      BY <1>2 DEF Fails, Databases
    <2>2. PICK held \in SUBSET Dids : db \in [held -> Amounts \cup {None}]
      BY <2>1, AccountsMembers
    <2>3. sql.did \in Dids /\ sql.balance \in Amounts \cup {None}
            /\ sql.op \in {"insert", "update"}
      BY <1>2 DEF Statements
    <2>4. CASE sql.op = "insert"
      <3>1. DOMAIN db \cup {sql.did} \in SUBSET Dids
        BY <2>2, <2>3
      <3>2. Effect(db, sql) = [d \in DOMAIN db \cup {sql.did} |->
                                 IF d = sql.did THEN sql.balance ELSE db[d]]
        BY <2>4 DEF Effect
      <3>3. Effect(db, sql) \in [DOMAIN db \cup {sql.did} -> Amounts \cup {None}]
        BY <3>2, <2>2, <2>3
      <3> QED
        BY <3>1, <3>3, AccountsMembers
    <2>5. CASE sql.op = "update"
      <3>1. Effect(db, sql) = [d \in DOMAIN db |->
                                 IF d = sql.did THEN sql.balance ELSE db[d]]
        BY <2>5 DEF Effect
      <3>2. Effect(db, sql) \in [held -> Amounts \cup {None}]
        BY <3>1, <2>2, <2>3
      <3> QED
        BY <3>2, AccountsMembers
    <2> QED
      BY <2>3, <2>4, <2>5
  <1> QED
    BY <1>1, <1>2

Asked == Statements \cup {Select(did) : did \in Dids}

LEMMA QueriedType ==
  ASSUME NEW db \in Databases, NEW sql \in Asked
  PROVE  /\ queried(db, sql) \in Databases
         /\ rows_of(db, sql) \in Seq(Amounts \cup {None})
  <1>1. queried(db, sql) \in Databases
    <2>1. CASE db = None \/ sql.op = "select" \/ Fails(db, sql)
      BY <2>1 DEF queried
    <2>2. CASE ~(db = None \/ sql.op = "select" \/ Fails(db, sql))
      <3>1. sql \in Statements
        BY <2>2 DEF Asked, Select
      <3>2. Effect(db, sql) \in Accounts
        BY <2>2, <3>1, EffectType
      <3> QED
        BY <2>2, <3>2 DEF queried, Databases
    <2> QED
      BY <2>1, <2>2
  <1>2. rows_of(db, sql) \in Seq(Amounts \cup {None})
    <2>1. CASE sql.op = "select" /\ HasRow(db, sql.did)
      <3>1. db \in Accounts
        BY <2>1 DEF HasRow, Databases
      <3>2. db[sql.did] \in Amounts \cup {None}
        BY <2>1, <3>1, AccountsMembers DEF HasRow
      <3> QED
        BY <2>1, <3>2 DEF rows_of
    <2>2. CASE ~(sql.op = "select" /\ HasRow(db, sql.did))
      <3>1. <<>> \in Seq(Amounts \cup {None})
        BY EmptySeq
      <3> QED
        BY <2>2, <3>1 DEF rows_of
    <2> QED
      BY <2>1, <2>2
  <1> QED
    BY <1>1, <1>2

----------------------------------------------------------------------------
(* The inductive invariant: types, and a database exists while the mutex is *)
(* held.                                                                    *)
ExecInv ==
  /\ TypeOK
  /\ lock # None => database # None

Locals == Setups \cup Executions \cup {None}

(* Where a thread is fits what it has in its hands. *)
Located(p, c) ==
  /\ p \in {"idle", "setup", "batch", "request", "guest"}
  /\ c \in Locals
  /\ p \in {"setup", "batch"} => c \in Setups
  /\ p \in {"request", "guest"} => c \in Executions

LEMMA ThreadsLocated ==
  ASSUME TypeOK
  PROVE  \A t \in Threads : Located(pc[t], call[t])
  BY DEF TypeOK, Located, Locals, Executing

(* A step of one thread that touches only its own place, its own call and   *)
(* its own result, and not the mutex.                                       *)
LEMMA OneThread ==
  ASSUME ExecInv, NEW t \in Threads, NEW p, NEW c, NEW res \in Results \cup {None},
         pc[t] # "batch", p # "batch", Located(p, c),
         pc' = [pc EXCEPT ![t] = p], call' = [call EXCEPT ![t] = c],
         result' = [result EXCEPT ![t] = res], lock' = lock, poisoned' \in BOOLEAN,
         modules' \in [Cids -> Guests \cup {None}],
         database' \in Databases, committed' \in Databases,
         database # None => database' # None, calls' \in 0..MaxCalls
  PROVE  ExecInv'
  <1>1. pc' \in [Threads -> {"idle", "setup", "batch", "request", "guest"}]
          /\ call' \in [Threads -> Locals] /\ result' \in [Threads -> Results \cup {None}]
    BY DEF ExecInv, TypeOK, Located, Locals
  <1>2. \A u \in Threads : u # t => pc'[u] = pc[u] /\ call'[u] = call[u]
    BY DEF ExecInv, TypeOK
  <1>3. pc'[t] = p /\ call'[t] = c
    BY DEF ExecInv, TypeOK
  <1>4. \A u \in Threads : Located(pc'[u], call'[u])
    BY <1>2, <1>3, ThreadsLocated DEF ExecInv
  <1>5. \A u \in Threads : pc'[u] = "batch" <=> lock' = u
    BY <1>2, <1>3 DEF ExecInv, TypeOK
  <1>6. \A u \in Threads :
          /\ pc'[u] = "batch" <=> lock' = u
          /\ pc'[u] \in {"setup", "batch"} => call'[u] \in Setups
          /\ Executing(u)' => call'[u] \in Executions
    BY <1>4, <1>5 DEF Located, Executing
  <1>7. TypeOK'
    BY <1>1, <1>6 DEF ExecInv, TypeOK, Locals
  <1> QED
    BY <1>7 DEF ExecInv

(* Results of a call. *)
LEMMA ResultsMembers ==
  /\ Error \in Results /\ Done \in Results /\ Panicked \in Results
  /\ \A r \in Calls : Valid(r) \in Results
  /\ \A reason \in Reasons : Invalid(reason) \in Results
  BY ExecutorConstants DEF Results, Verdicts

LEMMA IdleLocated == Located("idle", None)
  BY DEF Located, Locals

LEMMA FailedType ==
  ASSUME ExecInv, NEW t \in Threads, pc[t] # "batch", NEW res \in Results,
         Return(t, res), lock' = lock, poisoned' \in BOOLEAN,
         UNCHANGED <<modules, database, calls, committed>>
  PROVE  ExecInv'
  BY OneThread, IdleLocated DEF Return, ExecInv, TypeOK

LEMMA ReturnType ==
  ASSUME ExecInv, NEW t \in Threads, pc[t] # "batch", NEW res \in Results,
         Return(t, res), lock' = lock, poisoned' = poisoned,
         UNCHANGED <<modules, database, calls, committed>>
  PROVE  ExecInv'
  <1>1. poisoned' \in BOOLEAN
    BY DEF ExecInv, TypeOK
  <1> QED
    BY <1>1, FailedType

LEMMA PanicType ==
  ASSUME ExecInv, NEW t \in Threads, pc[t] # "batch", Panic(t),
         UNCHANGED <<modules, database, calls, committed>>
  PROVE  ExecInv'
  <1>1. lock # t
    BY DEF ExecInv, TypeOK
  <1>2. lock' = lock /\ poisoned' = poisoned
    BY <1>1 DEF Panic, Dropped, ExecInv, TypeOK
  <1> QED
    BY <1>2, ReturnType, ResultsMembers DEF Panic

(* The executions, as the database becomes visible to them. *)
LEMMA ObservedType ==
  ASSUME ExecInv, NEW executions \in [Threads -> Locals], NEW db \in Databases,
         \A u \in Threads : Executing(u) => executions[u] \in Executions
  PROVE  LET seen == Observed(executions, db)
         IN  /\ seen \in [Threads -> Locals]
             /\ \A u \in Threads : /\ Executing(u) => seen[u] \in Executions
                                   /\ ~Executing(u) => seen[u] = executions[u]
  <1> DEFINE now(u) == IF Executing(u) /\ db # committed
                       THEN [executions[u] EXCEPT !.seen = Append(@, db)]
                       ELSE executions[u]
  <1>1. ASSUME NEW u \in Threads, Executing(u) PROVE now(u) \in Executions
    <2>1. executions[u] \in Executions
      BY <1>1
    <2>2. Append(executions[u].seen, db) \in Seq(Databases)
      BY <2>1, AppendProperties DEF Executions
    <2> QED
      BY <2>1, <2>2 DEF Executions
  <1>2. \A u \in Threads : now(u) \in Locals
    BY <1>1 DEF Locals
  <1>3. Observed(executions, db) = [u \in Threads |-> now(u)]
    BY DEF Observed
  <1> QED
    BY <1>1, <1>2, <1>3

(* setup_database has the mutex, or panics: the mutex is poisoned already,  *)
(* or the new database does not open.                                       *)
LEMMA SetupLockCases ==
  ASSUME ExecInv, NEW t \in Threads, SetupLock(t)
  PROVE  /\ pc[t] = "setup" /\ lock = None
         /\ UNCHANGED <<modules, calls, committed>>
         /\ \/ /\ lock' = t /\ pc' = [pc EXCEPT ![t] = "batch"]
               /\ database' = IF database = None THEN NoTable ELSE database
               /\ UNCHANGED <<poisoned, call, result>>
            \/ /\ Return(t, Panicked) /\ UNCHANGED <<lock, database>>
               /\ \/ poisoned' = poisoned
                  \/ database = None /\ poisoned' = TRUE
  BY DEF SetupLock, Panic, Dropped, ExecInv, TypeOK

LEMMA SetupLockType ==
  ASSUME ExecInv, NEW t \in Threads, SetupLock(t)
  PROVE  ExecInv'
  <1>1. pc[t] = "setup" /\ lock = None /\ UNCHANGED <<modules, calls, committed>>
    BY SetupLockCases
  <1>2. CASE Return(t, Panicked) /\ UNCHANGED <<lock, database>> /\ poisoned' \in BOOLEAN
    BY <1>1, <1>2, FailedType, ResultsMembers
  <1>3. CASE /\ lock' = t /\ pc' = [pc EXCEPT ![t] = "batch"]
             /\ database' = IF database = None THEN NoTable ELSE database
             /\ UNCHANGED <<poisoned, call, result>>
    <2>1. NoTable \in Databases /\ NoTable # None /\ None \notin Threads
      BY ExecutorConstants DEF Databases
    <2>2. \A u \in Threads : pc[u] # "batch"
      BY <1>1, <2>1 DEF ExecInv, TypeOK
    <2>3. TypeOK'
      BY <1>1, <1>3, <2>1, <2>2 DEF ExecInv, TypeOK, Executing
    <2> QED
      BY <1>3, <2>1, <2>3 DEF ExecInv
  <1>4. poisoned \in BOOLEAN
    BY DEF ExecInv, TypeOK
  <1> QED
    BY <1>2, <1>3, <1>4, SetupLockCases

LEMMA EndSetupType ==
  ASSUME ExecInv, NEW t \in Threads, pc[t] = "batch", NEW res \in Results, EndSetup(t, res),
         UNCHANGED <<modules, poisoned, calls>>
  PROVE  ExecInv'
  <1>1. lock = t /\ lock' = None
    BY DEF ExecInv, TypeOK, EndSetup, Dropped
  <1> DEFINE dropped == [call EXCEPT ![t] = None]
  <1>2. dropped \in [Threads -> Locals]
          /\ \A u \in Threads : Executing(u) => dropped[u] \in Executions
    BY DEF ExecInv, TypeOK, Locals, Executing
  <1>3. call' = Observed(dropped, database) /\ database \in Databases
    BY DEF EndSetup, ExecInv, TypeOK
  <1>4. /\ call' \in [Threads -> Locals]
        /\ \A u \in Threads : /\ Executing(u) => call'[u] \in Executions
                              /\ ~Executing(u) => call'[u] = dropped[u]
    BY <1>2, <1>3, ObservedType
  <1>5. pc' = [pc EXCEPT ![t] = "idle"] /\ result' = [result EXCEPT ![t] = res]
          /\ committed' = database /\ database' = database
    BY DEF EndSetup
  <1>6. \A u \in Threads : u # t => pc'[u] = pc[u] /\ dropped[u] = call[u] /\ pc[u] # "batch"
    BY <1>1, <1>5 DEF ExecInv, TypeOK
  <1>7. pc'[t] = "idle"
    BY <1>5 DEF ExecInv, TypeOK
  <1>8. \A u \in Threads :
          /\ pc'[u] = "batch" <=> lock' = u
          /\ pc'[u] \in {"setup", "batch"} => call'[u] \in Setups
          /\ Executing(u)' => call'[u] \in Executions
    <2> SUFFICES ASSUME NEW u \in Threads
                 PROVE  /\ pc'[u] = "batch" <=> lock' = u
                        /\ pc'[u] \in {"setup", "batch"} => call'[u] \in Setups
                        /\ pc'[u] \in {"request", "guest"} => call'[u] \in Executions
      BY DEF Executing
    <2>1. lock' # u
      BY <1>1, ExecutorConstants
    <2>2. CASE u = t
      BY <2>1, <2>2, <1>7
    <2>3. CASE u # t
      <3>1. pc[u] = "setup" => call[u] \in Setups
        BY DEF ExecInv, TypeOK
      <3> QED
        BY <2>1, <2>3, <3>1, <1>4, <1>6 DEF Executing
    <2> QED
      BY <2>2, <2>3
  <1>9. pc' \in [Threads -> {"idle", "setup", "batch", "request", "guest"}]
          /\ result' \in [Threads -> Results \cup {None}]
    BY <1>5 DEF ExecInv, TypeOK
  <1>10. TypeOK'
    BY <1>1, <1>4, <1>5, <1>8, <1>9 DEF ExecInv, TypeOK, Locals
  <1> QED
    BY <1>1, <1>10 DEF ExecInv

LEMMA SetupStatementType ==
  ASSUME ExecInv, NEW t \in Threads, SetupStatement(t)
  PROVE  ExecInv'
  <1> DEFINE sql == Head(call[t].batch)
  <1>1. pc[t] = "batch" /\ call[t] \in Setups /\ lock = t /\ database # None
    BY ExecutorConstants DEF SetupStatement, ExecInv, TypeOK
  <1>2. CASE call[t].batch = <<>>
    BY <1>1, <1>2, EndSetupType, ResultsMembers DEF SetupStatement
  <1>3. CASE call[t].batch # <<>> /\ Fails(database, sql)
    BY <1>1, <1>3, EndSetupType, ResultsMembers DEF SetupStatement
  <1>4. CASE call[t].batch # <<>> /\ ~Fails(database, sql)
    <2>1. /\ database' = Effect(database, sql)
          /\ call' = [call EXCEPT ![t].batch = Tail(@)]
          /\ UNCHANGED <<modules, poisoned, calls, pc, lock, result, committed>>
      BY <1>4 DEF SetupStatement
    <2>2. call[t].batch \in Seq(Statements) /\ call[t].given \in Batches
      BY <1>1 DEF Setups
    <2>3. sql \in Statements /\ Tail(call[t].batch) \in Seq(Statements)
      BY <1>4, <2>2, HeadTailProperties
    <2>4. database' \in Accounts
      BY <1>1, <1>4, <2>1, <2>3, EffectType DEF ExecInv, TypeOK
    <2>5. database' \in Databases /\ database' # None
      BY <2>4, ExecutorConstants DEF Databases
    <2>6. [call[t] EXCEPT !.batch = Tail(@)] \in Setups
      BY <1>1, <2>3 DEF Setups
    <2>7. call' = [call EXCEPT ![t] = [call[t] EXCEPT !.batch = Tail(@)]]
      BY <2>1
    <2>8. TypeOK'
      BY <1>1, <2>1, <2>5, <2>6, <2>7 DEF ExecInv, TypeOK, Executing
    <2> QED
      BY <2>1, <2>5, <2>8 DEF ExecInv
  <1> QED
    BY <1>2, <1>3, <1>4

----------------------------------------------------------------------------
(* A step that leaves pc and result alone and gives one thread another call. *)
LEMMA OneCall ==
  ASSUME ExecInv, NEW t \in Threads, Executing(t), NEW c \in Executions,
         call' = [call EXCEPT ![t] = c],
         UNCHANGED <<modules, database, lock, poisoned, pc, result, calls, committed>>
  PROVE  ExecInv'
  <1>1. c \in Locals
    BY DEF Locals
  <1>2. Located(pc[t], c) /\ pc[t] # "batch" /\ result[t] \in Results \cup {None}
    BY <1>1 DEF Located, Executing, ExecInv, TypeOK
  <1>3. pc' = [pc EXCEPT ![t] = pc[t]] /\ result' = [result EXCEPT ![t] = result[t]]
    BY DEF ExecInv, TypeOK
  <1> QED
    BY <1>2, <1>3, OneThread DEF ExecInv, TypeOK

LEMMA HostQueryType ==
  ASSUME ExecInv, NEW t \in Threads, Executing(t), NEW sql \in Asked,
         host_sql_query(t, sql),
         UNCHANGED <<modules, database, calls, committed>>
  PROVE  ExecInv'
  <1> DEFINE q == [sql |-> sql, phase |-> "lock", rows |-> <<>>]
             c == [call[t] EXCEPT !.queries = Append(@, q)]
  <1>1. call[t] \in Executions
    BY DEF ExecInv, TypeOK
  <1>2. <<>> \in Seq(Amounts \cup {None})
    BY EmptySeq
  <1>3. q \in Queries
    BY <1>2 DEF Queries, Asked
  <1>4. Append(call[t].queries, q) \in Seq(Queries)
    BY <1>1, <1>3, AppendProperties DEF Executions
  <1>5. c \in Executions
    BY <1>1, <1>4 DEF Executions
  <1>6. call' = [call EXCEPT ![t] = c]
    BY DEF host_sql_query
  <1> QED
    BY <1>5, <1>6, OneCall DEF host_sql_query

LEMMA OtherQueriesType ==
  ASSUME ExecInv, NEW t \in Threads, Executing(t), OtherQueries(t),
         UNCHANGED <<modules, database, calls, committed>>
  PROVE  ExecInv'
  <1>1. PICK sql \in {Select(did) : did \in Dids} \cup GuestWrites : host_sql_query(t, sql)
    BY DEF OtherQueries
  <1>2. sql \in Asked
    BY ExecutorConstants DEF Asked
  <1> QED
    BY <1>1, <1>2, HostQueryType

LEMMA InitType ==
  ASSUME Init
  PROVE  ExecInv
  <1>1. /\ modules \in [Cids -> Guests \cup {None}]
        /\ pc \in [Threads -> {"idle", "setup", "batch", "request", "guest"}]
        /\ call \in [Threads -> Setups \cup Executions \cup {None}]
        /\ result \in [Threads -> Results \cup {None}]
    BY DEF Init
  <1>2. database \in Databases /\ committed \in Databases
    BY DEF Init, Databases
  <1>3. lock = None /\ poisoned = FALSE /\ calls \in 0..MaxCalls
    BY ExecutorConstants DEF Init
  <1>4. \A t \in Threads : pc[t] = "idle" /\ lock # t
    BY ExecutorConstants DEF Init
  <1> QED
    BY <1>1, <1>2, <1>3, <1>4 DEF ExecInv, TypeOK, Executing

LEMMA SetupType ==
  ASSUME ExecInv, NEW t \in Threads, NEW b \in Batches, setup_database(t, b)
  PROVE  ExecInv'
  <1> DEFINE c == [given |-> b, batch |-> b]
  <1>1. b \in Seq(Statements)
    BY ExecutorConstants
  <1>2. c \in Setups
    BY <1>1 DEF Setups
  <1>3. Located("setup", c)
    BY <1>2 DEF Located, Locals
  <1>4. /\ pc[t] = "idle" /\ calls < MaxCalls /\ calls' = calls + 1
        /\ pc' = [pc EXCEPT ![t] = "setup"] /\ call' = [call EXCEPT ![t] = c]
        /\ result' = [result EXCEPT ![t] = None]
        /\ UNCHANGED <<modules, database, lock, poisoned, committed>>
    BY DEF setup_database, Call
  <1>5. calls' \in 0..MaxCalls
    BY <1>4, ExecutorConstants DEF ExecInv, TypeOK
  <1> QED
    BY <1>3, <1>4, <1>5, OneThread DEF ExecInv, TypeOK

LEMMA ExecuteType ==
  ASSUME ExecInv, NEW t \in Threads, NEW r \in Calls, execute(t, r)
  PROVE  ExecInv'
  <1> DEFINE guest == modules[r.program_cid]
             c == [request |-> r, guest |-> guest, queries |-> <<>>,
                   answers |-> <<>>, seen |-> <<committed>>]
  <1>1. guest \in Guests \cup {None}
    BY ExecutorConstants DEF ExecInv, TypeOK, Requests
  <1>2. /\ pc[t] = "idle" /\ calls < MaxCalls /\ calls' = calls + 1
        /\ UNCHANGED <<modules, database, lock, poisoned, committed>>
    BY DEF execute, Call
  <1>3. calls' \in 0..MaxCalls
    BY <1>2, ExecutorConstants DEF ExecInv, TypeOK
  <1>4. CASE guest = None
    <2>1. /\ pc' = [pc EXCEPT ![t] = "idle"] /\ call' = [call EXCEPT ![t] = None]
          /\ result' = [result EXCEPT ![t] = Error]
      BY <1>4 DEF execute, Call
    <2> QED
      BY <1>2, <1>3, <2>1, IdleLocated, ResultsMembers, OneThread DEF ExecInv, TypeOK
  <1>5. CASE guest # None
    <2>1. <<>> \in Seq(Queries) /\ <<>> \in Seq(Seq(Amounts \cup {None}))
      BY EmptySeq
    <2>2. <<committed>> \in Seq(Databases)
      BY DEF ExecInv, TypeOK
    <2>3. c \in Executions
      BY <1>1, <1>5, <2>1, <2>2 DEF Executions
    <2>4. Located("request", c)
      BY <2>3 DEF Located, Locals
    <2>5. /\ pc' = [pc EXCEPT ![t] = "request"] /\ call' = [call EXCEPT ![t] = c]
          /\ result' = [result EXCEPT ![t] = None]
      BY <1>5 DEF execute, Call
    <2> QED
      BY <1>2, <1>3, <2>4, <2>5, OneThread DEF ExecInv, TypeOK
  <1> QED
    BY <1>4, <1>5

LEMMA RegisterType ==
  ASSUME ExecInv, NEW cid \in Cids, NEW g \in Guests, register_wasm(cid, g)
  PROVE  ExecInv'
  BY DEF register_wasm, ExecInv, TypeOK, Executing

(* The query on top of a thread that queries. *)
LEMMA TopType ==
  ASSUME ExecInv, NEW t \in Threads, Querying(t)
  PROVE  /\ call[t] \in Executions /\ pc[t] # "batch"
         /\ Len(call[t].queries) \in 1..Len(call[t].queries)
         /\ Top(t) \in Queries
  <1>1. call[t] \in Executions /\ call[t].queries # <<>> /\ pc[t] # "batch"
    BY DEF Querying, Executing, ExecInv, TypeOK
  <1>2. call[t].queries \in Seq(Queries)
    BY <1>1 DEF Executions
  <1>3. Len(call[t].queries) \in Nat \ {0}
    BY <1>1, <1>2, EmptySeq
  <1>4. Len(call[t].queries) \in 1..Len(call[t].queries)
    BY <1>3
  <1> QED
    BY <1>1, <1>2, <1>4, ElementOfSeq DEF Top

LEMMA FetchedType ==
  ASSUME ExecInv, NEW t \in Threads, Querying(t)
  PROVE  /\ Fetched(t) \in [Threads -> Locals]
         /\ \A u \in Threads : Executing(u) => Fetched(t)[u] \in Executions
         /\ \A u \in Threads : u # t => Fetched(t)[u] = call[u]
  <1> DEFINE n  == Len(call[t].queries)
             q  == [sql |-> Top(t).sql, phase |-> "alloc",
                    rows |-> rows_of(database, Top(t).sql)]
             qs == [call[t].queries EXCEPT ![n] = q]
             c  == [call[t] EXCEPT !.queries = qs]
  <1>1. call[t] \in Executions /\ n \in 1..n /\ Top(t) \in Queries
    BY TopType
  <1>2. Top(t).sql \in Asked /\ database \in Databases
    BY <1>1 DEF Queries, Asked, ExecInv, TypeOK
  <1>3. q \in Queries
    BY <1>2, QueriedType DEF Queries, Asked
  <1>4. qs \in Seq(Queries)
    BY <1>1, <1>3, ExceptSeq DEF Executions
  <1>5. c \in Executions
    BY <1>1, <1>4 DEF Executions
  <1>6. Fetched(t) = [call EXCEPT ![t] = c]
    BY DEF Fetched, Top
  <1>7. c \in Locals
    BY <1>5 DEF Locals
  <1> QED
    BY <1>5, <1>6, <1>7 DEF ExecInv, TypeOK, Locals

(* The query of thread t, which panics if the mutex is poisoned.            *)
Queried(t) ==
  /\ database' = queried(database, Top(t).sql)
  /\ committed' = IF database' = database THEN committed ELSE database'
  /\ call' = Observed(Fetched(t), committed')
  /\ UNCHANGED <<poisoned, pc, result>>

LEMMA SqlQueryCases ==
  ASSUME ExecInv, NEW t \in Threads, SqlQuery(t)
  PROVE  /\ Querying(t) /\ lock = None /\ lock' = lock /\ UNCHANGED <<modules, calls>>
         /\ \/ Queried(t)
            \/ Return(t, Panicked) /\ UNCHANGED <<database, poisoned, committed>>
  BY DEF SqlQuery, Panic, Dropped, Queried, ExecInv, TypeOK

LEMMA QueriedSafe ==
  ASSUME ExecInv, NEW t \in Threads, Querying(t), lock = None, Queried(t),
         UNCHANGED <<modules, lock, calls>>
  PROVE  ExecInv'
  <1>1. /\ Querying(t) /\ lock = None
        /\ database' = queried(database, Top(t).sql)
        /\ committed' = IF database' = database THEN committed ELSE database'
        /\ call' = Observed(Fetched(t), committed')
        /\ UNCHANGED <<modules, lock, poisoned, pc, result, calls>>
    BY DEF Queried
  <1>2. Top(t).sql \in Asked /\ database \in Databases /\ committed \in Databases
    BY <1>1, TopType DEF Queries, Asked, ExecInv, TypeOK
  <1>3. database' \in Databases /\ committed' \in Databases
    BY <1>1, <1>2, QueriedType
  <1>4. /\ Fetched(t) \in [Threads -> Locals]
        /\ \A u \in Threads : Executing(u) => Fetched(t)[u] \in Executions
        /\ \A u \in Threads : u # t => Fetched(t)[u] = call[u]
    BY <1>1, FetchedType
  <1>5. /\ call' \in [Threads -> Locals]
        /\ \A u \in Threads : /\ Executing(u) => call'[u] \in Executions
                              /\ ~Executing(u) => call'[u] = Fetched(t)[u]
    BY <1>1, <1>3, <1>4, ObservedType
  <1>6. \A u \in Threads : pc[u] = "setup" => call'[u] \in Setups
    BY <1>1, <1>4, <1>5 DEF Querying, Executing, ExecInv, TypeOK
  <1>7. \A u \in Threads : pc[u] # "batch"
    BY <1>1, ExecutorConstants DEF ExecInv, TypeOK
  <1>8. TypeOK'
    BY <1>1, <1>3, <1>5, <1>6, <1>7 DEF ExecInv, TypeOK, Executing, Locals
  <1> QED
    BY <1>1, <1>8 DEF ExecInv

LEMMA SqlQueryType ==
  ASSUME ExecInv, NEW t \in Threads, SqlQuery(t)
  PROVE  ExecInv'
  <1>1. pc[t] # "batch" /\ poisoned \in BOOLEAN
    BY SqlQueryCases, TopType DEF ExecInv, TypeOK
  <1> QED
    BY <1>1, SqlQueryCases, QueriedSafe, ReturnType, ResultsMembers

LEMMA QueryAllocType ==
  ASSUME ExecInv, NEW t \in Threads, QueryAlloc(t)
  PROVE  ExecInv'
  <1>1. Querying(t) /\ UNCHANGED <<modules, database, calls, committed>>
    BY DEF QueryAlloc
  <1>2. Executing(t) /\ pc[t] # "batch"
    BY <1>1, TopType DEF Querying
  <1>3. CASE OtherQueries(t)
    BY <1>1, <1>2, <1>3, OtherQueriesType
  <1>4. CASE Panic(t)
    BY <1>1, <1>2, <1>4, PanicType
  <1>5. CASE /\ call' = [call EXCEPT ![t].queries = SubSeq(@, 1, Len(@) - 1),
                                     ![t].answers = Append(@, Top(t).rows)]
             /\ lock' = Dropped(t)
             /\ UNCHANGED <<poisoned, pc, result>>
    <2> DEFINE qs == SubSeq(call[t].queries, 1, Len(call[t].queries) - 1)
               as == Append(call[t].answers, Top(t).rows)
               c  == [call[t] EXCEPT !.queries = qs, !.answers = as]
    <2>1. call[t] \in Executions /\ Top(t) \in Queries
      BY <1>1, TopType
    <2>2. call[t].queries \in Seq(Queries) /\ Len(call[t].queries) \in Nat
      BY <2>1, LenProperties DEF Executions
    <2>3. \A k \in 1..(Len(call[t].queries) - 1) : call[t].queries[k] \in Queries
      BY <2>2, ElementOfSeq
    <2>4. qs \in Seq(Queries)
      BY <2>2, <2>3, SubSeqProperties
    <2>5. as \in Seq(Seq(Amounts \cup {None}))
      BY <2>1, AppendProperties DEF Executions, Queries
    <2>6. c \in Executions
      BY <2>1, <2>4, <2>5 DEF Executions
    <2>7. call' = [call EXCEPT ![t] = c]
      BY <1>5 DEF ExecInv, TypeOK
    <2>8. lock' = lock
      BY <1>2, <1>5 DEF Dropped, ExecInv, TypeOK
    <2> QED
      BY <1>1, <1>2, <1>5, <2>6, <2>7, <2>8, OneCall
  <1> QED
    BY <1>3, <1>4, <1>5 DEF QueryAlloc

LEMMA RequestAllocType ==
  ASSUME ExecInv, NEW t \in Threads, RequestAlloc(t)
  PROVE  ExecInv'
  <1>1. /\ pc[t] = "request" /\ Executing(t)
        /\ UNCHANGED <<modules, database, calls, committed>>
    BY DEF RequestAlloc, Executing
  <1>2. CASE pc' = [pc EXCEPT ![t] = "guest"] /\ UNCHANGED <<lock, poisoned, call, result>>
    <2>1. call[t] \in Executions /\ Located("guest", call[t])
      BY <1>1 DEF Located, Locals, ExecInv, TypeOK
    <2>2. call' = [call EXCEPT ![t] = call[t]] /\ result' = [result EXCEPT ![t] = result[t]]
      BY <1>2 DEF ExecInv, TypeOK
    <2>3. pc[t] # "batch" /\ result[t] \in Results \cup {None}
      BY <1>1 DEF ExecInv, TypeOK
    <2>4. /\ modules' \in [Cids -> Guests \cup {None}]
          /\ database' \in Databases /\ committed' \in Databases
          /\ calls' \in 0..MaxCalls /\ database' = database /\ poisoned' \in BOOLEAN
      BY <1>1, <1>2 DEF ExecInv, TypeOK
    <2> QED
      BY <1>2, <2>1, <2>2, <2>3, <2>4, OneThread
  <1>3. CASE Return(t, Error) /\ UNCHANGED <<lock, poisoned>>
    BY <1>1, <1>3, ReturnType, ResultsMembers
  <1>4. CASE Panic(t)
    BY <1>1, <1>4, PanicType
  <1>5. CASE OtherQueries(t)
    BY <1>1, <1>5, OtherQueriesType
  <1> QED
    BY <1>2, <1>3, <1>4, <1>5 DEF RequestAlloc

(* What the transfer validator says, or whom it asks about. *)
LEMMA DoAttestType ==
  ASSUME NEW r \in Calls, NEW answers
  PROVE  LET next == do_attest(r, answers)
         IN  IF next.tag = "ask" THEN next.tx \in Dids ELSE next \in Results
  <1>1. r \in Requests
    BY ExecutorConstants
  <1>2. r.requester \in Dids /\ r.recipient \in Dids \cup {None}
    BY <1>1 DEF Requests
  <1>3. \/ do_attest(r, answers) \in {Invalid(reason) : reason \in Reasons}
        \/ do_attest(r, answers) = Valid(r)
        \/ do_attest(r, answers) = Ask(r.requester)
        \/ do_attest(r, answers) = Ask(r.recipient) /\ r.recipient # None
    BY DEF do_attest, Unparsable, Reasons
  <1> QED
    BY <1>2, <1>3, ResultsMembers DEF Invalid, Valid, Ask

LEMMA DecodeType ==
  ASSUME ExecInv, NEW t \in Threads, Executing(t), NEW packed, NEW verdict \in Results,
         Decode(t, packed, verdict), UNCHANGED <<modules, database, calls, committed>>
  PROVE  ExecInv'
  BY ReturnType, PanicType DEF Decode, Executing

LEMMA GuestType ==
  ASSUME ExecInv, NEW t \in Threads, Guest(t)
  PROVE  ExecInv'
  <1>1. /\ pc[t] = "guest" /\ Executing(t)
        /\ UNCHANGED <<modules, database, calls, committed>>
    BY DEF Guest, Executing
  <1>2. call[t].request \in Calls
    BY <1>1 DEF Executions, ExecInv, TypeOK
  <1>3. CASE TransferGuest(t)
    <2> DEFINE next == do_attest(call[t].request, call[t].answers)
    <2>1. CASE next.tag = "ask"
      <3>1. Select(next.tx) \in Asked
        BY <1>2, <2>1, DoAttestType DEF Asked
      <3> QED
        BY <1>1, <1>3, <2>1, <3>1, HostQueryType DEF TransferGuest
    <2>2. CASE next.tag # "ask"
      <3>1. PICK ptr \in Words, len \in Words : Decode(t, Pack(ptr, len), next)
        BY <1>3, <2>2 DEF TransferGuest
      <3>2. next \in Results
        BY <1>2, <2>2, DoAttestType
      <3> QED
        BY <1>1, <3>1, <3>2, DecodeType
    <2> QED
      BY <2>1, <2>2
  <1>4. CASE OtherGuest(t)
    <2>1. PICK ptr \in Words, len \in Words,
               verdict \in {Error, Valid(call[t].request), Invalid("parse error")} :
            Decode(t, Pack(ptr, len), verdict)
      BY <1>4 DEF OtherGuest
    <2>2. verdict \in Results
      BY <1>2, ResultsMembers DEF Reasons
    <2> QED
      BY <1>1, <2>1, <2>2, DecodeType
  <1>5. CASE OtherOutOfBounds(t)
    BY <1>1, <1>5, PanicType DEF OtherOutOfBounds
  <1>6. CASE OtherQueries(t)
    BY <1>1, <1>6, OtherQueriesType
  <1>7. CASE Return(t, Error) /\ UNCHANGED <<lock, poisoned>>
    BY <1>1, <1>7, ReturnType, ResultsMembers
  <1> QED
    BY <1>3, <1>4, <1>5, <1>6, <1>7 DEF Guest

LEMMA StepInvariant ==
  ASSUME ExecInv, [Next]_vars
  PROVE  ExecInv'
  <1>1. CASE UNCHANGED vars
    BY <1>1 DEF vars, ExecInv, TypeOK, Executing
  <1>2. ASSUME NEW cid \in Cids, NEW g \in Guests, register_wasm(cid, g) PROVE ExecInv'
    BY <1>2, RegisterType
  <1>3. ASSUME NEW t \in Threads, NEW b \in Batches, setup_database(t, b) PROVE ExecInv'
    BY <1>3, SetupType
  <1>4. ASSUME NEW t \in Threads, NEW r \in Calls, execute(t, r) PROVE ExecInv'
    BY <1>4, ExecuteType
  <1>5. ASSUME NEW t \in Threads, Step(t) PROVE ExecInv'
    BY <1>5, SetupLockType, SetupStatementType, RequestAllocType, GuestType, SqlQueryType,
       QueryAllocType DEF Step
  <1> QED
    BY <1>1, <1>2, <1>3, <1>4, <1>5 DEF Next

LEMMA Invariance == Spec => []ExecInv
  <1>1. Init => ExecInv
    BY InitType
  <1>2. ExecInv /\ [Next]_vars => ExecInv'
    BY StepInvariant
  <1> QED
    BY <1>1, <1>2, PTL DEF Spec

(* Every variable keeps its type, and the mutex belongs to a thread in the  *)
(* middle of a batch: no guest code runs under it (setup_database, and the  *)
(* scope of `dbs' in host_sql_query).                                       *)
THEOREM ExecutorTypeCorrect == Spec => []TypeOK
  <1>1. ExecInv => TypeOK
    BY DEF ExecInv
  <1> QED
    BY <1>1, Invariance, PTL

(* The host reads the region a guest names, or none, at every step.         *)
THEOREM RegionsAlwaysExact == Spec => RegionsExact
  <1>1. [Next]_vars => [SlicesAreExact]_vars
    BY SlicesExact
  <1> QED
    BY <1>1, PTL DEF Spec, RegionsExact
----------------------------------------------------------------------------
(* What a step of an execution, other than its queries, leaves alone.       *)
LEMMA QueriesAlone ==
  ASSUME ExecInv, NEW t \in Threads, NEW sql, Executing(t), host_sql_query(t, sql)
  PROVE  /\ lock' = lock /\ pc' = pc
         /\ \A u \in Threads : u # t => call'[u] = call[u]
  BY DEF host_sql_query, ExecInv, TypeOK

LEMMA ReturnAlone ==
  ASSUME ExecInv, NEW t \in Threads, NEW res, Executing(t), Return(t, res)
  PROVE  /\ pc'[t] = "idle" /\ call'[t] = None /\ result'[t] = res
         /\ \A u \in Threads : u # t => pc'[u] = pc[u] /\ call'[u] = call[u]
  BY DEF Return, ExecInv, TypeOK

LEMMA PanicAlone ==
  ASSUME ExecInv, NEW t \in Threads, Executing(t), Panic(t)
  PROVE  lock' = lock /\ Return(t, Panicked)
  BY DEF Panic, Dropped, ExecInv, TypeOK, Executing

(* A step of the guest of thread t. *)
ExecutionStep(t) == RequestAlloc(t) \/ Guest(t) \/ QueryAlloc(t)

LEMMA ExecutionAlone ==
  ASSUME ExecInv, NEW t \in Threads, ExecutionStep(t)
  PROVE  /\ Executing(t) /\ UNCHANGED <<database, lock, committed>>
         /\ pc'[t] \in {"idle", "request", "guest"}
         /\ \A u \in Threads : u # t => pc'[u] = pc[u] /\ call'[u] = call[u]
  <1>1. Executing(t) /\ UNCHANGED <<database, committed>> /\ pc[t] \in {"request", "guest"}
    BY DEF ExecutionStep, RequestAlloc, Guest, QueryAlloc, Querying, Executing
  <1> DEFINE Alone == /\ lock' = lock /\ pc'[t] \in {"idle", "request", "guest"}
                      /\ \A u \in Threads : u # t => pc'[u] = pc[u] /\ call'[u] = call[u]
  <1>2. ASSUME NEW sql, host_sql_query(t, sql) PROVE Alone
    BY <1>1, <1>2, QueriesAlone
  <1>3. ASSUME NEW res, Return(t, res), lock' = lock PROVE Alone
    BY <1>1, <1>3, ReturnAlone
  <1>4. ASSUME Panic(t) PROVE Alone
    BY <1>1, <1>3, <1>4, PanicAlone
  <1>5. ASSUME OtherQueries(t) PROVE Alone
    BY <1>2, <1>5 DEF OtherQueries
  <1>6. ASSUME NEW packed, NEW verdict, Decode(t, packed, verdict) PROVE Alone
    BY <1>3, <1>4, <1>6 DEF Decode
  <1> SUFFICES Alone
    BY <1>1
  <1>7. CASE RequestAlloc(t)
    <2>1. CASE pc' = [pc EXCEPT ![t] = "guest"] /\ UNCHANGED <<lock, poisoned, call, result>>
      <3>1. lock' = lock /\ call' = call
        BY <2>1
      <3>2. \A u \in Threads : pc'[u] = IF u = t THEN "guest" ELSE pc[u]
        BY <2>1 DEF ExecInv, TypeOK
      <3> QED
        BY <3>1, <3>2
    <2> QED
      BY <1>3, <1>4, <1>5, <1>7, <2>1, <1>1 DEF RequestAlloc
  <1>8. CASE Guest(t)
    <2>1. CASE TransferGuest(t)
      <3> DEFINE next == do_attest(call[t].request, call[t].answers)
      <3>1. \/ host_sql_query(t, Select(next.tx))
            \/ \E ptr, len \in Words : Decode(t, Pack(ptr, len), next)
        BY <2>1 DEF TransferGuest
      <3> QED
        BY ONLY <1>2, <1>6, <3>1
    <2>2. CASE OtherGuest(t)
      <3>1. PICK ptr \in Words, len \in Words,
                 verdict \in {Error, Valid(call[t].request), Invalid("parse error")} :
              Decode(t, Pack(ptr, len), verdict)
        BY <2>2 DEF OtherGuest
      <3> QED
        BY ONLY <1>6, <3>1
    <2> QED
      BY <1>3, <1>4, <1>5, <1>8, <2>1, <2>2, <1>1 DEF Guest, OtherOutOfBounds
  <1>9. CASE QueryAlloc(t)
    <2>1. CASE /\ call' = [call EXCEPT ![t].queries = SubSeq(@, 1, Len(@) - 1),
                                       ![t].answers = Append(@, Top(t).rows)]
               /\ lock' = Dropped(t)
               /\ UNCHANGED <<poisoned, pc, result>>
      BY <1>1, <2>1 DEF Dropped, ExecInv, TypeOK, Executing
    <2> QED
      BY <1>4, <1>5, <1>9, <2>1, <1>1 DEF QueryAlloc
  <1> QED
    BY <1>1, <1>7, <1>8, <1>9 DEF ExecutionStep

----------------------------------------------------------------------------
(* What a batch has done so far: nothing, or it is not one that starts by   *)
(* creating a table there already is.                                       *)
Unstarted(c) ==
  /\ c.batch = c.given
  /\ database = committed \/ (committed = None /\ database = NoTable)

BatchInv ==
  /\ lock = None => database = committed
  /\ \A t \in Threads :
       /\ pc[t] = "setup" => call[t].batch = call[t].given
       /\ pc[t] = "batch" => \/ Unstarted(call[t])
                             \/ Head(call[t].given) # Create
                             \/ committed \in {None, NoTable}

LEMMA BatchFrame ==
  ASSUME BatchInv, UNCHANGED <<database, lock, committed>>,
         \A u \in Threads : pc'[u] \in {"setup", "batch"} => pc'[u] = pc[u] /\ call'[u] = call[u]
  PROVE  BatchInv'
  BY DEF BatchInv, Unstarted

LEMMA BatchSetup ==
  ASSUME ExecInv, BatchInv, NEW t \in Threads, NEW b \in Batches, setup_database(t, b)
  PROVE  BatchInv'
  <1>1. /\ pc[t] = "idle"
        /\ pc' = [pc EXCEPT ![t] = "setup"]
        /\ call' = [call EXCEPT ![t] = [given |-> b, batch |-> b]]
        /\ UNCHANGED <<database, lock, committed>>
    BY DEF setup_database, Call
  <1>2. /\ pc'[t] = "setup" /\ call'[t] = [given |-> b, batch |-> b]
        /\ \A u \in Threads : u # t => pc'[u] = pc[u] /\ call'[u] = call[u]
    BY <1>1 DEF ExecInv, TypeOK
  <1> QED
    BY <1>1, <1>2 DEF BatchInv, Unstarted

LEMMA BatchLock ==
  ASSUME ExecInv, BatchInv, NEW t \in Threads, SetupLock(t)
  PROVE  BatchInv'
  <1>1. pc[t] = "setup" /\ lock = None /\ committed' = committed
    BY SetupLockCases
  <1>2. CASE Return(t, Panicked) /\ UNCHANGED <<lock, database>>
    <2>1. \A u \in Threads :
            pc'[u] \in {"setup", "batch"} => pc'[u] = pc[u] /\ call'[u] = call[u]
      BY <1>2 DEF Return, ExecInv, TypeOK
    <2> QED
      BY <1>1, <1>2, <2>1, BatchFrame
  <1>3. CASE /\ lock' = t /\ pc' = [pc EXCEPT ![t] = "batch"]
             /\ database' = IF database = None THEN NoTable ELSE database
             /\ call' = call
    <2>1. database = committed /\ lock' # None
      BY <1>1, <1>3, ExecutorConstants DEF BatchInv
    <2>2. \A u \in Threads : u # t => pc'[u] = pc[u] /\ pc[u] # "batch"
      BY <1>1, <1>3, ExecutorConstants DEF ExecInv, TypeOK
    <2>3. pc'[t] = "batch" /\ call'[t].batch = call'[t].given
      BY <1>1, <1>3 DEF BatchInv, ExecInv, TypeOK
    <2> QED
      BY <1>1, <1>3, <2>1, <2>2, <2>3 DEF BatchInv, Unstarted
  <1> QED
    BY <1>2, <1>3, SetupLockCases

(* Calls that are not executions look the same after a change is observed. *)
LEMMA ObservedSetups ==
  ASSUME NEW executions, NEW db, NEW u \in Threads, ~Executing(u)
  PROVE  Observed(executions, db)[u] = executions[u]
  BY DEF Observed

LEMMA BatchEnd ==
  ASSUME ExecInv, BatchInv, NEW t \in Threads, pc[t] = "batch", NEW res, EndSetup(t, res)
  PROVE  /\ BatchInv'
         /\ Head(call[t].given) = Create /\ committed \notin {None, NoTable}
              => committed' = committed
  <1>1. /\ lock = t /\ lock' = None /\ database' = database /\ committed' = database
        /\ pc' = [pc EXCEPT ![t] = "idle"]
        /\ call' = Observed([call EXCEPT ![t] = None], database)
    BY DEF EndSetup, Dropped, ExecInv, TypeOK
  <1>2. \A u \in Threads : u # t => pc'[u] = pc[u] /\ pc[u] # "batch"
    BY <1>1 DEF ExecInv, TypeOK
  <1>3. pc'[t] = "idle"
    BY <1>1 DEF ExecInv, TypeOK
  <1>4. \A u \in Threads : u # t /\ pc[u] = "setup" => call'[u] = call[u]
    <2> DEFINE dropped == [call EXCEPT ![t] = None]
    <2>1. \A u \in Threads : u # t => dropped[u] = call[u]
      BY DEF ExecInv, TypeOK
    <2>2. \A u \in Threads : pc[u] = "setup" => Observed(dropped, database)[u] = dropped[u]
      BY ObservedSetups DEF Executing
    <2> QED
      BY <1>1, <2>1, <2>2
  <1>5. BatchInv'
    BY <1>1, <1>2, <1>3, <1>4 DEF BatchInv
  <1> QED
    BY <1>1, <1>5 DEF BatchInv, Unstarted

LEMMA BatchStatement ==
  ASSUME ExecInv, BatchInv, NEW t \in Threads, SetupStatement(t)
  PROVE  /\ BatchInv'
         /\ pc'[t] = "idle" /\ Head(call[t].given) = Create /\ committed \notin {None, NoTable}
              => committed' = committed
  <1> DEFINE sql == Head(call[t].batch)
  <1>1. pc[t] = "batch" /\ lock = t /\ lock # None
    BY ExecutorConstants DEF SetupStatement, ExecInv, TypeOK
  <1>2. CASE call[t].batch = <<>> \/ Fails(database, sql)
    BY <1>1, <1>2, BatchEnd DEF SetupStatement
  <1>3. CASE call[t].batch # <<>> /\ ~Fails(database, sql)
    <2>1. /\ call' = [call EXCEPT ![t].batch = Tail(@)]
          /\ UNCHANGED <<pc, lock, committed>>
      BY <1>3 DEF SetupStatement
    <2>2. \A u \in Threads : u # t => call'[u] = call[u] /\ pc[u] # "batch"
      BY <1>1, <2>1 DEF ExecInv, TypeOK
    <2>3. call'[t].given = call[t].given
      BY <1>1, <2>1 DEF ExecInv, TypeOK, Setups
    <2>4. sql = Create => database = NoTable
      BY <1>3 DEF Fails, Create
    <2>5. Head(call[t].given) # Create \/ committed \in {None, NoTable}
      BY <1>1, <2>4 DEF BatchInv, Unstarted
    <2> QED
      BY <1>1, <2>1, <2>2, <2>3, <2>5 DEF BatchInv
  <1> QED
    BY <1>2, <1>3

LEMMA BatchQuery ==
  ASSUME ExecInv, BatchInv, NEW t \in Threads, SqlQuery(t)
  PROVE  BatchInv' /\ (pc' = pc \/ committed' = committed)
  <1>1. Querying(t) /\ lock = None /\ lock' = lock
    BY SqlQueryCases
  <1>2. CASE Return(t, Panicked) /\ UNCHANGED <<database, committed>>
    <2>1. \A u \in Threads :
            pc'[u] \in {"setup", "batch"} => pc'[u] = pc[u] /\ call'[u] = call[u]
      BY <1>2 DEF Return, ExecInv, TypeOK
    <2> QED
      BY <1>1, <1>2, <2>1, BatchFrame
  <1>3. CASE Queried(t)
    <2>1. \A u \in Threads : pc[u] # "batch"
      BY <1>1, ExecutorConstants DEF ExecInv, TypeOK
    <2>2. ASSUME NEW u \in Threads, pc[u] = "setup" PROVE call'[u] = call[u]
      <3>1. u # t /\ ~Executing(u)
        BY <1>1, <2>2 DEF Querying, Executing
      <3> QED
        BY <1>1, <1>3, <3>1, FetchedType, ObservedSetups DEF Queried
    <2> QED
      BY <1>1, <1>3, <2>1, <2>2 DEF BatchInv, Queried
  <1> QED
    BY <1>2, <1>3, SqlQueryCases

LEMMA BatchStep ==
  ASSUME ExecInv, BatchInv, [Next]_vars
  PROVE  /\ BatchInv'
         /\ \A t \in Threads :
              pc[t] = "batch" /\ pc'[t] = "idle" /\ Head(call[t].given) = Create
                /\ committed \notin {None, NoTable} => committed' = committed
  <1>1. CASE UNCHANGED vars
    BY <1>1 DEF vars, BatchInv, Unstarted
  <1>2. ASSUME NEW cid \in Cids, NEW g \in Guests, register_wasm(cid, g)
        PROVE  BatchInv' /\ committed' = committed
    BY <1>2 DEF register_wasm, BatchInv, Unstarted
  <1>3. ASSUME NEW t \in Threads, NEW b \in Batches, setup_database(t, b)
        PROVE  BatchInv' /\ committed' = committed
    BY <1>3, BatchSetup DEF setup_database, Call
  <1>4. ASSUME NEW t \in Threads, NEW r \in Calls, execute(t, r)
        PROVE  BatchInv' /\ committed' = committed
    <2>1. /\ UNCHANGED <<database, lock, committed>>
          /\ pc'[t] \in {"idle", "request"}
          /\ \A u \in Threads : u # t => pc'[u] = pc[u] /\ call'[u] = call[u]
      BY <1>4 DEF execute, Call, ExecInv, TypeOK
    <2>2. \A u \in Threads : pc'[u] \in {"setup", "batch"} => pc'[u] = pc[u] /\ call'[u] = call[u]
      BY <2>1
    <2> QED
      BY <2>1, <2>2, BatchFrame
  <1>5. ASSUME NEW t \in Threads, SetupLock(t)
        PROVE  BatchInv' /\ committed' = committed
    BY <1>5, BatchLock, SetupLockCases
  <1>6. ASSUME NEW t \in Threads, ExecutionStep(t)
        PROVE  BatchInv' /\ committed' = committed
    <2>1. /\ UNCHANGED <<database, lock, committed>>
          /\ \A u \in Threads :
               pc'[u] \in {"setup", "batch"} => pc'[u] = pc[u] /\ call'[u] = call[u]
      BY <1>6, ExecutionAlone
    <2> QED
      BY <2>1, BatchFrame
  <1>7. ASSUME NEW t \in Threads, SqlQuery(t)
        PROVE  BatchInv' /\ (pc' = pc \/ committed' = committed)
    BY <1>7, BatchQuery
  <1>8. ASSUME NEW t \in Threads, SetupStatement(t), NEW u \in Threads, pc[u] = "batch"
        PROVE  u = t
    BY <1>8 DEF SetupStatement, ExecInv, TypeOK
  <1> QED
    BY <1>1, <1>2, <1>3, <1>4, <1>5, <1>6, <1>7, <1>8, BatchStatement
       DEF Next, Step, ExecutionStep

LEMMA BatchInvariance == Spec => [](ExecInv /\ BatchInv)
  <1>1. Init => BatchInv
    BY DEF Init, BatchInv
  <1>2. ExecInv /\ BatchInv /\ [Next]_vars => BatchInv'
    BY BatchStep
  <1> QED
    BY <1>1, <1>2, Invariance, PTL DEF Spec

(* A batch that creates its table first changes a set-up database nowhere,  *)
(* however setup_database is called and whatever queries run beside it.     *)
THEOREM BatchesBootstrapOnce == Spec => BootstrapOnce
  <1> DEFINE Once == \A t \in Threads :
               pc[t] = "batch" /\ pc'[t] = "idle" /\ Head(call[t].given) = Create
                 /\ committed \notin {None, NoTable} => committed' = committed
  <1>1. ExecInv /\ BatchInv /\ [Next]_vars => [Once]_vars
    BY BatchStep
  <1> QED
    BY <1>1, BatchInvariance, PTL DEF Spec, BootstrapOnce

(* A step poisons the mutex only in setup_database, where a new database    *)
(* does not open.                                                           *)
LEMMA PoisoningStep ==
  ASSUME ExecInv, Next, ~poisoned, poisoned'
  PROVE  \E t \in Threads : pc[t] = "setup" /\ database = None /\ result'[t] = Panicked
  <1>1. ASSUME NEW cid \in Cids, NEW g \in Guests PROVE ~register_wasm(cid, g)
    BY DEF register_wasm
  <1>2. ASSUME NEW t \in Threads, NEW b \in Batches PROVE ~setup_database(t, b)
    BY DEF setup_database, Call
  <1>3. ASSUME NEW t \in Threads, NEW r \in Calls PROVE ~execute(t, r)
    BY DEF execute, Call
  <1>4. ASSUME NEW t \in Threads PROVE ~SetupStatement(t)
    BY DEF SetupStatement, EndSetup
  <1>5. ASSUME NEW t \in Threads PROVE ~SqlQuery(t)
    BY SqlQueryCases DEF Queried
  <1>6. ASSUME NEW t \in Threads, Executing(t) PROVE ~Panic(t)
    BY <1>6 DEF Panic, Executing, ExecInv, TypeOK
  <1>7. ASSUME NEW t \in Threads PROVE ~RequestAlloc(t)
    BY <1>6 DEF RequestAlloc, OtherQueries, host_sql_query, Executing
  <1>8. ASSUME NEW t \in Threads PROVE ~QueryAlloc(t)
    BY <1>6 DEF QueryAlloc, OtherQueries, host_sql_query, Querying
  <1>9. ASSUME NEW t \in Threads PROVE ~Guest(t)
    <2>1. ASSUME NEW packed, NEW verdict, Executing(t) PROVE ~Decode(t, packed, verdict)
      BY <1>6, <2>1 DEF Decode
    <2>2. ASSUME NEW sql PROVE ~host_sql_query(t, sql)
      BY DEF host_sql_query
    <2>3. ASSUME Executing(t) PROVE ~TransferGuest(t) /\ ~OtherGuest(t)
      <3>1. ~OtherGuest(t)
        BY <2>1, <2>3 DEF OtherGuest
      <3>2. ~TransferGuest(t)
        BY <2>1, <2>2, <2>3, Zenon DEF TransferGuest
      <3> QED
        BY <3>1, <3>2
    <2>4. ~OtherQueries(t)
      BY <2>2 DEF OtherQueries
    <2> QED
      BY <1>6, <2>3, <2>4 DEF Guest, OtherOutOfBounds, Executing
  <1>10. PICK t \in Threads : SetupLock(t)
    BY <1>1, <1>2, <1>3, <1>4, <1>5, <1>7, <1>8, <1>9 DEF Next, Step
  <1>11. pc[t] = "setup" /\ database = None /\ Return(t, Panicked)
    BY <1>10, SetupLockCases
  <1> QED
    BY <1>11 DEF Return, ExecInv, TypeOK

(* No trap or panic of any execution poisons the mutex of the databases:    *)
(* only setup_database does, when a new database does not open.             *)
THEOREM ExecutionsPoisonNothing == Spec => ExecutionsNeverPoison
  <1> DEFINE Opening == ~poisoned /\ poisoned' =>
               \E t \in Threads : pc[t] = "setup" /\ database = None /\ result'[t] = Panicked
  <1>1. ExecInv /\ [Next]_vars => [Opening]_vars
    BY PoisoningStep
  <1>2. [][Opening]_vars <=> ExecutionsNeverPoison
    BY DEF ExecutionsNeverPoison
  <1> QED
    BY <1>1, <1>2, Invariance, PTL DEF Spec
----------------------------------------------------------------------------
(* Sequences with and without elements. *)
LEMMA NonEmpty ==
  ASSUME NEW S, NEW s \in Seq(S)
  PROVE  Len(s) \in Nat /\ (s # <<>> <=> Len(s) >= 1)
  BY EmptySeq

(* Small numbers. *)
LEMMA One ==
  ASSUME NEW n \in Nat, n <= 1, n >= 1
  PROVE  n = 1
  OBVIOUS

LEMMA AtMostOne ==
  ASSUME NEW n, n = 0 \/ n = 1
  PROVE  n <= 1
  OBVIOUS

LEMMA Two ==
  ASSUME NEW n \in Nat, n >= 1, n # 1
  PROVE  n >= 2
  OBVIOUS

LEMMA Rest ==
  ASSUME NEW m \in Nat, NEW n \in Nat, m + n <= 2, n >= 1
  PROVE  m <= 1
  OBVIOUS

LEMMA Predecessor ==
  ASSUME NEW n \in Nat, NEW m, m = n + 1
  PROVE  m = 2 => n = 1
  OBVIOUS

(* The rows an execution has been given, or is about to be.                 *)
Got(c) ==
  IF c.queries # <<>> /\ c.queries[1].phase = "alloc"
  THEN Append(c.answers, c.queries[1].rows) ELSE c.answers

(* They are those of states it has seen, the second of no earlier one.      *)
FromStates(c) ==
  \E i, j \in DOMAIN c.seen :
    /\ i <= j
    /\ Len(Got(c)) >= 1 => Got(c)[1] = rows_of(c.seen[i], Select(c.request.requester))
    /\ Len(Got(c)) >= 2 => Got(c)[2] = rows_of(c.seen[j], Select(c.request.recipient))

(* Where an execution of the transfer validator can be: p its place, db the *)
(* database when the mutex was last free.                                   *)
Proper(p, c, db) ==
  /\ c.seen # <<>> /\ c.seen[Len(c.seen)] = db
  /\ Len(c.queries) <= 1 /\ Len(c.answers) + Len(c.queries) <= 2
  /\ p = "request" => c.queries = <<>> /\ c.answers = <<>>
  /\ Len(c.answers) + Len(c.queries) >= 1 =>
       /\ c.request.amount # None /\ c.request.recipient # None
       /\ c.request.amount > 0
  /\ c.queries # <<>> =>
       c.queries[1].sql = Select(IF c.answers = <<>> THEN c.request.requester
                                                     ELSE c.request.recipient)
  /\ Len(c.answers) + Len(c.queries) = 2 => c.request.amount <= Balance(c.answers[1])
  /\ FromStates(c)

TransferInv ==
  \A t \in Threads :
    Executing(t) /\ call[t].guest = "transfer" => Proper(pc[t], call[t], committed)

(* Seeing one more state changes nothing else. *)
LEMMA ProperObserves ==
  ASSUME NEW p, NEW c \in Executions, NEW db, NEW now \in Databases, Proper(p, c, db)
  PROVE  Proper(p, [c EXCEPT !.seen = Append(@, now)], now)
  <1> DEFINE d == [c EXCEPT !.seen = Append(@, now)]
  <1>1. c.seen \in Seq(Databases)
    BY DEF Executions
  <1>2. /\ Append(c.seen, now) \in Seq(Databases)
        /\ Len(Append(c.seen, now)) = Len(c.seen) + 1
        /\ Append(c.seen, now)[Len(c.seen) + 1] = now
        /\ \A k \in 1..Len(c.seen) : Append(c.seen, now)[k] = c.seen[k]
        /\ Append(c.seen, now) # <<>>
    BY <1>1, AppendProperties
  <1>3. /\ d.queries = c.queries /\ d.answers = c.answers /\ d.request = c.request
        /\ d.seen = Append(c.seen, now)
    BY DEF Executions
  <1>4. Got(d) = Got(c)
    BY <1>3 DEF Got
  <1>5. FromStates(d)
    <2>1. PICK i \in DOMAIN c.seen, j \in DOMAIN c.seen :
            /\ i <= j
            /\ Len(Got(c)) >= 1 => Got(c)[1] = rows_of(c.seen[i], Select(c.request.requester))
            /\ Len(Got(c)) >= 2 => Got(c)[2] = rows_of(c.seen[j], Select(c.request.recipient))
      BY DEF Proper, FromStates
    <2>2. i \in 1..Len(c.seen) /\ j \in 1..Len(c.seen)
      BY <1>1
    <2>3. i \in DOMAIN d.seen /\ j \in DOMAIN d.seen
      BY <1>1, <1>2, <1>3, <2>2
    <2>4. d.seen[i] = c.seen[i] /\ d.seen[j] = c.seen[j]
      BY <1>2, <1>3, <2>2
    <2> HIDE DEF d
    <2> QED
      BY <1>3, <1>4, <2>1, <2>3, <2>4 DEF FromStates
  <1>6. d.seen # <<>> /\ d.seen[Len(d.seen)] = now
    BY <1>2, <1>3
  <1> HIDE DEF d
  <1>7. Proper(p, d, now)
    BY <1>3, <1>5, <1>6 DEF Proper
  <1> QED
    BY <1>7 DEF d

(* A step of another thread leaves an execution proper. *)
LEMMA TransferFrame ==
  ASSUME ExecInv, TransferInv, NEW u \in Threads, pc'[u] = pc[u], call'[u] = call[u],
         committed' = committed
  PROVE  Executing(u)' /\ call'[u].guest = "transfer" => Proper(pc'[u], call'[u], committed')
  BY DEF TransferInv, Executing

(* So does a step that changes the database, once it is observed. *)
LEMMA TransferObserves ==
  ASSUME ExecInv, TransferInv, NEW executions, NEW u \in Threads,
         pc'[u] = pc[u], committed' \in Databases,
         call' = Observed(executions, committed'), executions[u] = call[u]
  PROVE  Executing(u)' /\ call'[u].guest = "transfer" => Proper(pc'[u], call'[u], committed')
  <1> SUFFICES ASSUME Executing(u)', call'[u].guest = "transfer"
               PROVE  Proper(pc'[u], call'[u], committed')
    OBVIOUS
  <1>1. Executing(u) /\ call[u] \in Executions
    BY DEF Executing, ExecInv, TypeOK
  <1>2. call'[u] = IF committed' # committed
                   THEN [call[u] EXCEPT !.seen = Append(@, committed')] ELSE call[u]
    BY <1>1 DEF Observed
  <1>3. call[u].guest = "transfer"
    BY <1>1, <1>2 DEF Executions
  <1>4. Proper(pc[u], call[u], committed)
    BY <1>1, <1>3 DEF TransferInv
  <1> QED
    BY <1>1, <1>2, <1>4, ProperObserves

(* A call of execute. *)
LEMMA TransferBegins ==
  ASSUME ExecInv, TransferInv, NEW t \in Threads, NEW r \in Calls, execute(t, r)
  PROVE  TransferInv'
  <1>1. /\ committed' = committed
        /\ \A u \in Threads : u # t => pc'[u] = pc[u] /\ call'[u] = call[u]
    BY DEF execute, Call, ExecInv, TypeOK
  <1>2. \/ pc'[t] = "idle"
        \/ /\ pc'[t] = "request"
           /\ call'[t] = [request |-> r, guest |-> modules[r.program_cid], queries |-> <<>>,
                          answers |-> <<>>, seen |-> <<committed>>]
    BY DEF execute, Call, ExecInv, TypeOK
  <1>3. ASSUME pc'[t] # "idle" PROVE Proper(pc'[t], call'[t], committed')
    <2> DEFINE c == call'[t]
    <2>1. /\ c.queries = <<>> /\ c.answers = <<>> /\ c.seen = <<committed>>
      BY <1>2, <1>3
    <2>2. Len(<<>>) = 0 /\ Got(c) = <<>>
      BY <2>1 DEF Got
    <2>3. 1 \in DOMAIN c.seen /\ c.seen # <<>> /\ Len(c.seen) = 1 /\ c.seen[1] = committed
      BY <2>1
    <2>4. FromStates(c)
      BY <2>2, <2>3 DEF FromStates
    <2> QED
      BY <1>1, <2>1, <2>2, <2>3, <2>4 DEF Proper
  <1> QED
    BY <1>1, <1>3, TransferFrame DEF TransferInv, Executing

(* A query of the validator is answered. *)
LEMMA TransferFetches ==
  ASSUME ExecInv, BatchInv, TransferInv, NEW t \in Threads, SqlQuery(t), Queried(t)
  PROVE  TransferInv'
  <1>1. /\ Querying(t) /\ lock = None /\ pc' = pc
        /\ database' = queried(database, Top(t).sql)
        /\ committed' = IF database' = database THEN committed ELSE database'
        /\ call' = Observed(Fetched(t), committed')
    BY SqlQueryCases DEF Queried
  <1>2. committed' \in Databases
    BY SqlQueryType DEF ExecInv, TypeOK
  <1>3. ASSUME NEW u \in Threads, u # t
        PROVE  Executing(u)' /\ call'[u].guest = "transfer" => Proper(pc'[u], call'[u], committed')
    <2>1. Fetched(t)[u] = call[u]
      BY <1>1, <1>3, FetchedType
    <2> QED
      BY <1>1, <1>2, <2>1, TransferObserves
  <1>4. ASSUME call'[t].guest = "transfer" PROVE Proper(pc'[t], call'[t], committed')
    <2> DEFINE c  == call[t]
               n  == Len(c.queries)
               q  == [sql |-> Top(t).sql, phase |-> "alloc",
                      rows |-> rows_of(database, Top(t).sql)]
               qs == [c.queries EXCEPT ![n] = q]
               d  == [c EXCEPT !.queries = qs]
    <2>1. c \in Executions /\ n \in 1..n /\ Executing(t) /\ Top(t).phase = "lock"
      BY <1>1, TopType DEF Querying, SqlQuery
    <2>2. Fetched(t) = [call EXCEPT ![t] = d]
      BY DEF Fetched, Top
    <2>3. Fetched(t)[t] = d
      BY <2>2 DEF ExecInv, TypeOK
    <2>4. /\ d.guest = c.guest /\ d.answers = c.answers /\ d.request = c.request
          /\ d.seen = c.seen /\ d.queries = qs
      BY <2>1 DEF Executions
    <2>5. call'[t] = IF committed' # committed
                     THEN [d EXCEPT !.seen = Append(@, committed')] ELSE d
      BY <1>1, <2>1, <2>3 DEF Observed
    <2>6. d \in Executions
      BY <1>1, <2>1, <2>3, FetchedType
    <2> HIDE DEF d
    <2>7. c.guest = "transfer"
      BY <1>4, <2>4, <2>5, <2>6 DEF Executions
    <2>8. Proper(pc[t], c, committed)
      BY <2>1, <2>7 DEF TransferInv
    <2>9. c.answers \in Seq(Seq(Amounts \cup {None})) /\ Len(c.answers) \in Nat
            /\ c.seen \in Seq(Databases) /\ Len(c.seen) \in Nat
            /\ c.queries \in Seq(Queries) /\ n \in Nat
      BY <2>1, LenProperties DEF Executions
    <2>10. n = 1 /\ Len(c.answers) <= 1 /\ Len(qs) = 1 /\ qs # <<>> /\ qs[1] = q
             /\ c.queries # <<>>
      <3>1. n = 1 /\ Len(c.answers) <= 1 /\ c.queries # <<>>
        <4>1. n <= 1 /\ Len(c.answers) + n <= 2
          BY <2>8 DEF Proper
        <4>2. n = 1 /\ Len(c.answers) <= 1
          <5>1. n \in Nat /\ n <= 1 /\ n >= 1
            BY <2>1, <2>9, <4>1
          <5>2. n = 1
            BY <5>1, One, Zenon
          <5>3. Len(c.answers) <= 1
            BY <2>9, <4>1, <5>1, Rest, Zenon
          <5> QED
            BY <5>2, <5>3, Zenon
        <4> QED
          BY <2>1, <2>9, <4>1, <4>2, NonEmpty
      <3>2. q \in Queries
        BY <2>4, <2>6, <3>1, <2>9 DEF Executions
      <3>3. qs \in Seq(Queries) /\ Len(qs) = 1 /\ qs[1] = q
        BY <2>9, <3>1, <3>2, ExceptSeq
      <3> QED
        BY <3>1, <3>3
    <2>11. /\ Top(t) = c.queries[1]
           /\ Top(t).sql = Select(IF c.answers = <<>> THEN c.request.requester
                                                      ELSE c.request.recipient)
      BY <2>8, <2>10 DEF Proper, Top
    <2>12. database' = database /\ committed' = committed /\ committed = database
      BY <1>1, <2>11 DEF queried, Select, BatchInv
    <2>13. call'[t] = d
      BY <2>5, <2>12
    <2>14. /\ Got(c) = c.answers
           /\ Got(d) = Append(c.answers, rows_of(committed, Top(t).sql))
      BY <2>1, <2>4, <2>10, <2>11, <2>12 DEF Got
    <2>15. /\ Len(Got(d)) = Len(c.answers) + 1
           /\ Got(d)[Len(c.answers) + 1] = rows_of(committed, Top(t).sql)
           /\ Len(c.answers) = 1 => Got(d)[1] = c.answers[1]
      BY <2>9, <2>14, AppendProperties
    <2>16. PICK i \in DOMAIN c.seen, j \in DOMAIN c.seen :
             /\ i <= j
             /\ Len(Got(c)) >= 1 => Got(c)[1] = rows_of(c.seen[i], Select(c.request.requester))
      BY <2>8 DEF Proper, FromStates
    <2>17. /\ Len(c.seen) \in DOMAIN c.seen /\ i <= Len(c.seen)
           /\ c.seen[Len(c.seen)] = committed
      BY <2>8, <2>9, <2>16 DEF Proper
    <2>18. FromStates(d)
      <3>1. CASE c.answers = <<>>
        <4>1. Len(Got(d)) = 1 /\ Got(d)[1] = rows_of(c.seen[Len(c.seen)], Select(c.request.requester))
          BY <3>1, <2>9, <2>11, <2>15, <2>17
        <4> QED
          <5> DEFINE last == Len(c.seen)
          <5>1. last \in DOMAIN d.seen /\ last <= last /\ d.seen[last] = c.seen[last]
            BY <2>4, <2>9, <2>17
          <5>2. /\ Len(Got(d)) >= 1 => Got(d)[1] = rows_of(d.seen[last], Select(d.request.requester))
                /\ ~(Len(Got(d)) >= 2)
            BY <2>4, <4>1, <5>1
          <5> HIDE DEF last
          <5> QED
            BY <5>1, <5>2 DEF FromStates
      <3>2. CASE c.answers # <<>>
        <4>1. Len(c.answers) = 1
          BY <3>2, <2>9, <2>10, EmptySeq
        <4>2. /\ Len(Got(d)) = 2
              /\ Got(d)[1] = rows_of(c.seen[i], Select(c.request.requester))
              /\ Got(d)[2] = rows_of(c.seen[Len(c.seen)], Select(c.request.recipient))
          BY <3>2, <4>1, <2>11, <2>14, <2>15, <2>16, <2>17
        <4> QED
          BY <2>4, <2>16, <2>17, <4>2 DEF FromStates
      <3> QED
        BY <3>1, <3>2
    <2>19. qs[1].sql = Top(t).sql
      BY <2>10
    <2> QED
      BY <1>1, <2>1, <2>4, <2>8, <2>10, <2>11, <2>12, <2>13, <2>18, <2>19 DEF Proper
  <1> QED
    BY <1>3, <1>4 DEF TransferInv
(* What is left of thread t's execution when one of its guest's steps does  *)
(* not end it.                                                              *)
LEMMA TransferAllocates ==
  ASSUME ExecInv, TransferInv, NEW t \in Threads, QueryAlloc(t), call[t].guest = "transfer",
         pc'[t] # "idle"
  PROVE  Proper(pc'[t], call'[t], committed')
  <1> DEFINE c == call[t]
             q == Top(t)
  <1>1. Querying(t) /\ Executing(t) /\ c \in Executions /\ q.phase = "alloc" /\ q \in Queries
          /\ committed' = committed
    BY TopType DEF QueryAlloc, Querying
  <1>2. /\ call' = [call EXCEPT ![t].queries = SubSeq(@, 1, Len(@) - 1),
                               ![t].answers = Append(@, Top(t).rows)]
        /\ pc' = pc
    <2>1. ~Panic(t)
      BY <1>1, PanicAlone, ReturnAlone
    <2>2. ~OtherQueries(t)
      BY DEF OtherQueries
    <2> QED
      BY <2>1, <2>2 DEF QueryAlloc
  <1>3. Proper(pc[t], c, committed)
    BY <1>1 DEF TransferInv
  <1>4. /\ c.answers \in Seq(Seq(Amounts \cup {None})) /\ Len(c.answers) \in Nat
        /\ c.queries \in Seq(Queries) /\ Len(c.queries) \in Nat
        /\ q.rows \in Seq(Amounts \cup {None})
    BY <1>1, LenProperties DEF Executions, Queries
  <1>5. Len(c.queries) = 1 /\ Len(c.answers) <= 1 /\ c.queries # <<>> /\ q = c.queries[1]
    <2>1. Len(c.queries) <= 1 /\ Len(c.answers) + Len(c.queries) <= 2
      BY <1>3 DEF Proper
    <2>2. c.queries # <<>>
      BY <1>1 DEF Querying
    <2>3. Len(c.queries) = 1
      <3>1. Len(c.queries) >= 1
        BY <1>4, <2>2, NonEmpty
      <3> QED
        BY <1>4, <2>1, <3>1, One, Zenon
    <2> QED
      BY <1>4, <2>1, <2>2, <2>3 DEF Top
  <1> DEFINE d == [c EXCEPT !.queries = SubSeq(c.queries, 1, Len(c.queries) - 1),
                            !.answers = Append(c.answers, q.rows)]
  <1>6. call'[t] = d
    BY <1>2 DEF ExecInv, TypeOK
  <1>7. SubSeq(c.queries, 1, Len(c.queries) - 1) = <<>>
    BY <1>5, SubSeqEmpty
  <1>8. /\ d.queries = <<>> /\ d.answers = Append(c.answers, q.rows)
        /\ d.request = c.request /\ d.seen = c.seen
    BY <1>1, <1>7 DEF Executions
  <1>9. /\ Len(d.answers) = Len(c.answers) + 1 /\ d.answers # <<>> /\ Len(d.queries) = 0
        /\ Len(c.answers) = 1 => d.answers[1] = c.answers[1]
    BY <1>4, <1>8, AppendProperties
  <1> HIDE DEF d
  <1>10. Got(d) = Got(c)
    BY <1>1, <1>5, <1>8 DEF Got
  <1>11. FromStates(d)
    BY <1>3, <1>8, <1>10 DEF Proper, FromStates
  <1>12. pc[t] # "request"
    BY <1>3, <1>5 DEF Proper
  <1>13. Len(d.answers) = 2 => c.request.amount <= Balance(d.answers[1])
    <2>1. Len(c.answers) = 1 /\ Len(c.queries) = 1 => c.request.amount <= Balance(c.answers[1])
      BY <1>3 DEF Proper
    <2> QED
      <3>1. Len(d.answers) = 2 => Len(c.answers) = 1
        BY <1>4, <1>9, Predecessor, Zenon
      <3> QED
        BY <1>5, <1>9, <2>1, <3>1
  <1>14. c.request.amount # None /\ c.request.recipient # None /\ c.request.amount > 0
    BY <1>3, <1>4, <1>5 DEF Proper
  <1>15. /\ d.seen # <<>> /\ d.seen[Len(d.seen)] = committed
         /\ Len(d.answers) + Len(d.queries) = Len(c.answers) + 1
         /\ Len(c.answers) + 1 <= 2
    BY <1>3, <1>4, <1>5, <1>8, <1>9 DEF Proper
  <1>16. Proper(pc[t], d, committed)
    BY <1>4, <1>8, <1>9, <1>11, <1>12, <1>13, <1>14, <1>15 DEF Proper
  <1> QED
    BY <1>1, <1>2, <1>6, <1>16

(* attest() goes on to its next query, or ends with do_attest.              *)
LEMMA TransferRuns ==
  ASSUME ExecInv, NEW t \in Threads, Guest(t), call[t].guest = "transfer"
  PROVE  LET next == do_attest(call[t].request, call[t].answers)
         IN  \/ next.tag = "ask" /\ host_sql_query(t, Select(next.tx))
             \/ next.tag # "ask" /\ Return(t, next)
             \/ Return(t, Error)
             \/ Return(t, Panicked)
  <1> DEFINE next == do_attest(call[t].request, call[t].answers)
  <1>1. Executing(t)
    BY DEF Guest, Executing
  <1>2. \/ TransferGuest(t)
        \/ Return(t, Error)
    BY DEF Guest, OtherGuest, OtherOutOfBounds, OtherQueries
  <1>3. CASE TransferGuest(t)
    <2>1. CASE next.tag = "ask"
      BY <1>3, <2>1 DEF TransferGuest
    <2>2. CASE next.tag # "ask"
      <3>1. PICK ptr \in Words, len \in Words : Decode(t, Pack(ptr, len), next)
        BY <1>3, <2>2 DEF TransferGuest
      <3>2. Return(t, next) \/ Return(t, Panicked)
        BY <3>1 DEF Decode, Panic
      <3> QED
        BY <2>2, <3>2
    <2> QED
      BY <2>1, <2>2
  <1> QED
    BY <1>2, <1>3

(* do_attest, one case at a time.                                           *)
LEMMA DoAttestCases ==
  ASSUME NEW r, NEW answers
  PROVE  LET next == do_attest(r, answers)
         IN  \/ next = Invalid("parse error")
             \/ /\ r.amount # None /\ r.recipient # None
                /\ \/ next = Invalid("amount must be positive")
                   \/ /\ ~(r.amount <= 0)
                      /\ \/ answers = <<>> /\ next = Ask(r.requester)
                         \/ /\ answers # <<>> /\ r.amount > Balance(answers[1])
                            /\ next = Invalid("insufficient balance")
                         \/ /\ answers # <<>> /\ ~(r.amount > Balance(answers[1]))
                            /\ \/ Len(answers) = 1 /\ next = Ask(r.recipient)
                               \/ /\ Len(answers) # 1 /\ answers[2] = <<>>
                                  /\ next = Invalid("recipient does not exist")
                               \/ /\ Len(answers) # 1 /\ answers[2] # <<>>
                                  /\ next = Valid(r)
  BY Zenon DEF do_attest, Unparsable

(* The balance of rows is a number. *)
LEMMA BalanceType ==
  ASSUME NEW rows \in Seq(Amounts \cup {None})
  PROVE  Balance(rows) \in Int
  <1>1. CASE rows = <<>> \/ rows[1] = None
    BY <1>1 DEF Balance
  <1>2. CASE ~(rows = <<>> \/ rows[1] = None)
    <2>1. rows[1] \in Amounts \cup {None}
      BY <1>2, EmptySeq, ElementOfSeq
    <2> QED
      BY <1>2, <2>1, TransferConstants DEF Balance
  <1> QED
    BY <1>1, <1>2

(* What the rows say of the state they come from. *)
LEMMA RowsSay ==
  ASSUME NEW db, NEW did, NEW rows, rows = rows_of(db, Select(did))
  PROVE  /\ rows # <<>> <=> HasRow(db, did)
         /\ rows # <<>> => rows[1] = db[did]
  BY DEF rows_of, Select

(* How the verdicts of guest and native validator on one request and one    *)
(* database go together: both approve the same transaction, or one of the   *)
(* known differences is there (do_attest and transfer_validator).           *)
THEOREM ValidatorsAlwaysAgree == Spec => []ValidatorsAgree
  <1>1. ASSUME ExecInv PROVE ValidatorsAgree
    <2> SUFFICES ASSUME NEW r \in Requests
                 PROVE  LET sender  == rows_of(database, Select(r.requester))
                            answers == <<sender, rows_of(database, Select(r.recipient))>>
                            guest   == do_attest(r, answers)
                            native  == transfer_validator(r)
                        IN  /\ guest.tag = "valid" /\ native.tag = "valid" => guest = native
                            /\ guest.tag # "valid" /\ native.tag = "valid" =>
                                 \/ r.optional = "mistyped"
                                 \/ ~HasRow(database, r.recipient)
                                 \/ Balance(sender) < StatedBalance(r)
                            /\ guest.tag = "valid" /\ native.tag # "valid" =>
                                 StatedBalance(r) < Balance(sender)
      BY DEF ValidatorsAgree
    <2> DEFINE sender    == rows_of(database, Select(r.requester))
               recipient == rows_of(database, Select(r.recipient))
               answers   == <<sender, recipient>>
               guest     == do_attest(r, answers)
               native    == transfer_validator(r)
               has       == Balance(sender)
               stated    == StatedBalance(r)
    <2>1. r.requester \in Dids /\ sender \in Seq(Amounts \cup {None})
      BY <1>1, QueriedType DEF Asked, Requests, ExecInv, TypeOK
    <2>2. has \in Int
      BY <2>1, BalanceType
    <2>3. stated \in Int
      <3>1. r.balance = None \/ r.balance \in Int
        BY TransferConstants DEF Requests
      <3> QED
        BY <3>1 DEF StatedBalance
    <2>4. r.amount # None => r.amount \in Int
      BY TransferConstants DEF Requests
    <2>5. recipient # <<>> <=> HasRow(database, r.recipient)
      BY RowsSay
    <2>6. answers # <<>> /\ Len(answers) # 1 /\ answers[1] = sender /\ answers[2] = recipient
      OBVIOUS
    <2>7. /\ \A reason : Invalid(reason).tag # "valid"
          /\ Error.tag # "valid" /\ Valid(r).tag = "valid" /\ NativeValid(r).tag = "valid"
      BY DEF Invalid, Error, Valid, NativeValid
    <2> HIDE DEF answers, recipient, sender, has, stated
    <2>8. /\ guest.tag = "valid" => /\ guest = Valid(r) /\ r.optional # "mistyped"
                                    /\ r.amount # None /\ r.recipient # None
                                    /\ ~(r.amount <= 0) /\ ~(r.amount > has)
          /\ guest.tag # "valid" => \/ r.amount = None \/ r.recipient = None
                                    \/ r.optional = "mistyped" \/ r.amount <= 0
                                    \/ r.amount > has \/ recipient = <<>>
      BY <2>6, <2>7, Zenon DEF do_attest, Unparsable, has
    <2>9. /\ native.tag = "valid" => /\ native = NativeValid(r)
                                     /\ r.amount # None /\ r.recipient # None
                                     /\ ~(r.amount <= 0) /\ ~(r.amount > stated)
          /\ native.tag # "valid" => \/ r.amount = None \/ r.recipient = None
                                     \/ r.amount <= 0 \/ r.amount > stated
      BY <2>7, Zenon DEF transfer_validator, stated
    <2> HIDE DEF guest, native
    <2>10. r.optional # "mistyped" => Valid(r) = NativeValid(r)
      BY DEF Valid, NativeValid, Requests
    <2>11. guest.tag = "valid" /\ native.tag = "valid" => guest = native
      BY <2>8, <2>9, <2>10
    <2>12. guest.tag # "valid" /\ native.tag = "valid" =>
             \/ r.optional = "mistyped" \/ ~HasRow(database, r.recipient) \/ has < stated
      BY <2>2, <2>3, <2>4, <2>5, <2>8, <2>9
    <2>13. guest.tag = "valid" /\ native.tag # "valid" => stated < has
      BY <2>2, <2>3, <2>4, <2>8, <2>9
    <2> QED
      BY <2>11, <2>12, <2>13 DEF guest, native, has, stated, answers, recipient, sender
  <1> QED
    BY <1>1, Invariance, PTL

LEMMA TransferAsks ==
  ASSUME ExecInv, TransferInv, NEW t \in Threads, Guest(t), call[t].guest = "transfer",
         pc'[t] # "idle"
  PROVE  Proper(pc'[t], call'[t], committed')
  <1> DEFINE c    == call[t]
             r    == c.request
             next == do_attest(r, c.answers)
             q    == [sql |-> Select(next.tx), phase |-> "lock", rows |-> <<>>]
             qs   == Append(c.queries, q)
             d    == [c EXCEPT !.queries = qs]
  <1>1. Executing(t) /\ c \in Executions /\ c.queries = <<>> /\ committed' = committed
          /\ pc[t] = "guest"
    BY DEF Guest, Executing, ExecInv, TypeOK
  <1>2. next.tag = "ask" /\ host_sql_query(t, Select(next.tx))
    BY <1>1, TransferRuns, ReturnAlone
  <1>3. pc' = pc /\ call'[t] = d
    BY <1>2 DEF host_sql_query, ExecInv, TypeOK
  <1>4. /\ d.queries = qs /\ d.answers = c.answers /\ d.request = r /\ d.seen = c.seen
    BY <1>1 DEF Executions
  <1>5. qs = <<q>> /\ qs # <<>> /\ Len(qs) = 1 /\ qs[1] = q /\ Len(<<>>) = 0
    BY <1>1
  <1>6. q.sql = Select(next.tx) /\ q.phase = "lock"
    OBVIOUS
  <1> HIDE DEF q, qs, d
  <1>7. Proper(pc[t], c, committed)
    BY <1>1 DEF TransferInv
  <1>8. /\ c.answers \in Seq(Seq(Amounts \cup {None})) /\ Len(c.answers) \in Nat
        /\ r \in Requests
    BY <1>1, LenProperties, ExecutorConstants DEF Executions
  <1>9. /\ r.amount # None /\ r.recipient # None /\ ~(r.amount <= 0)
        /\ \/ c.answers = <<>> /\ next = Ask(r.requester)
           \/ /\ c.answers # <<>> /\ ~(r.amount > Balance(c.answers[1]))
              /\ Len(c.answers) = 1 /\ next = Ask(r.recipient)
    <2>1. /\ \A reason : next # Invalid(reason)
          /\ next # Valid(r)
      BY <1>2 DEF Invalid, Valid
    <2> HIDE DEF next
    <2>2. \/ next = Invalid("parse error")
          \/ /\ r.amount # None /\ r.recipient # None
             /\ \/ next = Invalid("amount must be positive")
                \/ /\ ~(r.amount <= 0)
                   /\ \/ c.answers = <<>> /\ next = Ask(r.requester)
                      \/ /\ c.answers # <<>> /\ r.amount > Balance(c.answers[1])
                         /\ next = Invalid("insufficient balance")
                      \/ /\ c.answers # <<>> /\ ~(r.amount > Balance(c.answers[1]))
                         /\ \/ Len(c.answers) = 1 /\ next = Ask(r.recipient)
                            \/ /\ Len(c.answers) # 1 /\ c.answers[2] = <<>>
                               /\ next = Invalid("recipient does not exist")
                            \/ /\ Len(c.answers) # 1 /\ c.answers[2] # <<>>
                               /\ next = Valid(r)
      BY DoAttestCases DEF next
    <2> QED
      BY <2>1, <2>2, Zenon
  <1>10. r.amount \in Int /\ r.amount > 0
    <2>1. r.amount \in Int /\ ~(r.amount <= 0)
      BY <1>8, <1>9, TransferConstants DEF Requests
    <2> QED
      BY <2>1
  <1>11. q.sql = Select(IF c.answers = <<>> THEN r.requester ELSE r.recipient)
    BY <1>6, <1>9 DEF Ask
  <1>12. Len(c.answers) = 1 => r.amount <= Balance(c.answers[1])
    <2>1. ASSUME Len(c.answers) = 1 PROVE r.amount <= Balance(c.answers[1])
      <3>1. c.answers[1] \in Seq(Amounts \cup {None})
        BY <1>8, <2>1, ElementOfSeq
      <3>2. Balance(c.answers[1]) \in Int
        BY <3>1, BalanceType
      <3>3. ~(r.amount > Balance(c.answers[1]))
        BY <1>5, <1>9, <2>1
      <3> QED
        BY <1>10, <3>2, <3>3
    <2> QED
      BY <2>1
  <1>13. Got(d) = Got(c)
    BY <1>1, <1>4, <1>5, <1>6 DEF Got
  <1>14. FromStates(d)
    BY <1>4, <1>7, <1>13 DEF Proper, FromStates
  <1>15. Len(c.answers) <= 1
    <2>1. Len(c.answers) = 0 \/ Len(c.answers) = 1
      BY <1>5, <1>9
    <2> QED
      BY <2>1, AtMostOne, Zenon
  <1> QED
    BY <1>1, <1>3, <1>4, <1>5, <1>7, <1>8, <1>9, <1>10, <1>11, <1>12, <1>14, <1>15 DEF Proper

(* An execution keeps its guest. *)
LEMMA GuestKept ==
  ASSUME ExecInv, NEW t \in Threads, ExecutionStep(t), pc'[t] # "idle"
  PROVE  call'[t].guest = call[t].guest
  <1>1. Executing(t) /\ call[t] \in Executions
    BY ExecutionAlone DEF ExecInv, TypeOK
  <1> DEFINE Kept == call'[t].guest = call[t].guest
  <1>2. ASSUME NEW sql, host_sql_query(t, sql) PROVE Kept
    BY <1>1, <1>2 DEF host_sql_query, Executions, ExecInv, TypeOK
  <1>3. ASSUME OtherQueries(t) PROVE Kept
    BY <1>2, <1>3 DEF OtherQueries
  <1>4. ASSUME NEW res PROVE ~Return(t, res)
    BY <1>1, ReturnAlone
  <1>5. ~Panic(t)
    BY <1>4 DEF Panic
  <1>6. CASE RequestAlloc(t)
    BY <1>3, <1>4, <1>5, <1>6 DEF RequestAlloc
  <1>7. CASE Guest(t)
    <2>1. ASSUME NEW packed, NEW verdict PROVE ~Decode(t, packed, verdict)
      BY <1>4, <1>5 DEF Decode
    <2>2. ~OtherGuest(t)
      BY <2>1 DEF OtherGuest
    <2>3. ASSUME TransferGuest(t) PROVE Kept
      BY <1>2, <2>1, <2>3 DEF TransferGuest
    <2> QED
      BY <1>3, <1>4, <1>5, <1>7, <2>2, <2>3 DEF Guest, OtherOutOfBounds
  <1>8. CASE QueryAlloc(t)
    <2>1. CASE call' = [call EXCEPT ![t].queries = SubSeq(@, 1, Len(@) - 1),
                                    ![t].answers = Append(@, Top(t).rows)]
      BY <1>1, <2>1 DEF Executions, ExecInv, TypeOK
    <2> QED
      BY <1>3, <1>5, <1>8, <2>1 DEF QueryAlloc
  <1> QED
    BY <1>6, <1>7, <1>8 DEF ExecutionStep

LEMMA TransferGuestSteps ==
  ASSUME ExecInv, TransferInv, NEW t \in Threads, ExecutionStep(t)
  PROVE  TransferInv'
  <1>1. /\ Executing(t) /\ committed' = committed
        /\ \A u \in Threads : u # t => pc'[u] = pc[u] /\ call'[u] = call[u]
    BY ExecutionAlone
  <1>2. ASSUME pc'[t] # "idle", call'[t].guest = "transfer"
        PROVE  Proper(pc'[t], call'[t], committed')
    <2>1. call[t] \in Executions
      BY <1>1 DEF ExecInv, TypeOK
    <2>2. CASE call[t].guest = "transfer" /\ QueryAlloc(t)
      BY <1>2, <2>2, TransferAllocates
    <2>3. CASE call[t].guest = "transfer" /\ Guest(t)
      BY <1>2, <2>3, TransferAsks
    <2>4. CASE call[t].guest = "transfer" /\ RequestAlloc(t)
      <3>1. pc'[t] = "guest" /\ call'[t] = call[t]
        <4>1. ~Return(t, Error)
          BY <1>1, <1>2, ReturnAlone
        <4> QED
          BY <2>4, <4>1 DEF RequestAlloc, OtherQueries, ExecInv, TypeOK
      <3>2. Proper(pc[t], call[t], committed)
        BY <1>1, <2>4 DEF TransferInv
      <3> QED
        BY <1>1, <3>1, <3>2 DEF Proper
    <2>5. CASE call[t].guest # "transfer"
      <3>1. call'[t].guest = call[t].guest
        BY <1>1, <1>2, <2>1, GuestKept
      <3> QED
        BY <1>2, <2>5, <3>1
    <2> QED
      BY <2>2, <2>3, <2>4, <2>5 DEF ExecutionStep
  <1> QED
    BY <1>1, <1>2, TransferFrame DEF TransferInv, Executing
LEMMA TransferEnds ==
  ASSUME ExecInv, TransferInv, NEW t \in Threads, pc[t] = "batch", NEW res \in Results,
         EndSetup(t, res)
  PROVE  TransferInv'
  <1> DEFINE dropped == [call EXCEPT ![t] = None]
  <1>1. /\ pc' = [pc EXCEPT ![t] = "idle"]
        /\ call' = Observed(dropped, committed') /\ committed' \in Databases
    BY DEF EndSetup, ExecInv, TypeOK
  <1>2. pc'[t] = "idle" /\ \A u \in Threads : u # t => pc'[u] = pc[u] /\ dropped[u] = call[u]
    BY <1>1 DEF ExecInv, TypeOK
  <1> HIDE DEF dropped
  <1>3. ASSUME NEW u \in Threads, Executing(u)', call'[u].guest = "transfer"
        PROVE  Proper(pc'[u], call'[u], committed')
    <2>1. u # t
      BY <1>2, <1>3 DEF Executing
    <2> QED
      BY <1>1, <1>2, <1>3, <2>1, TransferObserves
  <1> QED
    BY <1>3 DEF TransferInv

(* A step that changes only places and calls of threads that execute        *)
(* nothing, before and after.                                               *)
LEMMA TransferElsewhere ==
  ASSUME ExecInv, TransferInv, committed' = committed,
         \A u \in Threads : Executing(u)' => pc'[u] = pc[u] /\ call'[u] = call[u]
  PROVE  TransferInv'
  BY TransferFrame DEF TransferInv

LEMMA TransferQueries ==
  ASSUME ExecInv, BatchInv, TransferInv, NEW t \in Threads, SqlQuery(t)
  PROVE  TransferInv'
  <1>1. CASE Return(t, Panicked) /\ committed' = committed
    BY <1>1, TransferElsewhere DEF Return, Executing, ExecInv, TypeOK
  <1> QED
    BY <1>1, SqlQueryCases, TransferFetches

LEMMA TransferStep ==
  ASSUME ExecInv, BatchInv, TransferInv, [Next]_vars
  PROVE  TransferInv'
  <1>1. CASE UNCHANGED vars
    BY <1>1, TransferElsewhere DEF vars
  <1>2. ASSUME NEW cid \in Cids, NEW g \in Guests, register_wasm(cid, g) PROVE TransferInv'
    BY <1>2, TransferElsewhere DEF register_wasm
  <1>3. ASSUME NEW t \in Threads, NEW b \in Batches, setup_database(t, b) PROVE TransferInv'
    <2>1. /\ committed' = committed /\ pc'[t] = "setup"
          /\ \A u \in Threads : u # t => pc'[u] = pc[u] /\ call'[u] = call[u]
      BY <1>3 DEF setup_database, Call, ExecInv, TypeOK
    <2> QED
      BY <2>1, TransferElsewhere DEF Executing
  <1>4. ASSUME NEW t \in Threads, SetupLock(t) PROVE TransferInv'
    <2>1. /\ committed' = committed /\ pc'[t] \in {"idle", "batch"}
          /\ \A u \in Threads : u # t => pc'[u] = pc[u] /\ call'[u] = call[u]
      <3>1. committed' = committed
        BY <1>4, SetupLockCases
      <3>2. CASE pc' = [pc EXCEPT ![t] = "batch"] /\ call' = call
        BY <3>1, <3>2 DEF ExecInv, TypeOK
      <3>3. CASE Return(t, Panicked)
        BY <3>1, <3>3 DEF Return, ExecInv, TypeOK
      <3> QED
        BY <1>4, <3>2, <3>3, SetupLockCases
    <2> QED
      BY <2>1, TransferElsewhere DEF Executing
  <1>5. ASSUME NEW t \in Threads, SetupStatement(t) PROVE TransferInv'
    <2>1. pc[t] = "batch"
      BY <1>5 DEF SetupStatement
    <2>2. CASE EndSetup(t, Done) \/ EndSetup(t, Error)
      BY <2>1, <2>2, ResultsMembers, TransferEnds
    <2>3. CASE /\ call' = [call EXCEPT ![t].batch = Tail(@)]
               /\ UNCHANGED <<pc, committed>>
      <3>1. \A u \in Threads : u # t => call'[u] = call[u]
        BY <2>3 DEF ExecInv, TypeOK
      <3> QED
        BY <2>1, <2>3, <3>1, TransferElsewhere DEF Executing
    <2> QED
      BY <1>5, <2>2, <2>3 DEF SetupStatement
  <1> QED
    BY <1>1, <1>2, <1>3, <1>4, <1>5, TransferBegins, TransferQueries, TransferGuestSteps
       DEF Next, Step, ExecutionStep

(* The verdict that ends an execution of the transfer validator fits the    *)
(* states it has seen.                                                      *)
Fits(t) ==
  LET r == call[t].request
      seen == call[t].seen
      res == result'[t]
  IN  /\ res.tag = "valid" =>
           /\ res = Valid(r) /\ r.amount > 0
           /\ \E i, j \in DOMAIN seen :
                i <= j /\ Solvent(seen[i], r) /\ HasRow(seen[j], r.recipient)
      /\ res = Invalid("insufficient balance") =>
           \E i \in DOMAIN seen : ~Solvent(seen[i], r)
      /\ res = Invalid("recipient does not exist") =>
           \E i, j \in DOMAIN seen :
             i <= j /\ Solvent(seen[i], r) /\ ~HasRow(seen[j], r.recipient)

LEMMA FailuresFit ==
  ASSUME NEW t \in Threads,
         \/ result'[t] = Error
         \/ result'[t] = Panicked
         \/ result'[t] = Invalid("parse error")
         \/ result'[t] = Invalid("amount must be positive")
  PROVE  Fits(t)
  <1> DEFINE Refuses(res) == /\ res.tag # "valid"
                           /\ res # Invalid("insufficient balance")
                           /\ res # Invalid("recipient does not exist")
  <1>1. Refuses(Error) /\ Refuses(Panicked)
    BY DEF Error, Panicked, Invalid
  <1>2. Refuses(Invalid("parse error"))
    BY DEF Invalid
  <1>3. Refuses(Invalid("amount must be positive"))
    BY DEF Invalid
  <1> QED
    BY <1>1, <1>2, <1>3, Zenon DEF Fits

LEMMA VerdictFits ==
  ASSUME ExecInv, TransferInv, NEW t \in Threads, Guest(t), call[t].guest = "transfer",
         pc'[t] = "idle"
  PROVE  Fits(t)
  <1> DEFINE c == call[t]
             r == c.request
             a == c.answers
             next == do_attest(r, a)
  <1>1. Executing(t) /\ c \in Executions /\ c.queries = <<>> /\ pc[t] = "guest"
    BY DEF Guest, Executing, ExecInv, TypeOK
  <1>2. \/ next.tag # "ask" /\ result'[t] = next
        \/ result'[t] = Error
        \/ result'[t] = Panicked
    <2>1. ASSUME NEW sql PROVE ~host_sql_query(t, sql)
      BY <1>1 DEF host_sql_query
    <2> QED
      BY <1>1, <2>1, TransferRuns, ReturnAlone
  <1>3. Proper(pc[t], c, committed)
    BY <1>1 DEF TransferInv
  <1>4. Got(c) = a
    BY <1>1 DEF Got
  <1>5. PICK i \in DOMAIN c.seen, j \in DOMAIN c.seen :
          /\ i <= j
          /\ Len(a) >= 1 => a[1] = rows_of(c.seen[i], Select(r.requester))
          /\ Len(a) >= 2 => a[2] = rows_of(c.seen[j], Select(r.recipient))
    BY <1>3, <1>4 DEF Proper, FromStates
  <1>6. a \in Seq(Seq(Amounts \cup {None})) /\ Len(a) \in Nat /\ r \in Requests
    BY <1>1, LenProperties, ExecutorConstants DEF Executions
  <1>7. ASSUME a # <<>>
        PROVE  /\ Len(a) >= 1 /\ a[1] \in Seq(Amounts \cup {None})
               /\ a[1] = rows_of(c.seen[i], Select(r.requester))
    <2>1. Len(a) >= 1
      BY <1>6, <1>7, NonEmpty
    <2> QED
      BY <1>5, <1>6, <2>1, ElementOfSeq
  <1> HIDE DEF a, r, next
  <1>8. ASSUME a # <<>>, r.amount \in Int, r.amount > 0
        PROVE  Solvent(c.seen[i], r) <=> ~(r.amount > Balance(a[1]))
    <2> DEFINE rows == a[1]
    <2>1. rows \in Seq(Amounts \cup {None}) /\ rows = rows_of(c.seen[i], Select(r.requester))
      BY <1>7, <1>8
    <2> HIDE DEF rows
    <2>2. Balance(rows) \in Int
      BY <2>1, BalanceType
    <2>3. /\ rows # <<>> <=> HasRow(c.seen[i], r.requester)
          /\ rows # <<>> => rows[1] = c.seen[i][r.requester]
      BY <2>1, RowsSay
    <2>4. CASE rows = <<>> \/ rows[1] = None
      <3>1. Balance(rows) = 0
        BY <2>4 DEF Balance
      <3>2. r.amount > Balance(rows)
        BY <1>8, <3>1
      <3>3. ~Solvent(c.seen[i], r)
        BY <2>3, <2>4 DEF Solvent
      <3> QED
        BY <3>2, <3>3 DEF rows
    <2>5. CASE ~(rows = <<>> \/ rows[1] = None)
      <3>1. Balance(rows) = rows[1]
        BY <2>5 DEF Balance
      <3>2. Solvent(c.seen[i], r) <=> r.amount <= Balance(rows)
        BY <2>3, <2>5, <3>1 DEF Solvent
      <3>3. r.amount <= Balance(rows) <=> ~(r.amount > Balance(rows))
        BY <1>8, <2>2
      <3> QED
        BY <3>2, <3>3 DEF rows
    <2> QED
      BY <2>4, <2>5
  <1>9. ASSUME a # <<>>, Len(a) # 1
        PROVE  a[2] # <<>> <=> HasRow(c.seen[j], r.recipient)
    <2>1. Len(a) >= 2
      BY <1>6, <1>7, <1>9, Two, Zenon
    <2> QED
      BY <1>5, <2>1, RowsSay
  <1>10. ASSUME r.amount # None, ~(r.amount <= 0)
         PROVE  r.amount \in Int /\ r.amount > 0
    <2>1. r.amount \in Int
      BY <1>6, <1>10, TransferConstants DEF Requests
    <2> QED
      BY <1>10, <2>1
  <1>11. CASE result'[t] = Error \/ result'[t] = Panicked
    BY <1>11, FailuresFit
  <1>12. CASE next.tag # "ask" /\ result'[t] = next
    <2>1. \/ next = Invalid("parse error")
          \/ /\ r.amount # None /\ r.recipient # None
             /\ \/ next = Invalid("amount must be positive")
                \/ /\ ~(r.amount <= 0)
                   /\ \/ a = <<>> /\ next = Ask(r.requester)
                      \/ /\ a # <<>> /\ r.amount > Balance(a[1])
                         /\ next = Invalid("insufficient balance")
                      \/ /\ a # <<>> /\ ~(r.amount > Balance(a[1]))
                         /\ \/ Len(a) = 1 /\ next = Ask(r.recipient)
                            \/ /\ Len(a) # 1 /\ a[2] = <<>>
                               /\ next = Invalid("recipient does not exist")
                            \/ /\ Len(a) # 1 /\ a[2] # <<>>
                               /\ next = Valid(r)
      BY DoAttestCases DEF next
    <2>2. next # Ask(r.requester) /\ next # Ask(r.recipient)
      BY <1>12 DEF Ask
    <2>3. CASE next = Invalid("parse error") \/ next = Invalid("amount must be positive")
      BY <1>12, <2>3, FailuresFit
    <2>4. CASE /\ r.amount # None /\ ~(r.amount <= 0)
               /\ a # <<>> /\ r.amount > Balance(a[1])
               /\ next = Invalid("insufficient balance")
      <3>1. ~Solvent(c.seen[i], r)
        BY <1>8, <1>10, <2>4
      <3>2. result'[t] = Invalid("insufficient balance")
        BY <1>12, <2>4
      <3>3. /\ Invalid("insufficient balance").tag # "valid"
            /\ Invalid("insufficient balance") # Invalid("recipient does not exist")
        BY DEF Invalid
      <3> QED
        BY <1>5, <3>1, <3>2, <3>3, Zenon DEF Fits, r
    <2>5. CASE /\ r.amount # None /\ ~(r.amount <= 0)
               /\ a # <<>> /\ ~(r.amount > Balance(a[1]))
               /\ Len(a) # 1 /\ a[2] = <<>>
               /\ next = Invalid("recipient does not exist")
      <3>1. Solvent(c.seen[i], r) /\ ~HasRow(c.seen[j], r.recipient)
        BY <1>8, <1>9, <1>10, <2>5
      <3>2. result'[t] = Invalid("recipient does not exist")
        BY <1>12, <2>5
      <3>3. /\ Invalid("recipient does not exist").tag # "valid"
            /\ Invalid("recipient does not exist") # Invalid("insufficient balance")
        BY DEF Invalid
      <3> QED
        BY <1>5, <3>1, <3>2, <3>3, Zenon DEF Fits, r
    <2>6. CASE /\ r.amount # None /\ ~(r.amount <= 0)
               /\ a # <<>> /\ ~(r.amount > Balance(a[1]))
               /\ Len(a) # 1 /\ a[2] # <<>>
               /\ next = Valid(r)
      <3>1. Solvent(c.seen[i], r) /\ HasRow(c.seen[j], r.recipient) /\ r.amount > 0
        BY <1>8, <1>9, <1>10, <2>6
      <3>2. result'[t] = Valid(r)
        BY <1>12, <2>6
      <3>3. /\ Valid(r).tag = "valid"
            /\ Valid(r) # Invalid("insufficient balance")
            /\ Valid(r) # Invalid("recipient does not exist")
        BY DEF Valid, Invalid
      <3> QED
        BY <1>5, <3>1, <3>2, <3>3, Zenon DEF Fits, r
    <2> QED
      BY <2>1, <2>2, <2>3, <2>4, <2>5, <2>6
  <1> QED
    BY <1>2, <1>11, <1>12

LEMMA EveryVerdictFits ==
  ASSUME ExecInv, TransferInv, [Next]_vars, NEW t \in Threads,
         Executing(t), call[t].guest = "transfer", pc'[t] = "idle"
  PROVE  Fits(t)
  <1>1. pc' # pc
    BY DEF Executing
  <1>2. ASSUME NEW cid \in Cids, NEW g \in Guests PROVE ~register_wasm(cid, g)
    BY <1>1 DEF register_wasm
  <1>3. ASSUME NEW u \in Threads, NEW b \in Batches PROVE ~setup_database(u, b)
    BY DEF setup_database, Call, Executing, ExecInv, TypeOK
  <1>4. ASSUME NEW u \in Threads, NEW r \in Calls PROVE ~execute(u, r)
    BY DEF execute, Call, Executing, ExecInv, TypeOK
  <1>5. ASSUME NEW u \in Threads PROVE ~SetupLock(u)
    BY SetupLockCases DEF Return, Executing, ExecInv, TypeOK
  <1>6. ASSUME NEW u \in Threads PROVE ~SetupStatement(u)
    BY DEF SetupStatement, EndSetup, Executing, ExecInv, TypeOK
  <1>7. ASSUME NEW u \in Threads, SqlQuery(u) PROVE Fits(t)
    <2>1. Return(u, Panicked) /\ Executing(u)
      BY <1>1, <1>7, SqlQueryCases DEF Queried, Querying
    <2>2. u = t
      BY <2>1, ReturnAlone DEF Executing
    <2> QED
      BY <2>1, <2>2, ReturnAlone, FailuresFit
  <1>8. ASSUME NEW u \in Threads, ExecutionStep(u) PROVE Fits(t)
    <2>1. u = t
      BY <1>8, ExecutionAlone DEF Executing
    <2>2. CASE Guest(t)
      BY <2>2, VerdictFits
    <2>3. CASE RequestAlloc(t) \/ QueryAlloc(t)
      <3>1. ASSUME Return(t, Error) PROVE Fits(t)
        BY <3>1, ReturnAlone, FailuresFit
      <3>2. ASSUME Panic(t) PROVE Fits(t)
        BY <3>2, PanicAlone, ReturnAlone, FailuresFit
      <3>3. ~OtherQueries(t)
        BY DEF OtherQueries
      <3>4. ~(pc' = [pc EXCEPT ![t] = "guest"])
        BY DEF ExecInv, TypeOK
      <3> QED
        BY <1>1, <2>3, <3>1, <3>2, <3>3, <3>4 DEF RequestAlloc, QueryAlloc
    <2> QED
      BY <1>8, <2>1, <2>2, <2>3 DEF ExecutionStep
  <1> QED
    BY <1>1, <1>2, <1>3, <1>4, <1>5, <1>6, <1>7, <1>8 DEF Next, Step, ExecutionStep, vars

LEMMA TransferInvariance == Spec => [](ExecInv /\ BatchInv /\ TransferInv)
  <1>1. Init => TransferInv
    BY DEF Init, TransferInv, Executing
  <1>2. ExecInv /\ BatchInv /\ TransferInv /\ [Next]_vars => TransferInv'
    BY TransferStep
  <1> QED
    BY <1>1, <1>2, BatchInvariance, PTL DEF Spec

(* Each verdict of the transfer validator is right, query by query, of      *)
(* states the database had during the call, in their order (do_attest, its  *)
(* queries through host_sql_query, and setup_database beside them).         *)
THEOREM VerdictsFromStates == Spec => VerdictFromStates
  <1> DEFINE Fit == \A t \in Threads :
               Executing(t) /\ call[t].guest = "transfer" /\ pc'[t] = "idle" => Fits(t)
  <1>1. ExecInv /\ BatchInv /\ TransferInv /\ [Next]_vars => [Fit]_vars
    BY EveryVerdictFits
  <1>2. [][Fit]_vars <=> VerdictFromStates
    BY DEF Fits, VerdictFromStates
  <1> QED
    BY <1>1, <1>2, TransferInvariance, PTL DEF Spec
=============================================================================

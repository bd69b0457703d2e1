---------------------------- MODULE WasmExecutor ----------------------------
(***************************************************************************)
(* The WASM program registry of a node (crates/node/src/wasm_executor.rs): *)
(* guests that are run by execute(), the SQL databases they query through  *)
(* the host, and setup_database, which changes them.                       *)
(*                                                                         *)
(* execute() and setup_database() take `&self', so any number of threads   *)
(* may be inside them; the databases are behind one mutex, held for a      *)
(* whole batch by setup_database and for a single query by the host        *)
(* function.  A guest is the transfer validator of the repository          *)
(* ("transfer") or any other that ends ("other").  A step is what happens  *)
(* between two points where other threads matter: taking the mutex, one    *)
(* statement under it, a call into the guest's allocator, the rest of the  *)
(* guest.                                                                  *)
(*                                                                         *)
(* One database is modelled, "balances", with its table "accounts".        *)
(***************************************************************************)
EXTENDS TransferValidator, GuestMemory, FiniteSets

CONSTANTS
  Threads,        \* callers that share the registry
  Calls,          \* bound: the requests given to execute
  Batches,        \* bound: the SQL given to setup_database
  GuestWrites,    \* bound: statements other than SELECT in the queries of guests
  MaxCalls,       \* bound: calls in a behaviour
  MaxQueries,     \* bound: queries of one execution of a guest that is not "transfer"
  NoTable         \* a database before its table is created

Guests == {"transfer", "other"}

Create            == [op |-> "create", did |-> None, balance |-> None]
Insert(did, b)    == [op |-> "insert", did |-> did, balance |-> b]
Update(did, b)    == [op |-> "update", did |-> did, balance |-> b]
Select(did)       == [op |-> "select", did |-> did, balance |-> None]

Statements ==
  [op : {"create"}, did : {None}, balance : {None}] \cup
  [op : {"insert", "update"}, did : Dids, balance : Amounts \cup {None}]

Accounts  == UNION {[held -> Amounts \cup {None}] : held \in SUBSET Dids}
Databases == Accounts \cup {None, NoTable}

ASSUME ExecutorConstants ==
  /\ Calls \subseteq Requests
  /\ Batches \subseteq Seq(Statements)
  /\ GuestWrites \subseteq Statements
  /\ MaxCalls \in Nat /\ MaxQueries \in Nat
  /\ NoTable \notin Accounts \cup {None}
  /\ None \notin Accounts /\ None \notin Threads /\ None \notin Guests

VARIABLES
  modules,    \* modules[cid]: the guest registered for it, or None
  database,   \* None if it is not in the map
  lock,       \* the thread that holds the mutex, or None
  poisoned,   \* a thread panicked while it held it
  pc,         \* where each thread is
  call,       \* the call it is in: what is local to setup_database or execute
  result,     \* what its last call returned
  calls,      \* calls so far (only for MaxCalls)
  committed   \* history: the database when the mutex was last free

vars == <<modules, database, lock, poisoned, pc, call, result, calls, committed>>

(* The batch given to setup_database, and the statements still to run.      *)
Setups == [given : Batches, batch : Seq(Statements)]

(* The active calls of host_sql_query, nested if the guest's allocator      *)
(* queries in turn; the rows the guest was given; and as history, the       *)
(* states of the database since execute was called.                         *)
Queries    == [sql : Statements \cup {Select(did) : did \in Dids},
               phase : {"lock", "alloc"}, rows : Seq(Amounts \cup {None})]
Executions == [request : Calls, guest : Guests, queries : Seq(Queries),
               answers : Seq(Seq(Amounts \cup {None})), seen : Seq(Databases)]

Init ==
  /\ modules = [cid \in Cids |-> None]
  /\ database = None /\ lock = None /\ poisoned = FALSE
  /\ pc = [t \in Threads |-> "idle"]
  /\ call = [t \in Threads |-> None]
  /\ result = [t \in Threads |-> None]
  /\ calls = 0
  /\ committed = None

----------------------------------------------------------------------------
(* SQLite, as SqlDatabase uses it: each statement is a transaction.         *)
Fails(db, sql) ==
  IF sql.op = "create" THEN db # NoTable
  ELSE db = NoTable \/ (sql.op = "insert" /\ sql.did \in DOMAIN db)

Effect(db, sql) ==
  CASE sql.op = "create" -> [d \in {} |-> None]
    [] sql.op = "insert" -> [d \in DOMAIN db \cup {sql.did} |->
                               IF d = sql.did THEN sql.balance ELSE db[d]]
    [] sql.op = "update" -> [d \in DOMAIN db |->
                               IF d = sql.did THEN sql.balance ELSE db[d]]

(* SqlDatabase::query, or no database of that name: every error is "[]".    *)
(* A statement that is not a SELECT is run, too, and has no rows.           *)
HasRow(db, did) == db # None /\ db # NoTable /\ did \in DOMAIN db

rows_of(db, sql) ==
  IF sql.op = "select" /\ HasRow(db, sql.did) THEN <<db[sql.did]>> ELSE <<>>

queried(db, sql) ==
  IF db = None \/ sql.op = "select" \/ Fails(db, sql) THEN db ELSE Effect(db, sql)

----------------------------------------------------------------------------
Done     == [tag |-> "done", tx |-> None]
Panicked == [tag |-> "panic", tx |-> None]

Executing(t) == pc[t] \in {"request", "guest"}
Top(t)       == call[t].queries[Len(call[t].queries)]
Querying(t)  == Executing(t) /\ call[t].queries # <<>>

(* The guard `dbs' goes out of scope. *)
Dropped(t) == IF lock = t THEN None ELSE lock

(* The executions, when the mutex is free again with this database. *)
Observed(executions, db) ==
  [t \in Threads |-> IF Executing(t) /\ db # committed
                     THEN [executions[t] EXCEPT !.seen = Append(@, db)]
                     ELSE executions[t]]

(* The call returns, and what is local to it is dropped.                    *)
Return(t, res) ==
  /\ pc' = [pc EXCEPT ![t] = "idle"]
  /\ result' = [result EXCEPT ![t] = res]
  /\ call' = [call EXCEPT ![t] = None]

(* The thread unwinds through guest and host; a mutex it holds is poisoned. *)
Panic(t) ==
  /\ Return(t, Panicked)
  /\ lock' = Dropped(t)
  /\ poisoned' = (poisoned \/ lock = t)

Call(t, at, local) ==
  /\ pc[t] = "idle"
  /\ calls < MaxCalls
  /\ calls' = calls + 1
  /\ pc' = [pc EXCEPT ![t] = at]
  /\ call' = [call EXCEPT ![t] = local]
  /\ UNCHANGED <<modules, database, lock, poisoned, committed>>

(* register_wasm: `&mut self', so nothing else runs; bytes that do not      *)
(* compile change nothing.                                                  *)
register_wasm(cid, g) ==
  /\ \A t \in Threads : pc[t] = "idle"
  /\ modules' = [modules EXCEPT ![cid] = g]
  /\ UNCHANGED <<database, lock, poisoned, pc, call, result, calls, committed>>

----------------------------------------------------------------------------
setup_database(t, b) ==
  /\ Call(t, "setup", [given |-> b, batch |-> b])
  /\ result' = [result EXCEPT ![t] = None]

(* lock().unwrap(), and entry(name).or_default(): opening a new database    *)
(* may fail, and SqlDatabase::new then panics with the mutex held.          *)
SetupLock(t) ==
  /\ pc[t] = "setup" /\ lock = None
  /\ \/ /\ poisoned
        /\ Panic(t)
        /\ UNCHANGED database
     \/ /\ ~poisoned
        /\ lock' = t
        /\ database' = IF database = None THEN NoTable ELSE database
        /\ pc' = [pc EXCEPT ![t] = "batch"]
        /\ UNCHANGED <<poisoned, call, result>>
     \/ /\ ~poisoned /\ database = None
        /\ Return(t, Panicked) /\ poisoned' = TRUE
        /\ UNCHANGED <<lock, database>>
  /\ UNCHANGED <<modules, calls, committed>>

EndSetup(t, res) ==
  /\ pc' = [pc EXCEPT ![t] = "idle"]
  /\ result' = [result EXCEPT ![t] = res]
  /\ call' = Observed([call EXCEPT ![t] = None], database)
  /\ lock' = Dropped(t)
  /\ committed' = database
  /\ UNCHANGED database

(* Mutants: the mutex is released between two statements; the batch goes on *)
(* after a statement that fails.                                            *)
SetupStatement_unlocks(t) ==
  /\ pc[t] = "batch"
  /\ LET sql == Head(call[t].batch)
     IN  IF call[t].batch = <<>> THEN EndSetup(t, Done)
         ELSE IF Fails(database, sql) THEN EndSetup(t, Error)
         ELSE /\ database' = Effect(database, sql)
              /\ call' = [call EXCEPT ![t].batch = Tail(@)]
              /\ pc' = [pc EXCEPT ![t] = "setup"] /\ lock' = None
              /\ UNCHANGED <<result, committed>>
  /\ UNCHANGED <<modules, poisoned, calls>>

SetupStatement_goes_on(t) ==
  /\ pc[t] = "batch"
  /\ LET sql == Head(call[t].batch)
     IN  IF call[t].batch = <<>> THEN EndSetup(t, Done)
         ELSE /\ database' = IF Fails(database, sql) THEN database
                            ELSE Effect(database, sql)
              /\ call' = [call EXCEPT ![t].batch = Tail(@)]
              /\ UNCHANGED <<pc, lock, result, committed>>
  /\ UNCHANGED <<modules, poisoned, calls>>

(* execute_batch, one statement: the first that fails ends it, and those    *)
(* before it stay.                                                          *)
SetupStatement(t) ==
  /\ pc[t] = "batch"
  /\ LET sql == Head(call[t].batch)
     IN  IF call[t].batch = <<>> THEN EndSetup(t, Done)
         ELSE IF Fails(database, sql) THEN EndSetup(t, Error)
         ELSE /\ database' = Effect(database, sql)
              /\ call' = [call EXCEPT ![t].batch = Tail(@)]
              /\ UNCHANGED <<pc, lock, result, committed>>
  /\ UNCHANGED <<modules, poisoned, calls>>

----------------------------------------------------------------------------
(* execute(request): an unknown CID is an error; otherwise the module is    *)
(* instantiated.                                                            *)
execute(t, r) ==
  LET guest == modules[r.program_cid]
  IN  IF guest = None
      THEN Call(t, "idle", None) /\ result' = [result EXCEPT ![t] = Error]
      ELSE /\ Call(t, "request", [request |-> r, guest |-> guest, queries |-> <<>>,
                                  answers |-> <<>>, seen |-> <<committed>>])
           /\ result' = [result EXCEPT ![t] = None]

(* The guest enters host_sql_query, which reads its arguments.              *)
host_sql_query(t, sql) ==
  /\ call' = [call EXCEPT ![t].queries =
                Append(@, [sql |-> sql, phase |-> "lock", rows |-> <<>>])]
  /\ UNCHANGED <<lock, poisoned, pc, result>>

(* A guest other than the transfer validator may query, in attest() or in   *)
(* its allocator.                                                           *)
OtherQueries(t) ==
  /\ call[t].guest = "other"
  /\ Len(call[t].queries) + Len(call[t].answers) < MaxQueries
  /\ \E sql \in {Select(did) : did \in Dids} \cup GuestWrites : host_sql_query(t, sql)

(* The rows are what the host function keeps of the query. *)
Fetched(t) == [call EXCEPT ![t].queries[Len(call[t].queries)] =
                 [sql |-> @.sql, phase |-> "alloc", rows |-> rows_of(database, @.sql)]]

(* Mutant: the guard `dbs' lives as long as the host function.              *)
SqlQuery_wide_scope(t) ==
  /\ Querying(t) /\ Top(t).phase = "lock" /\ lock = None
  /\ IF poisoned
     THEN Panic(t) /\ UNCHANGED <<database, committed>>
     ELSE /\ database' = queried(database, Top(t).sql)
          /\ committed' = IF database' = database THEN committed ELSE database'
          /\ call' = Observed(Fetched(t), committed')
          /\ lock' = t
          /\ UNCHANGED <<poisoned, pc, result>>
  /\ UNCHANGED <<modules, calls>>

(* The query, with the mutex taken for it alone. *)
SqlQuery(t) ==
  /\ Querying(t) /\ Top(t).phase = "lock" /\ lock = None
  /\ IF poisoned
     THEN Panic(t) /\ UNCHANGED <<database, committed>>
     ELSE /\ database' = queried(database, Top(t).sql)
          /\ committed' = IF database' = database THEN committed ELSE database'
          /\ call' = Observed(Fetched(t), committed')
          /\ UNCHANGED <<lock, poisoned, pc, result>>
  /\ UNCHANGED <<modules, calls>>

(* The host function has the guest allocate room for the rows and returns   *)
(* them; if the allocator traps, its result is unwrapped.                   *)
QueryAlloc(t) ==
  /\ Querying(t) /\ Top(t).phase = "alloc"
  /\ \/ /\ call' = [call EXCEPT ![t].queries = SubSeq(@, 1, Len(@) - 1),
                               ![t].answers = Append(@, Top(t).rows)]
        /\ lock' = Dropped(t)
        /\ UNCHANGED <<poisoned, pc, result>>
     \/ Panic(t)
     \/ OtherQueries(t)
  /\ UNCHANGED <<modules, database, calls, committed>>

(* The host has the guest allocate room for the request; here a trap, or a  *)
(* guest without the exports, is an error, but a pointer outside the memory *)
(* is not.                                                                  *)
RequestAlloc(t) ==
  /\ pc[t] = "request" /\ call[t].queries = <<>>
  /\ \/ pc' = [pc EXCEPT ![t] = "guest"] /\ UNCHANGED <<lock, poisoned, call, result>>
     \/ Return(t, Error) /\ UNCHANGED <<lock, poisoned>>
     \/ call[t].guest = "other" /\ Panic(t)
     \/ OtherQueries(t)
  /\ UNCHANGED <<modules, database, calls, committed>>

(* The host takes the JSON from where the guest says it is.                 *)
Decode(t, packed, verdict) ==
  IF InBounds(packed_ptr(packed), packed_len(packed))
  THEN Return(t, verdict) /\ UNCHANGED <<lock, poisoned>>
  ELSE Panic(t)

(* attest() of the transfer validator runs to its next query or its end;    *)
(* its result is a string inside its memory.                                *)
TransferGuest(t) ==
  LET next == do_attest(call[t].request, call[t].answers)
  IN  /\ call[t].guest = "transfer"
      /\ IF next.tag = "ask"
         THEN host_sql_query(t, Select(next.tx))
         ELSE \E ptr, len \in Words :
                ptr + len < MemorySize /\ Decode(t, Pack(ptr, len), next)

(* attest() of any other guest returns any word; there it has left a        *)
(* verdict, or something that is none.                                      *)
OtherGuest(t) ==
  /\ call[t].guest = "other"
  /\ \E ptr, len \in Words,
        verdict \in {Error, Valid(call[t].request), Invalid("parse error")} :
       Decode(t, Pack(ptr, len), verdict)

(* It may also call a host function with a region outside its memory, which *)
(* host_log and host_sql_query slice like the result.                       *)
OtherOutOfBounds(t) ==
  /\ call[t].guest = "other"
  /\ \E ptr, len \in Words : ~InBounds(ptr, len)
  /\ Panic(t)

(* Any guest may trap. *)
Guest(t) ==
  /\ pc[t] = "guest" /\ call[t].queries = <<>>
  /\ \/ TransferGuest(t)
     \/ OtherGuest(t)
     \/ OtherOutOfBounds(t)
     \/ OtherQueries(t)
     \/ Return(t, Error) /\ UNCHANGED <<lock, poisoned>>
  /\ UNCHANGED <<modules, database, calls, committed>>

----------------------------------------------------------------------------
Step(t) == SetupLock(t) \/ SetupStatement(t) \/ RequestAlloc(t) \/ Guest(t)
             \/ SqlQuery(t) \/ QueryAlloc(t)

Next ==
  \/ \E cid \in Cids, g \in Guests : register_wasm(cid, g)
  \/ \E t \in Threads :
       \/ \E b \in Batches : setup_database(t, b)
       \/ \E r \in Calls : execute(t, r)
       \/ Step(t)

Spec     == Init /\ [][Next]_vars
FairSpec == Spec /\ \A t \in Threads : WF_vars(Step(t))

----------------------------------------------------------------------------
Results == Verdicts \cup {Error, Done, Panicked}

(* Types, and whose the mutex is: a thread in the middle of a batch, so     *)
(* never one that runs guest code.                                          *)
TypeOK ==
  /\ modules \in [Cids -> Guests \cup {None}]
  /\ database \in Databases /\ committed \in Databases
  /\ lock \in Threads \cup {None} /\ poisoned \in BOOLEAN
  /\ pc \in [Threads -> {"idle", "setup", "batch", "request", "guest"}]
  /\ call \in [Threads -> Setups \cup Executions \cup {None}]
  /\ \A t \in Threads :
       /\ pc[t] = "batch" <=> lock = t
       /\ pc[t] \in {"setup", "batch"} => call[t] \in Setups
       /\ Executing(t) => call[t] \in Executions
  /\ result \in [Threads -> Results \cup {None}]
  /\ calls \in 0..MaxCalls

(* What a state of the database has to say for a request.                   *)
Solvent(db, r) == HasRow(db, r.requester) /\ db[r.requester] # None
                    /\ r.amount <= db[r.requester]

(* A verdict of the transfer validator is right, for its first query, of a  *)
(* state the database had during the call, and for its second query, of the *)
(* same or a later one: no query sees half a batch, nor rows of another     *)
(* call or of another thread.  (They need not be the same state: a batch    *)
(* may run between the queries, so a transfer may be approved that no state *)
(* of the database allowed.)                                                *)
VerdictFromStates ==
  [][\A t \in Threads :
       Executing(t) /\ call[t].guest = "transfer" /\ pc'[t] = "idle" =>
         LET r == call[t].request
             seen == call[t].seen
             res == result'[t]
         IN  /\ res.tag = "valid" =>
                  /\ res = Valid(r) /\ r.amount > 0
                  /\ \E i, j \in DOMAIN seen :
                       i <= j /\ Solvent(seen[i], r) /\ HasRow(seen[j], r.recipient)
             /\ res = Invalid("insufficient balance") =>
                  \E i \in DOMAIN seen : ~Solvent(seen[i], r)
             /\ res = Invalid("recipient does not exist") =>
                  \E i, j \in DOMAIN seen :
                    i <= j /\ Solvent(seen[i], r) /\ ~HasRow(seen[j], r.recipient)]_vars

(* A batch that starts by creating the table changes balances once: run     *)
(* again, by whichever thread, it changes nothing, even if its first run    *)
(* failed half way: a retry does not complete it.                           *)
BootstrapOnce ==
  [][\A t \in Threads :
       pc[t] = "batch" /\ pc'[t] = "idle" /\ Head(call[t].given) = Create
         /\ committed \notin {None, NoTable} => committed' = committed]_vars

(* No panic of an execution (an allocator that traps in a query, a region   *)
(* outside the guest's memory, a mutex already poisoned) poisons the mutex, *)
(* which would make every later query and setup_database panic: only        *)
(* setup_database does, when it cannot open a new database.                 *)
ExecutionsNeverPoison ==
  [][~poisoned /\ poisoned' =>
       \E t \in Threads : pc[t] = "setup" /\ database = None /\ result'[t] = Panicked]_vars

(* Every call returns if its guest does: no guest keeps the mutex from the  *)
(* others, or from itself when its allocator queries in turn.               *)
CallsReturn == \A t \in Threads : pc[t] # "idle" ~> pc[t] = "idle"

(* The two validators of one request, whatever is in the database, approve  *)
(* the same transaction if both approve, and differ only where they must:   *)
(* the native one approves alone if a field is of another type, if the      *)
(* recipient has no account or if the arguments state more than the sender  *)
(* has; the guest alone if they state less.                                 *)
ValidatorsAgree ==
  \A r \in Requests :
    LET sender  == rows_of(database, Select(r.requester))
        answers == <<sender, rows_of(database, Select(r.recipient))>>
        guest   == do_attest(r, answers)
        native  == transfer_validator(r)
    IN  /\ guest.tag = "valid" /\ native.tag = "valid" => guest = native
        /\ guest.tag # "valid" /\ native.tag = "valid" =>
             \/ r.optional = "mistyped"
             \/ ~HasRow(database, r.recipient)
             \/ Balance(sender) < StatedBalance(r)
        /\ guest.tag = "valid" /\ native.tag # "valid" => StatedBalance(r) < Balance(sender)

(* At every step, the region the host would take of any guest's result is   *)
(* the one that guest named, or none.                                       *)
RegionsExact == [][SlicesAreExact]_vars

(* Executions read the databases and do not write them.                     *)
ReadOnlyExecution ==
  [][database' # database => \E t \in Threads : lock = t \/ lock' = t]_vars
=============================================================================

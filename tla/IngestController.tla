-------------------------- MODULE IngestController --------------------------
(***************************************************************************)
(* The ingest servers (fog/ingest/server and the ingest enclave) on one    *)
(* recovery database: the worker thread that scans the ledger block by     *)
(* block, the activate, retire, new_keys and key-transfer calls of the     *)
(* operators and peers, crashes, and restarts from the state file.         *)
(*                                                                         *)
(* A step ends wherever another thread, server or crash can come between:  *)
(* at each database transaction and each release of the controller_state   *)
(* mutex.  srv[s].lock names the thread that keeps the mutex from one step *)
(* to the next.  Backing a key up on the peers is a component of its own;  *)
(* here the peer checks of activate and restore may succeed or fail.       *)
(***************************************************************************)
EXTENDS RecoveryDb

CONSTANTS
    Servers,      \* the ingest servers; each has one enclave
    NoKey,        \* the empty value of a state file's sealed key
    Contents,     \* possible block contents: sequences of chunks; a chunk is
                  \* the number of the user's TxOuts with a hint for each key
    Windows,      \* possible pubkey_expiry_window values
    KeyRace,      \* whether a key transfer may be overtaken by an activation
                  \* between its idle check and its write to the enclave
    MaxBlocks,    \* bound: blocks in the ledger
    Budget        \* bound: how many events of each kind may happen

VARIABLES
    ledger,       \* contents of the blocks so far
    srv,          \* controller state and enclave of each server
    worker,       \* worker thread of each server, inside process_next_block
    admin,        \* the activate call running on each server
    setter,       \* the key transfer call running on each server
    state_file,   \* state file of each server, which survives a crash
    budget        \* how many events of each kind may still happen

thread_vars == <<ledger, srv, worker, admin, setter, state_file, budget>>
vars == <<db_vars, thread_vars>>

Kinds == {"crash", "lost_ack", "overflow", "chunk_too_big", "new_keys",
          "db_error", "transfer", "activate", "retire"}

ASSUME ServersAreEnclaves == Servers \subseteq Enclaves
ASSUME NoKeyIsNoKey == NoKey \notin Keys
ASSUME ContentsAreChunks == Contents \subseteq Seq([Keys -> Nat])
ASSUME BoundsAreNaturals ==
    /\ Windows \subseteq Nat
    /\ KeyRace \in BOOLEAN
    /\ MaxBlocks \in Nat
    /\ Budget \in [Kinds -> Nat]

-----------------------------------------------------------------------------

WorkerPCs == {"poll", "publish", "invocation", "ingest", "rotate", "won",
              "lost", "retired", "new_egress", "write"}
AdminPCs == {"none", "lookup", "register", "publish", "write"}

Server == [up: BOOLEAN, mode: {"idle", "active"}, next: Nat, window: Windows,
           iid: Nat, key: Keys, egress: Nat, rng: Nat,
           lock: {"free", "worker", "admin", "new_keys"}]

Worker == [pc: WorkerPCs, block: Nat, key: Keys, egress: Nat, iid: Nat,
           chunk: Nat \ {0}, rows: SUBSET Rows, retired: BOOLEAN]

Admin == [pc: AdminPCs, key: Keys, start: Nat]

Setter == [pc: {"none", "apply", "write"}, key: Keys \cup {NoKey}]

StateFile == [present: BOOLEAN, readable: BOOLEAN, mode: {"idle", "active"},
              next: Nat, window: Windows, key: Keys \cup {NoKey}]

TypeOK ==
    /\ DbTypeOK
    /\ ledger \in Seq(Contents)
    /\ srv \in [Servers -> Server]
    /\ worker \in [Servers -> Worker]
    /\ admin \in [Servers -> Admin]
    /\ setter \in [Servers -> Setter]
    /\ state_file \in [Servers -> StateFile]
    /\ budget \in [Kinds -> Nat]

\* A worker that is not inside process_next_block, and its locals when it is.
IdleWorker(k) == [pc |-> "poll", block |-> 0, key |-> k, egress |-> 0,
                  iid |-> NoInvocation, chunk |-> 1, rows |-> {},
                  retired |-> FALSE]
NoSetter == [pc |-> "none", key |-> NoKey]
NoAdmin(k) == [pc |-> "none", key |-> k, start |-> 0]

\* Every enclave draws its own ingress key when it is initialized.
Init ==
    /\ DbInit
    /\ ledger = << >>
    /\ \E key \in [Servers -> Keys], window \in Windows :
         /\ \A s, t \in Servers : key[s] = key[t] => s = t
         /\ srv = [s \in Servers |->
                     [up |-> TRUE, mode |-> "idle", next |-> 0,
                      window |-> window, iid |-> NoInvocation,
                      key |-> key[s], egress |-> 0, rng |-> 0,
                      lock |-> "free"]]
         /\ worker = [s \in Servers |-> IdleWorker(key[s])]
         /\ admin = [s \in Servers |-> NoAdmin(key[s])]
         /\ state_file = [s \in Servers |->
                            [present |-> TRUE, readable |-> TRUE,
                             mode |-> "idle", next |-> 0, window |-> window,
                             key |-> key[s]]]
    /\ setter = [s \in Servers |-> NoSetter]
    /\ budget = Budget

Spend(kind) ==
    /\ budget[kind] > 0
    /\ budget' = [budget EXCEPT ![kind] = @ - 1]

EgressOf(s) == <<s, srv[s].egress>>

\* write_state_file_inner, with the server state x that it summarizes.
Summary(x) == [present |-> TRUE, readable |-> TRUE, mode |-> x.mode,
               next |-> x.next, window |-> x.window, key |-> x.key]

\* A key no enclave, state file or table row has: what a random draw yields.
Fresh(k) ==
    /\ ~ingress_keys[k].exists
    /\ \A s \in Servers : srv[s].key # k /\ state_file[s].key # k
                          /\ worker[s].key # k /\ setter[s].key # k

-----------------------------------------------------------------------------
(* The worker thread: IngestWorker's loop and process_next_block. *)

\* A mistake in BeginBlock: the worker waits for a block after the next one.
BeginBlock_WaitsForSuccessor(s) ==
    /\ srv[s].up /\ srv[s].lock = "free" /\ worker[s].pc = "poll"
    /\ srv[s].mode = "active"
    /\ srv[s].next + 1 < Len(ledger)
    /\ worker' = [worker EXCEPT ![s] =
                    [IdleWorker(srv[s].key) EXCEPT !.pc = "publish",
                        !.block = srv[s].next, !.egress = srv[s].egress]]
    /\ UNCHANGED <<db_vars, ledger, srv, admin, setter, state_file, budget>>

\* The worker finds the server active and its next block in the ledger, and
\* process_next_block reads the enclave's public keys.
BeginBlock(s) ==
    /\ srv[s].up /\ srv[s].lock = "free" /\ worker[s].pc = "poll"
    /\ srv[s].mode = "active"
    /\ srv[s].next < Len(ledger)
    /\ worker' = [worker EXCEPT ![s] =
                    [IdleWorker(srv[s].key) EXCEPT !.pc = "publish",
                        !.block = srv[s].next, !.egress = srv[s].egress]]
    /\ UNCHANGED <<db_vars, ledger, srv, admin, setter, state_file, budget>>

\* A mistake in PublishReport: the worker stops as soon as its key is retired.
PublishReport_StopsAtOnce(s) ==
    /\ srv[s].up /\ srv[s].lock = "free" /\ worker[s].pc = "publish"
    /\ \E id \in ReportIds :
         set_report(worker[s].key, id, srv[s].next + srv[s].window)
    /\ worker' = [worker EXCEPT ![s].pc =
                    IF ingress_keys'[worker[s].key].retired
                    THEN "retired" ELSE "invocation"]
    /\ srv' = [srv EXCEPT ![s].lock = "worker"]
    /\ UNCHANGED <<ledger, admin, setter, state_file, budget>>

\* The mutex scope begins: publish_report with expiry next + window.  The
\* worker keeps the mutex.  A failed publish is logged and ignored; a retired
\* key past its expiry ends the work.
PublishReport(s) ==
    /\ srv[s].up /\ srv[s].lock = "free" /\ worker[s].pc = "publish"
    /\ \/ \E id \in ReportIds :
            /\ set_report(worker[s].key, id, srv[s].next + srv[s].window)
            /\ LET status == ingress_keys'[worker[s].key]
               IN  worker' = [worker EXCEPT ![s].pc =
                     IF status.retired /\ worker[s].block > status.pubkey_expiry
                     THEN "retired" ELSE "invocation"]
            /\ UNCHANGED budget
       \/ /\ Spend("db_error")
          /\ worker' = [worker EXCEPT ![s].pc = "invocation"]
          /\ UNCHANGED db_vars
    /\ srv' = [srv EXCEPT ![s].lock = "worker"]
    /\ UNCHANGED <<ledger, admin, setter, state_file>>

\* The rest of the mutex scope: an invocation for the egress key read at the
\* start, if the server has none.  A database error here panics the worker
\* with the mutex held, which is as good as a crash.
EnsureInvocation(s) ==
    /\ srv[s].up /\ worker[s].pc = "invocation"
    /\ IF srv[s].iid = NoInvocation
       THEN /\ new_ingest_invocation(NoInvocation, worker[s].key,
                                     <<s, worker[s].egress>>, worker[s].block)
            /\ srv' = [srv EXCEPT ![s].iid = NextInvocationId,
                                  ![s].lock = "free"]
            /\ worker' = [worker EXCEPT ![s].iid = NextInvocationId,
                                        ![s].pc = "ingest"]
       ELSE /\ srv' = [srv EXCEPT ![s].lock = "free"]
            /\ worker' = [worker EXCEPT ![s].iid = srv[s].iid,
                                        ![s].pc = "ingest"]
            /\ UNCHANGED db_vars
    /\ UNCHANGED <<ledger, admin, setter, state_file, budget>>

\* The chunk the worker hands to the enclave next, and the number of TxOuts
\* in it whose hint opens with the enclave's ingress key.
ChunksOf(s) == ledger[worker[s].block + 1]
Owned(s) == ChunksOf(s)[worker[s].chunk][srv[s].key]

\* The user's next n RNG outputs under an egress key, from index i.
Outputs(egress, i, n) == {[egress |-> egress, index |-> j] : j \in i..(i + n - 1)}

\* A mistake in IngestChunk: the RNG's counter is not stored.
IngestChunk_CounterNotStored(s) ==
    /\ srv[s].up /\ worker[s].pc = "ingest"
    /\ worker[s].chunk <= Len(ChunksOf(s))
    /\ worker' = [worker EXCEPT
                    ![s].rows = @ \cup Outputs(EgressOf(s), srv[s].rng, Owned(s)),
                    ![s].chunk = @ + 1]
    /\ UNCHANGED <<db_vars, ledger, srv, admin, setter, state_file, budget>>

\* ingest_txs on one chunk, without overflow.
IngestChunk(s) ==
    /\ srv[s].up /\ worker[s].pc = "ingest"
    /\ worker[s].chunk <= Len(ChunksOf(s))
    /\ worker' = [worker EXCEPT
                    ![s].rows = @ \cup Outputs(EgressOf(s), srv[s].rng, Owned(s)),
                    ![s].chunk = @ + 1]
    /\ srv' = [srv EXCEPT ![s].rng = @ + Owned(s)]
    /\ UNCHANGED <<db_vars, ledger, admin, setter, state_file, budget>>

\* Mistakes in IngestChunkOverflow: the new egress key is not announced; the
\* records of earlier chunks are dropped.
IngestChunkOverflow_NotAnnounced(s) ==
    /\ srv[s].up /\ worker[s].pc = "ingest"
    /\ worker[s].chunk <= Len(ChunksOf(s))
    /\ Spend("overflow")
    /\ worker' = [worker EXCEPT
                    ![s].rows = @ \cup Outputs(<<s, srv[s].egress + 1>>, 0, Owned(s)),
                    ![s].chunk = @ + 1]
    /\ srv' = [srv EXCEPT ![s].egress = @ + 1, ![s].rng = Owned(s)]
    /\ UNCHANGED <<db_vars, ledger, admin, setter, state_file>>

IngestChunkOverflow_RowsDropped(s) ==
    /\ srv[s].up /\ worker[s].pc = "ingest"
    /\ worker[s].chunk <= Len(ChunksOf(s))
    /\ Spend("overflow")
    /\ worker' = [worker EXCEPT
                    ![s].rows = Outputs(<<s, srv[s].egress + 1>>, 0, Owned(s)),
                    ![s].chunk = @ + 1,
                    ![s].pc = "rotate"]
    /\ srv' = [srv EXCEPT ![s].egress = @ + 1, ![s].rng = Owned(s)]
    /\ UNCHANGED <<db_vars, ledger, admin, setter, state_file>>

\* ingest_txs when the RNG table overflows: a fresh egress key, an empty
\* table, and the chunk again from its first TxOut.
IngestChunkOverflow(s) ==
    /\ srv[s].up /\ worker[s].pc = "ingest"
    /\ worker[s].chunk <= Len(ChunksOf(s))
    /\ Spend("overflow")
    /\ worker' = [worker EXCEPT
                    ![s].rows = @ \cup Outputs(<<s, srv[s].egress + 1>>, 0, Owned(s)),
                    ![s].chunk = @ + 1,
                    ![s].pc = "rotate"]
    /\ srv' = [srv EXCEPT ![s].egress = @ + 1, ![s].rng = Owned(s)]
    /\ UNCHANGED <<db_vars, ledger, admin, setter, state_file>>

\* ingest_txs gives up after MAX_CHUNK_RETRIES rotations (ChunkTooBig): the
\* enclave keeps the last egress key it drew, with a table the last attempt
\* left partly advanced, and process_next_block returns.
IngestChunkTooBig(s) ==
    /\ srv[s].up /\ worker[s].pc = "ingest"
    /\ worker[s].chunk <= Len(ChunksOf(s))
    /\ Spend("chunk_too_big")
    /\ \E done \in 0..Owned(s) :
         srv' = [srv EXCEPT ![s].egress = @ + 1, ![s].rng = done]
    /\ worker' = [worker EXCEPT ![s] = IdleWorker(srv[s].key)]
    /\ UNCHANGED <<db_vars, ledger, admin, setter, state_file>>

\* After an overflow: decommission the invocation and open one for the new
\* egress key, retrying until the database reports success.  When the reply
\* to a committed transaction is lost the worker retries.
RotateInvocation(s) ==
    /\ srv[s].up /\ worker[s].pc = "rotate"
    /\ new_ingest_invocation(worker[s].iid, worker[s].key, EgressOf(s),
                             worker[s].block)
    /\ \/ /\ srv[s].lock = "free"
          /\ srv' = [srv EXCEPT ![s].iid = NextInvocationId]
          /\ worker' = [worker EXCEPT ![s].iid = NextInvocationId,
                                      ![s].pc = "ingest"]
          /\ UNCHANGED budget
       \/ /\ Spend("lost_ack")
          /\ UNCHANGED <<srv, worker>>
    /\ UNCHANGED <<ledger, admin, setter, state_file>>

\* A mistake in AddBlockData: a worker that lost the race goes on as if it had
\* won it.
AddBlockData_LoserGoesOn(s) ==
    /\ srv[s].up /\ worker[s].pc = "ingest"
    /\ worker[s].chunk > Len(ChunksOf(s))
    /\ \/ add_block_data(worker[s].iid, worker[s].block, worker[s].rows)
       \/ AlreadyScanned(worker[s].iid, worker[s].block) /\ UNCHANGED db_vars
    /\ worker' = [worker EXCEPT ![s].pc = "won"]
    /\ UNCHANGED <<ledger, srv, admin, setter, state_file, budget>>

\* add_block_data, retried until the database answers.
AddBlockData(s) ==
    /\ srv[s].up /\ worker[s].pc = "ingest"
    /\ worker[s].chunk > Len(ChunksOf(s))
    /\ \/ /\ add_block_data(worker[s].iid, worker[s].block, worker[s].rows)
          /\ \/ /\ worker' = [worker EXCEPT ![s].pc = "won"]
                /\ UNCHANGED budget
             \/ /\ Spend("lost_ack")
                /\ UNCHANGED worker
       \/ /\ AlreadyScanned(worker[s].iid, worker[s].block)
          /\ worker' = [worker EXCEPT ![s].pc = "lost"]
          /\ UNCHANGED <<db_vars, budget>>
    /\ UNCHANGED <<ledger, srv, admin, setter, state_file>>

\* The block was published: increment_next_block_index.
AdvanceNextBlock(s) ==
    /\ srv[s].up /\ srv[s].lock = "free" /\ worker[s].pc = "won"
    /\ srv' = [srv EXCEPT ![s].next = @ + 1]
    /\ worker' = [worker EXCEPT ![s] =
                    [IdleWorker(srv[s].key) EXCEPT !.pc = "write"]]
    /\ UNCHANGED <<db_vars, ledger, admin, setter, state_file, budget>>

\* decommission_ingest_invocation_id: the server's invocation, if it has one,
\* is decommissioned; when the database call fails it is leaked.
DecommissionInvocation(s) ==
    \/ /\ srv[s].iid # NoInvocation
       /\ decommission_ingest_invocation(srv[s].iid)
       /\ UNCHANGED budget
    \/ /\ srv[s].iid # NoInvocation
       /\ Spend("db_error")
       /\ UNCHANGED db_vars
    \/ /\ srv[s].iid = NoInvocation
       /\ UNCHANGED <<db_vars, budget>>

\* A mistake in BackOff: the server keeps the id of its invocation.
BackOff_KeepsInvocation(s) ==
    /\ srv[s].up
    /\ \/ worker[s].pc = "lost" /\ srv[s].lock = "free"
       \/ worker[s].pc = "retired"
    /\ srv' = [srv EXCEPT ![s].mode = "idle", ![s].lock = "worker"]
    /\ worker' = [worker EXCEPT ![s].pc = "new_egress",
                                ![s].retired = (worker[s].pc = "retired")]
    /\ DecommissionInvocation(s)
    /\ UNCHANGED <<ledger, admin, setter, state_file>>

\* Another server published the block, or the key is retired and done:
\* set_idle, and the invocation is given up.
BackOff(s) ==
    /\ srv[s].up
    /\ \/ worker[s].pc = "lost" /\ srv[s].lock = "free"
       \/ worker[s].pc = "retired"
    /\ srv' = [srv EXCEPT ![s].mode = "idle", ![s].iid = NoInvocation,
                          ![s].lock = "worker"]
    /\ worker' = [worker EXCEPT ![s].pc = "new_egress",
                                ![s].retired = (worker[s].pc = "retired")]
    /\ DecommissionInvocation(s)
    /\ UNCHANGED <<ledger, admin, setter, state_file>>

\* The rest of new_egress_key: the enclave draws a fresh egress key with an
\* empty RNG table, the state file is written, and the mutex is released.
NewEgressKey(s) ==
    /\ srv[s].up /\ worker[s].pc = "new_egress"
    /\ srv' = [srv EXCEPT ![s].egress = @ + 1, ![s].rng = 0,
                          ![s].lock = "free"]
    /\ state_file' = [state_file EXCEPT ![s] = Summary(srv'[s])]
    /\ worker' = [worker EXCEPT ![s] =
                    [IdleWorker(srv[s].key) EXCEPT !.pc =
                       IF worker[s].retired THEN "poll" ELSE "write"]]
    /\ UNCHANGED <<db_vars, ledger, admin, setter, budget>>

WriteStateFile(s) ==
    /\ srv[s].up /\ srv[s].lock = "free" /\ worker[s].pc = "write"
    /\ state_file' = [state_file EXCEPT ![s] = Summary(srv[s])]
    /\ worker' = [worker EXCEPT ![s] = IdleWorker(srv[s].key)]
    /\ UNCHANGED <<db_vars, ledger, srv, admin, setter, budget>>

-----------------------------------------------------------------------------
(* activate: the caller keeps the mutex from the first step to the last. *)

\* A mistake in ActivateBegin: no check that the server is idle.
ActivateBegin_WhenActive(s) ==
    /\ srv[s].up /\ srv[s].lock = "free" /\ admin[s].pc = "none"
    /\ Spend("activate")
    /\ srv' = [srv EXCEPT ![s].lock = "admin"]
    /\ admin' = [admin EXCEPT ![s] = [pc |-> "lookup", key |-> srv[s].key,
                                      start |-> Len(ledger)]]
    /\ UNCHANGED <<db_vars, ledger, worker, setter, state_file>>

\* The peer checks passed; the enclave's public key is read.
ActivateBegin(s) ==
    /\ srv[s].up /\ srv[s].lock = "free" /\ admin[s].pc = "none"
    /\ srv[s].mode = "idle"
    /\ Spend("activate")
    /\ srv' = [srv EXCEPT ![s].lock = "admin"]
    /\ admin' = [admin EXCEPT ![s] = [pc |-> "lookup", key |-> srv[s].key,
                                      start |-> Len(ledger)]]
    /\ UNCHANGED <<db_vars, ledger, worker, setter, state_file>>

\* Mistakes in ActivateLookup: a known key also starts at the end of the
\* ledger; a known key starts at its last scanned block, and an absent one is
\* taken for a number.
ActivateLookup_AtLedgerEnd(s) ==
    /\ srv[s].up /\ admin[s].pc = "lookup"
    /\ admin' = [admin EXCEPT ![s].pc =
                   IF ingress_keys[admin[s].key].exists
                   THEN "publish" ELSE "register"]
    /\ UNCHANGED <<db_vars, ledger, srv, worker, setter, state_file, budget>>

ActivateLookup_NoneIsNumber(s) ==
    /\ srv[s].up /\ admin[s].pc = "lookup"
    /\ admin' = [admin EXCEPT ![s] =
         IF ingress_keys[admin[s].key].exists
         THEN [@ EXCEPT !.pc = "publish",
                        !.start = get_last_scanned_block_index(admin[s].key)]
         ELSE [@ EXCEPT !.pc = "register"]]
    /\ UNCHANGED <<db_vars, ledger, srv, worker, setter, state_file, budget>>

\* Where to start: after the last block scanned with a known key, or, with a
\* new key, at the first block neither the ledger nor the database has.
ActivateLookup(s) ==
    /\ srv[s].up /\ admin[s].pc = "lookup"
    /\ LET k == admin[s].key
           known == ingress_keys[k].exists
           last == get_last_scanned_block_index(k)
           highest == get_highest_known_block_index
           start == IF known
                    THEN IF last = NoBlock THEN ingress_keys[k].start_block
                         ELSE last + 1
                    ELSE IF highest + 1 > admin[s].start THEN highest + 1
                         ELSE admin[s].start
       IN  admin' = [admin EXCEPT ![s].pc = IF known THEN "publish" ELSE "register",
                                  ![s].start = start]
    /\ UNCHANGED <<db_vars, ledger, srv, worker, setter, state_file, budget>>

ActivateRegister(s) ==
    /\ srv[s].up /\ admin[s].pc = "register"
    /\ new_ingress_key(admin[s].key, admin[s].start)
    /\ admin' = [admin EXCEPT ![s].pc = "publish"]
    /\ UNCHANGED <<ledger, srv, worker, setter, state_file, budget>>

\* A mistake in ActivatePublish: the mutex is not released on success.
ActivatePublish_KeepsMutex(s) ==
    /\ srv[s].up /\ admin[s].pc = "publish"
    /\ \E id \in ReportIds :
         set_report(admin[s].key, id, admin[s].start + srv[s].window)
    /\ srv' = [srv EXCEPT ![s].next = admin[s].start, ![s].mode = "active"]
    /\ admin' = [admin EXCEPT ![s] =
                   [NoAdmin(srv[s].key) EXCEPT !.pc = "write"]]
    /\ UNCHANGED <<ledger, worker, setter, state_file, budget>>

\* set_next_block_index, publish_report, set_active, unless the key is retired
\* and there is nothing left to scan with it.
ActivatePublish(s) ==
    /\ srv[s].up /\ admin[s].pc = "publish"
    /\ \E id \in ReportIds :
         set_report(admin[s].key, id, admin[s].start + srv[s].window)
    /\ LET status == ingress_keys'[admin[s].key]
           done == status.retired /\ admin[s].start > status.pubkey_expiry
       IN  /\ srv' = [srv EXCEPT ![s].next = admin[s].start,
                                 ![s].lock = "free",
                                 ![s].mode = IF done THEN "idle" ELSE "active"]
           /\ admin' = [admin EXCEPT ![s] =
                          [NoAdmin(srv[s].key) EXCEPT !.pc =
                             IF done THEN "none" ELSE "write"]]
    /\ UNCHANGED <<ledger, worker, setter, state_file, budget>>

\* A database error, or a key that another server registered meanwhile: the
\* call returns the error.  Once the start block is known, next_block_index
\* may have been set.
ActivateFail(s) ==
    /\ srv[s].up /\ admin[s].pc \in {"lookup", "register", "publish"}
    /\ \/ Spend("db_error")
       \/ /\ admin[s].pc = "register" /\ ingress_keys[admin[s].key].exists
          /\ UNCHANGED budget
    /\ srv' = [srv EXCEPT ![s].lock = "free",
                          ![s].next = IF admin[s].pc = "publish"
                                      THEN admin[s].start ELSE @]
    /\ admin' = [admin EXCEPT ![s] = NoAdmin(srv[s].key)]
    /\ UNCHANGED <<db_vars, ledger, worker, setter, state_file>>

ActivateWrite(s) ==
    /\ srv[s].up /\ srv[s].lock = "free" /\ admin[s].pc = "write"
    /\ state_file' = [state_file EXCEPT ![s] = Summary(srv[s])]
    /\ admin' = [admin EXCEPT ![s] = NoAdmin(srv[s].key)]
    /\ UNCHANGED <<db_vars, ledger, srv, worker, setter, budget>>

-----------------------------------------------------------------------------
(* The other calls. *)

\* new_keys: after the state file is written the call asks for the summary
\* with get_ingest_summary, which locks the mutex the call still holds.  An
\* idle server has no invocation left to decommission (IdleHasNoInvocation).
NewKeys(s) ==
    /\ srv[s].up /\ srv[s].lock = "free" /\ srv[s].mode = "idle"
    /\ srv[s].iid = NoInvocation
    /\ Spend("new_keys")
    /\ \E k \in Keys :
         /\ Fresh(k)
         /\ srv' = [srv EXCEPT ![s].key = k, ![s].egress = @ + 1, ![s].rng = 0,
                               ![s].lock = "new_keys"]
    /\ state_file' = [state_file EXCEPT ![s] = Summary(srv'[s])]
    /\ UNCHANGED <<db_vars, ledger, worker, admin, setter>>

\* set_ingress_private_key and sync_keys_from_remote: the idle check takes and
\* releases the mutex, the enclave takes the key later without it, and then
\* the state file is rewritten.
SetKeyCheck(s) ==
    /\ srv[s].up /\ srv[s].lock = "free" /\ srv[s].mode = "idle"
    /\ setter[s].pc = "none"
    /\ Spend("transfer")
    /\ \E t \in Servers :
         /\ srv[t].up
         /\ setter' = [setter EXCEPT ![s] = [pc |-> "apply",
                                             key |-> srv[t].key]]
    /\ UNCHANGED <<db_vars, ledger, srv, worker, admin, state_file>>

SetKeyApply(s) ==
    /\ srv[s].up /\ setter[s].pc = "apply"
    /\ KeyRace \/ (srv[s].mode = "idle" /\ admin[s].pc = "none")
    /\ srv' = [srv EXCEPT ![s].key = setter[s].key]
    /\ setter' = [setter EXCEPT ![s].pc = "write"]
    /\ UNCHANGED <<db_vars, ledger, worker, admin, state_file, budget>>

SetKeyWrite(s) ==
    /\ srv[s].up /\ srv[s].lock = "free" /\ setter[s].pc = "write"
    /\ state_file' = [state_file EXCEPT ![s] = Summary(srv[s])]
    /\ setter' = [setter EXCEPT ![s] = NoSetter]
    /\ UNCHANGED <<db_vars, ledger, srv, worker, admin, budget>>

\* retire and unretire act on the key that is in the enclave.
Retire(s, set_retired) ==
    /\ srv[s].up
    /\ Spend("retire")
    /\ retire_ingress_key(srv[s].key, set_retired)
    /\ UNCHANGED <<ledger, srv, worker, admin, setter, state_file>>

\* While the server is active the window may only grow.
SetPubkeyExpiryWindow(s, w) ==
    /\ srv[s].up /\ srv[s].lock = "free"
    /\ srv[s].mode = "active" => w >= srv[s].window
    /\ srv' = [srv EXCEPT ![s].window = w]
    /\ UNCHANGED <<db_vars, ledger, worker, admin, setter, state_file, budget>>

\* The operators report a key lost when no enclave and no state file has it.
ReportLost(k) ==
    /\ \A s \in Servers : /\ state_file[s].key # k
                          /\ srv[s].up => srv[s].key # k
                          /\ setter[s].key # k
    /\ report_lost_ingress_key(k)
    /\ UNCHANGED thread_vars

-----------------------------------------------------------------------------
(* Environment. *)

AppendBlock ==
    /\ Len(ledger) < MaxBlocks
    /\ \E c \in Contents : ledger' = Append(ledger, c)
    /\ UNCHANGED <<db_vars, srv, worker, admin, setter, state_file, budget>>

\* The server's process ends.  StateFile::write truncates the file before it
\* writes it, so a crash while a thread is writing may leave a torn file.
Crash(s) ==
    /\ srv[s].up
    /\ Spend("crash")
    /\ srv' = [srv EXCEPT ![s].up = FALSE, ![s].lock = "free",
                          ![s].mode = "idle", ![s].iid = NoInvocation]
    /\ worker' = [worker EXCEPT ![s] = IdleWorker(srv[s].key)]
    /\ admin' = [admin EXCEPT ![s] = NoAdmin(srv[s].key)]
    /\ setter' = [setter EXCEPT ![s] = NoSetter]
    /\ \/ UNCHANGED state_file
       \/ /\ "write" \in {worker[s].pc, admin[s].pc, setter[s].pc}
             \/ worker[s].pc = "new_egress"
          /\ state_file' = [state_file EXCEPT ![s].readable = FALSE,
                                              ![s].key = NoKey]
    /\ UNCHANGED <<db_vars, ledger>>

\* A mistake in Restart: the block after the recorded one is the next.
Restart_OffByOne(s) ==
    /\ ~srv[s].up
    /\ state_file[s].present /\ state_file[s].readable
    /\ LET f == state_file[s]
       IN  srv' = [srv EXCEPT ![s].up = TRUE, ![s].mode = f.mode,
                              ![s].next = f.next + 1, ![s].window = f.window,
                              ![s].key = f.key, ![s].egress = @ + 1,
                              ![s].rng = 0]
    /\ state_file' = [state_file EXCEPT ![s] = Summary(srv'[s])]
    /\ UNCHANGED <<db_vars, ledger, worker, admin, setter, budget>>

\* IngestController::new with a state file: the ingress key is unsealed, the
\* egress key is fresh, and restore_state_from_summary restores the mode (its
\* peer checks may also fail, and then the server does not start).
Restart(s) ==
    /\ ~srv[s].up
    /\ state_file[s].present /\ state_file[s].readable
    /\ LET f == state_file[s]
       IN  srv' = [srv EXCEPT ![s].up = TRUE, ![s].mode = f.mode,
                              ![s].next = f.next, ![s].window = f.window,
                              ![s].key = f.key, ![s].egress = @ + 1,
                              ![s].rng = 0]
    /\ state_file' = [state_file EXCEPT ![s] = Summary(srv'[s])]
    /\ UNCHANGED <<db_vars, ledger, worker, admin, setter, budget>>

\* The operator removes the state file of a server that is down: the machine
\* is replaced, or the file cannot be read.
RemoveStateFile(s) ==
    /\ ~srv[s].up /\ state_file[s].present
    /\ state_file' = [state_file EXCEPT ![s] =
                        [present |-> FALSE, readable |-> FALSE, mode |-> "idle",
                         next |-> 0, window |-> srv[s].window, key |-> NoKey]]
    /\ UNCHANGED <<db_vars, ledger, srv, worker, admin, setter, budget>>

\* IngestController::new without a state file.
StartFresh(s) ==
    /\ ~srv[s].up /\ ~state_file[s].present
    /\ \E k \in Keys :
         /\ Fresh(k)
         /\ srv' = [srv EXCEPT ![s].up = TRUE, ![s].mode = "idle",
                               ![s].next = 0, ![s].key = k,
                               ![s].egress = @ + 1, ![s].rng = 0]
    /\ state_file' = [state_file EXCEPT ![s] = Summary(srv'[s])]
    /\ UNCHANGED <<db_vars, ledger, worker, admin, setter, budget>>

WorkerStep(s) ==
    \/ BeginBlock(s) \/ PublishReport(s) \/ EnsureInvocation(s)
    \/ IngestChunk(s) \/ IngestChunkOverflow(s) \/ IngestChunkTooBig(s)
    \/ RotateInvocation(s) \/ AddBlockData(s)
    \/ AdvanceNextBlock(s) \/ BackOff(s) \/ NewEgressKey(s)
    \/ WriteStateFile(s)

AdminStep(s) ==
    \/ ActivateBegin(s) \/ ActivateLookup(s) \/ ActivateRegister(s)
    \/ ActivatePublish(s) \/ ActivateFail(s) \/ ActivateWrite(s)
    \/ NewKeys(s) \/ SetKeyCheck(s) \/ SetKeyApply(s) \/ SetKeyWrite(s)
    \/ Retire(s, TRUE) \/ Retire(s, FALSE)
    \/ \E w \in Windows : SetPubkeyExpiryWindow(s, w)

FaultStep(s) == Crash(s) \/ Restart(s) \/ RemoveStateFile(s) \/ StartFresh(s)

Next ==
    \/ \E s \in Servers : WorkerStep(s) \/ AdminStep(s) \/ FaultStep(s)
    \/ \E k \in Keys : ReportLost(k)
    \/ AppendBlock

Spec == Init /\ [][Next]_vars

\* The worker and the threads serving calls keep running, the database answers
\* once the errors allowed by Budget are spent.  Nothing makes an operator act
\* or a block appear.
Fairness ==
    \A s \in Servers :
        /\ WF_vars(WorkerStep(s))
        /\ WF_vars(ActivateLookup(s) \/ ActivateRegister(s)
                   \/ ActivatePublish(s) \/ ActivateFail(s))
        /\ WF_vars(ActivateWrite(s))
        /\ WF_vars(SetKeyApply(s))
        /\ WF_vars(SetKeyWrite(s))

FairSpec == Spec /\ Fairness

-----------------------------------------------------------------------------
(* Properties. *)

PublishedRows == UNION {r.rows : r \in ingested_blocks}

\* "There will be gaps in the RNG sequences ... and the clients won't be able
\* to perform balance checks": the published outputs of every RNG are an
\* initial segment of its sequence, whatever was scanned and not published.
NoRngGaps ==
    \A r \in PublishedRows : \A i \in 0..(r.index - 1) :
        [egress |-> r.egress, index |-> i] \in PublishedRows

\* An RNG output is used for one TxOut: no two published blocks share one, or
\* the second record would hide the first from the user.
RngOutputsUsedOnce ==
    \A r1, r2 \in ingested_blocks :
        r1 # r2 => r1.rows \cap r2.rows = {}

\* The client can search for every published record: its egress key was
\* announced by an invocation of the same ingress key that starts at or before
\* the record's block.
RowsAnnounced ==
    \A b \in ingested_blocks : \A r \in b.rows :
        \E i \in DOMAIN ingest_invocations :
            /\ ingest_invocations[i].egress_key = r.egress
            /\ ingest_invocations[i].ingress_key = b.ingress_key
            /\ ingest_invocations[i].start_block <= b.block

\* The number of TxOuts in the first n chunks of c with a hint for key k.
HintsFor(k, c) ==
    LET sum[n \in 0..Len(c)] == IF n = 0 THEN 0 ELSE sum[n - 1] + c[n][k]
    IN  sum[Len(c)]

\* A block published for a key holds a record for every TxOut in it whose hint
\* was made for that key.
CompleteBlocks ==
    \A b \in ingested_blocks :
        Cardinality(b.rows) = HintsFor(b.ingress_key, ledger[b.block + 1])

\* The blocks scanned with a key are consecutive from its start block, however
\* servers race, crash and restart: the view server loads them in that order
\* and waits for the next one.
ScansContiguous ==
    \A k \in Keys : \A b \in Scanned(k) :
        /\ ingress_keys[k].exists
        /\ ingress_keys[k].start_block <= b
        /\ \A c \in ingress_keys[k].start_block..b : c \in Scanned(k)

\* A user event reads the same whenever a client asks for it, so that the
\* last block of a decommissioned invocation is final when the event appears:
\* no server publishes a block of an invocation that it, or the server it
\* took the invocation from, gave up.
EventsNeverChange == [][AnswersStand]_db_vars

\* No server publishes a block that can_provide_block rules out for its
\* invocation, however it crashed, restarted or lost the race for a block.
RangesNeverLie == [][RangeAnswersStand]_db_vars

\* The worker of a server finds its key retired and done only when every block
\* that a report published for the key allows a TxOut to land in is scanned.
RetireStep ==
    \A s \in Servers :
        LET k == worker[s].key
        IN  worker[s].pc = "publish" /\ worker'[s].pc = "retired" =>
              \A b \in ingress_keys'[k].start_block..
                         (ingress_keys'[k].pubkey_expiry - 1) :
                  b \in Scanned(k)

\* A server that stops because its key is retired has seen every block that a
\* report published for the key allows a TxOut to land in.
RetireKeepsPromise == [][RetireStep]_vars

\* When a key is lost, every block in which a TxOut may have used it was
\* scanned with it or is in a missed block range that clients are told of.
LostBlocksAccounted ==
    \A k \in Keys : ingress_keys[k].lost =>
        \A b \in ingress_keys[k].start_block..(ingress_keys[k].pubkey_expiry - 1) :
            \/ b \in Scanned(k)
            \/ \E m \in get_missed_block_ranges : m.start <= b /\ b < m.end

\* An idle server has given its invocation up: the next activation opens one
\* with the egress key and the start block it has then.
IdleHasNoInvocation ==
    \A s \in Servers : srv[s].mode = "idle" => srv[s].iid = NoInvocation

\* The steps of process_next_block before the block index moves on.
InBlock(s) == worker[s].pc \in WorkerPCs \ {"poll", "new_egress", "write"}

\* The worker's assertions: it is asked for the block the controller expects,
\* and the server is still active when the block index is incremented.
WorkerAssertions ==
    \A s \in Servers :
        InBlock(s) => srv[s].mode = "active" /\ worker[s].block = srv[s].next

\* An active server whose next block is in the ledger sees it published with
\* its key, by itself or by another server, unless it goes down or the key is
\* retired.
BlockGetsScanned ==
    \A s \in Servers, k \in Keys, b \in 0..(MaxBlocks - 1) :
        (/\ srv[s].up /\ srv[s].mode = "active" /\ srv[s].key = k
         /\ srv[s].next = b /\ b < Len(ledger))
        ~> (b \in Scanned(k) \/ ~srv[s].up \/ ingress_keys[k].retired)

\* Every call that takes the controller_state mutex returns: the mutex of a
\* running server is free again and again.
MutexReleased ==
    \A s \in Servers : []<>(~srv[s].up \/ srv[s].lock = "free")

-----------------------------------------------------------------------------
(* The inductive invariants behind TypeOK and ScansContiguous. *)

\* What makes the state well typed stay so: scanned blocks and blocks being
\* scanned are blocks of the ledger, and a key that is about to enter an
\* enclave is one.
InBounds ==
    /\ \A r \in ingested_blocks : r.block < Len(ledger)
    /\ \A s \in Servers :
         /\ InBlock(s) => worker[s].block < Len(ledger)
         /\ setter[s].pc = "apply" => setter[s].key # NoKey
         /\ state_file[s].readable => state_file[s].key # NoKey

\* Every block from the key's start block up to n is scanned with it.
Covered(k, n) ==
    /\ ingress_keys[k].exists
    /\ ingress_keys[k].start_block <= n
    /\ \A b \in ingress_keys[k].start_block..(n - 1) : b \in Scanned(k)

InvocationOf(iid, k) ==
    iid \in DOMAIN ingest_invocations /\ ingest_invocations[iid].ingress_key = k

\* What one server's threads, memory and file may rely on.
ServerInv(s) ==
    /\ srv[s].mode = "active" => /\ srv[s].up
                                /\ Covered(srv[s].key, srv[s].next)
    /\ srv[s].mode = "idle" => srv[s].iid = NoInvocation
    /\ srv[s].iid # NoInvocation => InvocationOf(srv[s].iid, srv[s].key)
    /\ ~srv[s].up => /\ worker[s].pc = "poll"
                     /\ admin[s].pc = "none"
                     /\ setter[s].pc = "none"
    /\ InBlock(s) => /\ srv[s].mode = "active"
                     /\ worker[s].block = srv[s].next
                     /\ worker[s].key = srv[s].key
    /\ worker[s].pc \in {"ingest", "rotate"} =>
         InvocationOf(worker[s].iid, worker[s].key)
    /\ worker[s].pc = "won" => worker[s].block \in Scanned(worker[s].key)
    /\ worker[s].pc = "new_egress" => srv[s].lock = "worker"
    /\ admin[s].pc \in {"lookup", "register", "publish"} =>
         /\ srv[s].mode = "idle"
         /\ srv[s].lock = "admin"
         /\ admin[s].key = srv[s].key
    /\ admin[s].pc = "publish" => Covered(admin[s].key, admin[s].start)
    /\ state_file[s].present /\ state_file[s].readable
          /\ state_file[s].mode = "active" =>
         Covered(state_file[s].key, state_file[s].next)

\* What the servers' threads, memory and files have in common with the tables,
\* such that no step of any server makes a gap in the blocks scanned with a
\* key: see ServerInv.
ScanInv ==
    /\ ScansContiguous
    /\ \A s \in Servers : ServerInv(s)

=============================================================================

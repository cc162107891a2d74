----------------------------- MODULE ViewServer -----------------------------
(***************************************************************************)
(* A fog view server (fog/view/server) on the recovery database: the       *)
(* DbFetcher thread that reads the key records and the scanned blocks, the *)
(* DbPollThread that loads fetched blocks into the enclave and computes    *)
(* highest_processed_block_count, the bounded queue between them, and      *)
(* stop.  What ingest does to the tables is KeyScans.                      *)
(*                                                                         *)
(* A step ends at each database query, each release of a mutex and each    *)
(* read of a stop flag.  Every scanned block has one ETxOutRecord here:    *)
(* the enclave makes a record of every TxOut, whether or not its hint      *)
(* opens.                                                                  *)
(***************************************************************************)
EXTENDS BlockTracker, Sequences, FiniteSets

CONSTANTS
    MAX_QUEUED_RECORDS,   \* records that may be queued before the fetcher waits
    StaleKeys,            \* whether the fetcher may go on with key records that
                          \* lack a key which was registered or unretired since
                          \* it read them, or before a read that failed
    MayStop,              \* whether stop may be called
    MaxHeight,            \* bound: blocks in the ledger
    MayFail,              \* whether database queries fail, any number of times
    MaxChanges            \* bound: how often keys are retired, unretired, lost

ASSUME ViewConstants ==
    /\ MAX_QUEUED_RECORDS \in Nat /\ MaxHeight \in Nat
    /\ MayFail \in BOOLEAN /\ MaxChanges \in Nat
    /\ StaleKeys \in BOOLEAN /\ MayStop \in BOOLEAN
    /\ Keys # {} /\ Expiries \subseteq Nat /\ MaxLag \in Nat

VARIABLES
    used,              \* for each block, the keys its senders may have used
    ingress_keys,      \* DbFetcherSharedState.ingress_keys
    fetched_records,   \* DbFetcherSharedState.fetched_records
    num_queued,        \* the count in num_queued_records_limiter
    fetcher,           \* the DbFetcher thread and its block tracker
    poll,              \* the DbPollThread and its enclave block tracker
    enclave,           \* the blocks loaded into the enclave
    processed,         \* shared state: highest_processed_block_count
    last_known,        \* shared state: last_known_block_count
    stop,              \* stop_requested of the poll thread
    fetcher_stop,      \* stop_requested of the fetcher
    changes            \* how often keys may still be retired, unretired, lost

view_vars == <<ingress_keys, fetched_records, num_queued, fetcher, poll,
               enclave, processed, last_known, stop, fetcher_stop>>
vars == <<scan_vars, used, changes, view_vars>>

-----------------------------------------------------------------------------

FetchedRecords == [key: Keys, block: Nat]

TypeOK ==
    /\ height \in 0..MaxHeight
    /\ keys \in [Keys -> KeyState] /\ ingress_keys \in [Keys -> KeyState]
    /\ missed \in SUBSET [start: Nat, end: Nat]
    /\ used \in Seq(SUBSET Keys) /\ Len(used) = height
    /\ fetched_records \in Seq(FetchedRecords)
    /\ num_queued \in Nat
    /\ fetcher \in [pc: {"keys", "fetch", "limit", "done"}, done: Tracker,
                    todo: SUBSET Keys, more: BOOLEAN]
    /\ poll \in [pc: {"tick", "reset", "add", "join", "done"},
                 batch: Seq(FetchedRecords), done: Tracker]
    /\ enclave \in SUBSET (Keys \X Nat)
    /\ processed \in Nat /\ last_known \in Nat
    /\ stop \in BOOLEAN /\ fetcher_stop \in BOOLEAN
    /\ changes \in 0..MaxChanges

Init ==
    /\ ScansInit
    /\ used = << >>
    /\ ingress_keys = [k \in Keys |-> NoRow]
    /\ fetched_records = << >>
    /\ num_queued = 0
    /\ fetcher = [pc |-> "keys", done |-> [k \in Keys |-> NoBlock],
                  todo |-> {}, more |-> FALSE]
    /\ poll = [pc |-> "tick", batch |-> << >>, done |-> [k \in Keys |-> NoBlock]]
    /\ enclave = {}
    /\ processed = 0
    /\ last_known = 0
    /\ stop = FALSE
    /\ fetcher_stop = FALSE
    /\ changes = MaxChanges

-----------------------------------------------------------------------------
(* The DbFetcher thread. *)

\* The top of the thread's loop: load_ingress_keys (after an error the old
\* records are kept), and the plan of the first load_block_data.
LoadIngressKeys ==
    /\ fetcher.pc = "keys" /\ ~fetcher_stop
    /\ \/ ingress_keys' = keys
       \/ StaleKeys /\ UNCHANGED ingress_keys /\ MayFail
    /\ fetcher' = [fetcher EXCEPT !.pc = "fetch", !.more = FALSE,
                      !.todo = next_blocks(fetcher.done, ingress_keys')]
    /\ UNCHANGED <<scan_vars, used, changes, fetched_records, num_queued, poll, enclave,
                   processed, last_known, stop, fetcher_stop>>

\* A mistake in FetchBlock: the block is not marked processed.
FetchBlock_NotMarked(k) ==
    /\ fetcher.pc = "fetch" /\ k \in fetcher.todo
    /\ LET b == NextBlock(fetcher.done, ingress_keys[k], k)
       IN  /\ keys[k].start <= b /\ b < keys[k].next
           /\ fetched_records' = Append(fetched_records, [key |-> k, block |-> b])
           /\ fetcher' = [fetcher EXCEPT !.pc = "limit", !.more = TRUE,
                             !.todo = @ \ {k}]
    /\ UNCHANGED <<scan_vars, used, changes, ingress_keys, num_queued, poll, enclave,
                   processed, last_known, stop, fetcher_stop>>

\* One iteration of load_block_data in which the block was there: it is marked
\* processed and queued.
FetchBlock(k) ==
    /\ fetcher.pc = "fetch" /\ k \in fetcher.todo
    /\ LET b == NextBlock(fetcher.done, ingress_keys[k], k)
       IN  /\ keys[k].start <= b /\ b < keys[k].next
           /\ fetched_records' = Append(fetched_records, [key |-> k, block |-> b])
           /\ fetcher' = [fetcher EXCEPT !.pc = "limit", !.more = TRUE,
                             !.todo = @ \ {k}, !.done[k] = b]
    /\ UNCHANGED <<scan_vars, used, changes, ingress_keys, num_queued, poll, enclave,
                   processed, last_known, stop, fetcher_stop>>

\* A mistake in WaitForQueue: no wait.
WaitForQueue_NoWait ==
    /\ fetcher.pc = "limit"
    /\ num_queued' = num_queued + 1
    /\ fetcher' = [fetcher EXCEPT !.pc = "fetch"]
    /\ UNCHANGED <<scan_vars, used, changes, ingress_keys, fetched_records, poll,
                   enclave, processed, last_known, stop, fetcher_stop>>

\* The end of that iteration: wait while too much is queued, then count.
WaitForQueue ==
    /\ fetcher.pc = "limit"
    /\ num_queued <= MAX_QUEUED_RECORDS
    /\ num_queued' = num_queued + 1
    /\ fetcher' = [fetcher EXCEPT !.pc = "fetch"]
    /\ UNCHANGED <<scan_vars, used, changes, ingress_keys, fetched_records, poll, enclave,
                   processed, last_known, stop, fetcher_stop>>

\* An iteration in which the block is not there yet, or the query fails.
FetchNothing(k) ==
    /\ fetcher.pc = "fetch" /\ k \in fetcher.todo
    /\ \/ NextBlock(fetcher.done, ingress_keys[k], k) >= keys[k].next
       \/ MayFail
    /\ fetcher' = [fetcher EXCEPT !.todo = @ \ {k}]
    /\ UNCHANGED <<scan_vars, used, changes, ingress_keys, fetched_records, num_queued,
                   poll, enclave, processed, last_known, stop, fetcher_stop>>

\* A mistake in EndLoad: the key records are read only once.
EndLoad_KeysReadOnce ==
    /\ fetcher.pc = "fetch" /\ fetcher.todo = {}
    /\ fetcher' = IF ~fetcher_stop
                  THEN [fetcher EXCEPT !.more = FALSE,
                          !.todo = next_blocks(fetcher.done, ingress_keys)]
                  ELSE [fetcher EXCEPT !.pc = "keys"]
    /\ UNCHANGED <<scan_vars, used, changes, ingress_keys, fetched_records,
                   num_queued, poll, enclave, processed, last_known, stop,
                   fetcher_stop>>

\* load_block_data returns: it is called again while it finds blocks and no
\* stop is requested.
EndLoad ==
    /\ fetcher.pc = "fetch" /\ fetcher.todo = {}
    /\ fetcher' = IF fetcher.more /\ ~fetcher_stop
                  THEN [fetcher EXCEPT !.more = FALSE,
                          !.todo = next_blocks(fetcher.done, ingress_keys)]
                  ELSE [fetcher EXCEPT !.pc = "keys"]
    /\ UNCHANGED <<scan_vars, used, changes, ingress_keys, fetched_records, num_queued,
                   poll, enclave, processed, last_known, stop, fetcher_stop>>

FetcherExits ==
    /\ fetcher.pc = "keys" /\ fetcher_stop
    /\ fetcher' = [fetcher EXCEPT !.pc = "done"]
    /\ UNCHANGED <<scan_vars, used, changes, ingress_keys, fetched_records, num_queued,
                   poll, enclave, processed, last_known, stop, fetcher_stop>>

-----------------------------------------------------------------------------
(* The DbPollThread. *)

\* The start of tick, and the first half of get_pending_fetched_records: the
\* whole queue is taken.
TakeRecords ==
    /\ poll.pc = "tick" /\ ~stop
    /\ poll' = [poll EXCEPT !.pc = "reset", !.batch = fetched_records]
    /\ fetched_records' = << >>
    /\ UNCHANGED <<scan_vars, used, changes, ingress_keys, num_queued, fetcher, enclave,
                   processed, last_known, stop, fetcher_stop>>

\* The second half, under another mutex: the count is reset and the fetcher
\* woken.
ResetQueued ==
    /\ poll.pc = "reset"
    /\ num_queued' = 0
    /\ poll' = [poll EXCEPT !.pc = "add"]
    /\ UNCHANGED <<scan_vars, used, changes, ingress_keys, fetched_records, fetcher,
                   enclave, processed, last_known, stop, fetcher_stop>>

\* add_records_to_enclave on the first record that is left.
AddRecords ==
    /\ poll.pc = "add" /\ poll.batch # << >> /\ ~stop
    /\ LET r == Head(poll.batch)
       IN  /\ enclave' = enclave \cup {<<r.key, r.block>>}
           /\ poll' = [poll EXCEPT !.batch = Tail(@), !.done[r.key] = r.block]
    /\ UNCHANGED <<scan_vars, used, changes, ingress_keys, fetched_records, num_queued,
                   fetcher, processed, last_known, stop, fetcher_stop>>

\* The rest of tick, with the key records the fetcher has now.  The query for
\* the cumulative txo count may fail; last_known_block_count is then left.
UpdateSharedState ==
    /\ poll.pc = "add"
    /\ poll.batch = << >> \/ stop
    /\ processed' = highest_fully_processed_block_count(poll.done, ingress_keys,
                                                        processed)
    /\ \/ last_known' = highest_known_block_count(poll.done)
       \/ UNCHANGED last_known /\ MayFail
    /\ poll' = [poll EXCEPT !.pc = "tick", !.batch = << >>]
    /\ UNCHANGED <<scan_vars, used, changes, ingress_keys, fetched_records, num_queued,
                   fetcher, enclave, stop, fetcher_stop>>

\* tick finds stop requested: it stops the fetcher and joins it.
StopFetcher ==
    /\ poll.pc = "tick" /\ stop
    /\ fetcher_stop' = TRUE
    /\ poll' = [poll EXCEPT !.pc = "join"]
    /\ UNCHANGED <<scan_vars, used, changes, ingress_keys, fetched_records, num_queued,
                   fetcher, enclave, processed, last_known, stop>>

JoinFetcher ==
    /\ poll.pc = "join" /\ fetcher.pc = "done"
    /\ poll' = [poll EXCEPT !.pc = "done"]
    /\ UNCHANGED <<scan_vars, used, changes, ingress_keys, fetched_records, num_queued,
                   fetcher, enclave, processed, last_known, stop, fetcher_stop>>

\* ViewServer::stop, which then joins the poll thread.
Stop ==
    /\ MayStop /\ ~stop
    /\ stop' = TRUE
    /\ UNCHANGED <<scan_vars, used, changes, ingress_keys, fetched_records, num_queued,
                   fetcher, poll, enclave, processed, last_known, fetcher_stop>>

-----------------------------------------------------------------------------
(* The ledger and the ingest servers. *)

\* A sender that uses an ingress key sets a tombstone block of at most the
\* expiry of the report, so its TxOut lands in a block below that.
AppendBlock ==
    /\ height < MaxHeight
    /\ Grow
    /\ used' = Append(used, {k \in Keys : keys[k].expiry > height})
    /\ UNCHANGED <<changes, view_vars>>

\* The fetcher has loaded all it could and is about to read the key records.
FetcherIsIdle == fetcher.pc \in {"keys", "done"}

IngestStep ==
    /\ \/ /\ \E k \in Keys :
               \/ Scan(k) \/ Publish(k)
               \/ (StaleKeys \/ FetcherIsIdle) /\ Register(k)
          /\ UNCHANGED changes
       \/ /\ changes > 0 /\ changes' = changes - 1
          /\ \E k \in Keys :
               \/ Lose(k)
               \/ (StaleKeys \/ FetcherIsIdle \/ ~keys[k].retired) /\ SetRetired(k)
    /\ UNCHANGED <<used, view_vars>>

FetcherStep ==
    \/ LoadIngressKeys \/ WaitForQueue \/ EndLoad \/ FetcherExits
    \/ \E k \in Keys : FetchBlock(k) \/ FetchNothing(k)

PollStep ==
    \/ TakeRecords \/ ResetQueued \/ AddRecords \/ UpdateSharedState
    \/ StopFetcher \/ JoinFetcher

Next == FetcherStep \/ PollStep \/ Stop \/ AppendBlock \/ IngestStep

Spec == Init /\ [][Next]_vars

\* Both threads keep running, and ingest keeps scanning with every key that is
\* neither lost nor retired and past its expiry.
ScanNeeded(k) ==
    /\ Scan(k)
    /\ keys[k].retired => keys[k].next <= keys[k].expiry
    /\ UNCHANGED <<used, changes, view_vars>>

FairSpec ==
    /\ Spec
    /\ WF_vars(FetcherStep)
    /\ WF_vars(PollStep)
    /\ \A k \in Keys : WF_vars(ScanNeeded(k))

-----------------------------------------------------------------------------
(* Properties. *)

Missed(b) == \E m \in missed : m.start <= b /\ b < m.end

\* "The block count for which we know we have loaded all required data, so the
\* users can potentially compute their balance up to this block without missing
\* any transactions": for every block below highest_processed_block_count and
\* every key a sender may have used in it, the block's records under that key
\* are in the enclave, or the users are told that the block is missed.
NothingMissing ==
    \A b \in 0..(processed - 1) : \A k \in used[b + 1] :
        <<k, b>> \in enclave \/ Missed(b)

\* What the fetcher has fetched with a key and the poll thread has not loaded
\* is on its way exactly once and in order: each record on the way is the next
\* one after what is loaded with its key, or after an earlier one, and the last
\* is the last that was fetched.  So the assertion of block_processed, "we are
\* only moving forward and not skipping any blocks", holds in both threads.  A
\* tick that stops drops what it has taken.
PipelineInOrder ==
    LET coming == poll.batch \o fetched_records
        Record(k, b) == [key |-> k, block |-> b]
    IN  ~stop =>
        /\ \A i \in DOMAIN coming :
             LET k == coming[i].key
                 b == coming[i].block
             IN  /\ b <= fetcher.done[k]
                 /\ \A j \in 1..(i - 1) : coming[j].key = k => coming[j].block < b
                 /\ \/ b = NextBlock(poll.done, keys[k], k)
                    \/ \E j \in 1..(i - 1) : coming[j] = Record(k, b - 1)
        /\ \A k \in Keys :
             \/ fetcher.done[k] = poll.done[k]
             \/ \E i \in DOMAIN coming : coming[i] = Record(k, fetcher.done[k])

\* "The queue is limited to approximately MAX_QUEUED_RECORDS ETxOutRecords": the
\* queue may hold the limit twice over, because it is emptied and its count is
\* reset under different mutexes.
QueueBounded == Len(fetched_records) <= 2 * MAX_QUEUED_RECORDS + 3

\* A block that was scanned with a key before the key's expiry is in time a
\* processed block: neither thread waits for the other forever, and no key
\* that is lost or retired holds the count back.
ScannedIsProcessed ==
    \A b \in 0..(MaxHeight - 1) :
        (\E k \in Keys : /\ keys[k].start <= b /\ b < keys[k].next
                         /\ b < keys[k].expiry)
            ~> (processed > b \/ stop)

=============================================================================

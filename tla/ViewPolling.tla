----------------------------- MODULE ViewPolling -----------------------------
(***************************************************************************)
(* The view protocol (fog/view/protocol): how a client finds its TxOuts by *)
(* polling view servers, with the query handler of fog_view_service.rs.    *)
(*                                                                         *)
(* The client talks to some view server through a load balancer, so each   *)
(* request may meet another one.  A server is known by what it promises    *)
(* (NothingMissing of ViewServer): with a highest processed block count c, *)
(* the records of all blocks below c are in its enclave; of later blocks   *)
(* those of some RNGs may be.  As any number of servers may lag in any     *)
(* way, a request chooses among all such servers anew, at the time of its  *)
(* last read.  A record's search key is an output of an RNG: the RNG and   *)
(* an index.                                                               *)
(***************************************************************************)
EXTENDS Integers, Sequences, FiniteSets, FiniteSetsExt

CONSTANTS
    Rngs,             \* the RNGs the user shares with ingest invocations
    TxOuts,           \* the user's TxOuts, by global index
    MAX_MULTIPLIER,   \* the cap on the outputs requested of one RNG, 1000
    EventRace,        \* whether the tables may change between the two reads
                      \* of a query: the user events and the block count
    MaxHeight         \* bound: blocks in the ledger

NoRng == "none"

ASSUME PollingConstants ==
    /\ TxOuts \subseteq Nat /\ IsFiniteSet(TxOuts)
    /\ IsFiniteSet(Rngs) /\ NoRng \notin Rngs
    /\ MAX_MULTIPLIER \in Nat /\ MAX_MULTIPLIER >= 2
    /\ EventRace \in BOOLEAN /\ MaxHeight \in Nat

VARIABLES
    height,     \* number of blocks in the ledger
    born,       \* the block of each TxOut
    spent,      \* the block of each TxOut's key image
    scanned,    \* the first block whose records are not in the database
    rng,        \* the RNG under which each TxOut's record is published
    events,     \* the new RNG rows of user_events, by id
    user_rngs,  \* UserRngSet: the index of the next output of each known RNG
    highest_processed_block_count,   \* of the UserRngSet
    next_start_from_user_event_id,   \* of the UserRngSet
    poll        \* the poll call

ledger_vars == <<height, born, spent>>
db_vars == <<scanned, rng, events>>
rng_set_vars == <<user_rngs, highest_processed_block_count,
                  next_start_from_user_event_id>>
polling_vars == <<ledger_vars, db_vars, rng_set_vars, poll>>

NotYet == -1
Unknown == -1

NoPoll == [pc |-> "idle", seen |-> 0, count |-> 0, multiplier |-> 2,
           dead |-> {}, results |-> {}]

PollingTypeOK ==
    /\ height \in 0..MaxHeight /\ scanned \in 0..height
    /\ born \in [TxOuts -> Nat \cup {NotYet}]
    /\ spent \in [TxOuts -> Nat \cup {NotYet}]
    /\ rng \in [TxOuts -> Rngs \cup {NoRng}]
    /\ events \in Seq(Rngs)
    /\ user_rngs \in [Rngs -> Nat \cup {Unknown}]
    /\ highest_processed_block_count \in 0..scanned
    /\ next_start_from_user_event_id \in 0..Len(events)
    /\ poll \in [pc: {"idle", "first", "loop", "returned"}, seen: 0..Len(events),
                 count: 0..scanned, multiplier: 2..MAX_MULTIPLIER,
                 dead: SUBSET Rngs, results: SUBSET TxOuts]

PollingInit ==
    /\ height = 0 /\ scanned = 0
    /\ born = [i \in TxOuts |-> NotYet]
    /\ spent = [i \in TxOuts |-> NotYet]
    /\ rng = [i \in TxOuts |-> NoRng]
    /\ events = << >>
    /\ user_rngs = [r \in Rngs |-> Unknown]
    /\ highest_processed_block_count = 0
    /\ next_start_from_user_event_id = 0
    /\ poll = NoPoll

-----------------------------------------------------------------------------
(* The ledger, and ingest as the user sees it. *)

BornIn(b) == {i \in TxOuts : born[i] = b}
Unborn == {i \in TxOuts : born[i] = NotYet}
Spendable == {i \in TxOuts : born[i] # NotYet /\ spent[i] = NotYet}

\* A block brings the next TxOuts and spends earlier ones.  It is impossible
\* to spend a TxOut in the block that creates it.
AppendBlock(spends) ==
    /\ height < MaxHeight
    /\ height' = height + 1
    /\ \E new \in {{i \in Unborn : i < n} : n \in Unborn \cup {Max(TxOuts) + 1}} :
         born' = [i \in TxOuts |-> IF i \in new THEN height ELSE born[i]]
    /\ spent' = [i \in TxOuts |-> IF i \in spends THEN height ELSE spent[i]]

\* An ingest invocation is opened: its RNG is announced, before any record
\* under it is published.
NewRngEvent ==
    /\ \E r \in Rngs : /\ \A n \in DOMAIN events : events[n] # r
                       /\ events' = Append(events, r)
    /\ UNCHANGED <<ledger_vars, scanned, rng>>

\* The next block's records are published, each under the next output of some
\* announced RNG.
PublishBlock ==
    /\ scanned < height
    /\ scanned' = scanned + 1
    /\ \E f \in [BornIn(scanned) -> {events[n] : n \in DOMAIN events}] :
         rng' = [i \in TxOuts |-> IF i \in BornIn(scanned) THEN f[i] ELSE rng[i]]
    /\ UNCHANGED <<ledger_vars, events>>

\* The index of the RNG output that is the search key of TxOut i.
IndexOf(i) == Cardinality({j \in TxOuts : rng[j] = rng[i] /\ j < i})

-----------------------------------------------------------------------------
(* FogViewConnection::poll. *)

Known == {r \in Rngs : user_rngs[r] # Unknown}

\* The first half of the first request: query_impl reads the user events after
\* next_start_from_user_event_id.
PollBegin ==
    /\ poll.pc = "idle"
    /\ poll' = [NoPoll EXCEPT !.pc = "first", !.seen = Len(events)]
    /\ UNCHANGED <<ledger_vars, db_vars, rng_set_vars>>

\* A mistake: every RNG record starts its RNG again.
ingest_rng_records_Restarted(seen) ==
    [r \in Rngs |-> IF \E n \in 1..seen : events[n] = r THEN 0 ELSE user_rngs[r]]

\* ingest_rng_record for each event of the first response: a new RNG starts
\* with its first output.
ingest_rng_records(seen) ==
    [r \in Rngs |->
       IF \E n \in (next_start_from_user_event_id + 1)..seen : events[n] = r
       THEN Max({user_rngs[r], 0})
       ELSE user_rngs[r]]

\* The second half: some server's block count.  A count that is not new ends
\* the poll.
FirstResponse ==
    /\ poll.pc = "first"
    /\ user_rngs' = ingest_rng_records(poll.seen)
    /\ next_start_from_user_event_id' = poll.seen
    /\ \E count \in 0..scanned :
         poll' = IF highest_processed_block_count >= count
                 THEN [poll EXCEPT !.pc = "returned"]
                 ELSE [poll EXCEPT !.pc = "loop", !.count = count]
    /\ UNCHANGED <<ledger_vars, db_vars, highest_processed_block_count>>

\* The TxOuts found among the next outputs of each live RNG, in an enclave
\* with the records of the blocks below loaded[r].
Found(loaded) ==
    {i \in TxOuts :
       /\ rng[i] \in Known \ poll.dead
       /\ born[i] < loaded[rng[i]]
       /\ user_rngs[rng[i]] <= IndexOf(i)
       /\ IndexOf(i) < user_rngs[rng[i]] + poll.multiplier}

\* ingest_tx_out_search_results: each RNG advances over what was found.
Advanced(found) ==
    [r \in Rngs |-> user_rngs[r] + Cardinality({i \in found : rng[i] = r})]

\* A mistake: the last response's count, not the smallest.
Round_LastCount ==
    /\ poll.pc = "loop"
    /\ Cardinality(poll.dead) < Cardinality(Known)
    /\ \E count \in 0..scanned : \E loaded \in [Rngs -> count..scanned] :
         /\ user_rngs' = Advanced(Found(loaded))
         /\ poll' = [poll EXCEPT
              !.count = count,
              !.results = @ \cup Found(loaded),
              !.dead = {r \in Known : user_rngs[r] + poll.multiplier > user_rngs'[r]},
              !.multiplier = Min({2 * @, MAX_MULTIPLIER})]
    /\ UNCHANGED <<ledger_vars, db_vars, highest_processed_block_count,
                   next_start_from_user_event_id>>

\* A mistake: the requests grow without limit.
Round_NoCap ==
    /\ poll.pc = "loop"
    /\ Cardinality(poll.dead) < Cardinality(Known)
    /\ \E count \in 0..scanned : \E loaded \in [Rngs -> count..scanned] :
         /\ user_rngs' = Advanced(Found(loaded))
         /\ poll' = [poll EXCEPT
              !.count = Min({@, count}),
              !.results = @ \cup Found(loaded),
              !.dead = {r \in Known : user_rngs[r] + poll.multiplier > user_rngs'[r]},
              !.multiplier = 2 * @]
    /\ UNCHANGED <<ledger_vars, db_vars, highest_processed_block_count,
                   next_start_from_user_event_id>>

\* One round of the loop: a request to some server for the next outputs of the
\* live RNGs.  An RNG of which not all were found is dead.
Round ==
    /\ poll.pc = "loop"
    /\ Cardinality(poll.dead) < Cardinality(Known)
    /\ \E count \in 0..scanned : \E loaded \in [Rngs -> count..scanned] :
         /\ user_rngs' = Advanced(Found(loaded))
         /\ poll' = [poll EXCEPT
              !.count = Min({@, count}),
              !.results = @ \cup Found(loaded),
              !.dead = {r \in Known : user_rngs[r] + poll.multiplier > user_rngs'[r]},
              !.multiplier = Min({2 * @, MAX_MULTIPLIER})]
    /\ UNCHANGED <<ledger_vars, db_vars, highest_processed_block_count,
                   next_start_from_user_event_id>>

\* No RNG is alive: the block count is updated, never in reverse.
PollEnd ==
    /\ poll.pc = "loop"
    /\ Cardinality(poll.dead) >= Cardinality(Known)
    /\ highest_processed_block_count' =
         Max({highest_processed_block_count, poll.count})
    /\ poll' = [poll EXCEPT !.pc = "returned"]
    /\ UNCHANGED <<ledger_vars, db_vars, user_rngs,
                   next_start_from_user_event_id>>

\* A request fails: what was found so far is returned.
PollFails ==
    /\ poll.pc \in {"first", "loop"}
    /\ poll.pc = "loop" => Cardinality(poll.dead) < Cardinality(Known)
    /\ poll' = [poll EXCEPT !.pc = "returned"]
    /\ UNCHANGED <<ledger_vars, db_vars, rng_set_vars>>

PollStep == PollBegin \/ FirstResponse \/ Round \/ PollEnd \/ PollFails

-----------------------------------------------------------------------------
(* Properties. *)

\* "We can guarantee that if we don't find a transaction for some particular
\* rng output, then it didn't land before num_blocks": below the client's block
\* count it has found every TxOut, whichever servers answered its requests and
\* wherever an earlier poll failed.
AllFound ==
    \A i \in TxOuts :
        born[i] # NotYet /\ born[i] < highest_processed_block_count =>
            IndexOf(i) < user_rngs[rng[i]]

=============================================================================

---------------------------- MODULE SamplePaykit ----------------------------
(***************************************************************************)
(* The sample paykit (fog/sample-paykit): the cache of the user's TxOuts   *)
(* and of what is known of their key images, the balance computed from it, *)
(* and a transaction built, sent and looked for.  The TxOuts come from     *)
(* ViewPolling, the key images and the transaction's fate from ledger      *)
(* servers (fog/ledger/server) that may be behind: such a server reads its *)
(* number of blocks first and what it is asked about later.  The account   *)
(* may also be used on another device.                                     *)
(***************************************************************************)
EXTENDS ViewPolling

CONSTANTS
    BLOCK_COUNT_MAX,         \* BlockCount::MAX
    TARGET_NUM_INPUTS,       \* the most inputs of a transaction, 3
    NEW_TX_BLOCK_ATTEMPTS    \* how many blocks a transaction may wait

ASSUME PaykitConstants ==
    /\ BLOCK_COUNT_MAX \in Nat /\ BLOCK_COUNT_MAX > MaxHeight
    /\ NEW_TX_BLOCK_ATTEMPTS \in Nat /\ TARGET_NUM_INPUTS \in Nat

VARIABLES
    owned_tx_outs,                 \* the key image status of each owned TxOut
    key_image_data_completeness,
    tx                             \* the transaction that was sent last

wallet_vars == <<owned_tx_outs, key_image_data_completeness>>
vars == <<polling_vars, wallet_vars, tx>>

NotSpent(n) == [status |-> "not_spent", at |-> n]
SpentAt(b) == [status |-> "spent", at |-> b]
NotOwned == [status |-> "not_owned", at |-> 0]

Owned(status) == {i \in TxOuts : owned_tx_outs[i].status = status}

NoTx == [inputs |-> {}, tombstone |-> 0, landed |-> NotYet, told |-> "unknown"]

TypeOK ==
    /\ PollingTypeOK
    /\ owned_tx_outs \in [TxOuts -> [status: {"not_owned", "not_spent", "spent"},
                                     at: 0..MaxHeight]]
    /\ key_image_data_completeness \in 0..MaxHeight \cup {BLOCK_COUNT_MAX}
    /\ tx \in [inputs: SUBSET TxOuts, tombstone: Nat, landed: Nat \cup {NotYet},
               told: {"unknown", "appeared", "expired"}]

Init ==
    /\ PollingInit
    /\ owned_tx_outs = [i \in TxOuts |-> NotOwned]
    /\ key_image_data_completeness = BLOCK_COUNT_MAX
    /\ tx = NoTx

-----------------------------------------------------------------------------
(* CachedTxData. *)

get_num_blocks == Min({highest_processed_block_count, key_image_data_completeness})

\* consume_new_txo_records: a TxOut is not spent as of the block in which it
\* appeared.
consume_new_txo_records(records) ==
    /\ owned_tx_outs' = [i \in TxOuts |-> IF i \in records THEN NotSpent(born[i] + 1)
                                          ELSE owned_tx_outs[i]]
    /\ key_image_data_completeness' =
         Min({key_image_data_completeness} \cup {born[i] + 1 : i \in records})

\* poll_fog_for_txos: poll, and consume what it returns.
PollForTxOuts ==
    /\ PollStep
    /\ IF poll'.pc = "returned" THEN consume_new_txo_records(poll'.results)
       ELSE UNCHANGED wallet_vars
    /\ UNCHANGED tx

\* What check_key_images answers of a key image that it looks up in a ledger
\* of h blocks.
SpentBefore(i, h) == spent[i] # NotYet /\ spent[i] < h

\* A mistake: an older answer replaces a newer one.
Checked_Overwrites(i, n, h) ==
    IF SpentBefore(i, h) THEN SpentAt(spent[i]) ELSE NotSpent(n)

\* The new status of TxOut i: spent at its block, or not spent as of num_blocks
\* n unless more is known already.
Checked(i, n, h) ==
    IF SpentBefore(i, h) THEN SpentAt(spent[i])
    ELSE NotSpent(Max({owned_tx_outs[i].at, n}))

\* A mistake: only what was learnt this time counts.
Completeness_Last(owned, n) == n

\* The smallest block count as of which an owned TxOut is not spent.
Completeness(owned, n) ==
    Min({BLOCK_COUNT_MAX} \cup
        {owned[i].at : i \in {j \in TxOuts : owned[j].status = "not_spent"}})

\* poll_fog_for_key_images: one request about every TxOut not known to be
\* spent.  The server has n blocks when it reads their number, and seen[i]
\* when it looks key image i up, which fails for some.  As a key image stays
\* spent, a lookup at n or at the present height gives every possible answer.
PollForKeyImages ==
    /\ poll.pc = "returned"
    /\ \E n \in 0..height : \E seen \in [Owned("not_spent") -> {n, height}] :
         \E failed \in SUBSET Owned("not_spent") :
           owned_tx_outs' = [i \in TxOuts |->
                               IF i \in Owned("not_spent") \ failed
                               THEN Checked(i, n, seen[i]) ELSE owned_tx_outs[i]]
           /\ key_image_data_completeness' = Completeness(owned_tx_outs', n)
    /\ poll' = NoPoll
    /\ UNCHANGED <<ledger_vars, db_vars, rng_set_vars, tx>>

\* The request fails and the cache keeps what it had.
KeyImagesFail ==
    /\ poll.pc = "returned"
    /\ poll' = NoPoll
    /\ UNCHANGED <<ledger_vars, db_vars, rng_set_vars, wallet_vars, tx>>

\* The TxOuts that get_unspent_txos returns.
get_unspent_txos == {i \in Owned("not_spent") : born[i] < get_num_blocks}

\* A mistake: what is known to be spent later does not count.
get_balance_Unspent == get_unspent_txos

\* The TxOuts whose values get_balance adds up.
get_balance ==
    {i \in TxOuts : /\ owned_tx_outs[i] # NotOwned /\ born[i] < get_num_blocks
                    /\ \/ i \in Owned("not_spent")
                       \/ owned_tx_outs[i].at >= get_num_blocks}

-----------------------------------------------------------------------------
(* Transactions. *)

\* build_transaction and send_transaction, with the tombstone block computed
\* from some ledger server's number of blocks.  Nothing keeps the client from
\* sending another one before it knows what became of the last: that one may
\* still land, as a block of OtherBlock.
SendTransaction ==
    /\ poll.pc = "idle"
    /\ \E inputs \in SUBSET get_unspent_txos, n \in 0..height :
         /\ Cardinality(inputs) \in 1..TARGET_NUM_INPUTS
         /\ tx' = [NoTx EXCEPT !.inputs = inputs,
                               !.tombstone = n + NEW_TX_BLOCK_ATTEMPTS]
    /\ UNCHANGED <<polling_vars, wallet_vars>>

\* A mistake: the tombstone block itself does not count.
Expired_OffByOne(n) == n + 1 >= tx.tombstone

\* "A transaction must appear BEFORE the tombstone_block".
Expired(n) == n >= tx.tombstone

\* is_transaction_present: get_tx_outs reads the number of blocks n, and then
\* looks the transaction's first output up in a ledger of h blocks.
IsTransactionPresent ==
    /\ poll.pc = "idle" /\ tx # NoTx
    /\ \E n \in 0..height : \E h \in n..height :
         tx' = [tx EXCEPT !.told =
                  IF tx.landed # NotYet /\ tx.landed < h THEN "appeared"
                  ELSE IF Expired(n) THEN "expired" ELSE "unknown"]
    /\ UNCHANGED <<polling_vars, wallet_vars>>

\* The server's lookup meets a database error.
LookupFails ==
    /\ poll.pc = "idle" /\ tx # NoTx
    /\ tx' = [tx EXCEPT !.told = "unknown"]
    /\ UNCHANGED <<polling_vars, wallet_vars>>

\* Consensus puts the transaction into the next block.
TransactionLands ==
    /\ tx # NoTx /\ tx.landed = NotYet
    /\ height < tx.tombstone /\ tx.inputs \subseteq Spendable
    /\ AppendBlock(tx.inputs)
    /\ tx' = [tx EXCEPT !.landed = height]
    /\ UNCHANGED <<db_vars, rng_set_vars, poll, wallet_vars>>

\* A block without it; another device may spend TxOuts.
OtherBlock ==
    /\ \E spends \in SUBSET Spendable : AppendBlock(spends)
    /\ UNCHANGED <<db_vars, rng_set_vars, poll, wallet_vars, tx>>

Ingest ==
    /\ EventRace \/ poll.pc # "first"
    /\ NewRngEvent \/ PublishBlock
    /\ UNCHANGED <<rng_set_vars, poll, wallet_vars, tx>>

Next ==
    \/ PollForTxOuts \/ PollForKeyImages \/ KeyImagesFail
    \/ SendTransaction \/ IsTransactionPresent \/ LookupFails
    \/ TransactionLands \/ OtherBlock \/ Ingest

Spec == Init /\ [][Next]_vars

-----------------------------------------------------------------------------
(* Properties. *)

\* "Returns (balance, block_count) where balance is the correct balance when
\* the ledger has exactly block_count blocks": get_balance adds up the TxOuts
\* that are in the first get_num_blocks blocks and not spent there, after any
\* mixture of servers, failed requests and failed lookups.
BalanceCorrect ==
    poll.pc = "idle" =>
        get_balance = {i \in TxOuts :
                         /\ born[i] # NotYet /\ born[i] < get_num_blocks
                         /\ ~SpentBefore(i, get_num_blocks)}

\* The assertions of get_unspent_txos and get_balance, and the documented
\* invariant of key_image_data_completeness.
WalletAssertions ==
    /\ \A i \in Owned("not_spent") :
         /\ born[i] < owned_tx_outs[i].at
         /\ key_image_data_completeness <= owned_tx_outs[i].at
    /\ \A i \in Owned("spent") : born[i] < owned_tx_outs[i].at

\* "We only need to ensure that num_blocks does not go backwards": a balance is
\* never computed for an earlier block count than the one before.
NumBlocksForward == [][get_num_blocks' >= get_num_blocks]_vars

\* is_transaction_present says that a transaction expired only when it will
\* never appear: the wallet may then spend its inputs otherwise.
ExpiredIsFinal == tx.told = "expired" => tx.landed = NotYet

=============================================================================

--------------------------- MODULE BuildTransaction ---------------------------
(***************************************************************************)
(* Client::build_transaction of fog/sample-paykit, with get_outputs of     *)
(* fog/ledger/server: the inputs are selected, their TxOuts and Merkle     *)
(* proofs fetched, mixins sampled and fetched, a tombstone block and the   *)
(* fog reports asked for, and the transaction is put together.             *)
(*                                                                         *)
(* A TxOut is its global index, and its proof goes with it.  Each request  *)
(* meets some ledger server, which may have fewer TxOuts than the client   *)
(* has heard of.                                                           *)
(***************************************************************************)
EXTENDS InputSelection

CONSTANTS
    MINIMUM_FEE,
    TARGET_NUM_INPUTS,
    MAX_REQUEST_SIZE,        \* the most TxOuts that a server gives at once
    ring_size,
    new_tx_block_attempts

VARIABLES
    global_index,               \* of the unspent TxOuts, the oldest first
    payment,                    \* the amount without the fee
    fee,
    latest_global_txo_count,    \* what some ledger server said once
    call,                       \* where build_transaction is, or how it ended
    server_txos,                \* the TxOuts of the server that answered last
    rings,                      \* the rings of mixins
    tombstone_block,
    tx                          \* the transaction; a change of 0 is no output

request_vars == <<global_index, payment, fee, latest_global_txo_count>>
build_vars == <<call, server_txos, rings, tombstone_block, tx>>
vars == <<selection_vars, request_vars, build_vars>>

Calls == {"select", "proofs", "rings", "tombstone", "reports", "build", "built",
          "failed", "rings_for_input", "insufficient_funds", "panic"}

NoTx == [inputs |-> << >>, amount |-> 0, change |-> 0]

Init ==
    /\ \E values \in Seq(Nat) :
         /\ global_index \in [DOMAIN values -> Nat]
         /\ \A m, n \in DOMAIN values : m < n => global_index[m] < global_index[n]
         /\ payment \in Nat /\ fee \in Nat /\ latest_global_txo_count \in Nat
         /\ SelectionInit(values, payment + MINIMUM_FEE, TARGET_NUM_INPUTS)
    /\ call = "select" /\ server_txos = 0 /\ rings = << >>
    /\ tombstone_block = 0 /\ tx = NoTx

-----------------------------------------------------------------------------

\* get_transaction_inputs.
Select ==
    /\ call = "select"
    /\ SelectionStep
    /\ call' = CASE selection' = "ok" -> "proofs"
                 [] selection' = "panic" -> "panic"
                 [] selection' \in {"insufficient_funds",
                                    "wallet_compacting_needed"} -> "failed"
                 [] OTHER -> "select"
    /\ UNCHANGED <<request_vars, server_txos, rings, tombstone_block, tx>>

\* The n'th input.
Input(n) == global_index[result[n]]

\* A request for n TxOuts is answered by a server that has server_txos' of them;
\* then the client goes on to next, and panics when one it needs is not found.
GetOutputs(n, found, next) ==
    /\ server_txos' \in Nat
    /\ call' = IF n > MAX_REQUEST_SIZE THEN "failed" ELSE IF found THEN next ELSE "panic"

GetProofs ==
    /\ call = "proofs"
    /\ GetOutputs(Len(result), \A n \in DOMAIN result : Input(n) < server_txos', "rings")
    /\ UNCHANGED <<selection_vars, request_vars, rings, tombstone_block, tx>>

\* Any n different TxOuts, in any order: a hash set lists them.
Samples(n) ==
    {sample \in [1..n -> 0..(latest_global_txo_count - 1)] :
       \A a, b \in 1..n : sample[a] = sample[b] => a = b}

\* A sample of n * ring_size TxOuts, cut into rings.
RingsOf(sample, n) ==
    IF ring_size = 0 THEN << >>
    ELSE [r \in 1..n |-> [p \in 1..ring_size |-> sample[(r - 1) * ring_size + p]]]

GetRings ==
    /\ call = "rings"
    /\ LET num_requested == Len(result) * ring_size
       IN  \/ /\ latest_global_txo_count < num_requested
              /\ call' = "failed"
              /\ UNCHANGED <<server_txos, rings>>
           \/ /\ latest_global_txo_count >= num_requested
              /\ \E sample \in Samples(num_requested) :
                   /\ GetOutputs(num_requested,
                                 \A n \in 1..num_requested : sample[n] < server_txos',
                                 "tombstone")
                   /\ rings' = RingsOf(sample, Len(result))
    /\ UNCHANGED <<selection_vars, request_vars, tombstone_block, tx>>

\* compute_tombstone_block, with some server's number of blocks.
ComputeTombstoneBlock ==
    /\ call = "tombstone"
    /\ \E num_blocks \in Nat : tombstone_block' = num_blocks + new_tx_block_attempts
    /\ call' = "reports"
    /\ UNCHANGED <<selection_vars, request_vars, server_txos, rings, tx>>

\* The fog reports of sender and recipient are fetched and verified.
FetchFogReports ==
    /\ call = "reports"
    /\ call' = "build"
    /\ UNCHANGED <<selection_vars, request_vars, server_txos, rings, tombstone_block, tx>>

\* A request fails, a report cannot be verified, or the transaction builder
\* refuses an input or an output.
RequestFails ==
    /\ call \in {"proofs", "rings", "tombstone", "reports", "build"}
    /\ call' = "failed"
    /\ UNCHANGED <<selection_vars, request_vars, server_txos, rings, tombstone_block, tx>>

\* A ring with the true input i in it: where it is already (the TxOuts of a ring
\* are different), or else in the first place.
WithInput(ring, i) ==
    IF \E n \in DOMAIN ring : ring[n] = i
    THEN [ring |-> ring, real_index |-> CHOOSE n \in DOMAIN ring : ring[n] = i]
    ELSE [ring |-> IF DOMAIN ring = {} THEN <<i>> ELSE [ring EXCEPT ![1] = i],
          real_index |-> 1]

\* build_transaction_helper: the rings are taken from the end of their list, and
\* what is left over goes back to the sender.
BuildTransactionHelper ==
    /\ call = "build"
    /\ \/ /\ Len(rings) # Len(result)
          /\ call' = "rings_for_input" /\ UNCHANGED tx
       \/ /\ Len(rings) = Len(result) /\ payment + fee > value
          /\ call' = "insufficient_funds" /\ UNCHANGED tx
       \/ /\ Len(rings) = Len(result) /\ payment + fee <= value
          /\ call' = "built"
          /\ tx' = [inputs |-> [n \in DOMAIN result |->
                                  WithInput(rings[Len(rings) + 1 - n], Input(n))],
                    amount |-> payment,
                    change |-> value - (payment + fee)]
    /\ UNCHANGED <<selection_vars, request_vars, server_txos, rings, tombstone_block>>

Next ==
    \/ Select \/ GetProofs \/ GetRings \/ ComputeTombstoneBlock
    \/ FetchFogReports \/ RequestFails \/ BuildTransactionHelper

Spec == Init /\ [][Next]_vars

-----------------------------------------------------------------------------
(* Properties. *)

\* Every input of a transaction is hidden in a ring of ring_size different
\* TxOuts, at the place real_key_index, and no TxOut is an input twice: neither
\* the random mixins, one of which may be the input itself, nor the order in
\* which rings and inputs are paired can make build_transaction_helper put
\* together an invalid one.
RingsWellFormed ==
    call = "built" =>
        \A n \in DOMAIN result :
            LET in == tx.inputs[n]
            IN  /\ DOMAIN in.ring = 1..ring_size
                /\ in.real_index \in 1..ring_size
                /\ in.ring[in.real_index] = Input(n)
                /\ \A a, b \in 1..ring_size : in.ring[a] = in.ring[b] => a = b
                /\ \A m \in DOMAIN result : Input(m) = Input(n) => m = n

\* The inputs pay for the payment, the change and the fee, to the last unit.
ValueConserved ==
    call = "built" =>
        /\ tx.amount = payment /\ tx.change >= 0
        /\ tx.amount + tx.change + fee = TotalOf(tx_values, Chosen)

\* After its inputs are selected the client fails for a reason that is not its
\* own: its funds are insufficient only for a fee above MINIMUM_FEE, which the
\* selection does not reckon with; its rings are too few only with a ring_size of
\* 0; and it panics only when a ledger server has fewer TxOuts than the wallet's
\* inputs or another server's count call for.
FailuresJustified ==
    /\ call = "insufficient_funds" => fee > MINIMUM_FEE
    /\ call = "rings_for_input" => ring_size = 0
    /\ call = "panic" =>
         \/ server_txos < latest_global_txo_count
         \/ \E n \in DOMAIN result : server_txos <= Input(n)

=============================================================================

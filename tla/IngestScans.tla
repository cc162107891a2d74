---------------------------- MODULE IngestScans -----------------------------
(***************************************************************************)
(* What the ingest servers together promise to the readers of the recovery *)
(* database: IngestController implements KeyScans.                         *)
(***************************************************************************)
EXTENDS IngestController

\* What the tables say of a key, as the readers of the tables see it.
KeyScan(k) ==
    LET last == get_last_scanned_block_index(k)
        row == ingress_keys[k]
    IN  [exists |-> row.exists, start |-> row.start_block,
         next |-> IF last = NoBlock THEN row.start_block ELSE last + 1,
         expiry |-> row.pubkey_expiry, retired |-> row.retired,
         lost |-> row.lost]

Scans == INSTANCE KeyScans WITH
    Expiries <- {b + w : b \in 0..MaxBlocks, w \in Windows},
    MaxLag <- MaxBlocks,
    height <- Len(ledger),
    keys <- [k \in Keys |-> KeyScan(k)],
    missed <- {[start |-> m.start, end |-> m.end] : m \in get_missed_block_ranges}

\* Whatever the servers do, each step changes the tables the way the view
\* server expects: one more block of a key, the next one, and never with a key
\* that was reported lost.
ImplementsKeyScans == Scans!ScansSpec

=============================================================================

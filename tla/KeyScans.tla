------------------------------ MODULE KeyScans ------------------------------
(***************************************************************************)
(* What the ingest servers promise the rest of fog, whatever their number  *)
(* and whatever happens to them: the blocks scanned with an ingress key    *)
(* are consecutive from the key's start block, its published expiry only   *)
(* grows and is frozen while it is retired, and once the key is reported   *)
(* lost nothing more is scanned or published with it and the rest of its   *)
(* blocks is a missed block range.  IngestController implements this       *)
(* specification; ViewServer is built on it.                               *)
(***************************************************************************)
EXTENDS Integers

CONSTANTS
    Keys,          \* ingress public keys
    Expiries,      \* the pubkey_expiry values that may be published
    MaxLag         \* how far the ledger of a registering server may be behind

VARIABLES
    height,        \* number of blocks in the ledger
    keys,          \* what the tables say of each key
    missed         \* the missed block ranges, each [start, end)

scan_vars == <<height, keys, missed>>

\* The key's row in ingress_keys, and the first block not yet scanned with it.
KeyState == [exists: BOOLEAN, start: Nat, next: Nat, expiry: Nat,
             retired: BOOLEAN, lost: BOOLEAN]

NoRow == [exists |-> FALSE, start |-> 0, next |-> 0, expiry |-> 0,
          retired |-> FALSE, lost |-> FALSE]

NewRow(start) == [exists |-> TRUE, start |-> start, next |-> start,
                  expiry |-> 0, retired |-> FALSE, lost |-> FALSE]

ScansInit ==
    /\ height = 0
    /\ keys = [k \in Keys |-> NoRow]
    /\ missed = {}

-----------------------------------------------------------------------------

Grow ==
    /\ height' = height + 1
    /\ UNCHANGED <<keys, missed>>

\* A key starts at a block that may already be in the ledger, never past its
\* end.
Register(k) ==
    /\ ~keys[k].exists
    /\ \E start \in {b \in 0..height : b + MaxLag >= height} :
         keys' = [keys EXCEPT ![k] = NewRow(start)]
    /\ UNCHANGED <<height, missed>>

Scan(k) ==
    /\ keys[k].exists /\ ~keys[k].lost
    /\ keys[k].next < height
    /\ keys' = [keys EXCEPT ![k].next = @ + 1]
    /\ UNCHANGED <<height, missed>>

PublishTo(k, expiry) ==
    /\ keys[k].exists /\ ~keys[k].lost /\ ~keys[k].retired
    /\ expiry > keys[k].expiry
    /\ keys' = [keys EXCEPT ![k].expiry = expiry]
    /\ UNCHANGED <<height, missed>>

Publish(k) == \E expiry \in Expiries : PublishTo(k, expiry)

SetRetired(k) ==
    /\ keys[k].exists /\ ~keys[k].lost
    /\ keys' = [keys EXCEPT ![k].retired = ~@]
    /\ UNCHANGED <<height, missed>>

Lose(k) ==
    /\ keys[k].exists
    /\ keys' = [keys EXCEPT ![k].lost = TRUE]
    /\ missed' = missed \cup IF keys[k].next < keys[k].expiry
                             THEN {[start |-> keys[k].next,
                                    end |-> keys[k].expiry]}
                             ELSE {}
    /\ UNCHANGED height

ScansNext ==
    \/ Grow
    \/ \E k \in Keys : \/ Register(k) \/ Scan(k) \/ Publish(k)
                       \/ SetRetired(k) \/ Lose(k)

ScansSpec == ScansInit /\ [][ScansNext]_scan_vars
=============================================================================

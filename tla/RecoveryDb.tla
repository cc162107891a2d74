----------------------------- MODULE RecoveryDb -----------------------------
(***************************************************************************)
(* The recovery database (fog/sql_recovery_db): the five tables of the     *)
(* Postgres schema, and one action for each call of the RecoveryDb and     *)
(* ReportDb traits by which the servers change them.  A call is one        *)
(* transaction, so it is one atomic step; its guard says when it commits   *)
(* (a unique or foreign key constraint that would be violated rolls it     *)
(* back).  Queries are operators on the current tables.                    *)
(*                                                                         *)
(* An ingest invocation id is the row's BIGSERIAL id, here its position in *)
(* ingest_invocations; a user event's id is its position in user_events.   *)
(***************************************************************************)
EXTENDS Integers, Sequences, FiniteSets

CONSTANTS
    Keys,          \* ingress public keys
    Enclaves,      \* the ingest enclaves, each of which draws egress keys
    ReportIds      \* fog_report_id values

ASSUME KeysExist == Keys # {}

VARIABLES
    ingress_keys,        \* ingress_keys table, by ingress_public_key
    ingest_invocations,  \* ingest_invocations table, by id
    ingested_blocks,     \* ingested_blocks table, a set of rows
    user_events,         \* user_events table, by id
    reports              \* reports table, by fog_report_id

db_vars == <<ingress_keys, ingest_invocations, ingested_blocks, user_events,
             reports>>

-----------------------------------------------------------------------------
(* The tables. *)

NoBlock == -1    \* Option<u64>::None
NoInvocation == 0    \* Option<IngestInvocationId>::None

\* IngressPublicKeyStatus; exists is FALSE when the table has no such row.
KeyStatus == [exists: BOOLEAN, start_block: Nat, pubkey_expiry: Nat,
              retired: BOOLEAN, lost: BOOLEAN]

\* A KexRngPubkey is random, so no two draws agree: it is named by the enclave
\* that drew it and by the number of keys that enclave drew before it.
EgressKeys == Enclaves \X Nat

\* An ETxOutRecord of the one user the model follows: its search key is the
\* index-th output of the user's RNG under an egress key.
Rows == [egress: EgressKeys, index: Nat]

Invocation == [ingress_key: Keys, egress_key: EgressKeys, start_block: Nat,
               decommissioned: BOOLEAN]

IngestedBlock == [iid: Nat \ {NoInvocation}, ingress_key: Keys, block: Nat,
                  rows: SUBSET Rows]

NewRngEvent == [type: {"new_ingest_invocation"}, iid: Nat \ {NoInvocation}]

DecommissionEvent ==
    [type: {"decommission_ingest_invocation"}, iid: Nat \ {NoInvocation}]

MissingBlocksEvent == [type: {"missing_blocks"}, start: Nat, end: Nat]

UserEvent == NewRngEvent \cup DecommissionEvent \cup MissingBlocksEvent

ReportRow == [exists: BOOLEAN, ingress_key: Keys, pubkey_expiry: Nat]

DbTypeOK ==
    /\ ingress_keys \in [Keys -> KeyStatus]
    /\ ingest_invocations \in Seq(Invocation)
    /\ ingested_blocks \in SUBSET IngestedBlock
    /\ user_events \in Seq(UserEvent)
    /\ reports \in [ReportIds -> ReportRow]

DbInit ==
    /\ ingress_keys = [k \in Keys |-> [exists |-> FALSE, start_block |-> 0,
                         pubkey_expiry |-> 0, retired |-> FALSE,
                         lost |-> FALSE]]
    /\ ingest_invocations = << >>
    /\ ingested_blocks = {}
    /\ user_events = << >>
    /\ reports = [id \in ReportIds |->
                    [exists |-> FALSE, ingress_key |-> CHOOSE k \in Keys : TRUE,
                     pubkey_expiry |-> 0]]

-----------------------------------------------------------------------------
(* Queries. *)

MaxOr(S, default) ==
    IF S = {} THEN default ELSE CHOOSE x \in S : \A y \in S : y <= x

Scanned(k) == {r.block : r \in {x \in ingested_blocks : x.ingress_key = k}}

get_last_scanned_block_index(k) == MaxOr(Scanned(k), NoBlock)

get_highest_known_block_index == MaxOr({r.block : r \in ingested_blocks}, NoBlock)

\* The blocks that an invocation published.
IngestedBy(iid) == {r.block : r \in {x \in ingested_blocks : x.iid = iid}}

\* An IngestableRange for every invocation, by its id.
get_ingestable_ranges ==
    [iid \in DOMAIN ingest_invocations |->
        [start_block |-> ingest_invocations[iid].start_block,
         decommissioned |-> ingest_invocations[iid].decommissioned,
         last_ingested_block |-> MaxOr(IngestedBy(iid), NoBlock)]]

\* A mistake in can_provide_block: the last ingested block is left out.
can_provide_block_Exclusive(range, block) ==
    /\ range.start_block <= block
    /\ range.decommissioned => block < range.last_ingested_block

can_provide_block(range, block) ==
    /\ range.start_block <= block
    /\ range.decommissioned => block <= range.last_ingested_block

\* A mistake in FogUserEvent: the last block is the last one scanned with the
\* invocation's ingress key.
FogUserEvent_LastOfKey(e) ==
    CASE e.type = "new_ingest_invocation" ->
           [type |-> e.type, iid |-> e.iid,
            pubkey |-> ingest_invocations[e.iid].egress_key,
            start_block |-> ingest_invocations[e.iid].start_block]
      [] e.type = "decommission_ingest_invocation" ->
           [type |-> e.type, iid |-> e.iid,
            last_ingested_block |->
              MaxOr(Scanned(ingest_invocations[e.iid].ingress_key), 0)]
      [] e.type = "missing_blocks" -> e

\* What search_user_events returns for a row of user_events, with what the
\* query joins to it.
FogUserEvent(e) ==
    CASE e.type = "new_ingest_invocation" ->
           [type |-> e.type, iid |-> e.iid,
            pubkey |-> ingest_invocations[e.iid].egress_key,
            start_block |-> ingest_invocations[e.iid].start_block]
      [] e.type = "decommission_ingest_invocation" ->
           [type |-> e.type, iid |-> e.iid,
            last_ingested_block |-> MaxOr(IngestedBy(e.iid), 0)]
      [] e.type = "missing_blocks" -> e

\* The MissingBlocks rows of user_events.
get_missed_block_ranges ==
    {user_events[i] : i \in {j \in DOMAIN user_events :
                                user_events[j].type = "missing_blocks"}}

-----------------------------------------------------------------------------
(* Ingress keys. *)

\* Returns true only when the row was inserted.
new_ingress_key(k, start) ==
    /\ ~ingress_keys[k].exists
    /\ ingress_keys' = [ingress_keys EXCEPT ![k] =
                          [exists |-> TRUE, start_block |-> start,
                           pubkey_expiry |-> 0, retired |-> FALSE,
                           lost |-> FALSE]]
    /\ UNCHANGED <<ingest_invocations, ingested_blocks, user_events, reports>>

\* An update that matches no row succeeds and changes nothing.
retire_ingress_key(k, set_retired) ==
    /\ ingress_keys' =
         IF ingress_keys[k].exists
         THEN [ingress_keys EXCEPT ![k].retired = set_retired]
         ELSE ingress_keys
    /\ UNCHANGED <<ingest_invocations, ingested_blocks, user_events, reports>>

\* A mistake in MissedRange: the first missed block is taken for scanned.
MissedRange_OffByOne(k) ==
    LET last == get_last_scanned_block_index(k)
        start == ingress_keys[k].start_block
    IN  [type |-> "missing_blocks",
         start |-> IF last + 1 >= start THEN last + 2 ELSE start + 1,
         end |-> ingress_keys[k].pubkey_expiry]

\* The range that report_lost_ingress_key registers, empty when start >= end.
MissedRange(k) ==
    LET last == get_last_scanned_block_index(k)
        start == ingress_keys[k].start_block
    IN  [type |-> "missing_blocks",
         start |-> IF last + 1 > start THEN last + 1 ELSE start,
         end |-> ingress_keys[k].pubkey_expiry]

\* The event insert violates UNIQUE(missing_blocks_start, missing_blocks_end)
\* when the same range is already registered: the transaction, with the
\* update of lost, is rolled back.
ReportLostCommits(k) ==
    /\ ingress_keys[k].exists
    /\ \/ MissedRange(k).start >= MissedRange(k).end
       \/ MissedRange(k) \notin get_missed_block_ranges

report_lost_ingress_key(k) ==
    /\ ReportLostCommits(k)
    /\ ingress_keys' = [ingress_keys EXCEPT ![k].lost = TRUE]
    /\ user_events' = IF MissedRange(k).start < MissedRange(k).end
                      THEN Append(user_events, MissedRange(k))
                      ELSE user_events
    /\ UNCHANGED <<ingest_invocations, ingested_blocks, reports>>

-----------------------------------------------------------------------------
(* Ingest invocations. *)

Decommissioned(iid) ==
    \E i \in DOMAIN user_events :
        user_events[i] = [type |-> "decommission_ingest_invocation",
                          iid |-> iid]

\* decommission_ingest_invocation_impl: a second decommission of an invocation
\* violates UNIQUE(decommission_ingest_invocation_id).
decommission_ingest_invocation(iid) ==
    /\ iid \in DOMAIN ingest_invocations
    /\ ~Decommissioned(iid)
    /\ ingest_invocations' =
         [ingest_invocations EXCEPT ![iid].decommissioned = TRUE]
    /\ user_events' = Append(user_events,
                             [type |-> "decommission_ingest_invocation",
                              iid |-> iid])
    /\ UNCHANGED <<ingress_keys, ingested_blocks, reports>>

\* A mistake in NewInvocation: it starts where the ingress key does.
NewInvocation_StartOfKey(k, egress, start) ==
    [ingress_key |-> k, egress_key |-> egress,
     start_block |-> ingress_keys[k].start_block, decommissioned |-> FALSE]

NewInvocation(k, egress, start) ==
    [ingress_key |-> k, egress_key |-> egress, start_block |-> start,
     decommissioned |-> FALSE]

\* The constraints on an inserted invocation: its ingress key is a row of
\* ingress_keys, its egress key is new.
InvocationInsertable(k, egress) ==
    /\ ingress_keys[k].exists
    /\ \A i \in DOMAIN ingest_invocations :
          ingest_invocations[i].egress_key # egress

\* The id new_ingest_invocation returns.
NextInvocationId == Len(ingest_invocations) + 1

\* With prev = NoInvocation nothing is decommissioned.
new_ingest_invocation(prev, k, egress, start) ==
    /\ InvocationInsertable(k, egress)
    /\ prev # NoInvocation =>
         prev \in DOMAIN ingest_invocations /\ ~Decommissioned(prev)
    /\ LET retired ==
             IF prev = NoInvocation THEN ingest_invocations
             ELSE [ingest_invocations EXCEPT ![prev].decommissioned = TRUE]
           announced == [type |-> "new_ingest_invocation",
                         iid |-> NextInvocationId]
           closed == [type |-> "decommission_ingest_invocation", iid |-> prev]
       IN  /\ ingest_invocations' =
                Append(retired, NewInvocation(k, egress, start))
           /\ user_events' =
                IF prev = NoInvocation THEN Append(user_events, announced)
                ELSE Append(Append(user_events, closed), announced)
    /\ UNCHANGED <<ingress_keys, ingested_blocks, reports>>

-----------------------------------------------------------------------------
(* Block data. *)

\* block_already_scanned_with_this_key: either UNIQUE constraint of
\* ingested_blocks would be violated.
AlreadyScanned(iid, b) ==
    \E r \in ingested_blocks :
        /\ r.block = b
        /\ \/ r.iid = iid
           \/ r.ingress_key = ingest_invocations[iid].ingress_key

add_block_data(iid, b, rows) ==
    /\ iid \in DOMAIN ingest_invocations
    /\ ~AlreadyScanned(iid, b)
    /\ ingested_blocks' = ingested_blocks \cup
         {[iid |-> iid, ingress_key |-> ingest_invocations[iid].ingress_key,
           block |-> b, rows |-> rows]}
    /\ UNCHANGED <<ingress_keys, ingest_invocations, user_events, reports>>

-----------------------------------------------------------------------------
(* Reports. *)

\* A mistake in set_report: the report of a retired key is published too.
set_report_Retired(k, id, expiry) ==
    /\ ingress_keys[k].exists
    /\ ingress_keys' =
         IF ~ingress_keys[k].retired /\ ingress_keys[k].pubkey_expiry < expiry
         THEN [ingress_keys EXCEPT ![k].pubkey_expiry = expiry]
         ELSE ingress_keys
    /\ reports' = [reports EXCEPT ![id] = [exists |-> TRUE, ingress_key |-> k,
                                           pubkey_expiry |-> expiry]]
    /\ UNCHANGED <<ingest_invocations, ingested_blocks, user_events>>

\* A mistake in set_report: the last expiry wins, not the largest.
set_report_LastWins(k, id, expiry) ==
    /\ ingress_keys[k].exists
    /\ ingress_keys' =
         IF ingress_keys[k].retired THEN ingress_keys
         ELSE [ingress_keys EXCEPT ![k].pubkey_expiry = expiry]
    /\ reports' = IF ingress_keys[k].retired THEN reports
                  ELSE [reports EXCEPT ![id] =
                          [exists |-> TRUE, ingress_key |-> k,
                           pubkey_expiry |-> expiry]]
    /\ UNCHANGED <<ingest_invocations, ingested_blocks, user_events>>

\* Raises the key's pubkey_expiry unless it is retired, and replaces the
\* report unless the key is retired.  The status returned is
\* ingress_keys'[k].
set_report(k, id, expiry) ==
    /\ ingress_keys[k].exists
    /\ ingress_keys' =
         IF ~ingress_keys[k].retired /\ ingress_keys[k].pubkey_expiry < expiry
         THEN [ingress_keys EXCEPT ![k].pubkey_expiry = expiry]
         ELSE ingress_keys
    /\ reports' = IF ingress_keys[k].retired THEN reports
                  ELSE [reports EXCEPT ![id] =
                          [exists |-> TRUE, ingress_key |-> k,
                           pubkey_expiry |-> expiry]]
    /\ UNCHANGED <<ingest_invocations, ingested_blocks, user_events>>

-----------------------------------------------------------------------------
(* Facts about the tables that the components built on them rely on. *)

\* Every report the report server hands out bounds the tombstone block by at
\* most the pubkey_expiry recorded for its key ("the largest pubkey expiry
\* value that we have ever published for this key").
ReportsWithinExpiry ==
    \A id \in ReportIds :
        reports[id].exists =>
            /\ ingress_keys[reports[id].ingress_key].exists
            /\ reports[id].pubkey_expiry
                 <= ingress_keys[reports[id].ingress_key].pubkey_expiry

\* A client starts each search_user_events from the last id it was given and
\* never reads an event again, so what it was told must stay true, the last
\* block of a decommissioned invocation included, which the query computes
\* from the blocks published when it runs.
AnswersStand ==
    \A i \in DOMAIN user_events :
        FogUserEvent(user_events[i])' = FogUserEvent(user_events[i])

\* "Is, or will this IngestableRange be able to provide data": an invocation
\* said unable to provide a block has no data for it, and no step adds any.
RangeAnswersStand ==
    \A r \in ingested_blocks' :
        can_provide_block(get_ingestable_ranges[r.iid], r.block)

\* An invocation's range has no holes: it published every block from its
\* start block to its last ingested block.
RangesHaveNoHoles ==
    \A iid \in DOMAIN ingest_invocations :
        LET range == get_ingestable_ranges[iid]
        IN  range.start_block..range.last_ingested_block \subseteq IngestedBy(iid)

\* No step takes back what a table says: a registered key keeps its start
\* block, an invocation its key, and a published block stays published.
DbGrows ==
    /\ \A k \in Keys :
         ingress_keys[k].exists =>
             /\ ingress_keys'[k].exists
             /\ ingress_keys'[k].start_block = ingress_keys[k].start_block
    /\ \A i \in DOMAIN ingest_invocations :
         /\ i \in DOMAIN ingest_invocations'
         /\ ingest_invocations'[i].ingress_key = ingest_invocations[i].ingress_key
    /\ ingested_blocks \subseteq ingested_blocks'

=============================================================================

------------------------- MODULE IngestScansProofs --------------------------
(***************************************************************************)
(* The ingest servers implement KeyScans, for every number of servers,     *)
(* keys and blocks, and the blocks of a lost key are accounted for.        *)
(***************************************************************************)
EXTENDS IngestControllerProofs, IngestScans

-----------------------------------------------------------------------------
(* Lost keys. *)

HeldBy(k, s) ==
    \/ state_file[s].key = k
    \/ srv[s].up /\ srv[s].key = k
    \/ setter[s].key = k

LostInv ==
    /\ LostBlocksAccounted
    /\ \A k \in Keys : ingress_keys[k].lost =>
         ingress_keys[k].exists /\ \A s \in Servers : ~HeldBy(k, s)

\* Blocks that a server is at are blocks of the ledger, or the next one.
HeightInv ==
    /\ Len(ledger) <= MaxBlocks
    /\ \A k \in Keys : ingress_keys[k].start_block <= Len(ledger)
    /\ \A s \in Servers : /\ srv[s].next <= Len(ledger)
                          /\ state_file[s].next <= Len(ledger)
                          /\ admin[s].start <= Len(ledger)

\* How a worker step changes the server's block, its key and its file.
LEMMA WorkerPlace ==
    ASSUME TypeInv, NEW s \in Servers, WorkerStep(s)
    PROVE  /\ srv[s].up /\ srv'[s].up /\ srv'[s].key = srv[s].key
           /\ \/ srv'[s].next = srv[s].next
              \/ worker[s].pc = "won" /\ srv'[s].next = srv[s].next + 1
           /\ UNCHANGED <<admin, setter>>
           /\ \/ state_file' = state_file
              \/ /\ state_file'[s].key = srv[s].key
                 /\ state_file'[s].next = srv[s].next
<1>1. /\ srv \in [Servers -> Server] /\ state_file \in [Servers -> StateFile]
  BY DEF TypeInv, TypeOK
<1>2. srv[s].up /\ UNCHANGED <<admin, setter>>
  BY Zenon DEF WorkerStep, BeginBlock, PublishReport, EnsureInvocation,
     IngestChunk, IngestChunkOverflow, IngestChunkTooBig, RotateInvocation,
     AddBlockData, AdvanceNextBlock, BackOff, NewEgressKey, WriteStateFile
<1>3. CASE BeginBlock(s) \/ AddBlockData(s)
  BY <1>2, <1>3, Zenon DEF BeginBlock, AddBlockData
<1>4. CASE PublishReport(s)
  <2>1. srv' = [srv EXCEPT ![s].lock = "worker"] /\ state_file' = state_file
    BY <1>4, Zenon DEF PublishReport
  <2>2. QED
    BY <1>1, <1>2, <2>1, Zenon DEF Server
<1>5. CASE EnsureInvocation(s)
  <2>1. /\ \/ srv' = [srv EXCEPT ![s].iid = NextInvocationId, ![s].lock = "free"]
           \/ srv' = [srv EXCEPT ![s].lock = "free"]
        /\ state_file' = state_file
    BY <1>5, Zenon DEF EnsureInvocation
  <2>2. srv'[s].up = srv[s].up /\ srv'[s].key = srv[s].key /\ srv'[s].next = srv[s].next
    BY <1>1, <2>1, ZenonT(30) DEF Server
  <2>3. QED
    BY <1>1, <1>2, <2>1, <2>2, Zenon
<1>6. CASE IngestChunk(s)
  <2>1. srv' = [srv EXCEPT ![s].rng = @ + Owned(s)] /\ state_file' = state_file
    BY <1>6, Zenon DEF IngestChunk
  <2>2. QED
    BY <1>1, <1>2, <2>1, Zenon DEF Server
<1>7. CASE IngestChunkOverflow(s) \/ IngestChunkTooBig(s)
  <2>1. /\ \E n : srv' = [srv EXCEPT ![s].egress = @ + 1, ![s].rng = n]
        /\ state_file' = state_file
    BY <1>7, Zenon DEF IngestChunkOverflow, IngestChunkTooBig
  <2>2. QED
    BY <1>1, <1>2, <2>1, Zenon DEF Server
<1>8. CASE RotateInvocation(s)
  <2>1. /\ srv' = [srv EXCEPT ![s].iid = NextInvocationId] \/ srv' = srv
        /\ state_file' = state_file
    BY <1>8, Zenon DEF RotateInvocation
  <2>2. QED
    BY <1>1, <1>2, <2>1, Zenon DEF Server
<1>9. CASE AdvanceNextBlock(s)
  <2>1. /\ srv' = [srv EXCEPT ![s].next = @ + 1] /\ state_file' = state_file
        /\ worker[s].pc = "won"
    BY <1>9, Zenon DEF AdvanceNextBlock
  <2>2. QED
    BY <1>1, <1>2, <2>1, Zenon DEF Server
<1>10. CASE BackOff(s)
  <2>1. /\ srv' = [srv EXCEPT ![s].mode = "idle", ![s].iid = NoInvocation,
                              ![s].lock = "worker"]
        /\ state_file' = state_file
    BY <1>10, Zenon DEF BackOff
  <2>2. QED
    BY <1>1, <1>2, <2>1, Zenon DEF Server
<1>11. CASE NewEgressKey(s)
  <2>1. /\ srv' = [srv EXCEPT ![s].egress = @ + 1, ![s].rng = 0, ![s].lock = "free"]
        /\ state_file'[s] = Summary(srv'[s])
    BY <1>1, <1>11, Zenon DEF NewEgressKey
  <2>2. srv'[s].up = srv[s].up /\ srv'[s].key = srv[s].key /\ srv'[s].next = srv[s].next
    BY <1>1, <2>1, Zenon DEF Server
  <2>3. state_file'[s].key = srv'[s].key /\ state_file'[s].next = srv'[s].next
    BY <2>1 DEF Summary
  <2>4. QED
    BY <1>2, <2>2, <2>3
<1>12. CASE WriteStateFile(s)
  <2>1. srv' = srv /\ state_file'[s] = Summary(srv[s])
    BY <1>1, <1>12, Zenon DEF WriteStateFile
  <2>2. QED
    BY <1>2, <2>1 DEF Summary
<1>13. QED
  BY <1>3, <1>4, <1>5, <1>6, <1>7, <1>8, <1>9, <1>10, <1>11, <1>12, Zenon
     DEF WorkerStep

\* How a call does.
LEMMA AdminPlace ==
    ASSUME TypeInv, NEW s \in Servers, AdminStep(s)
    PROVE  /\ srv[s].up /\ srv'[s].up
           /\ \/ srv'[s].key = srv[s].key
              \/ srv'[s].key = setter[s].key
              \/ ~ingress_keys[srv'[s].key].exists
           /\ srv'[s].next = srv[s].next \/ srv'[s].next = admin[s].start
           /\ \/ setter'[s].key = setter[s].key
              \/ setter'[s].key = NoKey
              \/ \E t \in Servers : srv[t].up /\ setter'[s].key = srv[t].key
           /\ \/ state_file' = state_file
              \/ /\ state_file'[s].key = srv'[s].key
                 /\ state_file'[s].next = srv[s].next
           /\ \/ admin'[s].start = admin[s].start
              \/ admin'[s].start = 0
              \/ admin'[s].start = Len(ledger)
              \/ ActivateLookup(s)
<1>1. /\ srv \in [Servers -> Server] /\ state_file \in [Servers -> StateFile]
      /\ admin \in [Servers -> Admin] /\ setter \in [Servers -> Setter]
  BY DEF TypeInv, TypeOK
<1>2. srv[s].up
  BY Zenon DEF AdminStep, ActivateBegin, ActivateLookup, ActivateRegister,
     ActivatePublish, ActivateFail, ActivateWrite, NewKeys, SetKeyCheck,
     SetKeyApply, SetKeyWrite, Retire, SetPubkeyExpiryWindow
<1>3. CASE ActivateBegin(s)
  <2>1. /\ srv' = [srv EXCEPT ![s].lock = "admin"]
        /\ admin'[s] = [pc |-> "lookup", key |-> srv[s].key, start |-> Len(ledger)]
        /\ UNCHANGED <<setter, state_file>>
    BY <1>1, <1>3, Zenon DEF ActivateBegin
  <2>2. srv'[s].up = srv[s].up /\ srv'[s].key = srv[s].key /\ srv'[s].next = srv[s].next
    BY <1>1, <2>1, Zenon DEF Server
  <2>3. QED
    BY <1>2, <2>1, <2>2
<1>4. CASE ActivateLookup(s)
  BY <1>2, <1>4, Zenon DEF ActivateLookup
<1>5. CASE ActivateRegister(s)
  <2>1. /\ admin' = [admin EXCEPT ![s].pc = "publish"]
        /\ UNCHANGED <<srv, setter, state_file>>
    BY <1>5, Zenon DEF ActivateRegister
  <2>2. admin'[s].start = admin[s].start
    BY <1>1, <2>1, Zenon DEF Admin
  <2>3. QED
    BY <1>2, <2>1, <2>2
<1>6. CASE ActivatePublish(s)
  <2>1. /\ \E pc : admin'[s] = [NoAdmin(srv[s].key) EXCEPT !.pc = pc]
        /\ UNCHANGED <<setter, state_file>>
    BY <1>1, <1>6, Zenon DEF ActivatePublish
  <2>2. /\ srv'[s].up = srv[s].up /\ srv'[s].key = srv[s].key
        /\ srv'[s].next = admin[s].start
    <3>1. PICK l, m : srv' = [srv EXCEPT ![s].next = admin[s].start,
                                         ![s].lock = l, ![s].mode = m]
      BY <1>6, Zenon DEF ActivatePublish
    <3>2. QED
      BY <1>1, <3>1, Zenon DEF Server
  <2>3. admin'[s].start = 0
    BY <2>1 DEF NoAdmin
  <2>4. QED
    BY <1>2, <2>1, <2>2, <2>3
<1>7. CASE ActivateFail(s)
  <2>1. /\ admin'[s] = NoAdmin(srv[s].key)
        /\ UNCHANGED <<setter, state_file>>
    BY <1>1, <1>7, Zenon DEF ActivateFail
  <2>2. /\ srv'[s].up = srv[s].up /\ srv'[s].key = srv[s].key
        /\ srv'[s].next = srv[s].next \/ srv'[s].next = admin[s].start
    <3>1. srv'[s].up = srv[s].up /\ srv'[s].key = srv[s].key
      BY <1>1, <1>7, ZenonT(30) DEF ActivateFail, Server
    <3>2. srv'[s].next = IF admin[s].pc = "publish" THEN admin[s].start
                         ELSE srv[s].next
      BY <1>1, <1>7, ZenonT(30) DEF ActivateFail, Server
    <3>3. QED
      BY <3>1, <3>2
  <2>3. admin'[s].start = 0
    BY <2>1 DEF NoAdmin
  <2>4. QED
    BY <1>2, <2>1, <2>2, <2>3
<1>8. CASE ActivateWrite(s)
  <2>1. /\ admin'[s] = NoAdmin(srv[s].key) /\ state_file'[s] = Summary(srv[s])
        /\ UNCHANGED <<srv, setter>>
    BY <1>1, <1>8, Zenon DEF ActivateWrite
  <2>2. QED
    BY <1>2, <2>1 DEF NoAdmin, Summary
<1>9. CASE NewKeys(s)
  <2>1. PICK k \in Keys :
          /\ ~ingress_keys[k].exists
          /\ srv' = [srv EXCEPT ![s].key = k, ![s].egress = @ + 1, ![s].rng = 0,
                                ![s].lock = "new_keys"]
    BY <1>9, Zenon DEF NewKeys, Fresh
  <2>2. state_file'[s] = Summary(srv'[s]) /\ UNCHANGED <<admin, setter>>
    BY <1>1, <1>9, Zenon DEF NewKeys
  <2>3. srv'[s].up = srv[s].up /\ srv'[s].key = k /\ srv'[s].next = srv[s].next
    BY <1>1, <2>1, ZenonT(60) DEF Server
  <2>4. state_file'[s].key = srv'[s].key /\ state_file'[s].next = srv'[s].next
    BY <2>2 DEF Summary
  <2>5. QED
    BY <1>2, <2>1, <2>2, <2>3, <2>4, Zenon
<1>10. CASE SetKeyCheck(s)
  <2>1. /\ UNCHANGED <<srv, admin, state_file>>
        /\ \E t \in Servers :
             srv[t].up /\ setter'[s] = [pc |-> "apply", key |-> srv[t].key]
    BY <1>1, <1>10, Zenon DEF SetKeyCheck
  <2>2. \E t \in Servers : srv[t].up /\ setter'[s].key = srv[t].key
    BY <2>1
  <2>3. QED
    BY <1>2, <2>1, <2>2
<1>11. CASE SetKeyApply(s)
  <2>1. /\ srv' = [srv EXCEPT ![s].key = setter[s].key]
        /\ setter' = [setter EXCEPT ![s].pc = "write"]
        /\ UNCHANGED <<admin, state_file>>
    BY <1>11, Zenon DEF SetKeyApply
  <2>2. /\ srv'[s].up = srv[s].up /\ srv'[s].key = setter[s].key
        /\ srv'[s].next = srv[s].next
    BY <1>1, <2>1, Zenon DEF Server
  <2>3. setter'[s].key = setter[s].key
    BY <1>1, <2>1, Zenon DEF Setter
  <2>4. QED
    BY <1>2, <2>1, <2>2, <2>3
<1>12. CASE SetKeyWrite(s)
  <2>1. /\ state_file'[s] = Summary(srv[s]) /\ setter'[s] = NoSetter
        /\ UNCHANGED <<srv, admin>>
    BY <1>1, <1>12, Zenon DEF SetKeyWrite
  <2>2. QED
    BY <1>2, <2>1 DEF Summary, NoSetter
<1>13. CASE Retire(s, TRUE) \/ Retire(s, FALSE)
  BY <1>2, <1>13, Zenon DEF Retire
<1>14. ASSUME NEW w \in Windows, SetPubkeyExpiryWindow(s, w)
       PROVE  /\ srv'[s].up = srv[s].up /\ srv'[s].key = srv[s].key
              /\ srv'[s].next = srv[s].next
              /\ UNCHANGED <<setter, state_file, admin>>
  <2>1. /\ srv' = [srv EXCEPT ![s].window = w]
        /\ UNCHANGED <<setter, state_file, admin>>
    BY <1>14, Zenon DEF SetPubkeyExpiryWindow
  <2>2. QED
    BY <1>1, <2>1, Zenon DEF Server
<1>15. QED
  BY <1>2, <1>3, <1>4, <1>5, <1>6, <1>7, <1>8, <1>9, <1>10, <1>11, <1>12, <1>13,
     <1>14, Zenon DEF AdminStep

\* How a crash, a restart and the removal of the file do.
LEMMA FaultPlace ==
    ASSUME TypeInv, NEW s \in Servers, FaultStep(s)
    PROVE  /\ srv'[s].up => \/ srv'[s].key = state_file[s].key
                            \/ ~ingress_keys[srv'[s].key].exists
           /\ srv'[s].next \in {srv[s].next, state_file[s].next, 0}
           /\ setter'[s].key \in {setter[s].key, NoKey}
           /\ \/ state_file'[s].key = state_file[s].key
              \/ state_file'[s].key = NoKey
              \/ ~ingress_keys[state_file'[s].key].exists
           /\ state_file'[s].next \in {state_file[s].next, 0}
           /\ admin'[s].start \in {admin[s].start, 0}
<1>1. /\ srv \in [Servers -> Server] /\ state_file \in [Servers -> StateFile]
      /\ admin \in [Servers -> Admin] /\ setter \in [Servers -> Setter]
  BY DEF TypeInv, TypeOK
<1>2. CASE Crash(s)
  <2>1. /\ srv' = [srv EXCEPT ![s].up = FALSE, ![s].lock = "free",
                              ![s].mode = "idle", ![s].iid = NoInvocation]
        /\ admin'[s] = NoAdmin(srv[s].key) /\ setter'[s] = NoSetter
        /\ \/ state_file' = state_file
           \/ state_file' = [state_file EXCEPT ![s].readable = FALSE,
                                               ![s].key = NoKey]
    BY <1>1, <1>2, Zenon DEF Crash
  <2>2. ~srv'[s].up /\ srv'[s].next = srv[s].next
    BY <1>1, <2>1 DEF Server
  <2>3. /\ state_file'[s].key \in {state_file[s].key, NoKey}
        /\ state_file'[s].next = state_file[s].next
    BY <1>1, <2>1, ZenonT(60) DEF StateFile
  <2>4. admin'[s].start = 0 /\ setter'[s].key = NoKey
    BY <2>1 DEF NoAdmin, NoSetter
  <2>5. QED
    BY <2>2, <2>3, <2>4
<1>3. CASE Restart(s)
  <2>1. state_file'[s] = Summary(srv'[s]) /\ UNCHANGED <<admin, setter>>
    BY <1>1, <1>3, Zenon DEF Restart
  <2>2. srv'[s].next = state_file[s].next /\ srv'[s].key = state_file[s].key
    BY <1>1, <1>3, SMTT(30) DEF Restart, Server
  <2>3. state_file'[s].key = srv'[s].key /\ state_file'[s].next = srv'[s].next
    BY <2>1 DEF Summary
  <2>4. QED
    BY <2>1, <2>2, <2>3
<1>4. CASE RemoveStateFile(s)
  <2>1. /\ \E w : state_file'[s] =
               [present |-> FALSE, readable |-> FALSE, mode |-> "idle",
                next |-> 0, window |-> w, key |-> NoKey]
        /\ UNCHANGED <<srv, admin, setter>> /\ ~srv[s].up
    BY <1>1, <1>4, Zenon DEF RemoveStateFile
  <2>2. state_file'[s].next = 0 /\ state_file'[s].key = NoKey
    BY <2>1, SMTT(30)
  <2>3. QED
    BY <2>1, <2>2
<1>5. CASE StartFresh(s)
  <2>1. PICK k \in Keys :
          /\ ~ingress_keys[k].exists
          /\ srv' = [srv EXCEPT ![s].up = TRUE, ![s].mode = "idle",
                                ![s].next = 0, ![s].key = k,
                                ![s].egress = @ + 1, ![s].rng = 0]
    BY <1>5, Zenon DEF StartFresh, Fresh
  <2>2. state_file'[s] = Summary(srv'[s]) /\ UNCHANGED <<admin, setter>>
    BY <1>1, <1>5, Zenon DEF StartFresh
  <2>3. srv'[s].next = 0 /\ srv'[s].key = k
    BY <1>1, <2>1, ZenonT(60) DEF Server
  <2>4. QED
    BY <2>1, <2>2, <2>3 DEF Summary
<1>6. QED
  BY <1>2, <1>3, <1>4, <1>5 DEF FaultStep

\* Opening or closing an invocation registers no missed blocks.
LEMMA MissedSame ==
    ASSUME TablesGrow,
           \A i \in DOMAIN user_events' :
               \/ i \in DOMAIN user_events
               \/ user_events'[i].type # "missing_blocks"
    PROVE  get_missed_block_ranges' = get_missed_block_ranges
  BY DEF TablesGrow, get_missed_block_ranges

\* Opening and closing invocations changes no answer of get_missed_block_ranges.
LEMMA InvocationCallsMissNothing ==
    ASSUME TypeInv, NEW s \in Servers,
           EnsureInvocation(s) \/ RotateInvocation(s) \/ BackOff(s)
    PROVE  /\ UNCHANGED <<ingress_keys, ingested_blocks>>
           /\ get_missed_block_ranges' = get_missed_block_ranges
<1>1. /\ DbTypeOK /\ srv[s].iid \in Nat /\ worker[s].iid \in Nat
      /\ worker[s].key \in Keys /\ worker[s].block \in Nat
      /\ worker[s].egress \in Nat /\ srv[s].egress \in Nat /\ s \in Enclaves
  BY TypeParts, FieldTypes, Zenon DEF SharedOK
<1>2. CASE UNCHANGED db_vars
  BY <1>2 DEF db_vars, get_missed_block_ranges
<1>3. ASSUME NEW prev \in Nat, NEW k \in Keys, NEW egress \in EgressKeys,
             NEW start \in Nat, new_ingest_invocation(prev, k, egress, start)
      PROVE  /\ UNCHANGED <<ingress_keys, ingested_blocks>>
             /\ get_missed_block_ranges' = get_missed_block_ranges
  <2>1. /\ TablesGrow /\ UNCHANGED <<ingress_keys, ingested_blocks>>
        /\ \A i \in DOMAIN user_events' :
             \/ i \in DOMAIN user_events
             \/ user_events'[i] = [type |-> "new_ingest_invocation",
                                   iid |-> NextInvocationId]
             \/ user_events'[i] =
                  [type |-> "decommission_ingest_invocation", iid |-> prev]
    BY <1>1, <1>3, NewInvocationCall
  <2>2. \A i \in DOMAIN user_events' :
          \/ i \in DOMAIN user_events
          \/ user_events'[i].type # "missing_blocks"
    BY <2>1
  <2>3. QED
    BY <2>1, <2>2, MissedSame
<1>4. ASSUME NEW iid \in Nat, decommission_ingest_invocation(iid)
      PROVE  /\ UNCHANGED <<ingress_keys, ingested_blocks>>
             /\ get_missed_block_ranges' = get_missed_block_ranges
  <2>1. /\ TablesGrow /\ UNCHANGED <<ingress_keys, ingested_blocks>>
        /\ \A i \in DOMAIN user_events' :
             \/ i \in DOMAIN user_events
             \/ user_events'[i] =
                  [type |-> "decommission_ingest_invocation", iid |-> iid]
    BY <1>1, <1>4, DecommissionCall
  <2>2. \A i \in DOMAIN user_events' :
          \/ i \in DOMAIN user_events
          \/ user_events'[i].type # "missing_blocks"
    BY <2>1
  <2>3. QED
    BY <2>1, <2>2, MissedSame
<1>5. /\ NoInvocation \in Nat /\ EgressOf(s) \in EgressKeys
      /\ <<s, worker[s].egress>> \in EgressKeys
  BY <1>1 DEF NoInvocation, EgressKeys, EgressOf
<1>6. \/ UNCHANGED db_vars
      \/ new_ingest_invocation(NoInvocation, worker[s].key,
           <<s, worker[s].egress>>, worker[s].block)
      \/ new_ingest_invocation(worker[s].iid, worker[s].key, EgressOf(s),
           worker[s].block)
      \/ decommission_ingest_invocation(srv[s].iid)
  BY Zenon DEF EnsureInvocation, RotateInvocation, BackOff, DecommissionInvocation
<1>7. QED
  BY <1>1, <1>2, <1>3, <1>4, <1>5, <1>6, Zenon

\* The calls that write what the tables say of ingress keys, their blocks and
\* the missed blocks.  All but report_lost_ingress_key are about the key of a
\* running server.
KeyCall(s, k) ==
    \/ \E id \in ReportIds, b \in {srv[s].next, admin[s].start} :
         set_report(k, id, b + srv[s].window)
    \/ new_ingress_key(k, admin[s].start)
    \/ \E b \in BOOLEAN : retire_ingress_key(k, b)
    \/ \E iid \in Nat, rows \in SUBSET Rows :
         /\ add_block_data(iid, srv[s].next, rows)
         /\ ingest_invocations[iid].ingress_key = k
         /\ Covered(k, srv[s].next) /\ srv[s].next < Len(ledger)

\* What a step may do to the keys, the blocks and the ledger: nothing that counts,
\* a call about a key that the calling server holds, or the report of a lost key
\* that no server holds.
LEMMA TableSteps ==
    ASSUME TypeInv, ScanInv, [Next]_vars
    PROVE  \/ /\ UNCHANGED <<ingress_keys, ingested_blocks>>
              /\ get_missed_block_ranges' = get_missed_block_ranges
              /\ ledger' = ledger \/ AppendBlock
           \/ /\ ledger' = ledger
              /\ \E s \in Servers, k \in Keys : HeldBy(k, s) /\ KeyCall(s, k)
           \/ /\ ledger' = ledger
              /\ \E k \in Keys : /\ report_lost_ingress_key(k)
                                 /\ \A s \in Servers : ~HeldBy(k, s)
<1>1. ASSUME UNCHANGED db_vars
      PROVE  /\ UNCHANGED <<ingress_keys, ingested_blocks>>
             /\ get_missed_block_ranges' = get_missed_block_ranges
  BY <1>1 DEF db_vars, get_missed_block_ranges
<1>2. ASSUME NEW s \in Servers, WorkerStep(s)
      PROVE  \/ /\ UNCHANGED <<ingress_keys, ingested_blocks>>
                /\ get_missed_block_ranges' = get_missed_block_ranges
             \/ \E k \in Keys : HeldBy(k, s) /\ KeyCall(s, k)
  <2>1. ServerOK(s) /\ ServerInv(s) /\ srv[s].up
    BY <1>2, TypeParts, WorkerPlace DEF ScanInv
  <2>2. /\ srv[s].key \in Keys /\ HeldBy(srv[s].key, s) /\ worker[s].iid \in Nat
        /\ worker[s].rows \in SUBSET Rows
    BY <2>1, FieldTypes, Zenon DEF HeldBy
  <2>3. InBlock(s) => /\ worker[s].key = srv[s].key /\ worker[s].block = srv[s].next
                      /\ Covered(srv[s].key, srv[s].next)
                      /\ srv[s].next < Len(ledger)
    BY <2>1 DEF ServerInv, ServerOK
  <2>4. CASE PublishReport(s)
    <3>1. worker[s].key = srv[s].key
      BY <2>3, <2>4 DEF PublishReport, InBlock, WorkerPCs
    <3>2. \/ UNCHANGED db_vars
          \/ \E id \in ReportIds :
               set_report(srv[s].key, id, srv[s].next + srv[s].window)
      BY <2>4, <3>1, Zenon DEF PublishReport
    <3>3. CASE \E id \in ReportIds :
                 set_report(srv[s].key, id, srv[s].next + srv[s].window)
      <4>1. KeyCall(s, srv[s].key)
        BY <3>3, Zenon DEF KeyCall
      <4>2. QED
        BY <2>2, <4>1, Zenon
    <3>4. QED
      BY <1>1, <3>2, <3>3
  <2>5. CASE AddBlockData(s)
    <3>1. /\ worker[s].pc = "ingest"
          /\ \/ UNCHANGED db_vars
             \/ add_block_data(worker[s].iid, worker[s].block, worker[s].rows)
      BY <2>5, Zenon DEF AddBlockData
    <3>2. /\ worker[s].key = srv[s].key /\ worker[s].block = srv[s].next
          /\ Covered(srv[s].key, srv[s].next) /\ srv[s].next < Len(ledger)
      BY <2>3, <3>1 DEF InBlock, WorkerPCs
    <3>3. ingest_invocations[worker[s].iid].ingress_key = srv[s].key
      BY <2>1, <3>1, <3>2 DEF ServerInv, InvocationOf
    <3>4. CASE add_block_data(worker[s].iid, worker[s].block, worker[s].rows)
      <4>1. KeyCall(s, srv[s].key)
        BY <2>2, <3>2, <3>3, <3>4, Zenon DEF KeyCall
      <4>2. QED
        BY <2>2, <4>1, Zenon
    <3>5. QED
      BY <1>1, <3>1, <3>4
  <2>6. CASE EnsureInvocation(s) \/ RotateInvocation(s) \/ BackOff(s)
    BY <2>6, InvocationCallsMissNothing
  <2>7. CASE \/ BeginBlock(s) \/ IngestChunk(s) \/ IngestChunkOverflow(s)
             \/ IngestChunkTooBig(s) \/ AdvanceNextBlock(s) \/ NewEgressKey(s)
             \/ WriteStateFile(s)
    BY <1>1, <2>7, Zenon DEF BeginBlock, IngestChunk, IngestChunkOverflow,
       IngestChunkTooBig, AdvanceNextBlock, NewEgressKey, WriteStateFile
  <2>8. QED
    BY <1>2, <2>4, <2>5, <2>6, <2>7, Zenon DEF WorkerStep
<1>3. ASSUME NEW s \in Servers, AdminStep(s)
      PROVE  \/ /\ UNCHANGED <<ingress_keys, ingested_blocks>>
                /\ get_missed_block_ranges' = get_missed_block_ranges
             \/ \E k \in Keys : HeldBy(k, s) /\ KeyCall(s, k)
  <2>1. ServerOK(s) /\ ServerInv(s) /\ srv[s].up
    BY <1>3, TypeParts, AdminPlace DEF ScanInv
  <2>2. srv[s].key \in Keys /\ HeldBy(srv[s].key, s)
    BY <2>1, FieldTypes, Zenon DEF HeldBy
  <2>3. CASE ActivatePublish(s) \/ ActivateRegister(s)
    <3>1. admin[s].key = srv[s].key
      BY <2>1, <2>3 DEF ServerInv, ActivatePublish, ActivateRegister
    <3>2. KeyCall(s, srv[s].key)
      BY <2>3, <3>1, Zenon DEF KeyCall, ActivatePublish, ActivateRegister
    <3>3. QED
      BY <2>2, <3>2, Zenon
  <2>4. CASE Retire(s, TRUE) \/ Retire(s, FALSE)
    <3>1. KeyCall(s, srv[s].key)
      BY <2>4, Zenon DEF KeyCall, Retire
    <3>2. QED
      BY <2>2, <3>1, Zenon
  <2>5. CASE \/ ActivateBegin(s) \/ ActivateLookup(s) \/ ActivateFail(s)
             \/ ActivateWrite(s) \/ NewKeys(s) \/ SetKeyCheck(s)
             \/ SetKeyApply(s) \/ SetKeyWrite(s)
             \/ \E w \in Windows : SetPubkeyExpiryWindow(s, w)
    BY <1>1, <2>5, Zenon DEF ActivateBegin, ActivateLookup, ActivateFail,
       ActivateWrite, NewKeys, SetKeyCheck, SetKeyApply, SetKeyWrite,
       SetPubkeyExpiryWindow
  <2>6. QED
    BY <1>3, <2>3, <2>4, <2>5, Zenon DEF AdminStep
<1>4. ASSUME NEW s \in Servers, FaultStep(s)
      PROVE  UNCHANGED db_vars
  BY <1>4, Zenon DEF FaultStep, Crash, Restart, RemoveStateFile, StartFresh
<1>5. ASSUME NEW s \in Servers, WorkerStep(s) \/ AdminStep(s) \/ FaultStep(s)
      PROVE  ledger' = ledger
  BY <1>5, ServerTypes, Zenon DEF Local
<1>6. ASSUME NEW k \in Keys, ReportLost(k)
      PROVE  /\ ledger' = ledger /\ report_lost_ingress_key(k)
             /\ \A s \in Servers : ~HeldBy(k, s)
  BY <1>6, Zenon DEF ReportLost, HeldBy, thread_vars
<1>7. CASE AppendBlock
  BY <1>1, <1>7, Zenon DEF AppendBlock
<1>8. CASE UNCHANGED vars
  BY <1>1, <1>8, Zenon DEF vars, thread_vars
<1>9. QED
  BY <1>1, <1>2, <1>3, <1>4, <1>5, <1>6, <1>7, <1>8, Zenon DEF Next

\* A call about a key leaves the other keys and the user events alone, and
\* makes no key lost.
LEMMA KeyCallRow ==
    ASSUME TypeInv, NEW s \in Servers, NEW k \in Keys, KeyCall(s, k)
    PROVE  /\ user_events' = user_events
           /\ \A j \in Keys : j # k => ingress_keys'[j] = ingress_keys[j]
           /\ ingress_keys'[k].lost => ingress_keys[k].lost
           /\ \/ ingress_keys'[k].start_block = ingress_keys[k].start_block
              \/ ingress_keys'[k].start_block = admin[s].start
           /\ ingested_blocks \subseteq ingested_blocks'
<1>1. /\ DbTypeOK /\ srv[s].next + srv[s].window \in Nat
      /\ admin[s].start + srv[s].window \in Nat
  BY TypeParts, FieldTypes DEF SharedOK
<1>2. ingress_keys \in [Keys -> KeyStatus]
  BY <1>1 DEF DbTypeOK
<1>3. ASSUME NEW id \in ReportIds, NEW b \in {srv[s].next, admin[s].start},
             set_report(k, id, b + srv[s].window)
      PROVE  /\ user_events' = user_events /\ ingested_blocks' = ingested_blocks
             /\ \A j \in Keys : j # k => ingress_keys'[j] = ingress_keys[j]
             /\ ingress_keys'[k].lost = ingress_keys[k].lost
             /\ ingress_keys'[k].start_block = ingress_keys[k].start_block
  <2>1. b + srv[s].window \in Nat
    BY <1>1
  <2>2. QED
    BY <1>1, <1>3, <2>1, SetReportCall DEF tables
<1>4. CASE new_ingress_key(k, admin[s].start)
  BY <1>2, <1>4 DEF new_ingress_key
<1>5. ASSUME NEW b \in BOOLEAN, retire_ingress_key(k, b)
      PROVE  /\ user_events' = user_events /\ ingested_blocks' = ingested_blocks
             /\ \A j \in Keys : j # k => ingress_keys'[j] = ingress_keys[j]
             /\ ingress_keys'[k].lost = ingress_keys[k].lost
             /\ ingress_keys'[k].start_block = ingress_keys[k].start_block
  <2>1. /\ user_events' = user_events /\ ingested_blocks' = ingested_blocks
        /\ \/ ingress_keys' = ingress_keys
           \/ ingress_keys' = [ingress_keys EXCEPT ![k].retired = b]
    BY <1>5 DEF retire_ingress_key
  <2>2. QED
    BY <1>2, <2>1, Zenon DEF KeyStatus
<1>6. ASSUME NEW iid, NEW n, NEW rows, add_block_data(iid, n, rows)
      PROVE  /\ user_events' = user_events /\ ingress_keys' = ingress_keys
             /\ ingested_blocks \subseteq ingested_blocks'
  BY <1>6 DEF add_block_data
<1>7. QED
  BY <1>3, <1>4, <1>5, <1>6 DEF KeyCall

\* A registered key that no server, file or transfer has comes back to none.
LEMMA KeyStaysLost ==
    ASSUME TypeInv, [Next]_vars, NEW k \in Keys, ingress_keys[k].exists,
           \A s \in Servers : ~HeldBy(k, s)
    PROVE  \A s \in Servers : ~HeldBy(k, s)'
<1>1. ASSUME NEW t \in Servers, srv'[t] = srv[t], setter'[t] = setter[t],
             state_file'[t] = state_file[t]
      PROVE  ~HeldBy(k, t)'
  BY <1>1, Zenon DEF HeldBy
<1>2. ASSUME NEW s \in Servers, WorkerStep(s) \/ AdminStep(s) \/ FaultStep(s)
      PROVE  \A t \in Servers : ~HeldBy(k, t)'
  <2>1. Local(s)
    BY <1>2, ServerTypes, Zenon
  <2>2. ASSUME NEW t \in Servers, t # s
        PROVE  ~HeldBy(k, t)'
    <3>1. /\ srv'[t] = srv[t] /\ setter'[t] = setter[t]
          /\ state_file'[t] = state_file[t]
      BY <2>1, <2>2 DEF Local, TypeInv, TypeOK
    <3>2. QED
      BY <1>1, <3>1
  <2>3. ~HeldBy(k, s)'
    <3>1. CASE WorkerStep(s)
      <4>1. /\ srv[s].up /\ srv'[s].key = srv[s].key /\ setter' = setter
            /\ state_file' = state_file \/ state_file'[s].key = srv[s].key
        BY <3>1, WorkerPlace, Zenon
      <4>2. QED
        BY <4>1, Zenon DEF HeldBy
    <3>2. CASE AdminStep(s)
      <4>1. /\ srv[s].up
            /\ \/ srv'[s].key = srv[s].key
               \/ srv'[s].key = setter[s].key
               \/ ~ingress_keys[srv'[s].key].exists
            /\ \/ setter'[s].key = setter[s].key
               \/ setter'[s].key = NoKey
               \/ \E t \in Servers : srv[t].up /\ setter'[s].key = srv[t].key
            /\ state_file' = state_file \/ state_file'[s].key = srv'[s].key
        BY <3>2, AdminPlace, Zenon
      <4>2. srv'[s].key # k
        BY <4>1, Zenon DEF HeldBy
      <4>3. setter'[s].key # k
        BY <4>1, NoKeyIsNoKey, Zenon DEF HeldBy
      <4>4. state_file'[s].key # k
        BY <4>1, <4>2, Zenon DEF HeldBy
      <4>5. QED
        BY <4>2, <4>3, <4>4, Zenon DEF HeldBy
    <3>3. CASE FaultStep(s)
      <4>1. /\ srv'[s].up => \/ srv'[s].key = state_file[s].key
                             \/ ~ingress_keys[srv'[s].key].exists
            /\ setter'[s].key = setter[s].key \/ setter'[s].key = NoKey
            /\ \/ state_file'[s].key = state_file[s].key
               \/ state_file'[s].key = NoKey
               \/ ~ingress_keys[state_file'[s].key].exists
        BY <3>3, FaultPlace
      <4>2. QED
        BY <4>1, NoKeyIsNoKey, Zenon DEF HeldBy
    <3>4. QED
      BY <1>2, <3>1, <3>2, <3>3
  <2>4. QED
    BY <2>2, <2>3, Zenon
<1>3. CASE (\E j \in Keys : ReportLost(j)) \/ AppendBlock \/ UNCHANGED vars
  <2>1. UNCHANGED <<srv, setter, state_file>>
    BY <1>3, Zenon DEF ReportLost, AppendBlock, vars, thread_vars
  <2>2. QED
    BY <1>1, <2>1, Zenon
<1>4. QED
  BY <1>2, <1>3, Zenon DEF Next

\* What report_lost_ingress_key registers is what is left of the key.
LEMMA MissedIsTheRest ==
    ASSUME TypeInv, ScanInv, NEW k \in Keys, ingress_keys[k].exists,
           NEW b \in ingress_keys[k].start_block..(ingress_keys[k].pubkey_expiry - 1)
    PROVE  \/ b \in Scanned(k)
           \/ MissedRange(k).start <= b /\ b < MissedRange(k).end
<1>1. /\ ingress_keys[k].start_block \in Nat /\ ingress_keys[k].pubkey_expiry \in Nat
  BY DEF TypeInv, TypeOK, DbTypeOK, KeyStatus
<1>2. MissedRange(k).end = ingress_keys[k].pubkey_expiry
  BY DEF MissedRange
<1>3. DbTypeOK /\ BlocksHaveMaxima
  BY DEF TypeInv, TypeOK
<1>4. ScansContiguous
  BY DEF ScanInv
<1>5. PICK last : last = get_last_scanned_block_index(k)
  OBVIOUS
<1>6. MissedRange(k).start = IF last + 1 > ingress_keys[k].start_block THEN last + 1
                             ELSE ingress_keys[k].start_block
  BY <1>5 DEF MissedRange
<1>7. CASE last = NoBlock
  BY <1>1, <1>2, <1>6, <1>7 DEF NoBlock
<1>8. CASE last \in Scanned(k)
  <2>1. /\ ingress_keys[k].start_block <= last
        /\ \A c \in ingress_keys[k].start_block..last : c \in Scanned(k)
    BY <1>4, <1>8 DEF ScansContiguous
  <2>2. last \in Nat
    BY <1>3, <1>8 DEF Scanned, DbTypeOK, IngestedBlock
  <2>3. QED
    BY <1>1, <1>2, <1>6, <2>1, <2>2, SMTT(30)
<1>9. QED
  BY <1>3, <1>5, <1>7, <1>8, LastScanned

\* report_lost_ingress_key marks the key and registers the rest of its blocks.
LEMMA ReportLostRow ==
    ASSUME TypeInv, NEW k \in Keys, report_lost_ingress_key(k)
    PROVE  /\ ingress_keys[k].exists /\ ingested_blocks' = ingested_blocks
           /\ ingress_keys' = [ingress_keys EXCEPT ![k].lost = TRUE]
           /\ \A j \in Keys :
                /\ ingress_keys'[j].exists = ingress_keys[j].exists
                /\ ingress_keys'[j].start_block = ingress_keys[j].start_block
                /\ ingress_keys'[j].pubkey_expiry = ingress_keys[j].pubkey_expiry
                /\ ingress_keys'[j].lost <=> ingress_keys[j].lost \/ j = k
           /\ get_missed_block_ranges' = get_missed_block_ranges \cup
                IF MissedRange(k).start < MissedRange(k).end THEN {MissedRange(k)}
                ELSE {}
<1>1. /\ ingress_keys \in [Keys -> KeyStatus] /\ user_events \in Seq(UserEvent)
  BY DEF TypeInv, TypeOK, DbTypeOK
<1>2. /\ ingress_keys[k].exists /\ ingested_blocks' = ingested_blocks
      /\ ingress_keys' = [ingress_keys EXCEPT ![k].lost = TRUE]
  BY DEF report_lost_ingress_key, ReportLostCommits
<1>3. \A j \in Keys :
        /\ ingress_keys'[j].exists = ingress_keys[j].exists
        /\ ingress_keys'[j].start_block = ingress_keys[j].start_block
        /\ ingress_keys'[j].pubkey_expiry = ingress_keys[j].pubkey_expiry
        /\ ingress_keys'[j].lost <=> ingress_keys[j].lost \/ j = k
  BY <1>1, <1>2, Zenon DEF KeyStatus
<1>4. PICK m : m = MissedRange(k)
  OBVIOUS
<1>5. m.type = "missing_blocks"
  BY <1>4 DEF MissedRange
<1>6. user_events' = IF m.start < m.end THEN Append(user_events, m) ELSE user_events
  BY <1>4 DEF report_lost_ingress_key
<1>7. CASE m.start < m.end
  <2>1. /\ DOMAIN user_events = 1..Len(user_events)
        /\ DOMAIN user_events' = 1..(Len(user_events) + 1)
        /\ user_events'[Len(user_events) + 1] = m
        /\ \A i \in 1..Len(user_events) : user_events'[i] = user_events[i]
        /\ Len(user_events) \in Nat
    BY <1>1, <1>6, <1>7
  <2>2. /\ \A i \in DOMAIN user_events :
             i \in DOMAIN user_events' /\ user_events'[i] = user_events[i]
        /\ \A i \in DOMAIN user_events' :
             i \in DOMAIN user_events \/ user_events'[i] = m
        /\ \E i \in DOMAIN user_events' : user_events'[i] = m
    BY <2>1
  <2>3. get_missed_block_ranges' = get_missed_block_ranges \cup {m}
    BY <1>5, <2>2 DEF get_missed_block_ranges
  <2>4. QED
    BY <1>2, <1>3, <1>4, <1>7, <2>3
<1>8. CASE ~(m.start < m.end)
  <2>1. get_missed_block_ranges' = get_missed_block_ranges
    BY <1>6, <1>8 DEF get_missed_block_ranges
  <2>2. QED
    BY <1>2, <1>3, <1>4, <1>8, <2>1, SMTT(30)
<1>9. QED
  BY <1>7, <1>8

\* The bounds of a missed range are block indices.
LEMMA MissedRangeTypes ==
    ASSUME TypeInv, NEW k \in Keys
    PROVE  MissedRange(k).start \in Nat /\ MissedRange(k).end \in Nat
<1>1. DbTypeOK /\ BlocksHaveMaxima
  BY DEF TypeInv, TypeOK
<1>2. get_last_scanned_block_index(k) + 1 \in Nat
  BY <1>1, LastScanned DEF NoBlock
<1>3. ingress_keys[k].start_block \in Nat /\ ingress_keys[k].pubkey_expiry \in Nat
  BY <1>1 DEF DbTypeOK, KeyStatus
<1>4. QED
  BY <1>2, <1>3 DEF MissedRange

\* A step that leaves a lost key's row alone leaves its blocks accounted for.
LEMMA AccountStays ==
    ASSUME LostInv, NEW k \in Keys, ingress_keys[k].lost,
           ingress_keys'[k].start_block = ingress_keys[k].start_block,
           ingress_keys'[k].pubkey_expiry = ingress_keys[k].pubkey_expiry,
           ingested_blocks \subseteq ingested_blocks',
           get_missed_block_ranges \subseteq get_missed_block_ranges'
    PROVE  \A b \in ingress_keys'[k].start_block..(ingress_keys'[k].pubkey_expiry - 1) :
             \/ b \in Scanned(k)'
             \/ \E m \in get_missed_block_ranges' : m.start <= b /\ b < m.end
<1>1. Scanned(k) \subseteq Scanned(k)'
  BY Zenon DEF Scanned
<1>2. \A b \in ingress_keys[k].start_block..(ingress_keys[k].pubkey_expiry - 1) :
        \/ b \in Scanned(k)
        \/ \E m \in get_missed_block_ranges : m.start <= b /\ b < m.end
  BY Zenon DEF LostInv, LostBlocksAccounted
<1>3. QED
  BY <1>1, <1>2, Zenon

\* No step breaks LostInv.
LEMMA LostStep ==
    ASSUME TypeInv, ScanInv, LostInv, [Next]_vars
    PROVE  LostInv'
<1> DEFINE Accounted(k) ==
      \A b \in ingress_keys[k].start_block..(ingress_keys[k].pubkey_expiry - 1) :
          \/ b \in Scanned(k)
          \/ \E m \in get_missed_block_ranges : m.start <= b /\ b < m.end
<1>1. SUFFICES ASSUME NEW k \in Keys, ingress_keys'[k].lost
               PROVE  /\ Accounted(k)' /\ ingress_keys'[k].exists
                      /\ \A s \in Servers : ~HeldBy(k, s)'
  BY Zenon DEF LostInv, LostBlocksAccounted
<1>2. ASSUME ingress_keys[k].lost
      PROVE  ingress_keys[k].exists /\ \A s \in Servers : ~HeldBy(k, s)
  BY <1>2 DEF LostInv
<1>3. ASSUME ingress_keys[k].exists, \A s \in Servers : ~HeldBy(k, s)
      PROVE  \A s \in Servers : ~HeldBy(k, s)'
  BY <1>3, KeyStaysLost
<1>4. CASE /\ UNCHANGED <<ingress_keys, ingested_blocks>>
           /\ get_missed_block_ranges' = get_missed_block_ranges
  <2>1. ingress_keys[k].lost
    BY <1>1, <1>4
  <2>2. Accounted(k)'
    BY <1>4, <2>1, AccountStays
  <2>3. QED
    BY <1>2, <1>3, <1>4, <2>1, <2>2, SMTT(30)
<1>5. ASSUME NEW s \in Servers, NEW j \in Keys, HeldBy(j, s), KeyCall(s, j)
      PROVE  /\ Accounted(k)' /\ ingress_keys'[k].exists
             /\ \A t \in Servers : ~HeldBy(k, t)'
  <2>1. /\ user_events' = user_events
        /\ \A i \in Keys : i # j => ingress_keys'[i] = ingress_keys[i]
        /\ ingress_keys'[j].lost => ingress_keys[j].lost
        /\ ingested_blocks \subseteq ingested_blocks'
    BY <1>5, KeyCallRow
  <2>2. k # j
    BY <1>1, <1>2, <1>5, <2>1
  <2>3. ingress_keys'[k] = ingress_keys[k] /\ ingress_keys[k].lost
    BY <1>1, <2>1, <2>2
  <2>4. get_missed_block_ranges' = get_missed_block_ranges
    BY <2>1 DEF get_missed_block_ranges
  <2>5. Accounted(k)'
    BY <2>1, <2>3, <2>4, AccountStays, SMTT(30)
  <2>6. QED
    BY <1>2, <1>3, <2>3, <2>5
<1>6. ASSUME NEW j \in Keys, report_lost_ingress_key(j),
             \A s \in Servers : ~HeldBy(j, s)
      PROVE  /\ Accounted(k)' /\ ingress_keys'[k].exists
             /\ \A t \in Servers : ~HeldBy(k, t)'
  <2>1. /\ ingress_keys[j].exists /\ ingested_blocks' = ingested_blocks
        /\ ingress_keys'[k].exists = ingress_keys[k].exists
        /\ ingress_keys'[k].start_block = ingress_keys[k].start_block
        /\ ingress_keys'[k].pubkey_expiry = ingress_keys[k].pubkey_expiry
        /\ ingress_keys'[k].lost <=> ingress_keys[k].lost \/ k = j
        /\ get_missed_block_ranges' = get_missed_block_ranges \cup
             IF MissedRange(j).start < MissedRange(j).end THEN {MissedRange(j)}
             ELSE {}
    BY <1>6, ReportLostRow
  <2>2. get_missed_block_ranges \subseteq get_missed_block_ranges'
    BY <2>1
  <2>3. CASE ingress_keys[k].lost
    <3>1. Accounted(k)'
      BY <2>1, <2>2, <2>3, AccountStays
    <3>2. QED
      BY <1>2, <1>3, <2>1, <2>3, <3>1, SMTT(30)
  <2>4. CASE k = j
    <3>1. PICK m : m = MissedRange(k)
      OBVIOUS
    <3>2. ASSUME NEW b \in ingress_keys[k].start_block
                            ..(ingress_keys[k].pubkey_expiry - 1)
          PROVE  b \in Scanned(k) \/ (m.start <= b /\ b < m.end)
      BY <2>1, <2>4, <3>1, <3>2, MissedIsTheRest, SMTT(30)
    <3>3. m.start \in Int /\ m.end \in Int
      <4>1. MissedRange(k).start \in Int /\ MissedRange(k).end \in Int
        BY MissedRangeTypes
      <4>2. QED
        BY <3>1, <4>1
    <3>4. ASSUME NEW b \in ingress_keys'[k].start_block
                            ..(ingress_keys'[k].pubkey_expiry - 1)
          PROVE  \/ b \in Scanned(k)'
                 \/ \E x \in get_missed_block_ranges' : x.start <= b /\ b < x.end
      <4>1. b \in Scanned(k) \/ (m.start <= b /\ b < m.end)
        BY <2>1, <3>2, <3>4, SMTT(30)
      <4>2. CASE b \in Scanned(k)
        BY <2>1, <4>2 DEF Scanned
      <4>3. CASE m.start <= b /\ b < m.end
        <5>1. m.start < m.end
          BY <3>3, <4>3
        <5>2. m \in get_missed_block_ranges'
          BY <2>1, <2>4, <3>1, <5>1
        <5>3. QED
          BY <4>3, <5>2
      <4>4. QED
        BY <4>1, <4>2, <4>3
    <3>5. QED
      BY <1>3, <1>6, <2>1, <2>4, <3>4, Zenon
  <2>5. QED
    BY <1>1, <2>1, <2>3, <2>4, SMTT(30)
<1>7. QED
  BY <1>4, <1>5, <1>6, TableSteps, Zenon

\* Where activate lets the server start.
LEMMA LookupHeight ==
    ASSUME TypeInv, HeightInv, NEW s \in Servers, ActivateLookup(s)
    PROVE  admin'[s].start <= Len(ledger)
<1>1. /\ DbTypeOK /\ BlocksHaveMaxima /\ Len(ledger) \in Nat /\ admin \in [Servers -> Admin]
      /\ \A r \in ingested_blocks : r.block < Len(ledger)
  BY DEF TypeInv, TypeOK, InBounds
<1>2. PICK k \in Keys : k = admin[s].key
  BY <1>1 DEF Admin
<1>3. /\ admin[s].start <= Len(ledger) /\ ingress_keys[k].start_block <= Len(ledger)
      /\ admin[s].start \in Nat /\ ingress_keys[k].start_block \in Nat
  BY <1>1, <1>2 DEF HeightInv, DbTypeOK, KeyStatus, Admin
<1>4. PICK last : last = get_last_scanned_block_index(k)
  OBVIOUS
<1>5. PICK highest : highest = get_highest_known_block_index
  OBVIOUS
<1>6. last # NoBlock => last \in Nat /\ last < Len(ledger)
  <2>1. last = NoBlock \/ (last \in Scanned(k) /\ last \in Nat)
    BY <1>1, <1>4, LastScanned
  <2>2. QED
    BY <1>1, <2>1 DEF Scanned
<1>7. highest = NoBlock \/ (highest \in Nat /\ highest < Len(ledger))
  BY <1>1, <1>5, HighestKnown
<1>8. admin'[s].start = IF ingress_keys[k].exists
                        THEN IF last = NoBlock THEN ingress_keys[k].start_block
                             ELSE last + 1
                        ELSE IF highest + 1 > admin[s].start THEN highest + 1
                             ELSE admin[s].start
  <2>1. admin' = [admin EXCEPT
          ![s].pc = IF ingress_keys[k].exists THEN "publish" ELSE "register",
          ![s].start = IF ingress_keys[k].exists
                       THEN IF last = NoBlock THEN ingress_keys[k].start_block
                            ELSE last + 1
                       ELSE IF highest + 1 > admin[s].start THEN highest + 1
                            ELSE admin[s].start]
    BY <1>2, <1>4, <1>5, Zenon DEF ActivateLookup
  <2>2. QED
    BY <1>1, <2>1, ZenonT(30) DEF Admin
<1>9. QED
  BY <1>1, <1>3, <1>6, <1>7, <1>8 DEF NoBlock

\* The server that takes a step stays within the ledger.
LEMMA ServerHeight ==
    ASSUME TypeInv, ScanInv, HeightInv, NEW s \in Servers,
           WorkerStep(s) \/ AdminStep(s) \/ FaultStep(s)
    PROVE  /\ srv'[s].next <= Len(ledger)
           /\ state_file'[s].next <= Len(ledger)
           /\ admin'[s].start <= Len(ledger)
<1>1. /\ srv[s].next <= Len(ledger) /\ state_file[s].next <= Len(ledger)
      /\ admin[s].start <= Len(ledger)
  BY DEF HeightInv
<1>2. Len(ledger) \in Nat /\ srv[s].next \in Nat
  BY DEF TypeInv, TypeOK, Server
<1>3. CASE WorkerStep(s)
  <2>1. /\ \/ srv'[s].next = srv[s].next
           \/ worker[s].pc = "won" /\ srv'[s].next = srv[s].next + 1
        /\ admin' = admin
        /\ state_file' = state_file \/ state_file'[s].next = srv[s].next
    BY <1>3, WorkerPlace
  <2>2. worker[s].pc = "won" => srv[s].next < Len(ledger)
    BY DEF ScanInv, ServerInv, TypeInv, InBounds, InBlock, WorkerPCs
  <2>3. QED
    BY <1>1, <1>2, <2>1, <2>2
<1>4. CASE AdminStep(s)
  <2>1. /\ srv'[s].next = srv[s].next \/ srv'[s].next = admin[s].start
        /\ state_file' = state_file \/ state_file'[s].next = srv[s].next
        /\ \/ admin'[s].start = admin[s].start \/ admin'[s].start = 0
           \/ admin'[s].start = Len(ledger) \/ ActivateLookup(s)
    BY <1>4, AdminPlace
  <2>2. QED
    BY <1>1, <1>2, <2>1, LookupHeight
<1>5. CASE FaultStep(s)
  BY <1>1, <1>2, <1>5, FaultPlace
<1>6. QED
  BY <1>3, <1>4, <1>5

\* No step breaks HeightInv.
LEMMA HeightStep ==
    ASSUME TypeInv, ScanInv, HeightInv, [Next]_vars
    PROVE  HeightInv'
<1>1. /\ Len(ledger) \in Nat /\ ledger \in Seq(Contents) /\ MaxBlocks \in Nat
      /\ Len(ledger) <= MaxBlocks
  BY BoundsAreNaturals DEF TypeInv, TypeOK, HeightInv
<1>2. /\ \A s \in Servers : /\ srv[s].next \in Nat /\ state_file[s].next \in Nat
                            /\ admin[s].start \in Nat
      /\ \A k \in Keys : ingress_keys[k].start_block \in Nat
  BY DEF TypeInv, TypeOK, DbTypeOK, KeyStatus, Server, StateFile, Admin
<1>3. /\ \A s \in Servers : /\ srv[s].next <= Len(ledger)
                            /\ state_file[s].next <= Len(ledger)
                            /\ admin[s].start <= Len(ledger)
      /\ \A k \in Keys : ingress_keys[k].start_block <= Len(ledger)
  BY DEF HeightInv
<1>4. CASE AppendBlock
  <2>1. /\ Len(ledger') = Len(ledger) + 1 /\ Len(ledger) < MaxBlocks
        /\ UNCHANGED <<ingress_keys, srv, state_file, admin>>
    BY <1>1, <1>4 DEF AppendBlock, db_vars
  <2>2. QED
    BY <1>1, <1>2, <1>3, <2>1 DEF HeightInv
<1>5. CASE ledger' = ledger
  <2>1. ASSUME NEW s \in Servers
        PROVE  /\ srv'[s].next <= Len(ledger)
               /\ state_file'[s].next <= Len(ledger)
               /\ admin'[s].start <= Len(ledger)
    <3>1. CASE \E t \in Servers : WorkerStep(t) \/ AdminStep(t) \/ FaultStep(t)
      <4>1. PICK t \in Servers : WorkerStep(t) \/ AdminStep(t) \/ FaultStep(t)
        BY <3>1
      <4>2. CASE s = t
        BY <4>1, <4>2, ServerHeight
      <4>3. CASE s # t
        <5>1. Local(t)
          BY <4>1, ServerTypes, Zenon
        <5>2. /\ srv'[s] = srv[s] /\ admin'[s] = admin[s]
              /\ state_file'[s] = state_file[s]
          BY <4>3, <5>1 DEF Local, TypeInv, TypeOK
        <5>3. QED
          BY <1>3, <5>2
      <4>4. QED
        BY <4>2, <4>3
    <3>2. CASE (\E j \in Keys : ReportLost(j)) \/ AppendBlock \/ UNCHANGED vars
      <4>1. UNCHANGED <<srv, admin, state_file>>
        BY <3>2, Zenon DEF ReportLost, AppendBlock, vars, thread_vars
      <4>2. QED
        BY <1>3, <4>1
    <3>3. QED
      BY <3>1, <3>2, Zenon DEF Next
  <2>2. ASSUME NEW k \in Keys
        PROVE  ingress_keys'[k].start_block <= Len(ledger)
    <3>1. ASSUME NEW s \in Servers, NEW j \in Keys, KeyCall(s, j)
          PROVE  \/ ingress_keys'[k].start_block = ingress_keys[k].start_block
                 \/ ingress_keys'[k].start_block = admin[s].start
      BY <3>1, KeyCallRow
    <3>2. ASSUME NEW j \in Keys, report_lost_ingress_key(j)
          PROVE  ingress_keys'[k].start_block = ingress_keys[k].start_block
      BY <3>2, ReportLostRow
    <3>3. \/ UNCHANGED ingress_keys
          \/ \E s \in Servers, j \in Keys : KeyCall(s, j)
          \/ \E j \in Keys : report_lost_ingress_key(j)
      BY TableSteps, Zenon
    <3>4. QED
      BY <1>3, <3>1, <3>2, <3>3
  <2>3. QED
    BY <1>1, <1>5, <2>1, <2>2 DEF HeightInv
<1>6. ledger' = ledger \/ AppendBlock
  BY TableSteps, Zenon
<1>7. QED
  BY <1>4, <1>5, <1>6

-----------------------------------------------------------------------------
(* The servers implement KeyScans. *)

\* The first block not yet scanned with a key: the block up to which the key
\* is covered, and where the range of its missed blocks starts.
LEMMA ScanPlace ==
    ASSUME TypeInv, ScanInv, NEW k \in Keys
    PROVE  /\ KeyScan(k).next \in Nat
           /\ ~ingress_keys[k].exists => Scanned(k) = {}
           /\ ingress_keys[k].exists => MissedRange(k).start = KeyScan(k).next
           /\ \A n \in Nat : Covered(k, n) /\ n \notin Scanned(k) =>
                /\ KeyScan(k).next = n
                /\ \A b \in Scanned(k) : b < n
<1>1. DbTypeOK /\ BlocksHaveMaxima
  BY DEF TypeInv, TypeOK
<1>2. PICK last : last = get_last_scanned_block_index(k)
  OBVIOUS
<1>3. PICK start \in Nat : start = ingress_keys[k].start_block
  BY <1>1 DEF DbTypeOK, KeyStatus
<1>4. \/ last = NoBlock /\ Scanned(k) = {}
      \/ /\ last \in Scanned(k) /\ last \in Nat
         /\ \A b \in Scanned(k) : b <= last
  BY <1>1, <1>2, LastScanned
<1>5. /\ KeyScan(k).next = IF last = NoBlock THEN start ELSE last + 1
      /\ MissedRange(k).start = IF last + 1 > start THEN last + 1 ELSE start
  BY <1>2, <1>3 DEF KeyScan, MissedRange
<1>6. /\ Scanned(k) \subseteq Nat
      /\ \A b \in Scanned(k) : /\ ingress_keys[k].exists /\ start <= b
                               /\ \A c \in start..b : c \in Scanned(k)
  BY <1>1, <1>3, SMTT(30) DEF ScanInv, ScansContiguous, Scanned, DbTypeOK, IngestedBlock
<1>7. ASSUME NEW n \in Nat, Covered(k, n), n \notin Scanned(k)
      PROVE  /\ KeyScan(k).next = n
             /\ \A b \in Scanned(k) : b < n
  <2>1. start <= n /\ \A b \in start..(n - 1) : b \in Scanned(k)
    BY <1>3, <1>7 DEF Covered
  <2>2. ASSUME NEW b \in Scanned(k)
        PROVE  b < n
    BY <1>6, <1>7, <2>1, <2>2
  <2>3. CASE last = NoBlock
    <3>1. Scanned(k) = {}
      BY <1>4, <2>3 DEF NoBlock
    <3>2. n = start
      BY <2>1, <3>1
    <3>3. QED
      BY <1>5, <2>3, <3>1, <3>2
  <2>4. CASE last # NoBlock
    <3>1. last \in Scanned(k) /\ last \in Nat /\ \A b \in Scanned(k) : b <= last
      BY <1>4, <2>4
    <3>2. last < n /\ start <= last
      BY <1>6, <2>2, <3>1
    <3>3. ~(last < n - 1)
      <4>1. SUFFICES ASSUME last < n - 1 PROVE FALSE
        OBVIOUS
      <4>2. n - 1 \in start..(n - 1)
        BY <3>1, <3>2, <4>1
      <4>3. n - 1 \in Scanned(k)
        BY <2>1, <4>2
      <4>4. QED
        BY <3>1, <4>1, <4>3
    <3>4. last + 1 = n
      BY <3>1, <3>2, <3>3
    <3>5. QED
      BY <1>5, <2>2, <2>4, <3>4
  <2>5. QED
    BY <2>3, <2>4
<1>8. KeyScan(k).next \in Nat
  BY <1>4, <1>5
<1>9. ~ingress_keys[k].exists => Scanned(k) = {}
  BY <1>6
<1>10. MissedRange(k).start = KeyScan(k).next
  BY <1>4, <1>5, <1>6 DEF NoBlock
<1>11. QED
  BY <1>7, <1>8, <1>9, <1>10

\* What a key's row and its scanned blocks do not change, its state keeps.
LEMMA KeyScanSame ==
    ASSUME NEW k, ingress_keys'[k] = ingress_keys[k], Scanned(k)' = Scanned(k)
    PROVE  KeyScan(k)' = KeyScan(k)
  BY DEF KeyScan, get_last_scanned_block_index

\* A step that changes one key's row and blocks.
LEMMA OneKeyMoves ==
    ASSUME NEW k \in Keys,
           \A j \in Keys : j # k => KeyScan(j)' = KeyScan(j)
    PROVE  [j \in Keys |-> KeyScan(j)]' =
             [[j \in Keys |-> KeyScan(j)] EXCEPT ![k] = KeyScan(k)']
  BY Zenon

\* Publishing a report raises the key's expiry or changes nothing.
LEMMA SetReportScans ==
    ASSUME TypeInv, LostInv, HeightInv, NEW s \in Servers, NEW k \in Keys,
           HeldBy(k, s), NEW id \in ReportIds,
           NEW b \in {srv[s].next, admin[s].start},
           set_report(k, id, b + srv[s].window), ledger' = ledger
    PROVE  Scans!Publish(k) \/ UNCHANGED Scans!scan_vars
<1>1. ingress_keys \in [Keys -> KeyStatus]
  BY DEF TypeInv, TypeOK, DbTypeOK
<1>2. ~ingress_keys[k].lost /\ ingress_keys[k].exists
  BY DEF LostInv, set_report
<1>3. /\ UNCHANGED <<ingested_blocks, user_events>>
      /\ ingress_keys' =
           IF ~ingress_keys[k].retired
              /\ ingress_keys[k].pubkey_expiry < b + srv[s].window
           THEN [ingress_keys EXCEPT ![k].pubkey_expiry = b + srv[s].window]
           ELSE ingress_keys
  BY DEF set_report
<1>4. \A j \in Keys : Scanned(j)' = Scanned(j)
  BY <1>3 DEF Scanned
<1>5. get_missed_block_ranges' = get_missed_block_ranges
  BY <1>3 DEF get_missed_block_ranges
<1>6. CASE ingress_keys' = ingress_keys
  <2>1. \A j \in Keys : KeyScan(j)' = KeyScan(j)
    BY <1>4, <1>6, KeyScanSame
  <2>2. QED
    BY <1>5, <2>1 DEF Scans!scan_vars
<1>7. CASE /\ ~ingress_keys[k].retired
           /\ ingress_keys[k].pubkey_expiry < b + srv[s].window
           /\ ingress_keys' = [ingress_keys EXCEPT
                                 ![k].pubkey_expiry = b + srv[s].window]
  <2>1. \A j \in Keys : j # k => KeyScan(j)' = KeyScan(j)
    BY <1>1, <1>4, <1>7, KeyScanSame, SMTT(30)
  <2>2. ingress_keys'[k] = [ingress_keys[k] EXCEPT
                              !.pubkey_expiry = b + srv[s].window]
    BY <1>1, <1>7
  <2>3. KeyScan(k)' = [KeyScan(k) EXCEPT !.expiry = b + srv[s].window]
    <3>1. get_last_scanned_block_index(k)' = get_last_scanned_block_index(k)
      BY <1>4 DEF get_last_scanned_block_index
    <3>2. ingress_keys[k] \in KeyStatus
      BY <1>1
    <3>3. QED
      BY <2>2, <3>1, <3>2, SMTT(30) DEF KeyScan, KeyStatus
  <2>4. [j \in Keys |-> KeyScan(j)]' =
          [[j \in Keys |-> KeyScan(j)] EXCEPT ![k].expiry = b + srv[s].window]
    BY <2>1, <2>3, OneKeyMoves, SMTT(30)
  <2>5. PICK w \in Windows : w = srv[s].window
    BY DEF TypeInv, TypeOK, Server
  <2>6. b \in 0..MaxBlocks
    <3>1. srv[s].next \in Nat /\ admin[s].start \in Nat /\ Len(ledger) \in Nat
      BY DEF TypeInv, TypeOK, Server, Admin
    <3>2. QED
      BY <3>1, BoundsAreNaturals DEF HeightInv
  <2>7. b + srv[s].window \in {c + v : c \in 0..MaxBlocks, v \in Windows}
    BY <2>5, <2>6
  <2>8. /\ KeyScan(k).exists /\ ~KeyScan(k).lost /\ ~KeyScan(k).retired
        /\ b + srv[s].window > KeyScan(k).expiry
    BY <1>2, <1>7 DEF KeyScan
  <2>9. Scans!PublishTo(k, b + srv[s].window)
    BY <1>5, <2>4, <2>8 DEF Scans!PublishTo
  <2>10. QED
    BY <2>7, <2>9 DEF Scans!Publish
<1>8. QED
  BY <1>3, <1>6, <1>7

\* Registering a key.
LEMMA NewKeyScans ==
    ASSUME TypeInv, ScanInv, HeightInv, NEW s \in Servers, NEW k \in Keys,
           new_ingress_key(k, admin[s].start), ledger' = ledger
    PROVE  Scans!Register(k)
<1>1. ingress_keys \in [Keys -> KeyStatus]
  BY DEF TypeInv, TypeOK, DbTypeOK
<1>2. PICK start \in Nat : start = admin[s].start
  BY DEF TypeInv, TypeOK, Admin
<1>3. /\ ~ingress_keys[k].exists
      /\ ingress_keys' = [ingress_keys EXCEPT ![k] =
           [exists |-> TRUE, start_block |-> start, pubkey_expiry |-> 0,
            retired |-> FALSE, lost |-> FALSE]]
      /\ UNCHANGED <<ingested_blocks, user_events>>
  BY <1>2 DEF new_ingress_key
<1>4. \A j \in Keys : Scanned(j)' = Scanned(j)
  BY <1>3 DEF Scanned
<1>5. get_missed_block_ranges' = get_missed_block_ranges
  BY <1>3 DEF get_missed_block_ranges
<1>6. \A j \in Keys : j # k => KeyScan(j)' = KeyScan(j)
  BY <1>1, <1>3, <1>4, KeyScanSame
<1>7. ingress_keys'[k] = [exists |-> TRUE, start_block |-> start,
                          pubkey_expiry |-> 0, retired |-> FALSE, lost |-> FALSE]
  BY <1>1, <1>3
<1>8. get_last_scanned_block_index(k)' = NoBlock
  <2>1. Scanned(k) = {}
    BY <1>3, ScanPlace
  <2>2. QED
    BY <1>4, <2>1 DEF get_last_scanned_block_index, MaxOr
<1>9. KeyScan(k)' = Scans!NewRow(start)
  BY <1>7, <1>8 DEF KeyScan, Scans!NewRow
<1>10. [j \in Keys |-> KeyScan(j)]' =
         [[j \in Keys |-> KeyScan(j)] EXCEPT ![k] = Scans!NewRow(start)]
  BY <1>6, <1>9, OneKeyMoves
<1>11. start \in {b \in 0..Len(ledger) : b + MaxBlocks >= Len(ledger)}
  <2>1. Len(ledger) \in Nat
    BY DEF TypeInv, TypeOK
  <2>2. QED
    BY <1>2, <2>1, BoundsAreNaturals DEF HeightInv
<1>12. ~KeyScan(k).exists
  BY <1>3 DEF KeyScan
<1>13. QED
  BY <1>5, <1>10, <1>11, <1>12, Zenon DEF Scans!Register

\* Retiring a key that a server has, or taking that back.
LEMMA RetireScans ==
    ASSUME TypeInv, LostInv, NEW s \in Servers, NEW k \in Keys, HeldBy(k, s),
           NEW r \in BOOLEAN, retire_ingress_key(k, r), ledger' = ledger
    PROVE  Scans!SetRetired(k) \/ UNCHANGED Scans!scan_vars
<1>1. ingress_keys \in [Keys -> KeyStatus]
  BY DEF TypeInv, TypeOK, DbTypeOK
<1>2. /\ UNCHANGED <<ingested_blocks, user_events>>
      /\ \/ ingress_keys' = ingress_keys
         \/ /\ ingress_keys[k].exists
            /\ ingress_keys' = [ingress_keys EXCEPT ![k].retired = r]
  BY DEF retire_ingress_key
<1>3. \A j \in Keys : Scanned(j)' = Scanned(j)
  BY <1>2 DEF Scanned
<1>4. get_missed_block_ranges' = get_missed_block_ranges
  BY <1>2 DEF get_missed_block_ranges
<1>5. CASE ingress_keys' = ingress_keys
  <2>1. \A j \in Keys : KeyScan(j)' = KeyScan(j)
    BY <1>3, <1>5, KeyScanSame
  <2>2. QED
    BY <1>4, <2>1 DEF Scans!scan_vars
<1>6. CASE /\ ingress_keys' # ingress_keys /\ ingress_keys[k].exists
           /\ ingress_keys' = [ingress_keys EXCEPT ![k].retired = r]
  <2>1. \A j \in Keys : j # k => KeyScan(j)' = KeyScan(j)
    BY <1>1, <1>3, <1>6, KeyScanSame
  <2>2. ingress_keys'[k] = [ingress_keys[k] EXCEPT !.retired = r]
    BY <1>1, <1>6
  <2>3. ingress_keys[k].retired # r
    <3>1. SUFFICES ASSUME ingress_keys[k].retired = r
                   PROVE  ingress_keys' = ingress_keys
      BY <1>6
    <3>2. ingress_keys[k] = [ingress_keys[k] EXCEPT !.retired = r]
      BY <1>1, <3>1 DEF KeyStatus
    <3>3. QED
      BY <1>1, <1>6, <3>2
  <2>4. r = ~ingress_keys[k].retired
    <3>1. ingress_keys[k].retired \in BOOLEAN
      BY <1>1 DEF KeyStatus
    <3>2. QED
      BY <2>3, <3>1
  <2>5. KeyScan(k)' = [KeyScan(k) EXCEPT !.retired = ~KeyScan(k).retired]
    <3>1. get_last_scanned_block_index(k)' = get_last_scanned_block_index(k)
      BY <1>3 DEF get_last_scanned_block_index
    <3>2. ingress_keys[k] \in KeyStatus
      BY <1>1
    <3>3. QED
      BY <2>2, <2>4, <3>1, <3>2 DEF KeyScan, KeyStatus
  <2>6. [j \in Keys |-> KeyScan(j)]' =
          [[j \in Keys |-> KeyScan(j)] EXCEPT ![k].retired = ~KeyScan(k).retired]
    BY <2>1, <2>5, OneKeyMoves
  <2>7. KeyScan(k).exists /\ ~KeyScan(k).lost
    BY <1>6 DEF KeyScan, LostInv
  <2>8. QED
    BY <1>4, <2>6, <2>7 DEF Scans!SetRetired
<1>7. QED
  BY <1>2, <1>5, <1>6

\* Publishing a block with a key that a server has.
LEMMA AddBlockScans ==
    ASSUME TypeInv, ScanInv, LostInv, NEW s \in Servers, NEW k \in Keys,
           HeldBy(k, s), NEW iid \in Nat, NEW rows \in SUBSET Rows,
           add_block_data(iid, srv[s].next, rows),
           ingest_invocations[iid].ingress_key = k,
           Covered(k, srv[s].next), srv[s].next < Len(ledger), ledger' = ledger
    PROVE  Scans!Scan(k)
<1>1. PICK n \in Nat : n = srv[s].next
  BY DEF TypeInv, TypeOK, Server
<1>2. /\ UNCHANGED <<ingress_keys, user_events>>
      /\ ingested_blocks' = ingested_blocks \cup
           {[iid |-> iid, ingress_key |-> k, block |-> n, rows |-> rows]}
      /\ n \notin Scanned(k)
  BY <1>1 DEF add_block_data, AlreadyScanned, Scanned
<1>3. \A j \in Keys : Scanned(j)' = IF j = k THEN Scanned(k) \cup {n} ELSE Scanned(j)
  <2>1. PICK row : row = [iid |-> iid, ingress_key |-> k, block |-> n,
                          rows |-> rows]
    BY ZenonT(60)
  <2>2. /\ row.ingress_key = k /\ row.block = n
        /\ ingested_blocks' = ingested_blocks \cup {row}
    BY <1>2, <2>1
  <2>3. QED
    BY <2>2 DEF Scanned
<1>4. get_missed_block_ranges' = get_missed_block_ranges
  BY <1>2 DEF get_missed_block_ranges
<1>5. \A j \in Keys : j # k => KeyScan(j)' = KeyScan(j)
  BY <1>2, <1>3, KeyScanSame
<1>6. KeyScan(k).next = n /\ \A b \in Scanned(k) : b < n
  BY <1>1, <1>2, ScanPlace
<1>7. get_last_scanned_block_index(k)' = n
  <2>1. PICK S : S = Scanned(k) \cup {n}
    BY ZenonT(60)
  <2>2. /\ S \in SUBSET Nat /\ n \in S /\ \A x \in S : x <= n
    <3>1. Scanned(k) \subseteq Nat
      BY DEF TypeInv, TypeOK, DbTypeOK, IngestedBlock, Scanned
    <3>2. QED
      BY <1>6, <2>1, <3>1
  <2>3. MaxOr(S, NoBlock) \in S /\ \A y \in S : y <= MaxOr(S, NoBlock)
    <3>1. HasMax(S) /\ S # {}
      BY <2>2, ZenonT(60) DEF HasMax
    <3>2. QED
      BY <2>2, <3>1, MaxOrIsMax, ZenonT(30)
  <2>4. MaxOr(S, NoBlock) = n
    <3>1. PICK m : m = MaxOr(S, NoBlock)
      OBVIOUS
    <3>2. m \in Nat /\ m <= n /\ n <= m
      BY <2>2, <2>3, <3>1, ZenonT(60)
    <3>3. QED
      BY <3>1, <3>2
  <2>5. get_last_scanned_block_index(k)' = MaxOr(S, NoBlock)
    <3>1. Scanned(k)' = S
      BY <1>3, <2>1, SMTT(30)
    <3>2. get_last_scanned_block_index(k)' = MaxOr(Scanned(k)', NoBlock)
      BY DEF get_last_scanned_block_index, MaxOr, NoBlock
    <3>3. QED
      BY <3>1, <3>2
  <2>6. QED
    BY <2>4, <2>5
<1>8. KeyScan(k)' = [KeyScan(k) EXCEPT !.next = n + 1]
  <2>1. n # NoBlock
    BY DEF NoBlock
  <2>2. QED
    BY <1>2, <1>7, <2>1, SMTT(30) DEF KeyScan
<1>9. [j \in Keys |-> KeyScan(j)]' =
        [[j \in Keys |-> KeyScan(j)] EXCEPT ![k].next = n + 1]
  BY <1>5, <1>8, OneKeyMoves, SMTT(30)
<1>10. KeyScan(k).exists /\ ~KeyScan(k).lost
  BY DEF KeyScan, Covered, LostInv
<1>11. QED
  BY <1>1, <1>4, <1>6, <1>9, <1>10, Zenon DEF Scans!Scan

\* Reporting a key lost.
LEMMA ReportLostScans ==
    ASSUME TypeInv, ScanInv, NEW k \in Keys, report_lost_ingress_key(k),
           ledger' = ledger
    PROVE  Scans!Lose(k)
<1>1. ingress_keys \in [Keys -> KeyStatus]
  BY DEF TypeInv, TypeOK, DbTypeOK
<1>2. /\ ingress_keys[k].exists /\ ingested_blocks' = ingested_blocks
      /\ ingress_keys' = [ingress_keys EXCEPT ![k].lost = TRUE]
      /\ get_missed_block_ranges' = get_missed_block_ranges \cup
           IF MissedRange(k).start < MissedRange(k).end THEN {MissedRange(k)}
           ELSE {}
  BY ReportLostRow
<1>3. \A j \in Keys : Scanned(j)' = Scanned(j)
  BY <1>2 DEF Scanned
<1>4. \A j \in Keys : j # k => KeyScan(j)' = KeyScan(j)
  BY <1>1, <1>2, <1>3, KeyScanSame, SMTT(30)
<1>5. ingress_keys'[k] = [ingress_keys[k] EXCEPT !.lost = TRUE]
  BY <1>1, <1>2
<1>6. KeyScan(k)' = [KeyScan(k) EXCEPT !.lost = TRUE]
  <2>1. get_last_scanned_block_index(k)' = get_last_scanned_block_index(k)
    BY <1>3 DEF get_last_scanned_block_index
  <2>2. ingress_keys[k] \in KeyStatus
    BY <1>1
  <2>3. PICK yes \in BOOLEAN : yes = TRUE
    BY Zenon
  <2>4. ingress_keys'[k] = [ingress_keys[k] EXCEPT !.lost = yes]
    BY <1>5, <2>3, Zenon
  <2>5. KeyScan(k)' = [KeyScan(k) EXCEPT !.lost = yes]
    BY <2>1, <2>2, <2>4 DEF KeyScan, KeyStatus
  <2>6. QED
    BY <2>3, <2>5, Zenon
<1>7. [j \in Keys |-> KeyScan(j)]' =
        [[j \in Keys |-> KeyScan(j)] EXCEPT ![k].lost = TRUE]
  BY <1>4, <1>6, OneKeyMoves, Zenon
<1>8. MissedRange(k).start = KeyScan(k).next /\ MissedRange(k).end = KeyScan(k).expiry
  <2>1. MissedRange(k).start = KeyScan(k).next
    BY <1>2, ScanPlace, SMTT(30)
  <2>2. MissedRange(k).end = KeyScan(k).expiry
    BY DEF MissedRange, KeyScan
  <2>3. QED
    BY <2>1, <2>2
<1>9. {[start |-> m.start, end |-> m.end] : m \in get_missed_block_ranges'} =
        {[start |-> m.start, end |-> m.end] : m \in get_missed_block_ranges} \cup
          IF KeyScan(k).next < KeyScan(k).expiry
          THEN {[start |-> KeyScan(k).next, end |-> KeyScan(k).expiry]}
          ELSE {}
  <2>1. PICK r : r = MissedRange(k)
    OBVIOUS
  <2>2. r.start = KeyScan(k).next /\ r.end = KeyScan(k).expiry
    BY <1>8, <2>1, SMTT(30)
  <2>3. get_missed_block_ranges' = get_missed_block_ranges \cup
          IF r.start < r.end THEN {r} ELSE {}
    BY <1>2, <2>1, SMTT(30)
  <2>4. QED
    BY <2>2, <2>3, SMTT(30)
<1>10. KeyScan(k).exists
  BY <1>2 DEF KeyScan
<1>11. QED
  BY <1>7, <1>9, <1>10, SMTT(30) DEF Scans!Lose

\* Every step of the servers is a step of KeyScans or changes nothing in it.
LEMMA ScansStep ==
    ASSUME TypeInv, ScanInv, LostInv, HeightInv, [Next]_vars
    PROVE  [Scans!ScansNext]_(Scans!scan_vars)
<1>1. CASE /\ UNCHANGED <<ingress_keys, ingested_blocks>>
           /\ get_missed_block_ranges' = get_missed_block_ranges
           /\ ledger' = ledger \/ AppendBlock
  <2>1. \A j \in Keys : KeyScan(j)' = KeyScan(j)
    <3>1. \A j \in Keys : Scanned(j)' = Scanned(j)
      BY <1>1 DEF Scanned
    <3>2. QED
      BY <1>1, <3>1, KeyScanSame
  <2>2. CASE ledger' = ledger
    BY <1>1, <2>1, <2>2 DEF Scans!scan_vars
  <2>3. CASE AppendBlock
    <3>1. Len(ledger') = Len(ledger) + 1
      BY <2>3 DEF AppendBlock, TypeInv, TypeOK
    <3>2. Scans!Grow
      BY <1>1, <2>1, <3>1 DEF Scans!Grow
    <3>3. QED
      BY <3>2 DEF Scans!ScansNext
  <2>4. QED
    BY <1>1, <2>2, <2>3
<1>2. ASSUME ledger' = ledger, NEW s \in Servers, NEW k \in Keys, HeldBy(k, s),
             KeyCall(s, k)
      PROVE  \/ Scans!Register(k) \/ Scans!Scan(k) \/ Scans!Publish(k)
             \/ Scans!SetRetired(k) \/ UNCHANGED Scans!scan_vars
  <2>1. ASSUME NEW id \in ReportIds, NEW b \in {srv[s].next, admin[s].start},
               set_report(k, id, b + srv[s].window)
        PROVE  Scans!Publish(k) \/ UNCHANGED Scans!scan_vars
    BY <1>2, <2>1, SetReportScans, Zenon
  <2>2. CASE new_ingress_key(k, admin[s].start)
    BY <1>2, <2>2, NewKeyScans, Zenon
  <2>3. ASSUME NEW r \in BOOLEAN, retire_ingress_key(k, r)
        PROVE  Scans!SetRetired(k) \/ UNCHANGED Scans!scan_vars
    BY <1>2, <2>3, RetireScans, Zenon
  <2>4. ASSUME NEW iid \in Nat, NEW rows \in SUBSET Rows,
               add_block_data(iid, srv[s].next, rows),
               ingest_invocations[iid].ingress_key = k,
               Covered(k, srv[s].next), srv[s].next < Len(ledger)
        PROVE  Scans!Scan(k)
    BY <1>2, <2>4, AddBlockScans, Zenon
  <2>5. QED
    BY <1>2, <2>1, <2>2, <2>3, <2>4, Zenon DEF KeyCall
<1>3. ASSUME ledger' = ledger, NEW k \in Keys, report_lost_ingress_key(k)
      PROVE  Scans!Lose(k)
  BY <1>3, ReportLostScans, Zenon
<1>4. QED
  BY <1>1, <1>2, <1>3, TableSteps, Zenon DEF Scans!ScansNext

\* The empty tables are the first state of KeyScans.
LEMMA InitScans == Init => Scans!ScansInit
<1>1. SUFFICES ASSUME Init PROVE Scans!ScansInit
  OBVIOUS
<1>2. /\ ledger = << >> /\ ingested_blocks = {} /\ user_events = << >>
      /\ ingress_keys = [k \in Keys |-> [exists |-> FALSE, start_block |-> 0,
                           pubkey_expiry |-> 0, retired |-> FALSE,
                           lost |-> FALSE]]
  BY <1>1, Zenon DEF Init, DbInit
<1>3. \A k \in Keys : get_last_scanned_block_index(k) = NoBlock
  BY <1>2 DEF get_last_scanned_block_index, Scanned, MaxOr
<1>4. \A k \in Keys : KeyScan(k) = Scans!NoRow
  BY <1>2, <1>3, Zenon DEF KeyScan, Scans!NoRow
<1>5. get_missed_block_ranges = {}
  BY <1>2 DEF get_missed_block_ranges
<1>6. Len(ledger) = 0
  BY <1>2
<1>7. [k \in Keys |-> KeyScan(k)] = [k \in Keys |-> Scans!NoRow]
  BY <1>4
<1>8. {[start |-> m.start, end |-> m.end] : m \in get_missed_block_ranges} = {}
  BY <1>5
<1>9. QED
  BY <1>6, <1>7, <1>8 DEF Scans!ScansInit

\* LostBlocksAccounted: every block in which a TxOut may have used a lost key
\* was scanned with it or is in a missed block range that report_lost_ingress_key
\* registered, since a key that was reported lost comes back to no server.
THEOREM LostKeysAreAccounted ==
    ASSUME KeyRace = FALSE
    PROVE  Spec => []LostBlocksAccounted
<1>1. Init => LostInv
  BY DEF Init, DbInit, LostInv, LostBlocksAccounted
<1>2. TypeInv /\ ScanInv /\ LostInv /\ [Next]_vars => LostInv'
  BY LostStep, Zenon
<1>3. LostInv => LostBlocksAccounted
  BY DEF LostInv
<1>4. QED
  BY <1>1, <1>2, <1>3, ScanInvariant, PTL DEF Spec

\* ImplementsKeyScans: the servers together, whatever their number and however
\* they crash, race and fail over, change the tables of the database only the
\* way KeyScans does: one more block of a key, the next one; a higher expiry
\* of a key that is not retired; nothing with a key that was reported lost.
THEOREM ServersImplementKeyScans ==
    ASSUME KeyRace = FALSE
    PROVE  Spec => ImplementsKeyScans
<1>1. Init => LostInv
  BY DEF Init, DbInit, LostInv, LostBlocksAccounted
<1>2. Init => HeightInv
  BY BoundsAreNaturals DEF Init, DbInit, NoAdmin, HeightInv
<1>3. TypeInv /\ ScanInv /\ LostInv /\ [Next]_vars => LostInv'
  BY LostStep, Zenon
<1>4. TypeInv /\ ScanInv /\ HeightInv /\ [Next]_vars => HeightInv'
  BY HeightStep, Zenon
<1>5. Init => Scans!ScansInit
  BY InitScans
<1>6. TypeInv /\ ScanInv /\ LostInv /\ HeightInv /\ [Next]_vars =>
        [Scans!ScansNext]_(Scans!scan_vars)
  BY ScansStep, Zenon
<1>7. QED
  BY <1>1, <1>2, <1>3, <1>4, <1>5, <1>6, ScanInvariant, PTL
     DEF Spec, ImplementsKeyScans, Scans!ScansSpec

=============================================================================

----------------------- MODULE IngestControllerProofs -----------------------
(***************************************************************************)
(* IngestController for every number of servers, keys and blocks.  Each    *)
(* call of the recovery database and each step of the servers keeps the    *)
(* state well typed and only adds to the tables.  The blocks scanned with  *)
(* an ingress key have no gaps, as long as no key transfer is overtaken by *)
(* an activation (KeyRace = FALSE).  Reports stay within the expiry that   *)
(* is recorded for their key.                                              *)
(***************************************************************************)
EXTENDS IngestController, TLAPS

-----------------------------------------------------------------------------
(* Maxima. *)

\* The set is empty or has a largest element.
HasMax(S) == S # {} => \E m \in S : \A x \in S : x <= m

\* Blocks are published one at a time, so any of them have a largest: the
\* maxima the queries of the recovery database ask for exist.
BlocksHaveMaxima == \A S \in SUBSET {r.block : r \in ingested_blocks} : HasMax(S)

\* MaxOr finds the maximum of a set that has one: what
\* get_last_scanned_block_index and get_highest_known_block_index return is an
\* element of the column, and no element is larger.
LEMMA MaxOrIsMax ==
    ASSUME NEW S \in SUBSET Nat, HasMax(S), S # {}
    PROVE  /\ MaxOr(S, NoBlock) \in S
           /\ \A y \in S : y <= MaxOr(S, NoBlock)
<1>1. PICK m \in S : \A x \in S : x <= m
  BY Zenon DEF HasMax
<1>2. QED
  BY <1>1, ZenonT(30) DEF MaxOr

\* The last block scanned with a key: none exactly when no block was scanned
\* with it.
LEMMA LastScanned ==
    ASSUME DbTypeOK, BlocksHaveMaxima, NEW k \in Keys
    PROVE  LET last == get_last_scanned_block_index(k)
           IN  \/ last = NoBlock /\ Scanned(k) = {}
               \/ /\ last \in Scanned(k) /\ last \in Nat
                  /\ \A b \in Scanned(k) : b <= last
<1>1. Scanned(k) \in SUBSET Nat /\ HasMax(Scanned(k))
  <2>1. Scanned(k) \in SUBSET {r.block : r \in ingested_blocks}
    BY DEF Scanned
  <2>2. Scanned(k) \in SUBSET Nat
    BY DEF Scanned, DbTypeOK, IngestedBlock
  <2>3. QED
    BY <2>1, <2>2, Zenon DEF BlocksHaveMaxima
<1>2. CASE Scanned(k) = {}
  BY <1>2 DEF get_last_scanned_block_index, MaxOr
<1>3. CASE Scanned(k) # {}
  BY <1>1, <1>3, MaxOrIsMax, ZenonT(30) DEF get_last_scanned_block_index
<1>4. QED
  BY <1>2, <1>3

\* The highest block of the table, or none.
LEMMA HighestKnown ==
    ASSUME DbTypeOK, BlocksHaveMaxima, NEW bound \in Nat,
           \A r \in ingested_blocks : r.block < bound
    PROVE  \/ get_highest_known_block_index = NoBlock
           \/ /\ get_highest_known_block_index \in Nat
              /\ get_highest_known_block_index < bound
<1> DEFINE B == {r.block : r \in ingested_blocks}
<1>1. B \in SUBSET Nat /\ \A x \in B : x < bound
  BY DEF DbTypeOK, IngestedBlock
<1>2. CASE B = {}
  BY <1>2 DEF get_highest_known_block_index, MaxOr
<1>3. CASE B # {}
  <2>1. MaxOr(B, NoBlock) \in B
    BY <1>1, <1>3, MaxOrIsMax, ZenonT(30) DEF BlocksHaveMaxima
  <2>2. QED
    BY <1>1, <2>1 DEF get_highest_known_block_index
<1>4. QED
  BY <1>2, <1>3

-----------------------------------------------------------------------------
(* The calls. *)

\* Marking an invocation decommissioned keeps the table's length and the keys
\* in it.
LEMMA DecommissionRow ==
    ASSUME DbTypeOK, NEW iid \in DOMAIN ingest_invocations
    PROVE  LET after == [ingest_invocations EXCEPT ![iid].decommissioned = TRUE]
           IN  /\ after \in Seq(Invocation)
               /\ Len(after) = Len(ingest_invocations)
               /\ \A i \in DOMAIN ingest_invocations :
                    after[i].ingress_key = ingest_invocations[i].ingress_key
<1> DEFINE row == [ingest_invocations[iid] EXCEPT !.decommissioned = TRUE]
<1>1. row \in Invocation
  <2>1. ingest_invocations[iid] \in Invocation
    BY DEF DbTypeOK
  <2>2. QED
    BY <2>1, ZenonT(30) DEF Invocation
<1>2. [ingest_invocations EXCEPT ![iid] = row] \in Seq(Invocation)
  BY <1>1 DEF DbTypeOK
<1>3. QED
  BY <1>2 DEF DbTypeOK, Invocation

\* new_ingest_invocation appends an invocation; the new row carries the key it
\* was opened for.
LEMMA NewInvocationStep ==
    ASSUME DbTypeOK, NEW prev \in Nat, NEW k \in Keys,
           NEW egress \in EgressKeys, NEW start \in Nat,
           new_ingest_invocation(prev, k, egress, start)
    PROVE  /\ DbTypeOK' /\ DbGrows
           /\ NextInvocationId \in Nat \ {NoInvocation}
           /\ NextInvocationId \in DOMAIN ingest_invocations'
           /\ ingest_invocations'[NextInvocationId].ingress_key = k
<1> DEFINE base == IF prev = NoInvocation THEN ingest_invocations
                   ELSE [ingest_invocations EXCEPT ![prev].decommissioned = TRUE]
           row == NewInvocation(k, egress, start)
<1>1. row \in Invocation /\ row.ingress_key = k
  BY DEF NewInvocation, Invocation
<1>2. /\ base \in Seq(Invocation)
      /\ Len(base) = Len(ingest_invocations)
      /\ \A i \in DOMAIN ingest_invocations :
           base[i].ingress_key = ingest_invocations[i].ingress_key
  BY DecommissionRow DEF DbTypeOK, new_ingest_invocation
<1>3. ingest_invocations' = Append(base, row)
  BY DEF new_ingest_invocation
<1>4. NextInvocationId \in Nat \ {NoInvocation}
  BY DEF NextInvocationId, NoInvocation, DbTypeOK
<1>5. user_events' \in Seq(UserEvent)
  <2>1. [type |-> "new_ingest_invocation", iid |-> NextInvocationId] \in UserEvent
    BY <1>4 DEF UserEvent, NewRngEvent
  <2>2. prev # NoInvocation =>
          [type |-> "decommission_ingest_invocation", iid |-> prev] \in UserEvent
    BY DEF UserEvent, DecommissionEvent
  <2>3. QED
    BY <2>1, <2>2 DEF new_ingest_invocation, DbTypeOK
<1> HIDE DEF base, row
<1>6. /\ ingest_invocations' \in Seq(Invocation)
      /\ \A i \in DOMAIN ingest_invocations :
           /\ i \in DOMAIN ingest_invocations'
           /\ ingest_invocations'[i].ingress_key = ingest_invocations[i].ingress_key
      /\ NextInvocationId \in DOMAIN ingest_invocations'
      /\ ingest_invocations'[NextInvocationId].ingress_key = k
  BY <1>1, <1>2, <1>3 DEF NextInvocationId, DbTypeOK
<1>7. QED
  BY <1>4, <1>5, <1>6 DEF DbTypeOK, DbGrows, new_ingest_invocation

-----------------------------------------------------------------------------
(* The invariant. *)

\* TypeOK is inductive only together with InBounds and BlocksHaveMaxima: where
\* a server starts is one more than a maximum.
TypeInv == TypeOK /\ InBounds /\ BlocksHaveMaxima

\* The part of TypeInv about one server.
ServerOK(s) ==
    /\ srv[s] \in Server /\ worker[s] \in Worker /\ admin[s] \in Admin
    /\ setter[s] \in Setter /\ state_file[s] \in StateFile
    /\ InBlock(s) => worker[s].block < Len(ledger)
    /\ setter[s].pc = "apply" => setter[s].key # NoKey
    /\ state_file[s].readable => state_file[s].key # NoKey

\* The rest of it: the tables, the ledger and the bounded counters.
SharedOK ==
    /\ DbTypeOK
    /\ ledger \in Seq(Contents)
    /\ budget \in [Kinds -> Nat]
    /\ \A r \in ingested_blocks : r.block < Len(ledger)
    /\ BlocksHaveMaxima

\* A step of server s leaves the other servers' threads, memory and files
\* alone, and the ledger.
Local(s) ==
    /\ srv' = [srv EXCEPT ![s] = srv'[s]]
    /\ worker' = [worker EXCEPT ![s] = worker'[s]]
    /\ admin' = [admin EXCEPT ![s] = admin'[s]]
    /\ setter' = [setter EXCEPT ![s] = setter'[s]]
    /\ state_file' = [state_file EXCEPT ![s] = state_file'[s]]
    /\ ledger' = ledger

-----------------------------------------------------------------------------
(* Types. *)

\* TypeInv, one server at a time.
LEMMA TypeParts ==
    ASSUME TypeInv
    PROVE  SharedOK /\ \A s \in Servers : ServerOK(s) /\ s \in Enclaves
  BY ServersAreEnclaves DEF TypeInv, TypeOK, InBounds, SharedOK, ServerOK

\* The locals of an idle worker are well typed.
LEMMA IdleWorkerType ==
    ASSUME NEW k \in Keys
    PROVE  IdleWorker(k) \in Worker /\ IdleWorker(k).pc = "poll"
  BY DEF IdleWorker, Worker, WorkerPCs, NoInvocation

\* The fields of a server and its threads, one by one.
LEMMA FieldTypes ==
    ASSUME NEW s \in Servers, ServerOK(s)
    PROVE  /\ srv[s].key \in Keys /\ srv[s].next \in Nat /\ srv[s].window \in Nat
           /\ srv[s].iid \in Nat /\ srv[s].egress \in Nat /\ srv[s].rng \in Nat
           /\ worker[s].key \in Keys /\ worker[s].block \in Nat
           /\ worker[s].iid \in Nat /\ worker[s].egress \in Nat
           /\ worker[s].chunk \in Nat \ {0} /\ worker[s].rows \in SUBSET Rows
           /\ admin[s].key \in Keys /\ admin[s].start \in Nat
<1>1. srv[s].window \in Windows
  BY DEF ServerOK, Server
<1>2. srv[s].window \in Nat
  BY <1>1, BoundsAreNaturals, ZenonT(30)
<1>3. QED
  BY <1>2, Zenon DEF ServerOK, Server, Worker, Admin

\* What a chunk of the block being scanned adds.
LEMMA OwnedType ==
    ASSUME TypeInv, NEW s \in Servers, worker[s].pc = "ingest",
           worker[s].chunk <= Len(ChunksOf(s))
    PROVE  Owned(s) \in Nat
<1>1. SharedOK /\ ServerOK(s)
  BY TypeParts
<1>2. worker[s].block \in Nat /\ worker[s].block < Len(ledger)
  BY <1>1, FieldTypes DEF ServerOK, InBlock, WorkerPCs
<1>3. ChunksOf(s) \in Seq([Keys -> Nat])
  BY <1>1, <1>2, ContentsAreChunks DEF SharedOK, ChunksOf
<1>4. ChunksOf(s)[worker[s].chunk] \in [Keys -> Nat]
  BY <1>1, <1>3, FieldTypes
<1>5. QED
  BY <1>1, <1>4, FieldTypes DEF Owned

-----------------------------------------------------------------------------

\* A finished activate call is well typed.
LEMMA NoAdminType ==
    ASSUME NEW k \in Keys
    PROVE  /\ NoAdmin(k) \in Admin /\ NoAdmin(k).pc = "none"
           /\ [NoAdmin(k) EXCEPT !.pc = "write"] \in Admin
  BY DEF NoAdmin, Admin, AdminPCs

\* A step of a server keeps TypeInv, takes nothing back from the tables and
\* leaves the other servers alone.
LEMMA ServerTypes ==
    \A s \in Servers :
        TypeInv /\ (WorkerStep(s) \/ AdminStep(s) \/ FaultStep(s)) =>
            TypeInv' /\ DbGrows /\ Local(s)

\* Publishing a block keeps the maxima.
<1>OneMoreHasMaxima.
      ASSUME NEW B \in SUBSET Nat, NEW n \in Nat, NEW C, C = B \cup {n},
             \A S \in SUBSET B : HasMax(S)
      PROVE  \A S \in SUBSET C : HasMax(S)
  <2> USE <1>OneMoreHasMaxima
  <2>1. SUFFICES ASSUME NEW S \in SUBSET C, S # {}
                 PROVE  \E m \in S : \A x \in S : x <= m
    BY Zenon DEF HasMax
  <2>2. S \in SUBSET Nat
    OBVIOUS
  <2>3. CASE S \subseteq B
    BY <2>1, <2>3, Zenon DEF HasMax
  <2>4. CASE ~(S \subseteq B)
    <3>1. n \in S
      BY <2>4
    <3>2. CASE S \ {n} = {}
      BY <3>1, <3>2
    <3>3. CASE S \ {n} # {}
      <4>1. PICK m \in S \ {n} : \A x \in S \ {n} : x <= m
        <5>1. S \ {n} \in SUBSET B
          OBVIOUS
        <5>2. QED
          BY <3>3, <5>1, Zenon DEF HasMax
      <4>2. CASE m <= n
        BY <2>2, <3>1, <4>1, <4>2
      <4>3. CASE n <= m
        BY <2>2, <3>1, <4>1, <4>3
      <4>4. QED
        BY <2>2, <4>1, <4>2, <4>3
    <3>4. QED
      BY <3>2, <3>3
  <2>5. QED
    BY <2>3, <2>4

\* new_ingress_key inserts a row and changes no other.
<1>NewIngressKeyStep.
      ASSUME DbTypeOK, NEW k \in Keys, NEW start \in Nat,
             new_ingress_key(k, start)
      PROVE  DbTypeOK' /\ DbGrows
  BY <1>NewIngressKeyStep DEF DbTypeOK, DbGrows, new_ingress_key, KeyStatus

\* retire_ingress_key touches the retired column only.
<1>RetireIngressKeyStep.
      ASSUME DbTypeOK, NEW k \in Keys, NEW b \in BOOLEAN,
             retire_ingress_key(k, b)
      PROVE  DbTypeOK' /\ DbGrows
  BY <1>RetireIngressKeyStep, ZenonT(30) DEF DbTypeOK, DbGrows, retire_ingress_key, KeyStatus

\* set_report touches pubkey_expiry and the reports table.
<1>SetReportStep.
      ASSUME DbTypeOK, NEW k \in Keys, NEW id \in ReportIds, NEW expiry \in Nat,
             set_report(k, id, expiry)
      PROVE  DbTypeOK' /\ DbGrows
  <2> USE <1>SetReportStep
  <2>1. UNCHANGED <<ingest_invocations, ingested_blocks, user_events>>
    BY DEF set_report
  <2>2. ingress_keys' \in [Keys -> KeyStatus]
    BY ZenonT(30) DEF DbTypeOK, set_report, KeyStatus
  <2>3. \A j \in Keys : /\ ingress_keys'[j].exists = ingress_keys[j].exists
                        /\ ingress_keys'[j].start_block = ingress_keys[j].start_block
    BY DEF DbTypeOK, set_report, KeyStatus
  <2>4. reports' \in [ReportIds -> ReportRow]
    BY DEF DbTypeOK, set_report, ReportRow
  <2>5. DbTypeOK'
    BY <2>1, <2>2, <2>4 DEF DbTypeOK
  <2>6. DbGrows
    BY <2>1, <2>3 DEF DbGrows, DbTypeOK
  <2>7. QED
    BY <2>5, <2>6

\* decommission_ingest_invocation keeps the invocations' keys.
<1>DecommissionStep.
      ASSUME DbTypeOK, NEW iid \in Nat, decommission_ingest_invocation(iid)
      PROVE  DbTypeOK' /\ DbGrows
  <2> USE <1>DecommissionStep
  <2>1. iid # 0 /\ iid \in DOMAIN ingest_invocations
    BY DEF decommission_ingest_invocation, DbTypeOK
  <2>2. [type |-> "decommission_ingest_invocation", iid |-> iid] \in UserEvent
    BY <2>1 DEF UserEvent, DecommissionEvent, NoInvocation
  <2>3. QED
    BY <2>1, <2>2, DecommissionRow
       DEF DbTypeOK, DbGrows, decommission_ingest_invocation

\* add_block_data publishes one block for the invocation's ingress key.
<1>AddBlockDataStep.
      ASSUME DbTypeOK, NEW iid \in Nat, NEW b \in Nat, NEW rows \in SUBSET Rows,
             add_block_data(iid, b, rows)
      PROVE  DbTypeOK' /\ DbGrows
  <2> USE <1>AddBlockDataStep
  <2>1. iid # 0 /\ ingest_invocations[iid] \in Invocation
    BY DEF add_block_data, DbTypeOK
  <2>2. QED
    BY <2>1 DEF DbTypeOK, DbGrows, add_block_data, IngestedBlock, Invocation,
                NoInvocation

\* add_block_data publishes one block more.
<1>AddBlockDataMaxima.
      ASSUME DbTypeOK, BlocksHaveMaxima, NEW iid, NEW b \in Nat, NEW rows,
             add_block_data(iid, b, rows)
      PROVE  BlocksHaveMaxima'
  <2> USE <1>AddBlockDataMaxima
  <2> DEFINE B == {r.block : r \in ingested_blocks}
             C == {r.block : r \in ingested_blocks'}
  <2>1. B \in SUBSET Nat
    BY DEF DbTypeOK, IngestedBlock
  <2>2. C = B \cup {b}
    <3> DEFINE row == [iid |-> iid, block |-> b, rows |-> rows,
                       ingress_key |-> ingest_invocations[iid].ingress_key]
    <3>1. ingested_blocks' = ingested_blocks \cup {row} /\ row.block = b
      BY DEF add_block_data
    <3> HIDE DEF row
    <3>2. QED
      BY <3>1, ZenonT(30)
  <2>3. \A S \in SUBSET B : HasMax(S)
    BY Zenon DEF BlocksHaveMaxima
  <2> HIDE DEF B, C
  <2>4. \A S \in SUBSET C : HasMax(S)
    BY <2>1, <2>2, <2>3, <1>OneMoreHasMaxima, ZenonT(30)
  <2>5. QED
    BY <2>4, Zenon DEF BlocksHaveMaxima, C, HasMax

\* A step of one server keeps TypeInv when it keeps that server's part of it.
<1>LocalTypes.
      ASSUME TypeInv, NEW s \in Servers, Local(s), SharedOK', ServerOK(s)'
      PROVE  TypeInv'
  <2> USE <1>LocalTypes
  <2>1. TypeOK'
    BY ZenonT(30) DEF TypeInv, TypeOK, Local, SharedOK, ServerOK
  <2>2. InBounds'
    BY DEF TypeInv, TypeOK, InBounds, Local, SharedOK, ServerOK, InBlock
  <2>3. QED
    BY <2>1, <2>2 DEF TypeInv, SharedOK

\* A step that leaves the database alone.
<1>DbUnchanged.
      ASSUME SharedOK, UNCHANGED <<db_vars, ledger>>, budget' \in [Kinds -> Nat]
      PROVE  SharedOK' /\ DbGrows
  BY <1>DbUnchanged DEF SharedOK, DbTypeOK, DbGrows, db_vars, BlocksHaveMaxima

\* A step that makes a call which publishes no block.
<1>DbCall.
      ASSUME SharedOK, DbTypeOK', UNCHANGED <<ingested_blocks, ledger>>,
             budget' \in [Kinds -> Nat]
      PROVE  SharedOK'
  BY <1>DbCall DEF SharedOK, BlocksHaveMaxima

\* The bounded counters stay naturals.
<1>SpendType.
      ASSUME SharedOK, NEW kind \in Kinds, Spend(kind) \/ UNCHANGED budget
      PROVE  budget' \in [Kinds -> Nat]
  BY <1>SpendType DEF SharedOK, Spend

\* An idle worker that is sent to another step of the loop is well typed.
<1>IdleWorkerAt.
      ASSUME NEW k \in Keys, NEW pc \in WorkerPCs
      PROVE  LET w == [IdleWorker(k) EXCEPT !.pc = pc]
             IN  w \in Worker /\ w.pc = pc
  BY <1>IdleWorkerAt, IdleWorkerType DEF Worker

\* The RNG outputs of a chunk are rows.
<1>OutputsType.
      ASSUME NEW egress \in EgressKeys, NEW i \in Nat, NEW n \in Nat
      PROVE  Outputs(egress, i, n) \in SUBSET Rows
  BY <1>OutputsType DEF Outputs, Rows

\* Every step of the worker keeps TypeInv and only adds to the tables.
<1>WorkerTypes.
      ASSUME TypeInv, NEW s \in Servers, WorkerStep(s)
      PROVE  TypeInv' /\ DbGrows /\ Local(s)
  <2> USE <1>WorkerTypes
  <2>1. SharedOK /\ ServerOK(s) /\ s \in Enclaves
    BY TypeParts
  <2>2. budget' \in [Kinds -> Nat]
    <3>1. \/ UNCHANGED budget \/ Spend("db_error") \/ Spend("overflow")
          \/ Spend("chunk_too_big") \/ Spend("lost_ack")
      BY ZenonT(30) DEF WorkerStep, BeginBlock, PublishReport, EnsureInvocation, IngestChunk,
         IngestChunkOverflow, IngestChunkTooBig, RotateInvocation, AddBlockData,
         AdvanceNextBlock, BackOff, DecommissionInvocation, NewEgressKey,
         WriteStateFile
    <3>2. QED
      BY <2>1, <3>1, <1>SpendType DEF Kinds
  <2>3. CASE BeginBlock(s)
    <3>1. Local(s)
      BY <2>3 DEF Local, BeginBlock, TypeInv, TypeOK
    <3>2. SharedOK' /\ DbGrows
      BY <2>1, <2>2, <2>3, <1>DbUnchanged DEF BeginBlock
    <3>3. ServerOK(s)'
      <4> DEFINE w == IdleWorker(srv[s].key)
      <4>1. w \in Worker
        BY <2>1, FieldTypes, IdleWorkerType
      <4>2. worker'[s] = [w EXCEPT !.pc = "publish", !.block = srv[s].next,
                                   !.egress = srv[s].egress]
        BY <2>3 DEF BeginBlock, TypeInv, TypeOK
      <4> HIDE DEF w
      <4>3. worker'[s] \in Worker /\ worker'[s].block = srv[s].next
        BY <2>1, <4>1, <4>2, FieldTypes, ZenonT(30) DEF Worker, WorkerPCs
      <4>4. QED
        BY <2>1, <2>3, <4>3 DEF ServerOK, BeginBlock
    <3>4. QED
      BY <3>1, <3>2, <3>3, <1>LocalTypes
  <2>4. CASE PublishReport(s)
    <3>1. Local(s)
      BY <2>4 DEF Local, PublishReport, TypeInv, TypeOK
    <3>2. SharedOK' /\ DbGrows
      <4>1. CASE UNCHANGED db_vars
        BY <2>1, <2>2, <2>4, <4>1, <1>DbUnchanged DEF PublishReport
      <4>2. CASE \E id \in ReportIds :
                   set_report(worker[s].key, id, srv[s].next + srv[s].window)
        <5>1. worker[s].key \in Keys /\ srv[s].next + srv[s].window \in Nat
          BY <2>1, FieldTypes
        <5>2. DbTypeOK' /\ DbGrows /\ UNCHANGED ingested_blocks
          BY <2>1, <4>2, <5>1, <1>SetReportStep, ZenonT(30) DEF SharedOK, set_report
        <5>3. QED
          BY <2>1, <2>2, <2>4, <5>2, <1>DbCall DEF PublishReport
      <4>3. QED
        BY <2>4, <4>1, <4>2 DEF PublishReport
    <3>3. ServerOK(s)'
      <4>1. PICK pc \in WorkerPCs \ {"poll", "new_egress", "write"} :
               worker' = [worker EXCEPT ![s].pc = pc]
        BY <2>4 DEF PublishReport, WorkerPCs
      <4>2. worker'[s] \in Worker /\ worker'[s].block = worker[s].block
        BY <2>1, <4>1, ZenonT(30) DEF ServerOK, Worker, TypeInv, TypeOK
      <4>3. worker[s].block < Len(ledger)
        BY <2>1, <2>4 DEF ServerOK, InBlock, PublishReport, WorkerPCs
      <4>4. srv'[s] \in Server
        BY <2>1, <2>4, ZenonT(30) DEF ServerOK, PublishReport, Server, TypeInv, TypeOK
      <4>5. QED
        BY <2>1, <2>4, <4>2, <4>3, <4>4 DEF ServerOK, PublishReport
    <3>4. QED
      BY <3>1, <3>2, <3>3, <1>LocalTypes
  <2>5. CASE EnsureInvocation(s)
    <3>1. Local(s)
      BY <2>5 DEF Local, EnsureInvocation, TypeInv, TypeOK
    <3>2. SharedOK' /\ DbGrows /\ NextInvocationId \in Nat
      <4>1. CASE UNCHANGED db_vars
        BY <2>1, <2>2, <2>5, <4>1, <1>DbUnchanged
           DEF EnsureInvocation, NextInvocationId, SharedOK, DbTypeOK
      <4>2. CASE new_ingest_invocation(NoInvocation, worker[s].key,
                                       <<s, worker[s].egress>>, worker[s].block)
        <5>1. <<s, worker[s].egress>> \in EgressKeys /\ NoInvocation \in Nat
          BY <2>1, FieldTypes DEF EgressKeys, NoInvocation
        <5>2. /\ DbTypeOK' /\ DbGrows /\ UNCHANGED ingested_blocks
              /\ NextInvocationId \in Nat
          BY <2>1, <4>2, <5>1, FieldTypes, NewInvocationStep, ZenonT(30)
             DEF SharedOK, new_ingest_invocation
        <5>3. QED
          BY <2>1, <2>2, <2>5, <5>2, <1>DbCall DEF EnsureInvocation
      <4>3. QED
        BY <2>5, <4>1, <4>2 DEF EnsureInvocation
    <3>3. ServerOK(s)'
      <4>1. PICK iid \in Nat :
              /\ srv' = [srv EXCEPT ![s].iid = iid, ![s].lock = "free"]
              /\ worker' = [worker EXCEPT ![s].iid = iid, ![s].pc = "ingest"]
        <5>1. CASE srv[s].iid = NoInvocation
          BY <2>5, <3>2, <5>1 DEF EnsureInvocation
        <5>2. CASE srv[s].iid # NoInvocation
          <6>1. srv' = [srv EXCEPT ![s].iid = srv[s].iid, ![s].lock = "free"]
            BY <2>1, <2>5, <5>2, ZenonT(30) DEF EnsureInvocation, TypeInv, TypeOK, ServerOK,
               Server
          <6>2. QED
            BY <2>1, <2>5, <5>2, <6>1, FieldTypes, ZenonT(30) DEF EnsureInvocation
        <5>3. QED
          BY <5>1, <5>2, Zenon
      <4>2. worker'[s] \in Worker /\ worker'[s].block = worker[s].block
        BY <2>1, <4>1, ZenonT(30) DEF ServerOK, Worker, WorkerPCs, TypeInv, TypeOK
      <4>3. worker[s].block < Len(ledger)
        BY <2>1, <2>5 DEF ServerOK, InBlock, EnsureInvocation, WorkerPCs
      <4>4. srv'[s] \in Server
        BY <2>1, <4>1, ZenonT(30) DEF ServerOK, Server, TypeInv, TypeOK
      <4>5. QED
        BY <2>1, <2>5, <4>2, <4>3, <4>4 DEF ServerOK, EnsureInvocation
    <3>4. QED
      BY <3>1, <3>2, <3>3, <1>LocalTypes
  <2>6. CASE IngestChunk(s)
    <3>1. Local(s)
      BY <2>6, ZenonT(30) DEF Local, IngestChunk, TypeInv, TypeOK
    <3>2. SharedOK' /\ DbGrows
      BY <2>1, <2>2, <2>6, <1>DbUnchanged DEF IngestChunk
    <3>3. ServerOK(s)'
      <4>1. Owned(s) \in Nat
        BY <2>6, OwnedType DEF IngestChunk
      <4>2. Outputs(EgressOf(s), srv[s].rng, Owned(s)) \in SUBSET Rows
        BY <2>1, <4>1, FieldTypes, <1>OutputsType DEF EgressOf, EgressKeys
      <4>3. worker'[s] \in Worker /\ worker'[s].block = worker[s].block
        <5>1. worker'[s] = [worker[s] EXCEPT
                !.rows = worker[s].rows
                           \cup Outputs(EgressOf(s), srv[s].rng, Owned(s)),
                !.chunk = worker[s].chunk + 1]
          BY <2>6 DEF IngestChunk, TypeInv, TypeOK
        <5>2. /\ worker[s] \in Worker
              /\ worker[s].rows \cup Outputs(EgressOf(s), srv[s].rng, Owned(s))
                   \in SUBSET Rows
              /\ worker[s].chunk + 1 \in Nat \ {0}
          <6>1. worker[s].rows \in SUBSET Rows /\ worker[s].chunk \in Nat \ {0}
            BY <2>1, FieldTypes, Zenon
          <6>2. worker[s] \in Worker
            BY <2>1 DEF ServerOK
          <6>3. QED
            BY <4>2, <6>1, <6>2
        <5>3. PICK rows \in SUBSET Rows, chunk \in Nat \ {0} :
                worker'[s] = [worker[s] EXCEPT !.rows = rows, !.chunk = chunk]
          BY <5>1, <5>2, ZenonT(30)
        <5>4. QED
          BY <5>2, <5>3, ZenonT(30) DEF Worker
      <4>4. worker[s].block < Len(ledger)
        BY <2>1, <2>6 DEF ServerOK, InBlock, IngestChunk, WorkerPCs
      <4>5. srv'[s] \in Server
        <5>1. srv'[s] = [srv[s] EXCEPT !.rng = srv[s].rng + Owned(s)]
          BY <2>6 DEF IngestChunk, TypeInv, TypeOK
        <5>2. QED
          BY <2>1, <4>1, <5>1 DEF ServerOK, Server
      <4>6. QED
        BY <2>1, <2>6, <4>3, <4>4, <4>5 DEF ServerOK, IngestChunk
    <3>4. QED
      BY <3>1, <3>2, <3>3, <1>LocalTypes
  <2>7. CASE IngestChunkOverflow(s)
    <3>1. Local(s)
      BY <2>7, ZenonT(30) DEF Local, IngestChunkOverflow, TypeInv, TypeOK
    <3>2. SharedOK' /\ DbGrows
      BY <2>1, <2>2, <2>7, <1>DbUnchanged DEF IngestChunkOverflow
    <3>3. ServerOK(s)'
      <4>1. Owned(s) \in Nat
        BY <2>7, OwnedType DEF IngestChunkOverflow
      <4>2. Outputs(<<s, srv[s].egress + 1>>, 0, Owned(s)) \in SUBSET Rows
        BY <2>1, <4>1, FieldTypes, <1>OutputsType DEF EgressKeys
      <4>3. worker'[s] \in Worker /\ worker'[s].block = worker[s].block
        <5>1. worker'[s] = [worker[s] EXCEPT
                !.rows = worker[s].rows
                           \cup Outputs(<<s, srv[s].egress + 1>>, 0, Owned(s)),
                !.chunk = worker[s].chunk + 1,
                !.pc = "rotate"]
          BY <2>7 DEF IngestChunkOverflow, TypeInv, TypeOK
        <5>2. /\ worker[s] \in Worker
              /\ worker[s].rows \cup Outputs(<<s, srv[s].egress + 1>>, 0, Owned(s))
                   \in SUBSET Rows
              /\ worker[s].chunk + 1 \in Nat \ {0}
          <6>1. worker[s].rows \in SUBSET Rows /\ worker[s].chunk \in Nat \ {0}
            BY <2>1, FieldTypes, Zenon
          <6>2. worker[s] \in Worker
            BY <2>1 DEF ServerOK
          <6>3. QED
            BY <4>2, <6>1, <6>2
        <5>3. PICK rows \in SUBSET Rows, chunk \in Nat \ {0} :
                worker'[s] = [worker[s] EXCEPT !.rows = rows, !.chunk = chunk,
                                               !.pc = "rotate"]
          BY <5>1, <5>2, ZenonT(30)
        <5>4. QED
          BY <5>2, <5>3, ZenonT(30) DEF Worker, WorkerPCs
      <4>4. worker[s].block < Len(ledger)
        BY <2>1, <2>7 DEF ServerOK, InBlock, IngestChunkOverflow, WorkerPCs
      <4>5. srv'[s] \in Server
        <5>1. srv'[s] = [srv[s] EXCEPT !.egress = srv[s].egress + 1,
                                       !.rng = Owned(s)]
          BY <2>7 DEF IngestChunkOverflow, TypeInv, TypeOK
        <5>2. srv[s] \in Server /\ srv[s].egress + 1 \in Nat
          BY <2>1, FieldTypes DEF ServerOK
        <5>3. PICK egress \in Nat, rng \in Nat :
                srv'[s] = [srv[s] EXCEPT !.egress = egress, !.rng = rng]
          BY <4>1, <5>1, <5>2, ZenonT(30)
        <5>4. QED
          BY <5>2, <5>3, ZenonT(30) DEF Server
      <4>6. QED
        BY <2>1, <2>7, <4>3, <4>4, <4>5 DEF ServerOK, IngestChunkOverflow
    <3>4. QED
      BY <3>1, <3>2, <3>3, <1>LocalTypes
  <2>8. CASE IngestChunkTooBig(s)
    <3>1. Local(s)
      BY <2>8, ZenonT(30) DEF Local, IngestChunkTooBig, TypeInv, TypeOK
    <3>2. SharedOK' /\ DbGrows
      BY <2>1, <2>2, <2>8, <1>DbUnchanged DEF IngestChunkTooBig
    <3>3. ServerOK(s)'
      <4>1. Owned(s) \in Nat
        BY <2>8, OwnedType DEF IngestChunkTooBig
      <4>2. worker'[s] \in Worker /\ worker'[s].pc = "poll"
        BY <2>1, <2>8, FieldTypes, IdleWorkerType
           DEF IngestChunkTooBig, TypeInv, TypeOK
      <4>3. srv'[s] \in Server
        <5>1. PICK done \in 0..Owned(s) :
                srv'[s] = [srv[s] EXCEPT !.egress = srv[s].egress + 1,
                                         !.rng = done]
          BY <2>8, ZenonT(30) DEF IngestChunkTooBig, TypeInv, TypeOK
        <5>2. srv[s] \in Server /\ srv[s].egress + 1 \in Nat /\ done \in Nat
          BY <2>1, <4>1, FieldTypes DEF ServerOK
        <5>3. PICK egress \in Nat, rng \in Nat :
                srv'[s] = [srv[s] EXCEPT !.egress = egress, !.rng = rng]
          BY <5>1, <5>2, ZenonT(30)
        <5>4. QED
          BY <5>2, <5>3, ZenonT(30) DEF Server
      <4>4. QED
        BY <2>1, <2>8, <4>2, <4>3 DEF ServerOK, IngestChunkTooBig, InBlock
    <3>4. QED
      BY <3>1, <3>2, <3>3, <1>LocalTypes
  <2>9. CASE RotateInvocation(s)
    <3>1. Local(s)
      BY <2>9 DEF Local, RotateInvocation, TypeInv, TypeOK
    <3>2. SharedOK' /\ DbGrows /\ NextInvocationId \in Nat
      <4>1. EgressOf(s) \in EgressKeys
        BY <2>1, FieldTypes DEF EgressOf, EgressKeys
      <4>2. /\ DbTypeOK' /\ DbGrows /\ UNCHANGED ingested_blocks
            /\ NextInvocationId \in Nat
        BY <2>1, <2>9, <4>1, FieldTypes, NewInvocationStep, ZenonT(30)
           DEF SharedOK, new_ingest_invocation, RotateInvocation
      <4>3. QED
        BY <2>1, <2>2, <2>9, <4>2, <1>DbCall DEF RotateInvocation
    <3>3. ServerOK(s)'
      <4>1. worker'[s] \in Worker /\ worker'[s].block = worker[s].block
        <5>1. \/ worker'[s] = worker[s]
              \/ worker'[s] = [worker[s] EXCEPT !.iid = NextInvocationId,
                                                !.pc = "ingest"]
          BY <2>9, ZenonT(30) DEF RotateInvocation, TypeInv, TypeOK
        <5>2. QED
          BY <2>1, <3>2, <5>1, ZenonT(30) DEF ServerOK, Worker, WorkerPCs
      <4>2. worker[s].block < Len(ledger)
        BY <2>1, <2>9 DEF ServerOK, InBlock, RotateInvocation, WorkerPCs
      <4>3. srv'[s] \in Server
        <5>1. \/ srv'[s] = srv[s]
              \/ srv'[s] = [srv[s] EXCEPT !.iid = NextInvocationId]
          BY <2>9, ZenonT(30) DEF RotateInvocation, TypeInv, TypeOK
        <5>2. QED
          BY <2>1, <3>2, <5>1 DEF ServerOK, Server
      <4>4. QED
        BY <2>1, <2>9, <4>1, <4>2, <4>3 DEF ServerOK, RotateInvocation
    <3>4. QED
      BY <3>1, <3>2, <3>3, <1>LocalTypes
  <2>10. CASE AddBlockData(s)
    <3>1. Local(s)
      BY <2>10 DEF Local, AddBlockData, TypeInv, TypeOK
    <3>2. worker[s].block < Len(ledger)
      BY <2>1, <2>10 DEF ServerOK, InBlock, AddBlockData, WorkerPCs
    <3>3. SharedOK' /\ DbGrows
      <4>1. CASE UNCHANGED db_vars
        BY <2>1, <2>2, <2>10, <4>1, <1>DbUnchanged DEF AddBlockData
      <4>2. CASE add_block_data(worker[s].iid, worker[s].block, worker[s].rows)
        <5>1. DbTypeOK' /\ DbGrows
          BY <2>1, <4>2, FieldTypes, <1>AddBlockDataStep DEF SharedOK
        <5>2. \A r \in ingested_blocks' : r.block < Len(ledger)
          BY <2>1, <3>2, <4>2 DEF add_block_data, SharedOK
        <5>3. BlocksHaveMaxima'
          BY <2>1, <3>2, <4>2, <1>AddBlockDataMaxima, FieldTypes DEF SharedOK
        <5>4. QED
          BY <2>1, <2>2, <2>10, <5>1, <5>2, <5>3 DEF SharedOK, AddBlockData
      <4>3. QED
        BY <2>10, <4>1, <4>2 DEF AddBlockData
    <3>4. ServerOK(s)'
      <4>1. worker'[s] \in Worker /\ worker'[s].block = worker[s].block
        <5>1. \/ worker'[s] = worker[s]
              \/ worker'[s] = [worker[s] EXCEPT !.pc = "won"]
              \/ worker'[s] = [worker[s] EXCEPT !.pc = "lost"]
          BY <2>10, ZenonT(30) DEF AddBlockData, TypeInv, TypeOK
        <5>2. QED
          BY <2>1, <5>1 DEF ServerOK, Worker, WorkerPCs
      <4>2. QED
        BY <2>1, <2>10, <3>2, <4>1 DEF ServerOK, AddBlockData
    <3>5. QED
      BY <3>1, <3>3, <3>4, <1>LocalTypes
  <2>11. CASE AdvanceNextBlock(s)
    <3>1. Local(s)
      BY <2>11 DEF Local, AdvanceNextBlock, TypeInv, TypeOK
    <3>2. SharedOK' /\ DbGrows
      BY <2>1, <2>2, <2>11, <1>DbUnchanged DEF AdvanceNextBlock
    <3>3. ServerOK(s)'
      <4>1. worker'[s] \in Worker /\ worker'[s].pc = "write"
        <5>1. worker'[s] = [IdleWorker(srv[s].key) EXCEPT !.pc = "write"]
          BY <2>11 DEF AdvanceNextBlock, TypeInv, TypeOK
        <5>2. "write" \in WorkerPCs /\ srv[s].key \in Keys
          BY <2>1, FieldTypes DEF WorkerPCs
        <5>3. QED
          BY <5>1, <5>2, <1>IdleWorkerAt
      <4>2. srv'[s] \in Server
        <5>1. srv'[s] = [srv[s] EXCEPT !.next = srv[s].next + 1]
          BY <2>11 DEF AdvanceNextBlock, TypeInv, TypeOK
        <5>2. QED
          BY <2>1, <5>1 DEF ServerOK, Server
      <4>3. QED
        BY <2>1, <2>11, <4>1, <4>2 DEF ServerOK, AdvanceNextBlock, InBlock
    <3>4. QED
      BY <3>1, <3>2, <3>3, <1>LocalTypes
  <2>12. CASE BackOff(s)
    <3>1. Local(s)
      BY <2>12, ZenonT(30) DEF Local, BackOff, TypeInv, TypeOK
    <3>2. SharedOK' /\ DbGrows
      <4>1. CASE UNCHANGED db_vars
        BY <2>1, <2>2, <2>12, <4>1, <1>DbUnchanged DEF BackOff
      <4>2. CASE decommission_ingest_invocation(srv[s].iid)
        <5>1. DbTypeOK' /\ DbGrows /\ UNCHANGED ingested_blocks
          BY <2>1, <4>2, FieldTypes, <1>DecommissionStep, ZenonT(30)
             DEF SharedOK, decommission_ingest_invocation
        <5>2. QED
          BY <2>1, <2>2, <2>12, <5>1, <1>DbCall DEF BackOff
      <4>3. QED
        BY <2>12, <4>1, <4>2 DEF BackOff, DecommissionInvocation
    <3>3. ServerOK(s)'
      <4>1. worker'[s] \in Worker /\ worker'[s].pc = "new_egress"
        BY <2>1, <2>12, ZenonT(30) DEF ServerOK, BackOff, Worker, WorkerPCs, TypeInv, TypeOK
      <4>2. srv'[s] \in Server
        BY <2>1, <2>12, ZenonT(30)
           DEF ServerOK, Server, BackOff, NoInvocation, TypeInv, TypeOK
      <4>3. QED
        BY <2>1, <2>12, <4>1, <4>2 DEF ServerOK, BackOff, InBlock
    <3>4. QED
      BY <3>1, <3>2, <3>3, <1>LocalTypes
  <2>13. CASE NewEgressKey(s)
    <3>1. Local(s)
      BY <2>13, ZenonT(30) DEF Local, NewEgressKey, TypeInv, TypeOK
    <3>2. SharedOK' /\ DbGrows
      BY <2>1, <2>2, <2>13, <1>DbUnchanged DEF NewEgressKey
    <3>3. ServerOK(s)'
      <4>1. worker'[s] \in Worker /\ worker'[s].pc \in {"poll", "write"}
        <5>1. \E pc \in {"poll", "write"} :
                worker'[s] = [IdleWorker(srv[s].key) EXCEPT !.pc = pc]
          BY <2>13 DEF NewEgressKey, TypeInv, TypeOK
        <5>2. {"poll", "write"} \subseteq WorkerPCs /\ srv[s].key \in Keys
          BY <2>1, FieldTypes DEF WorkerPCs
        <5>3. QED
          BY <5>1, <5>2, <1>IdleWorkerAt
      <4>2. srv'[s] \in Server
        <5>1. srv'[s] = [srv[s] EXCEPT !.egress = srv[s].egress + 1, !.rng = 0,
                                       !.lock = "free"]
          BY <2>13 DEF NewEgressKey, TypeInv, TypeOK
        <5>2. srv[s] \in Server /\ srv[s].egress + 1 \in Nat
          BY <2>1, FieldTypes DEF ServerOK
        <5>3. PICK egress \in Nat, rng \in Nat,
                   lock \in {"free", "worker", "admin", "new_keys"} :
                srv'[s] = [srv[s] EXCEPT !.egress = egress, !.rng = rng,
                                         !.lock = lock]
          BY <5>1, <5>2, ZenonT(30)
        <5>4. QED
          BY <5>2, <5>3, ZenonT(30) DEF Server
      <4>3. state_file'[s] \in StateFile /\ state_file'[s].key # NoKey
        BY <2>13, <4>2, NoKeyIsNoKey
           DEF NewEgressKey, Summary, Server, StateFile, TypeInv, TypeOK
      <4>4. QED
        BY <2>1, <2>13, <4>1, <4>2, <4>3 DEF ServerOK, NewEgressKey, InBlock
    <3>4. QED
      BY <3>1, <3>2, <3>3, <1>LocalTypes
  <2>14. CASE WriteStateFile(s)
    <3>1. Local(s)
      BY <2>14 DEF Local, WriteStateFile, TypeInv, TypeOK
    <3>2. SharedOK' /\ DbGrows
      BY <2>1, <2>2, <2>14, <1>DbUnchanged DEF WriteStateFile
    <3>3. ServerOK(s)'
      <4>1. worker'[s] \in Worker /\ worker'[s].pc = "poll"
        BY <2>1, <2>14, FieldTypes, IdleWorkerType
           DEF WriteStateFile, TypeInv, TypeOK
      <4>2. state_file'[s] \in StateFile /\ state_file'[s].key # NoKey
        BY <2>1, <2>14, NoKeyIsNoKey
           DEF ServerOK, WriteStateFile, Summary, Server, StateFile, TypeInv, TypeOK
      <4>3. QED
        BY <2>1, <2>14, <4>1, <4>2 DEF ServerOK, WriteStateFile, InBlock
    <3>4. QED
      BY <3>1, <3>2, <3>3, <1>LocalTypes
  <2>15. QED
    BY <2>3, <2>4, <2>5, <2>6, <2>7, <2>8, <2>9, <2>10, <2>11, <2>12, <2>13, <2>14
       DEF WorkerStep

\* The summary that write_state_file writes is a state file with a key.
<1>SummaryType.
      ASSUME NEW x \in Server
      PROVE  Summary(x) \in StateFile /\ Summary(x).key # NoKey
  BY <1>SummaryType, NoKeyIsNoKey DEF Summary, Server, StateFile

\* Every step of a call keeps TypeInv and only adds to the tables.
<1>AdminTypes.
      ASSUME TypeInv, NEW s \in Servers, AdminStep(s)
      PROVE  TypeInv' /\ DbGrows /\ Local(s)
  <2> USE <1>AdminTypes
  <2>1. SharedOK /\ ServerOK(s)
    BY TypeParts
  <2>2. /\ srv \in [Servers -> Server] /\ admin \in [Servers -> Admin]
        /\ worker \in [Servers -> Worker] /\ setter \in [Servers -> Setter]
        /\ state_file \in [Servers -> StateFile]
    BY DEF TypeInv, TypeOK
  <2>3. budget' \in [Kinds -> Nat]
    <3>1. \/ UNCHANGED budget \/ Spend("db_error") \/ Spend("activate")
          \/ Spend("new_keys") \/ Spend("transfer") \/ Spend("retire")
      BY ZenonT(30) DEF AdminStep, ActivateBegin, ActivateLookup, ActivateRegister,
         ActivatePublish, ActivateFail, ActivateWrite, NewKeys, SetKeyCheck,
         SetKeyApply, SetKeyWrite, Retire, SetPubkeyExpiryWindow
    <3>2. QED
      BY <2>1, <3>1, <1>SpendType DEF Kinds
  <2>4. CASE ActivateBegin(s)
    <3>1. Local(s)
      BY <2>2, <2>4 DEF Local, ActivateBegin
    <3>2. SharedOK' /\ DbGrows
      BY <2>1, <2>3, <2>4, <1>DbUnchanged DEF ActivateBegin
    <3>3. ServerOK(s)'
      <4>1. srv'[s] \in Server
        BY <2>2, <2>4, ZenonT(30) DEF ActivateBegin, Server
      <4>2. admin'[s] \in Admin
        BY <2>1, <2>2, <2>4, FieldTypes
           DEF ActivateBegin, Admin, AdminPCs, SharedOK
      <4>3. QED
        BY <2>1, <2>4, <4>1, <4>2 DEF ServerOK, ActivateBegin, InBlock
    <3>4. QED
      BY <3>1, <3>2, <3>3, <1>LocalTypes
  <2>5. CASE ActivateLookup(s)
    <3>1. Local(s)
      BY <2>2, <2>5, ZenonT(30) DEF Local, ActivateLookup
    <3>2. SharedOK' /\ DbGrows
      BY <2>1, <2>3, <2>5, <1>DbUnchanged DEF ActivateLookup
    <3>3. admin'[s] \in Admin
      <4>1. admin[s].key \in Keys /\ admin[s].start \in Nat
        BY <2>1, FieldTypes
      <4>2. ingress_keys[admin[s].key].start_block \in Nat
        BY <2>1, <4>1 DEF SharedOK, DbTypeOK, KeyStatus
      <4>3. Len(ledger) \in Nat /\ \A r \in ingested_blocks : r.block < Len(ledger)
        BY <2>1 DEF SharedOK
      <4>4. \/ get_last_scanned_block_index(admin[s].key) = NoBlock
            \/ get_last_scanned_block_index(admin[s].key) + 1 \in Nat
        BY <2>1, <4>1, <4>3, LastScanned DEF SharedOK
      <4>5. get_highest_known_block_index + 1 \in Nat
        BY <2>1, <4>3, HighestKnown DEF SharedOK, NoBlock
      <4> DEFINE known == ingress_keys[admin[s].key].exists
                 last == get_last_scanned_block_index(admin[s].key)
                 highest == get_highest_known_block_index
                 pc == IF known THEN "publish" ELSE "register"
                 start == IF known
                          THEN IF last = NoBlock
                               THEN ingress_keys[admin[s].key].start_block
                               ELSE last + 1
                          ELSE IF highest + 1 > admin[s].start THEN highest + 1
                               ELSE admin[s].start
      <4>6. admin'[s] = [admin[s] EXCEPT !.pc = pc, !.start = start]
        BY <2>2, <2>5 DEF ActivateLookup
      <4>7. start \in Nat /\ pc \in AdminPCs
        BY <4>1, <4>2, <4>4, <4>5 DEF AdminPCs
      <4> HIDE DEF pc, start
      <4>8. QED
        BY <2>2, <4>6, <4>7, ZenonT(30) DEF Admin
    <3>4. ServerOK(s)'
      BY <2>1, <2>5, <3>3 DEF ServerOK, ActivateLookup, InBlock
    <3>5. QED
      BY <3>1, <3>2, <3>4, <1>LocalTypes
  <2>6. CASE ActivateRegister(s)
    <3>1. Local(s)
      BY <2>2, <2>6 DEF Local, ActivateRegister
    <3>2. SharedOK' /\ DbGrows
      <4>1. DbTypeOK' /\ DbGrows /\ UNCHANGED ingested_blocks
        BY <2>1, <2>6, FieldTypes, <1>NewIngressKeyStep, ZenonT(30)
           DEF ActivateRegister, SharedOK, new_ingress_key
      <4>2. QED
        BY <2>1, <2>3, <2>6, <4>1, <1>DbCall DEF ActivateRegister
    <3>3. admin'[s] \in Admin
      BY <2>2, <2>6 DEF ActivateRegister, Admin, AdminPCs
    <3>4. ServerOK(s)'
      BY <2>1, <2>6, <3>3 DEF ServerOK, ActivateRegister, InBlock
    <3>5. QED
      BY <3>1, <3>2, <3>4, <1>LocalTypes
  <2>7. CASE ActivatePublish(s)
    <3>1. Local(s)
      BY <2>2, <2>7, ZenonT(30) DEF Local, ActivatePublish
    <3>2. SharedOK' /\ DbGrows
      <4>1. admin[s].key \in Keys /\ admin[s].start + srv[s].window \in Nat
        BY <2>1, FieldTypes
      <4>2. DbTypeOK' /\ DbGrows /\ UNCHANGED ingested_blocks
        BY <2>1, <2>7, <4>1, <1>SetReportStep, ZenonT(30) DEF ActivatePublish, SharedOK, set_report
      <4>3. QED
        BY <2>1, <2>3, <2>7, <4>2, <1>DbCall DEF ActivatePublish
    <3>3. srv'[s] \in Server
      <4>1. PICK start \in Nat, mode \in {"idle", "active"} :
              srv'[s] = [srv[s] EXCEPT !.next = start, !.lock = "free",
                                       !.mode = mode]
        BY <2>1, <2>2, <2>7, FieldTypes, ZenonT(30) DEF ActivatePublish
      <4>2. QED
        BY <2>2, <4>1, ZenonT(30) DEF Server
    <3>4. admin'[s] \in Admin
      <4>1. PICK pc \in {"none", "write"} :
              admin'[s] = [NoAdmin(srv[s].key) EXCEPT !.pc = pc]
        BY <2>2, <2>7 DEF ActivatePublish
      <4>2. NoAdmin(srv[s].key) \in Admin
        BY <2>1, FieldTypes, NoAdminType, ZenonT(30)
      <4>3. QED
        BY <4>1, <4>2 DEF Admin, AdminPCs
    <3>5. ServerOK(s)'
      BY <2>1, <2>7, <3>3, <3>4 DEF ServerOK, ActivatePublish, InBlock
    <3>6. QED
      BY <3>1, <3>2, <3>5, <1>LocalTypes
  <2>8. CASE ActivateFail(s)
    <3>1. Local(s)
      BY <2>2, <2>8, ZenonT(30) DEF Local, ActivateFail
    <3>2. SharedOK' /\ DbGrows
      BY <2>1, <2>3, <2>8, <1>DbUnchanged DEF ActivateFail
    <3>3. srv'[s] \in Server
      <4>1. PICK next \in Nat :
              srv'[s] = [srv[s] EXCEPT !.lock = "free", !.next = next]
        BY <2>1, <2>2, <2>8, FieldTypes, ZenonT(30) DEF ActivateFail
      <4>2. QED
        BY <2>2, <4>1, ZenonT(30) DEF Server
    <3>4. admin'[s] \in Admin
      BY <2>1, <2>2, <2>8, FieldTypes, NoAdminType, ZenonT(30) DEF ActivateFail
    <3>5. ServerOK(s)'
      BY <2>1, <2>8, <3>3, <3>4 DEF ServerOK, ActivateFail, InBlock
    <3>6. QED
      BY <3>1, <3>2, <3>5, <1>LocalTypes
  <2>9. CASE ActivateWrite(s)
    <3>1. Local(s)
      BY <2>2, <2>9 DEF Local, ActivateWrite
    <3>2. SharedOK' /\ DbGrows
      BY <2>1, <2>3, <2>9, <1>DbUnchanged DEF ActivateWrite
    <3>3. admin'[s] \in Admin
      BY <2>1, <2>2, <2>9, FieldTypes, NoAdminType, ZenonT(30) DEF ActivateWrite
    <3>4. state_file'[s] \in StateFile /\ state_file'[s].key # NoKey
      BY <2>2, <2>9, <1>SummaryType DEF ActivateWrite
    <3>5. ServerOK(s)'
      BY <2>1, <2>9, <3>3, <3>4 DEF ServerOK, ActivateWrite, InBlock
    <3>6. QED
      BY <3>1, <3>2, <3>5, <1>LocalTypes
  <2>10. CASE NewKeys(s)
    <3>1. Local(s)
      BY <2>2, <2>10, ZenonT(30) DEF Local, NewKeys
    <3>2. SharedOK' /\ DbGrows
      BY <2>1, <2>3, <2>10, <1>DbUnchanged DEF NewKeys
    <3>3. srv'[s] \in Server
      <4>1. srv[s].egress + 1 \in Nat
        BY <2>1, FieldTypes
      <4>2. PICK k \in Keys :
              srv'[s] = [srv[s] EXCEPT !.key = k, !.egress = srv[s].egress + 1,
                                       !.rng = 0, !.lock = "new_keys"]
        BY <2>2, <2>10, ZenonT(30) DEF NewKeys
      <4>3. PICK egress \in Nat, rng \in Nat,
                 lock \in {"free", "worker", "admin", "new_keys"} :
              srv'[s] = [srv[s] EXCEPT !.key = k, !.egress = egress, !.rng = rng,
                                       !.lock = lock]
        BY <4>1, <4>2, ZenonT(30)
      <4>4. QED
        BY <2>2, <4>3, ZenonT(30) DEF Server
    <3>4. state_file'[s] \in StateFile /\ state_file'[s].key # NoKey
      BY <2>2, <2>10, <3>3, <1>SummaryType DEF NewKeys
    <3>5. ServerOK(s)'
      BY <2>1, <2>10, <3>3, <3>4 DEF ServerOK, NewKeys, InBlock
    <3>6. QED
      BY <3>1, <3>2, <3>5, <1>LocalTypes
  <2>11. CASE SetKeyCheck(s)
    <3>1. Local(s)
      BY <2>2, <2>11 DEF Local, SetKeyCheck
    <3>2. SharedOK' /\ DbGrows
      BY <2>1, <2>3, <2>11, <1>DbUnchanged DEF SetKeyCheck
    <3>3. setter'[s] \in Setter /\ setter'[s].key # NoKey
      <4>1. \A t \in Servers : srv[t].key \in Keys
        BY <2>2 DEF Server
      <4>2. QED
        BY <2>2, <2>11, <4>1, NoKeyIsNoKey DEF SetKeyCheck, Setter
    <3>4. ServerOK(s)'
      BY <2>1, <2>11, <3>3 DEF ServerOK, SetKeyCheck, InBlock
    <3>5. QED
      BY <3>1, <3>2, <3>4, <1>LocalTypes
  <2>12. CASE SetKeyApply(s)
    <3>1. Local(s)
      BY <2>2, <2>12 DEF Local, SetKeyApply
    <3>2. SharedOK' /\ DbGrows
      BY <2>1, <2>3, <2>12, <1>DbUnchanged DEF SetKeyApply
    <3>3. setter'[s] \in Setter /\ setter'[s].pc = "write"
      BY <2>2, <2>12 DEF SetKeyApply, Setter
    <3>4. setter[s].key \in Keys
      BY <2>1, <2>12 DEF SetKeyApply, Setter, ServerOK
    <3>5. srv'[s] \in Server
      BY <2>2, <2>12, <3>4 DEF SetKeyApply, Server
    <3>6. ServerOK(s)'
      BY <2>1, <2>12, <3>3, <3>5 DEF ServerOK, SetKeyApply, InBlock
    <3>7. QED
      BY <3>1, <3>2, <3>6, <1>LocalTypes
  <2>13. CASE SetKeyWrite(s)
    <3>1. Local(s)
      BY <2>2, <2>13 DEF Local, SetKeyWrite
    <3>2. SharedOK' /\ DbGrows
      BY <2>1, <2>3, <2>13, <1>DbUnchanged DEF SetKeyWrite
    <3>3. setter'[s] \in Setter /\ setter'[s].pc = "none"
      BY <2>2, <2>13 DEF SetKeyWrite, NoSetter, Setter
    <3>4. state_file'[s] \in StateFile /\ state_file'[s].key # NoKey
      BY <2>2, <2>13, <1>SummaryType DEF SetKeyWrite
    <3>5. ServerOK(s)'
      BY <2>1, <2>13, <3>3, <3>4 DEF ServerOK, SetKeyWrite, InBlock
    <3>6. QED
      BY <3>1, <3>2, <3>5, <1>LocalTypes
  <2>14. CASE Retire(s, TRUE) \/ Retire(s, FALSE)
    <3>1. Local(s)
      BY <2>2, <2>14, ZenonT(30) DEF Local, Retire
    <3>2. SharedOK' /\ DbGrows
      <4>1. DbTypeOK' /\ DbGrows /\ UNCHANGED ingested_blocks
        BY <2>1, <2>14, FieldTypes, <1>RetireIngressKeyStep, ZenonT(30)
           DEF Retire, SharedOK, retire_ingress_key
      <4>2. QED
        BY <2>1, <2>3, <2>14, <4>1, <1>DbCall, ZenonT(30) DEF Retire
    <3>3. ServerOK(s)'
      BY <2>1, <2>14, ZenonT(30) DEF ServerOK, Retire, InBlock
    <3>4. QED
      BY <3>1, <3>2, <3>3, <1>LocalTypes
  <2>15. CASE \E w \in Windows : SetPubkeyExpiryWindow(s, w)
    <3>1. Local(s)
      BY <2>2, <2>15 DEF Local, SetPubkeyExpiryWindow
    <3>2. SharedOK' /\ DbGrows
      BY <2>1, <2>3, <2>15, <1>DbUnchanged DEF SetPubkeyExpiryWindow
    <3>3. srv'[s] \in Server
      BY <2>2, <2>15 DEF SetPubkeyExpiryWindow, Server
    <3>4. ServerOK(s)'
      BY <2>1, <2>15, <3>3 DEF ServerOK, SetPubkeyExpiryWindow, InBlock
    <3>5. QED
      BY <3>1, <3>2, <3>4, <1>LocalTypes
  <2>16. QED
    BY <2>4, <2>5, <2>6, <2>7, <2>8, <2>9, <2>10, <2>11, <2>12, <2>13, <2>14,
       <2>15, ZenonT(30), Zenon DEF AdminStep

\* Crashes and restarts keep TypeInv.
<1>FaultTypes.
      ASSUME TypeInv, NEW s \in Servers, FaultStep(s)
      PROVE  TypeInv' /\ DbGrows /\ Local(s)
  <2> USE <1>FaultTypes
  <2>1. SharedOK /\ ServerOK(s)
    BY TypeParts
  <2>2. /\ srv \in [Servers -> Server] /\ admin \in [Servers -> Admin]
        /\ worker \in [Servers -> Worker] /\ setter \in [Servers -> Setter]
        /\ state_file \in [Servers -> StateFile]
    BY DEF TypeInv, TypeOK
  <2>3. budget' \in [Kinds -> Nat]
    <3>1. UNCHANGED budget \/ Spend("crash")
      BY ZenonT(30) DEF FaultStep, Crash, Restart, RemoveStateFile, StartFresh
    <3>2. QED
      BY <2>1, <3>1, <1>SpendType DEF Kinds
  <2>4. SharedOK' /\ DbGrows
    BY <2>1, <2>3, <1>DbUnchanged, ZenonT(30)
       DEF FaultStep, Crash, Restart, RemoveStateFile, StartFresh
  <2>5. srv[s].egress + 1 \in Nat
    BY <2>1, FieldTypes
  <2>6. CASE Crash(s)
    <3>1. Local(s)
      BY <2>2, <2>6, ZenonT(30) DEF Local, Crash
    <3>2. srv'[s] \in Server
      <4>1. srv'[s] = [srv[s] EXCEPT !.up = FALSE, !.lock = "free",
                                     !.mode = "idle", !.iid = 0]
        BY <2>2, <2>6 DEF Crash, NoInvocation
      <4>2. PICK up \in BOOLEAN, lock \in {"free", "worker", "admin", "new_keys"},
                 mode \in {"idle", "active"}, iid \in Nat :
              srv'[s] = [srv[s] EXCEPT !.up = up, !.lock = lock, !.mode = mode,
                                       !.iid = iid]
        BY <4>1, ZenonT(30)
      <4>3. QED
        BY <2>2, <4>2, ZenonT(30) DEF Server
    <3>3. worker'[s] \in Worker /\ worker'[s].pc = "poll" /\ admin'[s] \in Admin
      BY <2>1, <2>2, <2>6, FieldTypes, IdleWorkerType, NoAdminType, ZenonT(30) DEF Crash
    <3>4. setter'[s] \in Setter /\ setter'[s].pc = "none"
      BY <2>2, <2>6 DEF Crash, NoSetter, Setter
    <3>5. /\ state_file'[s] \in StateFile
          /\ state_file'[s].readable => state_file'[s].key # NoKey
      <4>1. CASE UNCHANGED state_file
        BY <2>1, <4>1 DEF ServerOK
      <4>2. CASE state_file' = [state_file EXCEPT ![s].readable = FALSE,
                                                  ![s].key = NoKey]
        BY <2>2, <4>2, ZenonT(30) DEF StateFile
      <4>3. QED
        BY <2>6, <4>1, <4>2, ZenonT(30) DEF Crash
    <3>6. ServerOK(s)'
      BY <2>1, <3>2, <3>3, <3>4, <3>5 DEF ServerOK, InBlock
    <3>7. QED
      BY <2>4, <3>1, <3>6, <1>LocalTypes
  <2>7. CASE Restart(s)
    <3>1. Local(s)
      BY <2>2, <2>7, ZenonT(30) DEF Local, Restart
    <3>2. srv'[s] \in Server
      <4>1. state_file[s].key \in Keys
        BY <2>1, <2>7, ZenonT(30) DEF Restart, StateFile, ServerOK
      <4>2. PICK mode \in {"idle", "active"}, next \in Nat, window \in Windows,
                 k \in Keys, egress \in Nat, rng \in Nat :
              /\ mode = state_file[s].mode /\ next = state_file[s].next
              /\ window = state_file[s].window /\ k = state_file[s].key
              /\ egress = srv[s].egress + 1 /\ rng = 0
        BY <2>2, <2>5, <4>1 DEF StateFile
      <4>3. srv'[s] = [srv[s] EXCEPT !.up = TRUE, !.mode = mode, !.next = next,
                         !.window = window, !.key = k, !.egress = egress,
                         !.rng = rng]
        BY <2>2, <2>7, <4>2 DEF Restart
      <4> DEFINE x == [srv[s] EXCEPT !.up = TRUE, !.mode = mode, !.next = next]
      <4>4. x \in Server
        BY <2>2, ZenonT(30) DEF Server
      <4>5. srv'[s] = [x EXCEPT !.window = window, !.key = k, !.egress = egress,
                                !.rng = rng]
        BY <4>3
      <4> HIDE DEF x
      <4>6. QED
        BY <4>4, <4>5, ZenonT(30) DEF Server
    <3>3. state_file'[s] \in StateFile /\ state_file'[s].key # NoKey
      BY <2>2, <2>7, <3>2, <1>SummaryType DEF Restart
    <3>4. ServerOK(s)'
      BY <2>1, <2>7, <3>2, <3>3, ZenonT(30) DEF ServerOK, Restart, InBlock
    <3>5. QED
      BY <2>4, <3>1, <3>4, <1>LocalTypes
  <2>8. CASE RemoveStateFile(s)
    <3>1. Local(s)
      BY <2>2, <2>8 DEF Local, RemoveStateFile
    <3>2. srv[s].window \in Windows
      BY <2>2 DEF Server
    <3>3. state_file'[s] \in StateFile /\ ~state_file'[s].readable
      BY <2>2, <2>8, <3>2 DEF RemoveStateFile, StateFile
    <3>4. ServerOK(s)'
      BY <2>1, <2>8, <3>3 DEF ServerOK, RemoveStateFile, InBlock
    <3>5. QED
      BY <2>4, <3>1, <3>4, <1>LocalTypes
  <2>9. CASE StartFresh(s)
    <3>1. Local(s)
      BY <2>2, <2>9, ZenonT(30) DEF Local, StartFresh
    <3>2. srv'[s] \in Server
      <4>1. PICK k \in Keys :
              srv'[s] = [srv[s] EXCEPT !.up = TRUE, !.mode = "idle", !.next = 0,
                           !.key = k, !.egress = srv[s].egress + 1, !.rng = 0]
        BY <2>2, <2>9, ZenonT(30) DEF StartFresh
      <4>2. PICK egress \in Nat, rng \in Nat :
              egress = srv[s].egress + 1 /\ rng = 0
        BY <2>5
      <4> DEFINE x == [srv[s] EXCEPT !.up = TRUE, !.mode = "idle", !.next = 0]
      <4>3. x \in Server
        BY <2>2, ZenonT(30) DEF Server
      <4>4. srv'[s] = [x EXCEPT !.key = k, !.egress = egress, !.rng = rng]
        BY <4>1, <4>2
      <4> HIDE DEF x
      <4>5. QED
        BY <4>3, <4>4, ZenonT(30) DEF Server
    <3>3. state_file'[s] \in StateFile /\ state_file'[s].key # NoKey
      BY <2>2, <2>9, <3>2, <1>SummaryType DEF StartFresh
    <3>4. ServerOK(s)'
      BY <2>1, <2>9, <3>2, <3>3 DEF ServerOK, StartFresh, InBlock
    <3>5. QED
      BY <2>4, <3>1, <3>4, <1>LocalTypes
  <2>10. QED
    BY <2>6, <2>7, <2>8, <2>9 DEF FaultStep
<1>1. QED
  BY <1>WorkerTypes, <1>AdminTypes, <1>FaultTypes, Zenon

\* Freshly started servers on an empty database satisfy TypeInv.
LEMMA InitTypes == Init => TypeInv

\* The empty tables are well typed.
<1>DbInitType.
      DbInit => DbTypeOK
  BY KeysExist DEF DbInit, DbTypeOK, KeyStatus, ReportRow
<1>1. SUFFICES ASSUME Init PROVE TypeInv
  OBVIOUS
<1>2. PICK key \in [Servers -> Keys], window \in Windows :
        /\ srv = [s \in Servers |->
                    [up |-> TRUE, mode |-> "idle", next |-> 0,
                     window |-> window, iid |-> NoInvocation,
                     key |-> key[s], egress |-> 0, rng |-> 0,
                     lock |-> "free"]]
        /\ worker = [s \in Servers |-> IdleWorker(key[s])]
        /\ admin = [s \in Servers |-> NoAdmin(key[s])]
        /\ state_file = [s \in Servers |->
                           [present |-> TRUE, readable |-> TRUE,
                            mode |-> "idle", next |-> 0, window |-> window,
                            key |-> key[s]]]
  BY <1>1, ZenonT(30) DEF Init
<1>3. TypeOK
  <2>1. srv \in [Servers -> Server]
    BY <1>2 DEF Server, NoInvocation
  <2>2. worker \in [Servers -> Worker] /\ admin \in [Servers -> Admin]
    BY <1>2, IdleWorkerType, NoAdminType, ZenonT(30)
  <2>3. state_file \in [Servers -> StateFile]
    BY <1>2 DEF StateFile
  <2>4. setter \in [Servers -> Setter] /\ ledger \in Seq(Contents)
    BY <1>1 DEF Init, Setter, NoSetter
  <2>5. QED
    BY <1>1, <2>1, <2>2, <2>3, <2>4, <1>DbInitType, BoundsAreNaturals
       DEF Init, TypeOK
<1>4. InBounds
  <2>1. ingested_blocks = {} /\ \A s \in Servers : setter[s].pc = "none"
    BY <1>1 DEF Init, DbInit, NoSetter
  <2>2. \A s \in Servers : worker[s].pc = "poll" /\ state_file[s].key # NoKey
    BY <1>2, IdleWorkerType, NoKeyIsNoKey
  <2>3. QED
    BY <2>1, <2>2 DEF InBounds, InBlock
<1>5. BlocksHaveMaxima
  BY <1>1 DEF Init, DbInit, BlocksHaveMaxima, HasMax
<1>6. QED
  BY <1>3, <1>4, <1>5 DEF TypeInv

\* TypeInv is inductive, and no step takes back what the tables say.
LEMMA NextTypes == TypeInv /\ [Next]_vars => TypeInv' /\ DbGrows

\* report_lost_ingress_key sets lost and registers a range of block indices.
<1>ReportLostStep.
      ASSUME DbTypeOK, BlocksHaveMaxima,
             NEW k \in Keys, report_lost_ingress_key(k)
      PROVE  DbTypeOK' /\ DbGrows
  <2> USE <1>ReportLostStep
  <2>1. get_last_scanned_block_index(k) + 1 \in Nat
    BY LastScanned DEF NoBlock
  <2>2. ingress_keys[k] \in KeyStatus
    BY DEF DbTypeOK
  <2>3. MissedRange(k) \in MissingBlocksEvent
    BY <2>1, <2>2 DEF MissedRange, MissingBlocksEvent, KeyStatus
  <2>4. ingress_keys' \in [Keys -> KeyStatus] /\ DbGrows
    BY ZenonT(30) DEF DbTypeOK, DbGrows, report_lost_ingress_key, KeyStatus
  <2>5. user_events' \in Seq(UserEvent)
    BY <2>3 DEF DbTypeOK, report_lost_ingress_key, UserEvent
  <2>6. QED
    BY <2>4, <2>5 DEF DbTypeOK, report_lost_ingress_key

\* The steps that belong to no server.
<1>ReportLostTypes.
      ASSUME TypeInv, NEW k \in Keys, ReportLost(k)
      PROVE  TypeInv' /\ DbGrows
  <2> USE <1>ReportLostTypes
  <2>1. SharedOK /\ Len(ledger) \in Nat
    BY TypeParts DEF SharedOK
  <2>2. DbTypeOK' /\ DbGrows /\ UNCHANGED ingested_blocks
    BY <2>1, <1>ReportLostStep, ZenonT(30) DEF SharedOK, ReportLost, report_lost_ingress_key
  <2>3. QED
    BY <2>2 DEF TypeInv, TypeOK, InBounds, InBlock, BlocksHaveMaxima, ReportLost,
       thread_vars

\* A new block leaves the servers in bounds.
<1>AppendBlockTypes.
      ASSUME TypeInv, AppendBlock
      PROVE  TypeInv' /\ DbGrows
  <2> USE <1>AppendBlockTypes
  <2>1. ledger' \in Seq(Contents) /\ Len(ledger') = Len(ledger) + 1
    BY DEF TypeInv, TypeOK, AppendBlock
  <2>2. TypeOK' /\ DbGrows
    BY <2>1 DEF TypeInv, TypeOK, AppendBlock, DbTypeOK, DbGrows, db_vars
  <2>3. InBounds'
    <3>1. Len(ledger) \in Nat /\ \A r \in ingested_blocks : r.block \in Nat
      BY DEF TypeInv, TypeOK, DbTypeOK, IngestedBlock
    <3>2. \A s \in Servers : worker[s].block \in Nat
      BY DEF TypeInv, TypeOK, Worker
    <3>3. QED
      BY <2>1, <3>1, <3>2 DEF TypeInv, InBounds, InBlock, AppendBlock, db_vars
  <2>4. BlocksHaveMaxima'
    BY DEF TypeInv, BlocksHaveMaxima, AppendBlock, db_vars
  <2>5. QED
    BY <2>2, <2>3, <2>4 DEF TypeInv
<1>1. SUFFICES ASSUME TypeInv, [Next]_vars PROVE TypeInv' /\ DbGrows
  OBVIOUS
<1>2. CASE UNCHANGED vars
  BY <1>1, <1>2 DEF TypeInv, TypeOK, InBounds, InBlock, BlocksHaveMaxima,
     DbTypeOK, DbGrows, vars, thread_vars, db_vars
<1>3. CASE Next
  BY <1>1, <1>3, ServerTypes, <1>ReportLostTypes,
     <1>AppendBlockTypes DEF Next
<1>4. QED
  BY <1>1, <1>2, <1>3

\* The ingest servers and the recovery database stay within the types that
\* controller_state.rs, state_file.rs and the database schema give their
\* fields, for every number of servers, keys and blocks, and with or without
\* the race of key transfers.
THEOREM TypesCorrect == Spec => []TypeOK
<1>1. Spec => []TypeInv
  BY InitTypes, NextTypes, PTL DEF Spec
<1>2. TypeInv => TypeOK
  BY DEF TypeInv
<1>3. QED
  BY <1>1, <1>2, PTL

-----------------------------------------------------------------------------
(* Scanned blocks have no gaps. *)

\* Facts about the tables that stay true as the tables grow.
FactsKept ==
    /\ \A k \in Keys, n \in Nat : Covered(k, n) => Covered(k, n)'
    /\ \A k \in Keys, i \in Nat : InvocationOf(i, k) => InvocationOf(i, k)'
    /\ \A k \in Keys, b \in Nat : b \in Scanned(k) => b \in Scanned(k)'

\* ScanInv is an invariant: an active server, a state file of an active server
\* and a call about to make a server active all point at a block up to which
\* the key's blocks are scanned, in every interleaving of the servers' threads.
THEOREM ScanInvariant ==
    ASSUME KeyRace = FALSE
    PROVE  Spec => [](TypeInv /\ ScanInv)

\* What the tables say of a key, an invocation or a block they go on saying.
<1>GrowthKeepsFacts.
      ASSUME DbGrows
      PROVE  FactsKept
  <2> USE <1>GrowthKeepsFacts
  <2>1. \A k \in Keys : Scanned(k) \subseteq Scanned(k)'
    BY DEF DbGrows, Scanned
  <2>2. \A k \in Keys, n \in Nat : Covered(k, n) => Covered(k, n)'
    BY <2>1 DEF DbGrows, Covered
  <2>3. \A k \in Keys, i \in Nat : InvocationOf(i, k) => InvocationOf(i, k)'
    BY DEF DbGrows, InvocationOf
  <2>4. QED
    BY <2>1, <2>2, <2>3 DEF FactsKept

\* Nothing but publishing a block can make a gap.
<1>ContiguityKept.
      ASSUME ScansContiguous, DbGrows, UNCHANGED ingested_blocks
      PROVE  ScansContiguous'
  <2> USE <1>ContiguityKept
  <2>1. \A k \in Keys : Scanned(k)' = Scanned(k)
    BY DEF Scanned
  <2>2. QED
    BY <2>1 DEF ScansContiguous, DbGrows

\* A step of one server does not disturb what another relies on.
<1>OtherServers.
      ASSUME TypeInv, FactsKept, NEW s \in Servers, Local(s),
             NEW t \in Servers, t # s, ServerInv(t)
      PROVE  ServerInv(t)'
  <2> USE <1>OtherServers
  <2>1. ServerOK(t)
    BY TypeParts
  <2>2. /\ srv'[t] = srv[t] /\ worker'[t] = worker[t] /\ admin'[t] = admin[t]
        /\ setter'[t] = setter[t] /\ state_file'[t] = state_file[t]
    BY DEF Local, TypeInv, TypeOK
  <2>3. /\ srv[t].key \in Keys /\ srv[t].next \in Nat /\ srv[t].iid \in Nat
        /\ worker[t].key \in Keys /\ worker[t].block \in Nat
        /\ worker[t].iid \in Nat /\ admin[t].key \in Keys /\ admin[t].start \in Nat
    BY <2>1, FieldTypes
  <2>4. state_file[t].readable => state_file[t].key \in Keys /\ state_file[t].next \in Nat
    BY <2>1 DEF ServerOK, StateFile
  <2>5. QED
    BY <2>2, <2>3, <2>4, ZenonT(60) DEF FactsKept, ServerInv, InBlock

\* So it is enough to look at the server that takes the step.
<1>LocalScan.
      ASSUME TypeInv, ScanInv, FactsKept, NEW s \in Servers, Local(s),
             ScansContiguous', ServerInv(s)'
      PROVE  ScanInv'
  BY <1>LocalScan, <1>OtherServers DEF ScanInv

\* No step of process_next_block breaks ScanInv.
<1>WorkerScan.
      ASSUME TypeInv, ScanInv, NEW s \in Servers, WorkerStep(s)
      PROVE  ScanInv'
  <2> USE <1>WorkerScan
  <2>1. Local(s) /\ DbGrows /\ TypeInv'
    BY ServerTypes
  <2>2. FactsKept
    BY <2>1, <1>GrowthKeepsFacts
  <2>3. ServerOK(s) /\ ServerInv(s) /\ ScansContiguous
    BY TypeParts DEF ScanInv
  <2>4. /\ srv[s].key \in Keys /\ srv[s].next \in Nat /\ srv[s].iid \in Nat
        /\ worker[s].key \in Keys /\ worker[s].block \in Nat
        /\ worker[s].iid \in Nat /\ admin[s].key \in Keys /\ admin[s].start \in Nat
    BY <2>3, FieldTypes
  <2>5. /\ srv \in [Servers -> Server] /\ worker \in [Servers -> Worker]
        /\ state_file \in [Servers -> StateFile]
    BY DEF TypeInv, TypeOK
  <2>6. state_file[s].readable => state_file[s].key \in Keys /\ state_file[s].next \in Nat
    BY <2>3 DEF ServerOK, StateFile
  <2>7. SUFFICES ScansContiguous' /\ ServerInv(s)'
    BY <2>1, <2>2, <1>LocalScan
  <2>8. CASE BeginBlock(s)
    <3>1. /\ worker'[s].pc = "publish" /\ worker'[s].block = srv[s].next
          /\ worker'[s].key = srv[s].key
      BY <2>5, <2>8 DEF BeginBlock, IdleWorker
    <3>2. ScansContiguous'
      BY <2>1, <2>3, <2>8, <1>ContiguityKept DEF BeginBlock, db_vars
    <3>3. ServerInv(s)'
      BY <2>2, <2>3, <2>4, <2>6, <2>8, <3>1
         DEF BeginBlock, ServerInv, InBlock, FactsKept
    <3>4. QED
      BY <3>2, <3>3
  <2>9. CASE PublishReport(s)
    <3>1. /\ worker[s].pc = "publish" /\ srv[s].lock = "free"
          /\ worker'[s].pc \in {"retired", "invocation"}
          /\ worker'[s].block = worker[s].block /\ worker'[s].key = worker[s].key
          /\ worker'[s].iid = worker[s].iid
          /\ srv'[s] = [srv[s] EXCEPT !.lock = "worker"]
          /\ UNCHANGED <<ledger, admin, setter, state_file>>
      BY <2>5, <2>9 DEF PublishReport, Worker
    <3>2. ScansContiguous'
      BY <2>1, <2>3, <2>9, <1>ContiguityKept DEF PublishReport, db_vars, set_report
    <3>3. /\ srv'[s].mode = srv[s].mode /\ srv'[s].up = srv[s].up
          /\ srv'[s].key = srv[s].key /\ srv'[s].next = srv[s].next
          /\ srv'[s].iid = srv[s].iid
      BY <2>5, <3>1 DEF Server
    <3>4. ServerInv(s)'
      BY <2>2, <2>3, <2>4, <2>6, <3>1, <3>3
         DEF ServerInv, InBlock, FactsKept, WorkerPCs
    <3>5. QED
      BY <3>2, <3>4
  <2>10. CASE EnsureInvocation(s)
    <3>1. /\ worker[s].pc = "invocation" /\ worker'[s].pc = "ingest"
          /\ worker'[s].block = worker[s].block /\ worker'[s].key = worker[s].key
          /\ UNCHANGED <<ledger, admin, setter, state_file>>
      BY <2>5, <2>10 DEF EnsureInvocation, Worker
    <3>2. /\ srv'[s].mode = srv[s].mode /\ srv'[s].up = srv[s].up
          /\ srv'[s].key = srv[s].key /\ srv'[s].next = srv[s].next
      <4>1. \/ srv' = [srv EXCEPT ![s].iid = NextInvocationId, ![s].lock = "free"]
            \/ srv' = [srv EXCEPT ![s].lock = "free"]
        BY <2>10 DEF EnsureInvocation
      <4>2. QED
        BY <2>5, <4>1 DEF Server
    <3>3. PICK iid \in Nat :
            /\ iid \in DOMAIN ingest_invocations'
            /\ ingest_invocations'[iid].ingress_key = worker[s].key
            /\ srv'[s].iid = iid /\ worker'[s].iid = iid
      <4>1. CASE srv[s].iid = NoInvocation
        <5>1. <<s, worker[s].egress>> \in EgressKeys /\ NoInvocation \in Nat
          BY <2>3, FieldTypes, TypeParts DEF EgressKeys, NoInvocation
        <5>2. /\ NextInvocationId \in Nat
              /\ NextInvocationId \in DOMAIN ingest_invocations'
              /\ ingest_invocations'[NextInvocationId].ingress_key = worker[s].key
          BY <2>4, <2>10, <4>1, <5>1, NewInvocationStep
             DEF EnsureInvocation, TypeInv, TypeOK
        <5>3. srv'[s].iid = NextInvocationId /\ worker'[s].iid = NextInvocationId
          BY <2>5, <2>10, <4>1 DEF EnsureInvocation, Server, Worker
        <5>4. QED
          BY <5>2, <5>3
      <4>2. CASE srv[s].iid # NoInvocation
        <5>1. InvocationOf(srv[s].iid, srv[s].key) /\ srv[s].key = worker[s].key
          BY <2>3, <3>1, <4>2 DEF ServerInv, InBlock, WorkerPCs
        <5>2. srv'[s].iid = srv[s].iid /\ worker'[s].iid = srv[s].iid
          BY <2>5, <2>10, <4>2 DEF EnsureInvocation, Server, Worker
        <5>3. QED
          BY <2>1, <2>4, <5>1, <5>2 DEF InvocationOf, DbGrows
      <4>3. QED
        BY <4>1, <4>2
    <3>4. ScansContiguous'
      BY <2>1, <2>3, <2>10, <1>ContiguityKept
         DEF EnsureInvocation, db_vars, new_ingest_invocation
    <3>5. ServerInv(s)'
      <4>1. /\ srv[s].mode = "active" /\ srv[s].up /\ worker[s].block = srv[s].next
            /\ worker[s].key = srv[s].key /\ Covered(srv[s].key, srv[s].next)
        BY <2>3, <3>1, Zenon DEF ServerInv, InBlock, WorkerPCs
      <4>2. \A k, n : k = srv[s].key /\ n = srv[s].next => Covered(k, n)'
        BY <2>2, <2>4, <4>1, ZenonT(60) DEF FactsKept
      <4>3. admin[s].pc \notin {"lookup", "register", "publish"}
        BY <2>3, <4>1 DEF ServerInv
      <4>4. state_file[s].present /\ state_file[s].readable
               /\ state_file[s].mode = "active" =>
              \A k, n : k = state_file[s].key /\ n = state_file[s].next => Covered(k, n)'
        BY <2>2, <2>3, <2>6, Zenon DEF ServerInv, FactsKept
      <4>5. \A i, k : i = iid /\ k = worker[s].key => InvocationOf(i, k)'
        BY <3>3, Zenon DEF InvocationOf
      <4>6. QED
        BY <3>1, <3>2, <3>3, <4>1, <4>2, <4>3, <4>4, <4>5 DEF ServerInv, InBlock
    <3>6. QED
      BY <3>4, <3>5
  <2>11. CASE IngestChunk(s) \/ IngestChunkOverflow(s)
    <3>1. /\ worker[s].pc = "ingest" /\ worker'[s].pc \in {"ingest", "rotate"}
          /\ worker'[s].block = worker[s].block /\ worker'[s].key = worker[s].key
          /\ worker'[s].iid = worker[s].iid
          /\ UNCHANGED <<db_vars, ledger, admin, setter, state_file>>
      BY <2>5, <2>11 DEF IngestChunk, IngestChunkOverflow, Worker
    <3>2. /\ srv'[s].mode = srv[s].mode /\ srv'[s].up = srv[s].up
          /\ srv'[s].key = srv[s].key /\ srv'[s].next = srv[s].next
          /\ srv'[s].iid = srv[s].iid /\ srv'[s].lock = srv[s].lock
      BY <2>5, <2>11 DEF IngestChunk, IngestChunkOverflow, Server
    <3>3. ScansContiguous'
      BY <2>1, <2>3, <3>1, <1>ContiguityKept DEF db_vars
    <3>4. ServerInv(s)'
      BY <2>2, <2>3, <2>4, <2>6, <3>1, <3>2, Zenon
         DEF ServerInv, InBlock, FactsKept, WorkerPCs
    <3>5. QED
      BY <3>3, <3>4
  <2>12. CASE IngestChunkTooBig(s)
    <3>1. /\ worker[s].pc = "ingest" /\ worker'[s].pc = "poll"
          /\ UNCHANGED <<db_vars, ledger, admin, setter, state_file>>
      BY <2>5, <2>12 DEF IngestChunkTooBig, IdleWorker
    <3>2. /\ srv'[s].mode = srv[s].mode /\ srv'[s].up = srv[s].up
          /\ srv'[s].key = srv[s].key /\ srv'[s].next = srv[s].next
          /\ srv'[s].iid = srv[s].iid /\ srv'[s].lock = srv[s].lock
      BY <2>5, <2>12, ZenonT(60) DEF IngestChunkTooBig, Server
    <3>3. ScansContiguous'
      BY <2>1, <2>3, <3>1, <1>ContiguityKept DEF db_vars
    <3>4. ServerInv(s)'
      BY <2>2, <2>3, <2>4, <2>6, <3>1, <3>2, Zenon
         DEF ServerInv, InBlock, FactsKept
    <3>5. QED
      BY <3>3, <3>4
  <2>13. CASE RotateInvocation(s)
    <3>1. /\ worker[s].pc = "rotate"
          /\ worker'[s].block = worker[s].block /\ worker'[s].key = worker[s].key
          /\ UNCHANGED <<ledger, admin, setter, state_file>>
      BY <2>5, <2>13 DEF RotateInvocation, Worker
    <3>2. /\ srv'[s].mode = srv[s].mode /\ srv'[s].up = srv[s].up
          /\ srv'[s].key = srv[s].key /\ srv'[s].next = srv[s].next
          /\ srv'[s].lock = srv[s].lock
      <4>1. UNCHANGED srv \/ srv' = [srv EXCEPT ![s].iid = NextInvocationId]
        BY <2>13 DEF RotateInvocation
      <4>2. QED
        BY <2>5, <4>1 DEF Server
    <3>3. /\ NextInvocationId \in DOMAIN ingest_invocations'
          /\ ingest_invocations'[NextInvocationId].ingress_key = worker[s].key
      <4>1. EgressOf(s) \in EgressKeys
        BY <2>3, FieldTypes, TypeParts DEF EgressOf, EgressKeys
      <4>2. QED
        BY <2>4, <2>13, <4>1, NewInvocationStep DEF RotateInvocation, TypeInv, TypeOK
    <3>4. \/ /\ worker'[s].pc = "ingest" /\ worker'[s].iid = NextInvocationId
             /\ srv'[s].iid = NextInvocationId
          \/ UNCHANGED <<srv, worker>>
      BY <2>5, <2>13 DEF RotateInvocation, Server, Worker
    <3>5. ScansContiguous'
      BY <2>1, <2>3, <2>13, <1>ContiguityKept
         DEF RotateInvocation, new_ingest_invocation
    <3>6. ServerInv(s)'
      <4>1. CASE UNCHANGED <<srv, worker>>
        <5>1. /\ srv'[s] = srv[s] /\ worker'[s] = worker[s] /\ admin'[s] = admin[s]
              /\ setter'[s] = setter[s] /\ state_file'[s] = state_file[s]
          BY <3>1, <4>1, Zenon
        <5>2. QED
          BY <2>2, <2>3, <2>4, <2>6, <5>1, ZenonT(60) DEF ServerInv, InBlock, FactsKept
      <4>2. CASE /\ worker'[s].pc = "ingest" /\ worker'[s].iid = NextInvocationId
                 /\ srv'[s].iid = NextInvocationId
        <5>1. /\ srv[s].mode = "active" /\ srv[s].up
              /\ Covered(srv[s].key, srv[s].next)
              /\ worker[s].block = srv[s].next /\ worker[s].key = srv[s].key
          BY <2>3, <3>1, ZenonT(60) DEF ServerInv, InBlock, WorkerPCs
        <5>2. /\ InvocationOf(srv[s].iid, srv[s].key)'
              /\ InvocationOf(worker[s].iid, worker[s].key)'
          BY <3>1, <3>2, <3>3, <4>2, <5>1, ZenonT(60) DEF InvocationOf
        <5>3. Covered(srv[s].key, srv[s].next)'
          BY <2>2, <2>4, <3>2, <5>1, ZenonT(60) DEF FactsKept
        <5>4. state_file[s].present /\ state_file[s].readable
                 /\ state_file[s].mode = "active" =>
                Covered(state_file[s].key, state_file[s].next)'
          BY <2>2, <2>3, <2>6, <3>1, ZenonT(60) DEF ServerInv, FactsKept
        <5>5. admin[s].pc \notin {"lookup", "register", "publish"}
          BY <2>3, <5>1, ZenonT(60) DEF ServerInv
        <5>6. QED
          BY <3>1, <3>2, <4>2, <5>1, <5>2, <5>3, <5>4, <5>5, ZenonT(60)
             DEF ServerInv
      <4>3. QED
        BY <3>4, <4>1, <4>2, Zenon
    <3>7. QED
      BY <3>5, <3>6
  <2>14. CASE AddBlockData(s)
    <3>1. PICK K \in Keys, b \in Nat : K = srv[s].key /\ b = worker[s].block
      BY <2>4
    <3>2. /\ worker[s].pc = "ingest"
          /\ worker'[s].block = worker[s].block /\ worker'[s].key = worker[s].key
          /\ worker'[s].iid = worker[s].iid
          /\ UNCHANGED <<ledger, srv, admin, setter, state_file>>
      BY <2>5, <2>14 DEF AddBlockData, Worker
    <3>3. /\ srv[s].mode = "active" /\ b = srv[s].next /\ worker[s].key = K
          /\ InvocationOf(worker[s].iid, K) /\ Covered(K, b)
      BY <2>3, <3>1, <3>2, Zenon DEF ServerInv, InBlock, WorkerPCs
    <3>4. CASE add_block_data(worker[s].iid, b, worker[s].rows)
      <4>1. /\ Scanned(K)' = Scanned(K) \cup {b}
            /\ \A k \in Keys : k # K => Scanned(k)' = Scanned(k)
        <5> DEFINE row ==
              [iid |-> worker[s].iid,
               ingress_key |-> ingest_invocations[worker[s].iid].ingress_key,
               block |-> b, rows |-> worker[s].rows]
        <5>1. ingested_blocks' = ingested_blocks \cup {row}
          BY <3>4, ZenonT(60) DEF add_block_data
        <5>2. row.ingress_key = K /\ row.block = b
          BY <3>3 DEF InvocationOf
        <5> HIDE DEF row
        <5>3. QED
          BY <5>1, <5>2 DEF Scanned
      <4>2. UNCHANGED ingress_keys
        BY <3>4 DEF add_block_data
      <4>3. ScansContiguous'
        <5>1. SUFFICES ASSUME NEW k \in Keys, NEW c \in Scanned(k)'
                       PROVE  /\ ingress_keys[k].exists
                              /\ ingress_keys[k].start_block <= c
                              /\ \A d \in ingress_keys[k].start_block..c :
                                   d \in Scanned(k)'
          BY <4>2 DEF ScansContiguous
        <5>2. CASE c \in Scanned(k)
          BY <2>3, <4>1, <5>2 DEF ScansContiguous
        <5>3. CASE k = K /\ c = b
          <6>1. ingress_keys[K].start_block \in Nat
            BY DEF TypeInv, TypeOK, DbTypeOK, KeyStatus
          <6>2. \A d \in ingress_keys[K].start_block..b :
                  d = b \/ d \in ingress_keys[K].start_block..(b - 1)
            BY <6>1
          <6>3. QED
            BY <3>3, <4>1, <5>3, <6>2 DEF Covered
        <5>4. QED
          BY <4>1, <5>2, <5>3
      <4>4. b \in Scanned(K)'
        BY <4>1
      <4>5. worker'[s].pc \in {"ingest", "won"}
        BY <2>5, <2>14, <3>1, <3>4 DEF AddBlockData, add_block_data, Worker
      <4>6. ServerInv(s)'
        BY <2>2, <2>3, <2>4, <2>6, <3>1, <3>2, <3>3, <4>4, <4>5, ZenonT(60)
           DEF ServerInv, InBlock, FactsKept, WorkerPCs
      <4>7. QED
        BY <4>3, <4>6
    <3>5. CASE ~add_block_data(worker[s].iid, b, worker[s].rows)
      <4>1. UNCHANGED db_vars /\ worker'[s].pc = "lost"
        BY <2>5, <2>14, <3>1, <3>5 DEF AddBlockData, Worker
      <4>2. ScansContiguous'
        BY <2>1, <2>3, <4>1, <1>ContiguityKept DEF db_vars
      <4>3. ServerInv(s)'
        BY <2>2, <2>3, <2>4, <2>6, <3>1, <3>2, <3>3, <4>1, ZenonT(30)
           DEF ServerInv, InBlock, FactsKept, WorkerPCs
      <4>4. QED
        BY <4>2, <4>3
    <3>6. QED
      BY <3>4, <3>5
  <2>15. CASE AdvanceNextBlock(s)
    <3>1. /\ worker[s].pc = "won" /\ srv[s].lock = "free" /\ worker'[s].pc = "write"
          /\ UNCHANGED <<db_vars, ledger, admin, setter, state_file>>
      BY <2>5, <2>15 DEF AdvanceNextBlock, IdleWorker
    <3>2. /\ srv'[s].mode = srv[s].mode /\ srv'[s].up = srv[s].up
          /\ srv'[s].key = srv[s].key /\ srv'[s].next = srv[s].next + 1
          /\ srv'[s].iid = srv[s].iid
      BY <2>5, <2>15, ZenonT(30) DEF AdvanceNextBlock, Server
    <3>3. Covered(srv[s].key, srv[s].next + 1)
      <4>1. /\ Covered(srv[s].key, srv[s].next)
            /\ srv[s].next \in Scanned(srv[s].key)
        BY <2>3, <3>1, ZenonT(30) DEF ServerInv, InBlock, WorkerPCs
      <4>2. ingress_keys[srv[s].key].start_block \in Nat
        BY <2>4 DEF TypeInv, TypeOK, DbTypeOK, KeyStatus
      <4>3. QED
        BY <2>4, <4>1, <4>2 DEF Covered
    <3>4. \A k \in Keys, n \in Nat : Covered(k, n) => Covered(k, n)'
      BY <2>2 DEF FactsKept
    <3>5. ScansContiguous'
      BY <2>1, <2>3, <3>1, <1>ContiguityKept DEF db_vars
    <3>6. srv[s].next + 1 \in Nat
      BY <2>4
    <3>7. ServerInv(s)'
      BY <2>2, <2>3, <2>4, <2>6, <3>1, <3>2, <3>3, <3>4, <3>6, ZenonT(60)
         DEF ServerInv, InBlock, FactsKept, WorkerPCs
    <3>8. QED
      BY <3>5, <3>7
  <2>16. CASE BackOff(s)
    <3>1. /\ worker'[s].pc = "new_egress" /\ InBlock(s)
          /\ UNCHANGED <<ledger, admin, setter, state_file>>
      BY <2>5, <2>16 DEF BackOff, InBlock, WorkerPCs
    <3>2. /\ srv'[s].mode = "idle" /\ srv'[s].iid = NoInvocation
          /\ srv'[s].lock = "worker"
          /\ srv'[s].up = srv[s].up /\ srv[s].up
      BY <2>5, <2>16, ZenonT(30) DEF BackOff, Server
    <3>3. ScansContiguous'
      BY <2>1, <2>3, <2>16, <1>ContiguityKept
         DEF BackOff, DecommissionInvocation, decommission_ingest_invocation, db_vars
    <3>4. ServerInv(s)'
      BY <2>2, <2>3, <2>4, <2>6, <3>1, <3>2, ZenonT(30) DEF ServerInv, InBlock, FactsKept
    <3>5. QED
      BY <3>3, <3>4
  <2>17. CASE NewEgressKey(s)
    <3>1. /\ worker'[s].pc \in {"poll", "write"}
          /\ UNCHANGED <<db_vars, ledger, admin, setter>>
      BY <2>5, <2>17 DEF NewEgressKey, IdleWorker
    <3>2. /\ srv'[s].mode = srv[s].mode /\ srv'[s].up = srv[s].up
          /\ srv'[s].key = srv[s].key /\ srv'[s].next = srv[s].next
          /\ srv'[s].iid = srv[s].iid /\ srv[s].up
      BY <2>5, <2>17, ZenonT(30) DEF NewEgressKey, Server
    <3>3. state_file'[s].mode = srv'[s].mode /\ state_file'[s].next = srv'[s].next
          /\ state_file'[s].key = srv'[s].key
      BY <2>5, <2>17 DEF NewEgressKey, Summary
    <3>4. ScansContiguous'
      BY <2>1, <2>3, <3>1, <1>ContiguityKept DEF db_vars
    <3>5. worker[s].pc = "new_egress"
      BY <2>17 DEF NewEgressKey
    <3>6. ServerInv(s)'
      BY <2>2, <2>3, <2>4, <3>1, <3>2, <3>3, <3>5, ZenonT(30) DEF ServerInv, InBlock, FactsKept
    <3>7. QED
      BY <3>4, <3>6
  <2>18. CASE WriteStateFile(s)
    <3>1. /\ worker'[s].pc = "poll" /\ srv[s].up
          /\ state_file'[s] = Summary(srv[s])
          /\ UNCHANGED <<db_vars, ledger, srv, admin, setter>>
      BY <2>5, <2>18 DEF WriteStateFile, IdleWorker
    <3>2. ScansContiguous'
      BY <2>1, <2>3, <3>1, <1>ContiguityKept DEF db_vars
    <3>3. /\ state_file'[s].mode = srv[s].mode /\ state_file'[s].next = srv[s].next
          /\ state_file'[s].key = srv[s].key
      BY <3>1 DEF Summary
    <3>4. ServerInv(s)'
      BY <2>2, <2>3, <2>4, <3>1, <3>3, Zenon DEF ServerInv, InBlock, FactsKept
    <3>5. QED
      BY <3>2, <3>4
  <2>19. QED
    BY <2>8, <2>9, <2>10, <2>11, <2>12, <2>13, <2>14, <2>15, <2>16, <2>17, <2>18
       DEF WorkerStep

\* No step of activate, new_keys, a key transfer, retire or
\* set_pubkey_expiry_window breaks ScanInv.
<1>AdminScan.
      ASSUME KeyRace = FALSE, TypeInv, ScanInv, NEW s \in Servers, AdminStep(s)
      PROVE  ScanInv'
  <2> USE <1>AdminScan
  <2>1. Local(s) /\ DbGrows /\ TypeInv'
    BY ServerTypes
  <2>2. FactsKept
    BY <2>1, <1>GrowthKeepsFacts
  <2>3. ServerOK(s) /\ ServerInv(s) /\ ScansContiguous
    BY TypeParts DEF ScanInv
  <2>4. /\ srv[s].key \in Keys /\ srv[s].next \in Nat /\ srv[s].iid \in Nat
        /\ worker[s].key \in Keys /\ worker[s].block \in Nat
        /\ worker[s].iid \in Nat /\ admin[s].key \in Keys /\ admin[s].start \in Nat
    BY <2>3, FieldTypes
  <2>5. /\ srv \in [Servers -> Server] /\ admin \in [Servers -> Admin]
        /\ setter \in [Servers -> Setter] /\ state_file \in [Servers -> StateFile]
    BY DEF TypeInv, TypeOK
  <2>6. state_file[s].readable => state_file[s].key \in Keys /\ state_file[s].next \in Nat
    BY <2>3 DEF ServerOK, StateFile
  <2>7. ingested_blocks' = ingested_blocks
    BY ZenonT(30) DEF AdminStep, ActivateBegin, ActivateLookup, ActivateRegister,
       ActivatePublish, ActivateFail, ActivateWrite, NewKeys, SetKeyCheck,
       SetKeyApply, SetKeyWrite, Retire, SetPubkeyExpiryWindow, db_vars,
       new_ingress_key, retire_ingress_key, set_report
  <2>8. SUFFICES ServerInv(s)'
    BY <2>1, <2>2, <2>3, <2>7, <1>ContiguityKept, <1>LocalScan
  <2>9. CASE ActivateBegin(s)
    <3>1. /\ srv[s].mode = "idle" /\ srv[s].lock = "free" /\ srv[s].up
          /\ admin'[s].pc = "lookup" /\ admin'[s].key = srv[s].key
          /\ UNCHANGED <<worker, setter, state_file>>
      BY <2>5, <2>9 DEF ActivateBegin
    <3>2. /\ srv'[s].mode = srv[s].mode /\ srv'[s].up = srv[s].up
          /\ srv'[s].key = srv[s].key /\ srv'[s].next = srv[s].next
          /\ srv'[s].iid = srv[s].iid /\ srv'[s].lock = "admin"
      BY <2>5, <2>9, ZenonT(30) DEF ActivateBegin, Server
    <3>3. QED
      BY <2>2, <2>3, <2>4, <2>6, <3>1, <3>2, ZenonT(30) DEF ServerInv, InBlock, FactsKept
  <2>10. CASE ActivateLookup(s)
    <3>1. /\ admin[s].pc = "lookup" /\ admin'[s].pc \in {"register", "publish"}
          /\ srv[s].up /\ UNCHANGED <<db_vars, srv, worker, setter, state_file>>
          /\ admin'[s].key = admin[s].key
      BY <2>5, <2>10 DEF ActivateLookup, Admin
    <3>2. ASSUME admin'[s].pc = "publish"
          PROVE  Covered(admin[s].key, admin'[s].start)
      <4>1. PICK k \in Keys : k = admin[s].key
        BY <2>4
      <4>2. DbTypeOK /\ BlocksHaveMaxima
        BY TypeParts DEF SharedOK
      <4>3. ingress_keys[k].exists
        BY <2>5, <2>10, <3>2, <4>1 DEF ActivateLookup, Admin
      <4>4. ingress_keys[k].start_block \in Nat
        BY <4>2 DEF DbTypeOK, KeyStatus
      <4>5. CASE get_last_scanned_block_index(k) = NoBlock
        <5>1. admin'[s].start = ingress_keys[k].start_block
          BY <2>5, <2>10, <4>1, <4>3, <4>5 DEF ActivateLookup, Admin
        <5>2. QED
          BY <4>1, <4>3, <4>4, <5>1 DEF Covered
      <4>6. CASE get_last_scanned_block_index(k) # NoBlock
        <5>1. admin'[s].start = get_last_scanned_block_index(k) + 1
          BY <2>5, <2>10, <4>1, <4>3, <4>6 DEF ActivateLookup, Admin
        <5>2. /\ get_last_scanned_block_index(k) \in Scanned(k)
              /\ get_last_scanned_block_index(k) \in Nat
          BY <4>2, <4>6, LastScanned
        <5>3. PICK last \in Nat : last = get_last_scanned_block_index(k)
          BY <5>2
        <5>4. /\ ingress_keys[k].start_block <= last
              /\ \A b \in ingress_keys[k].start_block..last : b \in Scanned(k)
          BY <2>3, <5>2, <5>3 DEF ScansContiguous
        <5>5. QED
          BY <4>1, <4>3, <4>4, <5>1, <5>3, <5>4 DEF Covered
      <4>7. QED
        BY <4>5, <4>6
    <3>3. admin'[s].start \in Nat
      BY <2>1 DEF TypeInv, TypeOK, Admin
    <3>4. QED
      BY <2>2, <2>3, <2>4, <2>6, <3>1, <3>2, <3>3, Zenon DEF ServerInv, InBlock, FactsKept
  <2>11. CASE ActivateRegister(s)
    <3>1. /\ admin[s].pc = "register" /\ admin'[s].pc = "publish"
          /\ admin'[s].key = admin[s].key /\ admin'[s].start = admin[s].start
          /\ UNCHANGED <<srv, worker, setter, state_file>>
      BY <2>5, <2>11 DEF ActivateRegister, Admin
    <3>2. PICK k \in Keys, start \in Nat : k = admin[s].key /\ start = admin[s].start
      BY <2>4
    <3>3. /\ ingress_keys'[k].exists
          /\ ingress_keys'[k].start_block = start
      BY <2>11, <3>2 DEF ActivateRegister, new_ingress_key, TypeInv, TypeOK, DbTypeOK
    <3>4. Covered(k, start)'
      BY <3>3 DEF Covered
    <3>5. QED
      BY <2>2, <2>3, <2>4, <2>6, <3>1, <3>2, <3>4, ZenonT(30) DEF ServerInv, InBlock, FactsKept
  <2>12. CASE ActivatePublish(s)
    <3>1. /\ admin[s].pc = "publish" /\ admin'[s].pc \in {"none", "write"}
          /\ srv[s].up /\ UNCHANGED <<worker, setter, state_file>>
      BY <2>5, <2>12 DEF ActivatePublish, NoAdmin
    <3>2. /\ srv'[s].mode \in {"idle", "active"} /\ srv'[s].up = srv[s].up
          /\ srv'[s].key = srv[s].key /\ srv'[s].next = admin[s].start
          /\ srv'[s].iid = srv[s].iid
      BY <2>5, <2>12, ZenonT(30) DEF ActivatePublish, Server
    <3>3. /\ Covered(admin[s].key, admin[s].start) /\ admin[s].key = srv[s].key
          /\ srv[s].mode = "idle" /\ srv[s].lock = "admin"
      BY <2>3, <3>1, ZenonT(30) DEF ServerInv
    <3>4. ~InBlock(s) /\ worker[s].pc # "new_egress"
      BY <2>3, <3>3 DEF ServerInv
    <3>5. QED
      BY <2>2, <2>3, <2>4, <2>6, <3>1, <3>2, <3>3, <3>4, ZenonT(30)
         DEF ServerInv, InBlock, FactsKept, WorkerPCs
  <2>13. CASE ActivateFail(s)
    <3>1. /\ admin[s].pc \in {"lookup", "register", "publish"}
          /\ admin'[s].pc = "none"
          /\ srv[s].up /\ UNCHANGED <<db_vars, worker, setter, state_file>>
      BY <2>5, <2>13 DEF ActivateFail, NoAdmin
    <3>2. /\ srv'[s].mode = srv[s].mode /\ srv'[s].up = srv[s].up
          /\ srv'[s].key = srv[s].key /\ srv'[s].iid = srv[s].iid
      BY <2>5, <2>13, ZenonT(30) DEF ActivateFail, Server
    <3>3. srv[s].mode = "idle" /\ srv[s].lock = "admin"
      BY <2>3, <3>1, ZenonT(30) DEF ServerInv
    <3>4. ~InBlock(s) /\ worker[s].pc # "new_egress"
      BY <2>3, <3>3, Zenon DEF ServerInv
    <3>5. QED
      BY <2>2, <2>3, <2>4, <2>6, <3>1, <3>2, <3>3, <3>4, ZenonT(30)
         DEF ServerInv, InBlock, FactsKept, WorkerPCs
  <2>14. CASE ActivateWrite(s)
    <3>1. /\ admin'[s].pc = "none" /\ srv[s].up
          /\ state_file'[s] = Summary(srv[s])
          /\ UNCHANGED <<srv, worker, setter>>
      BY <2>5, <2>14 DEF ActivateWrite, NoAdmin
    <3>2. /\ state_file'[s].mode = srv[s].mode /\ state_file'[s].next = srv[s].next
          /\ state_file'[s].key = srv[s].key
      BY <3>1 DEF Summary
    <3>3. QED
      BY <2>2, <2>3, <2>4, <3>1, <3>2, ZenonT(30) DEF ServerInv, InBlock, FactsKept
  <2>15. CASE NewKeys(s)
    <3>1. /\ srv[s].mode = "idle" /\ srv[s].lock = "free" /\ srv[s].up
          /\ srv[s].iid = NoInvocation
          /\ UNCHANGED <<worker, admin, setter>>
      BY <2>15 DEF NewKeys
    <3>2. /\ srv'[s].mode = srv[s].mode /\ srv'[s].up = srv[s].up
          /\ srv'[s].iid = srv[s].iid
      BY <2>5, <2>15 DEF NewKeys, Server
    <3>3. state_file'[s].mode = srv'[s].mode
      BY <2>5, <2>15 DEF NewKeys, Summary
    <3>4. QED
      BY <2>2, <2>3, <2>4, <3>1, <3>2, <3>3, ZenonT(30) DEF ServerInv, InBlock, FactsKept
  <2>16. CASE SetKeyCheck(s)
    <3>1. srv[s].up /\ UNCHANGED <<srv, worker, admin, state_file>>
      BY <2>16 DEF SetKeyCheck
    <3>2. QED
      BY <2>2, <2>3, <2>4, <2>6, <3>1, ZenonT(30) DEF ServerInv, InBlock, FactsKept
  <2>17. CASE SetKeyApply(s)
    <3>1. /\ srv[s].up /\ srv[s].mode = "idle" /\ admin[s].pc = "none"
          /\ UNCHANGED <<worker, admin, state_file>>
      BY <2>17 DEF SetKeyApply
    <3>2. /\ srv'[s].mode = srv[s].mode /\ srv'[s].up = srv[s].up
          /\ srv'[s].iid = srv[s].iid /\ srv'[s].lock = srv[s].lock
      BY <2>5, <2>17, ZenonT(30) DEF SetKeyApply, Server
    <3>3. QED
      BY <2>2, <2>3, <2>4, <2>6, <3>1, <3>2, ZenonT(30) DEF ServerInv, InBlock, FactsKept
  <2>18. CASE SetKeyWrite(s)
    <3>1. /\ srv[s].up /\ state_file'[s] = Summary(srv[s])
          /\ UNCHANGED <<srv, worker, admin>>
      BY <2>5, <2>18 DEF SetKeyWrite
    <3>2. /\ state_file'[s].mode = srv[s].mode /\ state_file'[s].next = srv[s].next
          /\ state_file'[s].key = srv[s].key
      BY <3>1 DEF Summary
    <3>3. QED
      BY <2>2, <2>3, <2>4, <3>1, <3>2, ZenonT(30) DEF ServerInv, InBlock, FactsKept
  <2>19. CASE Retire(s, TRUE) \/ Retire(s, FALSE)
    <3>1. UNCHANGED <<srv, worker, admin, setter, state_file>>
      BY <2>19, ZenonT(30) DEF Retire
    <3>2. QED
      BY <2>2, <2>3, <2>4, <2>6, <3>1, ZenonT(30) DEF ServerInv, InBlock, FactsKept
  <2>20. CASE \E w \in Windows : SetPubkeyExpiryWindow(s, w)
    <3>1. UNCHANGED <<worker, admin, setter, state_file>>
      BY <2>20 DEF SetPubkeyExpiryWindow
    <3>2. /\ srv'[s].mode = srv[s].mode /\ srv'[s].up = srv[s].up
          /\ srv'[s].key = srv[s].key /\ srv'[s].next = srv[s].next
          /\ srv'[s].iid = srv[s].iid /\ srv'[s].lock = srv[s].lock
      BY <2>5, <2>20, ZenonT(30) DEF SetPubkeyExpiryWindow, Server
    <3>3. QED
      BY <2>2, <2>3, <2>4, <2>6, <3>1, <3>2, ZenonT(30) DEF ServerInv, InBlock, FactsKept
  <2>21. QED
    BY <2>9, <2>10, <2>11, <2>12, <2>13, <2>14, <2>15, <2>16, <2>17, <2>18, <2>19,
       <2>20, ZenonT(30), Zenon DEF AdminStep

\* A crash, and a restart with or without the state file, keep ScanInv.
<1>FaultScan.
      ASSUME TypeInv, ScanInv, NEW s \in Servers, FaultStep(s)
      PROVE  ScanInv'
  <2> USE <1>FaultScan
  <2>1. Local(s) /\ DbGrows
    BY ServerTypes
  <2>2. FactsKept
    BY <2>1, <1>GrowthKeepsFacts
  <2>3. ServerOK(s) /\ ServerInv(s) /\ ScansContiguous
    BY TypeParts DEF ScanInv
  <2>4. /\ srv \in [Servers -> Server] /\ admin \in [Servers -> Admin]
        /\ worker \in [Servers -> Worker] /\ setter \in [Servers -> Setter]
        /\ state_file \in [Servers -> StateFile]
    BY DEF TypeInv, TypeOK
  <2>5. state_file[s].readable => state_file[s].key \in Keys /\ state_file[s].next \in Nat
    BY <2>3 DEF ServerOK, StateFile
  <2>6. ingested_blocks' = ingested_blocks
    BY ZenonT(30) DEF FaultStep, Crash, Restart, RemoveStateFile, StartFresh, db_vars
  <2>7. SUFFICES ServerInv(s)'
    BY <2>1, <2>2, <2>3, <2>6, <1>ContiguityKept, <1>LocalScan
  <2>8. CASE Crash(s)
    <3>1. /\ worker'[s].pc = "poll" /\ admin'[s].pc = "none"
          /\ setter'[s].pc = "none"
      BY <2>4, <2>8 DEF Crash, IdleWorker, NoAdmin, NoSetter
    <3>2. srv'[s].mode = "idle" /\ srv'[s].iid = NoInvocation
      BY <2>4, <2>8 DEF Crash, Server
    <3>3. state_file'[s] = state_file[s] \/ ~state_file'[s].readable
      BY <2>4, <2>8 DEF Crash, StateFile
    <3>4. QED
      BY <2>2, <2>3, <2>5, <3>1, <3>2, <3>3, Zenon DEF ServerInv, InBlock, FactsKept
  <2>9. CASE Restart(s)
    <3>1. /\ ~srv[s].up /\ state_file[s].present /\ state_file[s].readable
          /\ UNCHANGED <<worker, admin, setter>>
      BY <2>9, ZenonT(60) DEF Restart
    <3>2. /\ srv'[s].up /\ srv'[s].mode = state_file[s].mode
          /\ srv'[s].next = state_file[s].next /\ srv'[s].key = state_file[s].key
          /\ srv'[s].iid = srv[s].iid
      BY <2>4, <2>9 DEF Restart, Server
    <3>3. /\ state_file'[s].mode = srv'[s].mode
          /\ state_file'[s].next = srv'[s].next
          /\ state_file'[s].key = srv'[s].key
      BY <2>4, <2>9, ZenonT(30) DEF Restart, Summary
    <3>4. srv[s].iid = NoInvocation
      BY <2>3, <2>4, <3>1, ZenonT(60) DEF ServerInv, Server
    <3>5. QED
      BY <2>2, <2>3, <2>5, <3>1, <3>2, <3>3, <3>4, ZenonT(60) DEF ServerInv, InBlock, FactsKept
  <2>10. CASE RemoveStateFile(s)
    <3>1. /\ ~state_file'[s].present
          /\ ~srv[s].up /\ UNCHANGED <<srv, worker, admin, setter>>
      BY <2>4, <2>10 DEF RemoveStateFile
    <3>2. srv[s].mode = "idle" /\ srv[s].iid = NoInvocation
      BY <2>3, <2>4, <3>1, ZenonT(60) DEF ServerInv, Server
    <3>3. QED
      BY <2>3, <3>1, <3>2, Zenon DEF ServerInv, InBlock
  <2>11. CASE StartFresh(s)
    <3>1. /\ ~srv[s].up /\ UNCHANGED <<worker, admin, setter>>
      BY <2>11 DEF StartFresh
    <3>2. srv'[s].mode = "idle" /\ srv'[s].iid = srv[s].iid /\ srv'[s].up
      BY <2>4, <2>11 DEF StartFresh, Server
    <3>3. state_file'[s].mode = srv'[s].mode
      BY <2>4, <2>11 DEF StartFresh, Summary
    <3>4. srv[s].iid = NoInvocation
      BY <2>3, <2>4, <3>1, ZenonT(30) DEF ServerInv, Server
    <3>5. QED
      BY <2>3, <3>1, <3>2, <3>3, <3>4, ZenonT(60) DEF ServerInv, InBlock
  <2>12. QED
    BY <2>8, <2>9, <2>10, <2>11 DEF FaultStep

\* A step in which no server takes part.
<1>SharedScan.
      ASSUME TypeInv, ScanInv, DbGrows, UNCHANGED ingested_blocks,
             UNCHANGED <<srv, worker, admin, setter, state_file>>
      PROVE  ScanInv'
  <2> USE <1>SharedScan
  <2>1. FactsKept
    BY <1>GrowthKeepsFacts
  <2>2. ScansContiguous'
    BY <1>ContiguityKept DEF ScanInv
  <2>3. ASSUME NEW s \in Servers PROVE ServerInv(s)'
    <3>1. ServerOK(s) /\ ServerInv(s)
      BY TypeParts DEF ScanInv
    <3>2. /\ srv[s].key \in Keys /\ srv[s].next \in Nat /\ srv[s].iid \in Nat
          /\ worker[s].key \in Keys /\ worker[s].block \in Nat
          /\ worker[s].iid \in Nat /\ admin[s].key \in Keys /\ admin[s].start \in Nat
      BY <3>1, FieldTypes
    <3>3. state_file[s].readable => state_file[s].key \in Keys /\ state_file[s].next \in Nat
      BY <3>1 DEF ServerOK, StateFile
    <3>4. QED
      BY <2>1, <3>1, <3>2, <3>3, ZenonT(30) DEF ServerInv, InBlock, FactsKept
  <2>4. QED
    BY <2>2, <2>3 DEF ScanInv

\* Freshly started servers on an empty database satisfy ScanInv.
<1>InitScan.
      Init => ScanInv
  <2>1. SUFFICES ASSUME Init PROVE ScanInv
    OBVIOUS
  <2>2. ScansContiguous
    BY <2>1, ZenonT(60) DEF Init, DbInit, ScansContiguous, Scanned
  <2>3. ASSUME NEW s \in Servers PROVE ServerInv(s)
    <3>1. PICK key \in [Servers -> Keys], window \in Windows :
            /\ srv = [i \in Servers |->
                        [up |-> TRUE, mode |-> "idle", next |-> 0,
                         window |-> window, iid |-> NoInvocation,
                         key |-> key[i], egress |-> 0, rng |-> 0,
                         lock |-> "free"]]
            /\ worker = [i \in Servers |-> IdleWorker(key[i])]
            /\ admin = [i \in Servers |-> NoAdmin(key[i])]
            /\ state_file = [i \in Servers |->
                               [present |-> TRUE, readable |-> TRUE,
                                mode |-> "idle", next |-> 0, window |-> window,
                                key |-> key[i]]]
      BY <2>1, ZenonT(60) DEF Init
    <3>2. srv[s].up /\ srv[s].mode = "idle" /\ srv[s].iid = NoInvocation
      BY <3>1
    <3>3. worker[s].pc = "poll"
      <4>1. worker[s] = IdleWorker(key[s]) /\ IdleWorker(key[s]).pc = "poll"
        BY <3>1, ZenonT(30) DEF IdleWorker
      <4>2. QED
        BY <4>1, Zenon
    <3>4. admin[s].pc = "none"
      <4>1. admin[s] = NoAdmin(key[s]) /\ NoAdmin(key[s]).pc = "none"
        BY <3>1 DEF NoAdmin
      <4>2. QED
        BY <4>1, Zenon
    <3>5. state_file[s].mode = "idle"
      BY <3>1
    <3>6. QED
      BY <3>2, <3>3, <3>4, <3>5, ZenonT(60) DEF ServerInv, InBlock
  <2>4. QED
    BY <2>2, <2>3 DEF ScanInv

\* ScanInv is inductive relative to TypeInv.
<1>NextScan.
      ASSUME KeyRace = FALSE
      PROVE  TypeInv /\ ScanInv /\ [Next]_vars => ScanInv'
  <2> USE <1>NextScan
  <2>1. SUFFICES ASSUME TypeInv, ScanInv, [Next]_vars PROVE ScanInv'
    OBVIOUS
  <2>2. DbGrows
    BY <2>1, NextTypes
  <2>3. CASE UNCHANGED vars
    BY <2>1, <2>2, <2>3, <1>SharedScan DEF vars, db_vars, thread_vars
  <2>4. CASE \E k \in Keys : ReportLost(k)
    BY <2>1, <2>2, <2>4, <1>SharedScan
       DEF ReportLost, thread_vars, report_lost_ingress_key
  <2>5. CASE AppendBlock
    BY <2>1, <2>2, <2>5, <1>SharedScan DEF AppendBlock, db_vars
  <2>6. CASE \E s \in Servers : WorkerStep(s) \/ AdminStep(s) \/ FaultStep(s)
    BY <2>1, <2>6, <1>WorkerScan, <1>AdminScan, <1>FaultScan, ZenonT(30)
  <2>7. QED
    BY <2>1, <2>3, <2>4, <2>5, <2>6 DEF Next
<1>1. Init => TypeInv /\ ScanInv
  BY InitTypes, <1>InitScan
<1>2. TypeInv /\ ScanInv /\ [Next]_vars => (TypeInv /\ ScanInv)'
  BY NextTypes, <1>NextScan, ZenonT(30)
<1>3. QED
  BY <1>1, <1>2, PTL DEF Spec

\* The blocks scanned with a key are consecutive from its start block, however
\* many servers share the key, race in process_next_block, crash and restart
\* from their state files, for every ledger.
THEOREM ScansHaveNoGaps ==
    ASSUME KeyRace = FALSE
    PROVE  Spec => []ScansContiguous
<1>1. Spec => [](TypeInv /\ ScanInv)
  BY ScanInvariant, ZenonT(30)
<1>2. TypeInv /\ ScanInv => ScansContiguous
  BY DEF ScanInv
<1>3. QED
  BY <1>1, <1>2, PTL

\* The worker never runs into the assertions of process_next_block: the block
\* it scans is the block the controller expects, and nothing makes the server
\* idle underneath it.
THEOREM WorkerAssertionsHold ==
    ASSUME KeyRace = FALSE
    PROVE  Spec => []WorkerAssertions
<1>1. Spec => [](TypeInv /\ ScanInv)
  BY ScanInvariant, ZenonT(30)
<1>2. TypeInv /\ ScanInv => WorkerAssertions
  BY ZenonT(30) DEF ScanInv, ServerInv, WorkerAssertions
<1>3. QED
  BY <1>1, <1>2, PTL

\* A server that goes idle keeps no ingest invocation.
THEOREM IdleServersHaveNoInvocation ==
    ASSUME KeyRace = FALSE
    PROVE  Spec => []IdleHasNoInvocation
<1>1. Spec => [](TypeInv /\ ScanInv)
  BY ScanInvariant, ZenonT(30)
<1>2. TypeInv /\ ScanInv => IdleHasNoInvocation
  BY DEF ScanInv, ServerInv, IdleHasNoInvocation
<1>3. QED
  BY <1>1, <1>2, PTL

-----------------------------------------------------------------------------
(* Retired keys. *)

\* A server stops for a retired key only when every block from the key's start
\* block to its published expiry is scanned with it, by whichever servers.
THEOREM RetiredKeysAreScannedOut ==
    ASSUME KeyRace = FALSE
    PROVE  Spec => RetireKeepsPromise

\* Only PublishReport finds a key retired and done.
<1>RetiredFromPublish.
      ASSUME TypeInv, [Next]_vars, NEW s \in Servers,
             worker[s].pc = "publish", worker'[s].pc = "retired"
      PROVE  PublishReport(s)
  <2> USE <1>RetiredFromPublish
  <2>1. worker \in [Servers -> Worker]
    BY DEF TypeInv, TypeOK
  <2>2. CASE UNCHANGED vars
    BY <2>2 DEF vars, thread_vars
  <2>3. CASE (\E k \in Keys : ReportLost(k)) \/ AppendBlock
    BY <2>3 DEF ReportLost, thread_vars, AppendBlock
  <2>4. ASSUME NEW t \in Servers, WorkerStep(t) \/ AdminStep(t) \/ FaultStep(t)
        PROVE  PublishReport(s)
    <3>1. Local(t)
      BY <2>4, ServerTypes
    <3>2. t = s
      BY <2>1, <3>1 DEF Local
    <3>3. ~AdminStep(s)
      BY ZenonT(30) DEF AdminStep, ActivateBegin, ActivateLookup, ActivateRegister,
         ActivatePublish, ActivateFail, ActivateWrite, NewKeys, SetKeyCheck,
         SetKeyApply, SetKeyWrite, Retire, SetPubkeyExpiryWindow
    <3>4. ~FaultStep(s)
      <4>1. Crash(s) => worker'[s].pc = "poll"
        BY <2>1 DEF Crash, IdleWorker
      <4>2. QED
        BY <4>1, ZenonT(30) DEF FaultStep, Restart, RemoveStateFile, StartFresh
    <3>5. QED
      BY <2>1, <2>4, <3>2, <3>3, <3>4, ZenonT(30)
         DEF WorkerStep, BeginBlock, EnsureInvocation, IngestChunk,
             IngestChunkOverflow, IngestChunkTooBig, RotateInvocation,
             AddBlockData, AdvanceNextBlock, BackOff, NewEgressKey, WriteStateFile
  <2>5. QED
    BY <2>2, <2>3, <2>4 DEF Next
<1>1. Spec => [](TypeInv /\ ScanInv)
  BY ScanInvariant, ZenonT(30)
<1>2. ASSUME TypeInv, ScanInv, [Next]_vars PROVE RetireStep
  <2>1. SUFFICES ASSUME NEW s \in Servers,
                        worker[s].pc = "publish", worker'[s].pc = "retired",
                        NEW b \in ingress_keys'[worker[s].key].start_block..
                                    (ingress_keys'[worker[s].key].pubkey_expiry - 1)
                 PROVE  b \in Scanned(worker[s].key)
    BY DEF RetireStep
  <2>2. PublishReport(s)
    BY <1>2, <2>1, <1>RetiredFromPublish
  <2>3. PICK k \in Keys, n \in Nat : k = worker[s].key /\ n = worker[s].block
    BY <1>2, TypeParts, FieldTypes
  <2>4. Covered(k, n)
    BY <1>2, <2>1, <2>3 DEF ScanInv, ServerInv, InBlock, WorkerPCs
  <2>5. ingress_keys'[k].start_block = ingress_keys[k].start_block
    BY <1>2, <2>4, NextTypes DEF DbGrows, Covered
  <2>6. n > ingress_keys'[k].pubkey_expiry
    <3>1. worker \in [Servers -> Worker]
      BY <1>2 DEF TypeInv, TypeOK
    <3>2. CASE worker' = [worker EXCEPT ![s].pc = "invocation"]
      BY <2>1, <3>1, <3>2 DEF Worker
    <3>3. CASE worker' = [worker EXCEPT ![s].pc =
                            IF /\ ingress_keys'[k].retired
                               /\ n > ingress_keys'[k].pubkey_expiry
                            THEN "retired" ELSE "invocation"]
      BY <2>1, <3>1, <3>3 DEF Worker
    <3>4. QED
      BY <2>2, <2>3, <3>2, <3>3 DEF PublishReport
  <2>7. ingress_keys'[k].pubkey_expiry \in Nat /\ ingress_keys[k].start_block \in Nat
    BY <1>2, NextTypes, Zenon DEF TypeInv, TypeOK, DbTypeOK, KeyStatus
  <2>8. QED
    BY <2>1, <2>3, <2>4, <2>5, <2>6, <2>7 DEF Covered
<1>3. QED
  BY <1>1, <1>2, PTL DEF Spec, RetireKeepsPromise

-----------------------------------------------------------------------------
(* The calls of the database. *)

\* No row of the tables the view server reads is taken back or reworded, but
\* for the decommissioned column.
TablesGrow ==
    /\ \A i \in DOMAIN ingest_invocations :
         /\ i \in DOMAIN ingest_invocations'
         /\ ingest_invocations'[i].ingress_key = ingest_invocations[i].ingress_key
         /\ ingest_invocations'[i].egress_key = ingest_invocations[i].egress_key
         /\ ingest_invocations'[i].start_block = ingest_invocations[i].start_block
    /\ ingested_blocks \subseteq ingested_blocks'
    /\ \A i \in DOMAIN user_events :
         i \in DOMAIN user_events' /\ user_events'[i] = user_events[i]

tables == <<ingest_invocations, ingested_blocks, user_events>>

\* A step that leaves the tables alone.
LEMMA TablesSame ==
    ASSUME UNCHANGED tables
    PROVE  /\ TablesGrow
           /\ PublishedRows' = PublishedRows
           /\ \A i : IngestedBy(i)' = IngestedBy(i)
           /\ \A i : Decommissioned(i)' <=> Decommissioned(i)
  BY Zenon DEF TablesGrow, PublishedRows, IngestedBy, Decommissioned, tables

\* What a decommissioned invocation's row keeps.
LEMMA MarkedRow ==
    ASSUME DbTypeOK, NEW iid \in DOMAIN ingest_invocations
    PROVE  LET after == [ingest_invocations EXCEPT ![iid].decommissioned = TRUE]
           IN  /\ after \in Seq(Invocation)
               /\ DOMAIN after = DOMAIN ingest_invocations
               /\ Len(after) = Len(ingest_invocations)
               /\ \A i \in DOMAIN ingest_invocations :
                    /\ after[i].ingress_key = ingest_invocations[i].ingress_key
                    /\ after[i].egress_key = ingest_invocations[i].egress_key
                    /\ after[i].start_block = ingest_invocations[i].start_block
                    /\ after[i].decommissioned =>
                         ingest_invocations[i].decommissioned \/ i = iid
<1> DEFINE after == [ingest_invocations EXCEPT ![iid].decommissioned = TRUE]
<1>1. after \in Seq(Invocation) /\ Len(after) = Len(ingest_invocations)
  BY DecommissionRow
<1>2. DOMAIN after = DOMAIN ingest_invocations
  OBVIOUS
<1>3. ASSUME NEW i \in DOMAIN ingest_invocations
      PROVE  /\ after[i].ingress_key = ingest_invocations[i].ingress_key
             /\ after[i].egress_key = ingest_invocations[i].egress_key
             /\ after[i].start_block = ingest_invocations[i].start_block
             /\ after[i].decommissioned =>
                  ingest_invocations[i].decommissioned \/ i = iid
  <2>1. ingest_invocations[i] \in Invocation
    BY DEF DbTypeOK
  <2>2. CASE i = iid
    <3>1. after[i] = [ingest_invocations[i] EXCEPT !.decommissioned = TRUE]
      BY <2>2
    <3>2. QED
      BY <2>1, <2>2, <3>1, Zenon DEF Invocation
  <2>3. CASE i # iid
    <3>1. after[i] = ingest_invocations[i]
      BY <2>3
    <3>2. QED
      BY <3>1
  <2>4. QED
    BY <2>2, <2>3
<1>4. QED
  BY <1>1, <1>2, <1>3

\* decommission_ingest_invocation closes one invocation and tells the clients.
LEMMA DecommissionCall ==
    ASSUME DbTypeOK, NEW iid \in Nat, decommission_ingest_invocation(iid)
    PROVE  /\ TablesGrow /\ UNCHANGED <<ingested_blocks, ingress_keys, reports>>
           /\ iid \in DOMAIN ingest_invocations
           /\ DOMAIN ingest_invocations' = DOMAIN ingest_invocations
           /\ \A i \in DOMAIN ingest_invocations :
                ingest_invocations'[i].decommissioned =>
                    ingest_invocations[i].decommissioned \/ i = iid
           /\ \A i \in DOMAIN user_events' :
                \/ i \in DOMAIN user_events
                \/ user_events'[i] = [type |-> "decommission_ingest_invocation",
                                      iid |-> iid]
           /\ \A i : Decommissioned(i)' <=> Decommissioned(i) \/ i = iid
<1> DEFINE closed == [type |-> "decommission_ingest_invocation", iid |-> iid]
<1>1. /\ iid \in DOMAIN ingest_invocations
      /\ ingest_invocations' =
           [ingest_invocations EXCEPT ![iid].decommissioned = TRUE]
      /\ user_events' = Append(user_events, closed)
      /\ UNCHANGED <<ingested_blocks, ingress_keys, reports>>
  BY DEF decommission_ingest_invocation
<1>2. /\ DOMAIN ingest_invocations' = DOMAIN ingest_invocations
      /\ \A i \in DOMAIN ingest_invocations :
           /\ ingest_invocations'[i].ingress_key = ingest_invocations[i].ingress_key
           /\ ingest_invocations'[i].egress_key = ingest_invocations[i].egress_key
           /\ ingest_invocations'[i].start_block = ingest_invocations[i].start_block
           /\ ingest_invocations'[i].decommissioned =>
                ingest_invocations[i].decommissioned \/ i = iid
  BY <1>1, MarkedRow, Zenon
<1> HIDE DEF closed
<1>3. /\ \A i \in DOMAIN user_events :
           i \in DOMAIN user_events' /\ user_events'[i] = user_events[i]
      /\ \A i \in DOMAIN user_events' :
           i \in DOMAIN user_events \/ user_events'[i] = closed
      /\ \E i \in DOMAIN user_events' : user_events'[i] = closed
  <2>1. user_events \in Seq(UserEvent)
    BY DEF DbTypeOK
  <2>2. /\ DOMAIN user_events = 1..Len(user_events)
        /\ DOMAIN user_events' = 1..(Len(user_events) + 1)
        /\ user_events'[Len(user_events) + 1] = closed
        /\ \A i \in 1..Len(user_events) : user_events'[i] = user_events[i]
        /\ Len(user_events) \in Nat
    BY <1>1, <2>1
  <2>3. QED
    BY <2>2
<1> USE DEF closed
<1>4. ASSUME NEW i
      PROVE  Decommissioned(i)' <=> Decommissioned(i) \/ i = iid
  <2>1. Decommissioned(i) => Decommissioned(i)'
    BY <1>3, Zenon DEF Decommissioned
  <2>2. i = iid => Decommissioned(i)'
    BY <1>3, Zenon DEF Decommissioned
  <2>3. Decommissioned(i)' => Decommissioned(i) \/ i = iid
    <3>1. SUFFICES ASSUME Decommissioned(i)' PROVE Decommissioned(i) \/ i = iid
      OBVIOUS
    <3>2. PICK j \in DOMAIN user_events' :
            user_events'[j] = [type |-> "decommission_ingest_invocation", iid |-> i]
      BY <3>1, Zenon DEF Decommissioned
    <3>3. CASE j \in DOMAIN user_events
      BY <1>3, <3>2, <3>3, Zenon DEF Decommissioned
    <3>4. CASE user_events'[j] = closed
      BY <3>2, <3>4
    <3>5. QED
      BY <1>3, <3>3, <3>4
  <2>4. QED
    BY <2>1, <2>2, <2>3
<1>5. TablesGrow
  BY <1>1, <1>2, <1>3 DEF TablesGrow
<1>6. QED
  BY <1>1, <1>2, <1>3, <1>4, <1>5

\* new_ingest_invocation opens an invocation and closes the previous one.
LEMMA NewInvocationCall ==
    ASSUME DbTypeOK, NEW prev \in Nat, NEW k \in Keys,
           NEW egress \in EgressKeys, NEW start \in Nat,
           new_ingest_invocation(prev, k, egress, start)
    PROVE  /\ TablesGrow /\ UNCHANGED <<ingested_blocks, ingress_keys, reports>>
           /\ NextInvocationId \in Nat \ {NoInvocation}
           /\ NextInvocationId \notin DOMAIN ingest_invocations
           /\ DOMAIN ingest_invocations' =
                DOMAIN ingest_invocations \cup {NextInvocationId}
           /\ ingest_invocations'[NextInvocationId] =
                NewInvocation(k, egress, start)
           /\ prev # NoInvocation =>
                prev \in DOMAIN ingest_invocations /\ ~Decommissioned(prev)
           /\ \A i \in DOMAIN ingest_invocations :
                ingest_invocations'[i].decommissioned =>
                    ingest_invocations[i].decommissioned \/ i = prev
           /\ \A i \in DOMAIN user_events' :
                \/ i \in DOMAIN user_events
                \/ user_events'[i] = [type |-> "new_ingest_invocation",
                                      iid |-> NextInvocationId]
                \/ /\ prev # NoInvocation
                   /\ user_events'[i] =
                        [type |-> "decommission_ingest_invocation", iid |-> prev]
           /\ \A i : Decommissioned(i)' <=>
                       Decommissioned(i) \/ (prev # NoInvocation /\ i = prev)
<1> DEFINE base == IF prev = NoInvocation THEN ingest_invocations
                   ELSE [ingest_invocations EXCEPT ![prev].decommissioned = TRUE]
           row == NewInvocation(k, egress, start)
           n == Len(ingest_invocations)
           m == Len(user_events)
           announced == [type |-> "new_ingest_invocation", iid |-> NextInvocationId]
           closed == [type |-> "decommission_ingest_invocation", iid |-> prev]
<1>1. /\ UNCHANGED <<ingested_blocks, ingress_keys, reports>>
      /\ prev # NoInvocation =>
           prev \in DOMAIN ingest_invocations /\ ~Decommissioned(prev)
      /\ ingest_invocations' = Append(base, row)
      /\ user_events' = IF prev = NoInvocation THEN Append(user_events, announced)
                        ELSE Append(Append(user_events, closed), announced)
  BY DEF new_ingest_invocation
<1>2. /\ base \in Seq(Invocation) /\ Len(base) = n
      /\ \A i \in DOMAIN ingest_invocations :
           /\ base[i].ingress_key = ingest_invocations[i].ingress_key
           /\ base[i].egress_key = ingest_invocations[i].egress_key
           /\ base[i].start_block = ingest_invocations[i].start_block
           /\ base[i].decommissioned =>
                ingest_invocations[i].decommissioned \/ i = prev
  <2>1. CASE prev = NoInvocation
    BY <2>1 DEF DbTypeOK
  <2>2. CASE prev # NoInvocation
    BY <1>1, <2>2, MarkedRow, Zenon
  <2>3. QED
    BY <2>1, <2>2
<1>3. row \in Invocation
  BY DEF NewInvocation, Invocation
<1>4. /\ n \in Nat /\ DOMAIN ingest_invocations = 1..n
      /\ ingest_invocations \in Seq(Invocation)
      /\ user_events \in Seq(UserEvent) /\ m \in Nat /\ DOMAIN user_events = 1..m
  BY DEF DbTypeOK
<1>5. NextInvocationId = n + 1
  BY DEF NextInvocationId
<1> HIDE DEF base, row, announced, closed
<1>6. /\ DOMAIN ingest_invocations' = 1..(n + 1)
      /\ ingest_invocations'[n + 1] = row
      /\ \A i \in 1..n : ingest_invocations'[i] = base[i]
  <2>1. ingest_invocations' = Append(base, row)
    BY <1>1
  <2>2. base \in Seq(Invocation) /\ Len(base) = n
    BY <1>2, <1>4, ZenonT(30)
  <2>3. QED
    BY <1>3, <1>4, <2>1, <2>2
<1>7. /\ NextInvocationId \in Nat \ {NoInvocation}
      /\ NextInvocationId \notin DOMAIN ingest_invocations
      /\ DOMAIN ingest_invocations' =
           DOMAIN ingest_invocations \cup {NextInvocationId}
  BY <1>4, <1>5, <1>6 DEF NoInvocation
<1> HIDE DEF n
<1>8. /\ \A i \in DOMAIN user_events :
           i \in DOMAIN user_events' /\ user_events'[i] = user_events[i]
      /\ \A i \in DOMAIN user_events' :
           \/ i \in DOMAIN user_events
           \/ user_events'[i] = announced
           \/ prev # NoInvocation /\ user_events'[i] = closed
      /\ prev # NoInvocation =>
           \E i \in DOMAIN user_events' : user_events'[i] = closed
  <2>1. CASE prev = NoInvocation
    <3>1. /\ DOMAIN user_events' = 1..(m + 1)
          /\ user_events'[m + 1] = announced
          /\ \A i \in 1..m : user_events'[i] = user_events[i]
      BY <1>1, <1>4, <2>1
    <3>2. QED
      BY <1>4, <2>1, <3>1
  <2>2. CASE prev # NoInvocation
    <3>1. /\ DOMAIN user_events' = 1..(m + 2)
          /\ user_events'[m + 1] = closed
          /\ user_events'[m + 2] = announced
          /\ \A i \in 1..m : user_events'[i] = user_events[i]
      BY <1>1, <1>4, <2>2
    <3> HIDE DEF m
    <3>2. QED
      BY <1>4, <2>2, <3>1
  <2>3. QED
    BY <2>1, <2>2
<1>9. TablesGrow
  BY <1>1, <1>2, <1>4, <1>6, <1>7, <1>8 DEF TablesGrow
<1> USE DEF announced, closed
<1>10. ASSUME NEW i
       PROVE  Decommissioned(i)' <=>
                Decommissioned(i) \/ (prev # NoInvocation /\ i = prev)
  <2>1. Decommissioned(i) => Decommissioned(i)'
    BY <1>8, Zenon DEF Decommissioned
  <2>2. prev # NoInvocation /\ i = prev => Decommissioned(i)'
    BY <1>8, Zenon DEF Decommissioned
  <2>3. Decommissioned(i)' =>
          Decommissioned(i) \/ (prev # NoInvocation /\ i = prev)
    <3>1. SUFFICES ASSUME Decommissioned(i)'
                   PROVE  Decommissioned(i) \/ (prev # NoInvocation /\ i = prev)
      OBVIOUS
    <3>2. PICK j \in DOMAIN user_events' :
            user_events'[j] = [type |-> "decommission_ingest_invocation", iid |-> i]
      BY <3>1 DEF Decommissioned
    <3>3. CASE j \in DOMAIN user_events
      BY <1>8, <3>2, <3>3, Zenon DEF Decommissioned
    <3>4. CASE user_events'[j] = announced
      BY <3>2, <3>4
    <3>5. CASE prev # NoInvocation /\ user_events'[j] = closed
      BY <3>2, <3>5
    <3>6. QED
      BY <1>8, <3>3, <3>4, <3>5
  <2>4. QED
    BY <2>1, <2>2, <2>3
<1>11. \A i \in DOMAIN ingest_invocations :
         ingest_invocations'[i].decommissioned =>
             ingest_invocations[i].decommissioned \/ i = prev
  BY <1>2, <1>4, <1>6
<1>12. ingest_invocations'[NextInvocationId] = NewInvocation(k, egress, start)
  BY <1>5, <1>6 DEF row
<1>13. QED
  BY <1>1, <1>7, <1>8, <1>9, <1>10, <1>11, <1>12, ZenonT(30)

\* add_block_data publishes one block of an invocation.
LEMMA AddBlockCall ==
    ASSUME DbTypeOK, NEW iid \in Nat, NEW b \in Nat, NEW rows \in SUBSET Rows,
           add_block_data(iid, b, rows)
    PROVE  /\ TablesGrow
           /\ UNCHANGED <<ingest_invocations, user_events, ingress_keys, reports>>
           /\ iid \in DOMAIN ingest_invocations /\ ~AlreadyScanned(iid, b)
           /\ ingested_blocks' = ingested_blocks \cup
                {[iid |-> iid, ingress_key |-> ingest_invocations[iid].ingress_key,
                  block |-> b, rows |-> rows]}
           /\ PublishedRows' = PublishedRows \cup rows
           /\ IngestedBy(iid)' = IngestedBy(iid) \cup {b}
           /\ \A i : i # iid => IngestedBy(i)' = IngestedBy(i)
           /\ \A i : Decommissioned(i)' <=> Decommissioned(i)
<1> DEFINE row == [iid |-> iid,
                   ingress_key |-> ingest_invocations[iid].ingress_key,
                   block |-> b, rows |-> rows]
<1>1. /\ UNCHANGED <<ingest_invocations, user_events, ingress_keys, reports>>
      /\ iid \in DOMAIN ingest_invocations /\ ~AlreadyScanned(iid, b)
      /\ ingested_blocks' = ingested_blocks \cup {row}
  BY DEF add_block_data
<1>2. row.iid = iid /\ row.block = b /\ row.rows = rows
  OBVIOUS
<1> HIDE DEF row
<1>3. PublishedRows' = PublishedRows \cup rows
  BY <1>1, <1>2, Zenon DEF PublishedRows
<1>4. IngestedBy(iid)' = IngestedBy(iid) \cup {b}
  BY <1>1, <1>2, Zenon DEF IngestedBy
<1>5. ASSUME NEW i, i # iid
      PROVE  IngestedBy(i)' = IngestedBy(i)
  BY <1>1, <1>2, <1>5, Zenon DEF IngestedBy
<1>6. TablesGrow
  BY <1>1, Zenon DEF TablesGrow
<1>7. \A i : Decommissioned(i)' <=> Decommissioned(i)
  BY <1>1, Zenon DEF Decommissioned
<1>8. QED
  BY <1>1, <1>3, <1>4, <1>5, <1>6, <1>7 DEF row

-----------------------------------------------------------------------------
(* Reports. *)

\* set_report raises the key's expiry to that of the report it publishes, and
\* does neither for a retired key.
LEMMA SetReportCall ==
    ASSUME DbTypeOK, NEW k \in Keys, NEW id \in ReportIds, NEW expiry \in Nat,
           set_report(k, id, expiry)
    PROVE  /\ UNCHANGED tables /\ ingress_keys[k].exists
           /\ \A j \in Keys :
                /\ j # k => ingress_keys'[j] = ingress_keys[j]
                /\ ingress_keys'[j].exists = ingress_keys[j].exists
                /\ ingress_keys'[j].start_block = ingress_keys[j].start_block
                /\ ingress_keys'[j].retired = ingress_keys[j].retired
                /\ ingress_keys'[j].lost = ingress_keys[j].lost
                /\ ingress_keys[j].pubkey_expiry <= ingress_keys'[j].pubkey_expiry
           /\ \/ UNCHANGED <<ingress_keys, reports>>
              \/ /\ expiry <= ingress_keys'[k].pubkey_expiry
                 /\ \A i \in ReportIds :
                      \/ reports'[i] = reports[i]
                      \/ /\ reports'[i].ingress_key = k
                         /\ reports'[i].pubkey_expiry = expiry
           /\ \/ UNCHANGED ingress_keys
              \/ /\ ~ingress_keys[k].retired
                 /\ ingress_keys[k].pubkey_expiry < expiry
                 /\ ingress_keys' = [ingress_keys EXCEPT ![k].pubkey_expiry = expiry]
<1>1. UNCHANGED tables /\ ingress_keys[k].exists
  BY DEF set_report, tables
<1>2. ingress_keys[k] \in KeyStatus /\ ingress_keys \in [Keys -> KeyStatus]
  BY DEF DbTypeOK
<1>3. \A j \in Keys : ingress_keys[j] \in KeyStatus /\ ingress_keys[j].pubkey_expiry \in Nat
  BY <1>2 DEF KeyStatus
<1>4. \/ UNCHANGED ingress_keys
      \/ /\ ~ingress_keys[k].retired
         /\ ingress_keys[k].pubkey_expiry < expiry
         /\ ingress_keys' = [ingress_keys EXCEPT ![k].pubkey_expiry = expiry]
  BY Zenon DEF set_report
<1>5. CASE /\ ~ingress_keys[k].retired
           /\ ingress_keys[k].pubkey_expiry < expiry
           /\ ingress_keys' = [ingress_keys EXCEPT ![k].pubkey_expiry = expiry]
  <2>1. \A j \in Keys : j # k => ingress_keys'[j] = ingress_keys[j]
    BY <1>2, <1>5, Zenon
  <2>2. ingress_keys'[k] = [ingress_keys[k] EXCEPT !.pubkey_expiry = expiry]
    BY <1>2, <1>5, Zenon
  <2>3. /\ ingress_keys'[k].exists = ingress_keys[k].exists
        /\ ingress_keys'[k].start_block = ingress_keys[k].start_block
        /\ ingress_keys'[k].retired = ingress_keys[k].retired
        /\ ingress_keys'[k].lost = ingress_keys[k].lost
        /\ ingress_keys'[k].pubkey_expiry = expiry
    BY <1>2, <2>2, Zenon DEF KeyStatus
  <2>4. \A j \in Keys :
          /\ ingress_keys'[j].exists = ingress_keys[j].exists
          /\ ingress_keys'[j].start_block = ingress_keys[j].start_block
          /\ ingress_keys'[j].retired = ingress_keys[j].retired
          /\ ingress_keys'[j].lost = ingress_keys[j].lost
    BY <2>1, <2>3, Zenon
  <2>5. \A j \in Keys :
          ingress_keys[j].pubkey_expiry <= ingress_keys'[j].pubkey_expiry
    BY <1>3, <1>5, <2>1, <2>3
  <2>6. expiry <= ingress_keys'[k].pubkey_expiry
    BY <2>3
  <2>7. \A i \in ReportIds :
          \/ reports'[i] = reports[i]
          \/ reports'[i].ingress_key = k /\ reports'[i].pubkey_expiry = expiry
    BY DEF set_report, DbTypeOK
  <2>8. QED
    BY <1>1, <1>5, <2>1, <2>4, <2>5, <2>6, <2>7, Zenon
<1>6. CASE UNCHANGED ingress_keys
  <2>1. \/ UNCHANGED reports
        \/ expiry <= ingress_keys'[k].pubkey_expiry
    <3>1. CASE ingress_keys[k].retired
      BY <3>1 DEF set_report
    <3>2. CASE ~ingress_keys[k].retired /\ ingress_keys[k].pubkey_expiry < expiry
      <4>1. ingress_keys'[k] = [ingress_keys[k] EXCEPT !.pubkey_expiry = expiry]
        BY <1>2, <3>2 DEF set_report
      <4>2. QED
        BY <1>2, <4>1 DEF KeyStatus
    <3>3. CASE ~(ingress_keys[k].pubkey_expiry < expiry)
      BY <1>3, <1>6, <3>3
    <3>4. QED
      BY <3>1, <3>2, <3>3
  <2>2. \A i \in ReportIds :
          \/ reports'[i] = reports[i]
          \/ reports'[i].ingress_key = k /\ reports'[i].pubkey_expiry = expiry
    BY DEF set_report, DbTypeOK
  <2>3. \A j \in Keys :
          ingress_keys[j].pubkey_expiry <= ingress_keys'[j].pubkey_expiry
    BY <1>3, <1>6
  <2>4. QED
    BY <1>1, <1>6, <2>1, <2>2, <2>3, Zenon
<1>7. QED
  BY <1>4, <1>5, <1>6

\* The calls by which a step may write ingress_keys or reports.
LEMMA KeyCalls ==
    ASSUME TypeInv, [Next]_vars
    PROVE  \/ UNCHANGED <<ingress_keys, reports>>
           \/ \E k \in Keys, id \in ReportIds, expiry \in Nat :
                set_report(k, id, expiry)
           \/ \E k \in Keys, start \in Nat : new_ingress_key(k, start)
           \/ \E k \in Keys, b \in BOOLEAN : retire_ingress_key(k, b)
           \/ \E k \in Keys : report_lost_ingress_key(k)
<1>1. CASE UNCHANGED vars
  BY <1>1, Zenon DEF vars, db_vars
<1>2. ASSUME NEW s \in Servers, WorkerStep(s)
      PROVE  \/ UNCHANGED <<ingress_keys, reports>>
             \/ \E k \in Keys, id \in ReportIds, expiry \in Nat :
                  set_report(k, id, expiry)
  <2>1. ServerOK(s)
    BY TypeParts
  <2>2. worker[s].key \in Keys /\ srv[s].next + srv[s].window \in Nat
    BY <2>1, FieldTypes
  <2>3. CASE PublishReport(s)
    BY <2>2, <2>3, Zenon DEF PublishReport, db_vars
  <2>4. CASE EnsureInvocation(s) \/ RotateInvocation(s) \/ BackOff(s)
    BY <2>4, Zenon DEF EnsureInvocation, RotateInvocation, BackOff,
       DecommissionInvocation, new_ingest_invocation,
       decommission_ingest_invocation, db_vars
  <2>5. CASE AddBlockData(s)
    BY <2>5, Zenon DEF AddBlockData, add_block_data, db_vars
  <2>6. CASE \/ BeginBlock(s) \/ IngestChunk(s) \/ IngestChunkOverflow(s)
             \/ IngestChunkTooBig(s) \/ AdvanceNextBlock(s) \/ NewEgressKey(s)
             \/ WriteStateFile(s)
    BY <2>6, Zenon DEF BeginBlock, IngestChunk, IngestChunkOverflow,
       IngestChunkTooBig, AdvanceNextBlock, NewEgressKey, WriteStateFile, db_vars
  <2>7. QED
    BY <1>2, <2>3, <2>4, <2>5, <2>6 DEF WorkerStep
<1>3. ASSUME NEW s \in Servers, AdminStep(s)
      PROVE  \/ UNCHANGED <<ingress_keys, reports>>
             \/ \E k \in Keys, id \in ReportIds, expiry \in Nat :
                  set_report(k, id, expiry)
             \/ \E k \in Keys, start \in Nat : new_ingress_key(k, start)
             \/ \E k \in Keys, b \in BOOLEAN : retire_ingress_key(k, b)
  <2>1. ServerOK(s)
    BY TypeParts
  <2>2. /\ admin[s].key \in Keys /\ admin[s].start \in Nat /\ srv[s].key \in Keys
        /\ admin[s].start + srv[s].window \in Nat
    <3>1. /\ admin[s].key \in Keys /\ admin[s].start \in Nat
          /\ srv[s].key \in Keys /\ srv[s].window \in Nat
      BY <2>1, FieldTypes, Zenon
    <3>2. QED
      BY <3>1
  <2>3. CASE ActivatePublish(s)
    BY <2>2, <2>3, Zenon DEF ActivatePublish
  <2>4. CASE ActivateRegister(s)
    BY <2>2, <2>4, Zenon DEF ActivateRegister
  <2>5. CASE Retire(s, TRUE) \/ Retire(s, FALSE)
    BY <2>2, <2>5, Zenon DEF Retire
  <2>6. CASE \/ ActivateBegin(s) \/ ActivateLookup(s) \/ ActivateFail(s)
             \/ ActivateWrite(s) \/ NewKeys(s) \/ SetKeyCheck(s)
             \/ SetKeyApply(s) \/ SetKeyWrite(s)
             \/ \E w \in Windows : SetPubkeyExpiryWindow(s, w)
    BY <2>6, Zenon DEF ActivateBegin, ActivateLookup, ActivateFail,
       ActivateWrite, NewKeys, SetKeyCheck, SetKeyApply, SetKeyWrite,
       SetPubkeyExpiryWindow, db_vars
  <2>7. QED
    BY <1>3, <2>3, <2>4, <2>5, <2>6, Zenon DEF AdminStep
<1>4. ASSUME NEW s \in Servers, FaultStep(s)
      PROVE  UNCHANGED <<ingress_keys, reports>>
  BY <1>4, Zenon DEF FaultStep, Crash, Restart, RemoveStateFile, StartFresh, db_vars
<1>5. CASE \E k \in Keys : ReportLost(k)
  BY <1>5, Zenon DEF ReportLost
<1>6. CASE AppendBlock
  BY <1>6, Zenon DEF AppendBlock, db_vars
<1>7. QED
  BY <1>1, <1>2, <1>3, <1>4, <1>5, <1>6, Zenon DEF Next

\* No step lowers the expiry of a key or publishes a report past it.
LEMMA ReportsStep ==
    ASSUME TypeInv, ReportsWithinExpiry, [Next]_vars
    PROVE  ReportsWithinExpiry'
<1>1. DbTypeOK /\ TypeInv' /\ DbTypeOK'
  BY NextTypes DEF TypeInv, TypeOK
<1>2. \A i \in ReportIds : /\ reports[i] \in ReportRow
                           /\ reports[i].ingress_key \in Keys
                           /\ reports[i].pubkey_expiry \in Nat
  BY <1>1 DEF DbTypeOK, ReportRow
<1>3. \A k \in Keys : /\ ingress_keys[k] \in KeyStatus
                      /\ ingress_keys'[k] \in KeyStatus
                      /\ ingress_keys[k].pubkey_expiry \in Nat
                      /\ ingress_keys'[k].pubkey_expiry \in Nat
  BY <1>1 DEF DbTypeOK, KeyStatus
<1>4. CASE UNCHANGED <<ingress_keys, reports>>
  BY <1>4, Zenon DEF ReportsWithinExpiry
<1>5. ASSUME NEW k \in Keys, NEW id \in ReportIds, NEW expiry \in Nat,
             set_report(k, id, expiry), ~UNCHANGED <<ingress_keys, reports>>
      PROVE  ReportsWithinExpiry'
  <2>1. /\ ingress_keys[k].exists
        /\ expiry <= ingress_keys'[k].pubkey_expiry
        /\ \A j \in Keys :
             /\ ingress_keys'[j].exists = ingress_keys[j].exists
             /\ ingress_keys[j].pubkey_expiry <= ingress_keys'[j].pubkey_expiry
        /\ \A i \in ReportIds :
             \/ reports'[i] = reports[i]
             \/ reports'[i].ingress_key = k /\ reports'[i].pubkey_expiry = expiry
    BY <1>1, <1>5, SetReportCall
  <2>2. SUFFICES ASSUME NEW i \in ReportIds, reports'[i].exists
                 PROVE  /\ ingress_keys'[reports'[i].ingress_key].exists
                        /\ reports'[i].pubkey_expiry
                             <= ingress_keys'[reports'[i].ingress_key].pubkey_expiry
    BY DEF ReportsWithinExpiry
  <2>3. CASE reports'[i] = reports[i]
    <3>1. PICK j \in Keys : j = reports[i].ingress_key
      BY <1>2
    <3>2. ingress_keys[j].exists /\ reports[i].pubkey_expiry <= ingress_keys[j].pubkey_expiry
      BY <2>2, <2>3, <3>1, Zenon DEF ReportsWithinExpiry
    <3>3. reports[i].pubkey_expiry <= ingress_keys'[j].pubkey_expiry
      BY <1>2, <1>3, <2>1, <3>2
    <3>4. QED
      BY <2>1, <2>3, <3>1, <3>2, <3>3, Zenon
  <2>4. CASE reports'[i].ingress_key = k /\ reports'[i].pubkey_expiry = expiry
    BY <2>1, <2>4, Zenon
  <2>5. QED
    BY <2>1, <2>3, <2>4
<1>6. ASSUME UNCHANGED reports,
             \A j \in Keys : ingress_keys[j].exists =>
               /\ ingress_keys'[j].exists
               /\ ingress_keys'[j].pubkey_expiry = ingress_keys[j].pubkey_expiry
      PROVE  ReportsWithinExpiry'
  BY <1>2, <1>6, Zenon DEF ReportsWithinExpiry
<1>7. ASSUME NEW k \in Keys, NEW start \in Nat, new_ingress_key(k, start)
      PROVE  ReportsWithinExpiry'
  <2>1. UNCHANGED reports /\ ~ingress_keys[k].exists
    BY <1>7 DEF new_ingress_key
  <2>2. \A j \in Keys : j # k => ingress_keys'[j] = ingress_keys[j]
    BY <1>1, <1>7 DEF new_ingress_key, DbTypeOK
  <2>3. QED
    BY <1>6, <2>1, <2>2, Zenon
<1>8. ASSUME NEW k \in Keys, NEW b \in BOOLEAN, retire_ingress_key(k, b)
      PROVE  ReportsWithinExpiry'
  <2>1. UNCHANGED reports
    BY <1>8 DEF retire_ingress_key
  <2>2. \A j \in Keys :
          /\ ingress_keys'[j].exists = ingress_keys[j].exists
          /\ ingress_keys'[j].pubkey_expiry = ingress_keys[j].pubkey_expiry
    BY <1>1, <1>8 DEF retire_ingress_key, DbTypeOK, KeyStatus
  <2>3. QED
    BY <1>6, <2>1, <2>2, Zenon
<1>9. ASSUME NEW k \in Keys, report_lost_ingress_key(k)
      PROVE  ReportsWithinExpiry'
  <2>1. /\ UNCHANGED reports
        /\ ingress_keys' = [ingress_keys EXCEPT ![k].lost = TRUE]
    BY <1>9 DEF report_lost_ingress_key
  <2>2. \A j \in Keys :
          /\ ingress_keys'[j].exists = ingress_keys[j].exists
          /\ ingress_keys'[j].pubkey_expiry = ingress_keys[j].pubkey_expiry
    BY <1>1, <2>1 DEF DbTypeOK, KeyStatus
  <2>3. QED
    BY <1>6, <2>1, <2>2, Zenon
<1>10. QED
  BY <1>4, <1>5, <1>7, <1>8, <1>9, KeyCalls, Zenon

\* set_report: every report the report server hands out bounds the tombstone
\* block by at most the pubkey_expiry recorded for its key, whatever keys are
\* registered, retired, unretired or lost.
THEOREM ReportsStayWithinExpiry == Spec => []ReportsWithinExpiry
<1>1. Init => ReportsWithinExpiry
  <2>1. Init => \A id \in ReportIds : ~reports[id].exists
    BY DEF Init, DbInit
  <2>2. QED
    BY <2>1, ZenonT(60) DEF ReportsWithinExpiry
<1>2. TypeInv /\ ReportsWithinExpiry /\ [Next]_vars => ReportsWithinExpiry'
  BY ReportsStep
<1>3. QED
  BY <1>1, <1>2, InitTypes, NextTypes, PTL DEF Spec

=============================================================================

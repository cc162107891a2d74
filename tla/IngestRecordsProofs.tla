------------------------ MODULE IngestRecordsProofs -------------------------
(***************************************************************************)
(* What the ingest servers publish, for every number of servers, keys and  *)
(* blocks: an RNG output is used once, the published outputs of an RNG     *)
(* have no gaps and their egress key is announced, and an invocation's     *)
(* blocks follow each other and end where its decommissioning says.        *)
(***************************************************************************)
EXTENDS IngestControllerProofs

-----------------------------------------------------------------------------
(* RNG outputs. *)

\* The enclave of s drew the row's RNG output already.
Drawn(s, r) ==
    \/ r.egress[2] < srv[s].egress
    \/ r.egress[2] = srv[s].egress /\ r.index < srv[s].rng

\* The rows that a block of the table holds, or that the worker of s has for
\* the next one, were drawn; the worker's are not in the table, unless its own
\* add_block_data committed and the reply was lost.
RngInv(s) ==
    /\ worker[s].pc \in {"poll", "write", "publish", "invocation"} =>
         worker[s].rows = {}
    /\ \A r \in PublishedRows : r.egress[1] = s => Drawn(s, r)
    /\ \A r \in worker[s].rows : r.egress[1] = s /\ Drawn(s, r)
    /\ worker[s].pc \in {"ingest", "rotate"} =>
         \/ worker[s].rows \cap PublishedRows = {}
         \/ /\ worker[s].pc = "ingest"
            /\ worker[s].chunk > Len(ChunksOf(s))
            /\ worker[s].iid \in DOMAIN ingest_invocations
            /\ AlreadyScanned(worker[s].iid, worker[s].block)

UsedOnceInv == RngOutputsUsedOnce /\ \A s \in Servers : RngInv(s)

-----------------------------------------------------------------------------
(* Invocations. *)

\* What the tables say of invocations and events stays within the tables, and
\* an invocation's blocks follow each other from its start block.
TablesInv ==
    /\ \A r \in ingested_blocks :
         /\ r.iid \in DOMAIN ingest_invocations
         /\ r.ingress_key = ingest_invocations[r.iid].ingress_key
         /\ ingest_invocations[r.iid].start_block <= r.block
         /\ \A b \in ingest_invocations[r.iid].start_block..r.block :
              b \in IngestedBy(r.iid)
    /\ \A i \in DOMAIN user_events :
         user_events[i].type # "missing_blocks" =>
             user_events[i].iid \in DOMAIN ingest_invocations
    /\ \A i \in DOMAIN ingest_invocations :
         ingest_invocations[i].decommissioned => Decommissioned(i)

\* Invocation i of a server at block n, whose worker is at pc, is open, and the
\* blocks it published are those from its start block to n, with or without n.
\* A worker that retries a rotation may have closed it.
OpenAt(i, n, pc) ==
    /\ ingest_invocations[i].start_block <= n
    /\ \A b \in IngestedBy(i) : b <= n
    /\ \A b \in ingest_invocations[i].start_block..(n - 1) : b \in IngestedBy(i)
    /\ Decommissioned(i) => pc = "rotate"

InvocationInv(s) ==
    /\ srv[s].iid # NoInvocation => OpenAt(srv[s].iid, srv[s].next, worker[s].pc)
    /\ worker[s].pc \in {"ingest", "rotate", "won"} =>
         srv[s].iid # NoInvocation /\ worker[s].iid = srv[s].iid
    /\ worker[s].pc = "won" => srv[s].next \in IngestedBy(srv[s].iid)
    /\ worker[s].pc = "new_egress" => srv[s].iid = NoInvocation

\* No two servers have the same invocation.
Exclusive ==
    \A s, t \in Servers :
        srv[s].iid # NoInvocation /\ srv[t].iid = srv[s].iid => t = s

InvocationsInv ==
    TablesInv /\ Exclusive /\ \A s \in Servers : InvocationInv(s)

-----------------------------------------------------------------------------
(* Records. *)

Announced(egress, k, n) ==
    \E i \in DOMAIN ingest_invocations :
        /\ ingest_invocations[i].egress_key = egress
        /\ ingest_invocations[i].ingress_key = k
        /\ ingest_invocations[i].start_block <= n

Row(egress, i) == [egress |-> egress, index |-> i]

RecordInv(s) ==
    /\ srv[s].iid # NoInvocation /\ worker[s].pc # "rotate" =>
         ingest_invocations[srv[s].iid].egress_key = EgressOf(s)
    /\ worker[s].pc \in {"publish", "invocation"} =>
         worker[s].egress = srv[s].egress
    /\ worker[s].pc \in {"ingest", "rotate"} => 
         \A r \in worker[s].rows :
             \/ Announced(r.egress, worker[s].key, worker[s].block)
             \/ worker[s].pc = "rotate" /\ r.egress = EgressOf(s)
    /\ \A r \in worker[s].rows : \A i \in 0..(r.index - 1) :
         Row(r.egress, i) \in PublishedRows \cup worker[s].rows
    /\ srv[s].up /\ worker[s].pc \notin {"lost", "new_egress"} =>
         \A i \in 0..(srv[s].rng - 1) :
             Row(EgressOf(s), i) \in PublishedRows \cup worker[s].rows
    /\ worker[s].pc = "won" => worker[s].rows \subseteq PublishedRows

RecordsInv ==
    /\ budget["chunk_too_big"] = 0
    /\ NoRngGaps /\ RowsAnnounced
    /\ \A s \in Servers : RecordInv(s)

-----------------------------------------------------------------------------
(* What the steps do to the worker's locals, the RNG table and the           *)
(* invocation of the server.                                                 *)

\* The fields of server s that the records depend on.
SrvSame(s) ==
    /\ srv'[s].up = srv[s].up /\ srv'[s].iid = srv[s].iid
    /\ srv'[s].egress = srv[s].egress /\ srv'[s].rng = srv[s].rng
    /\ srv'[s].next = srv[s].next /\ srv'[s].key = srv[s].key

\* A step that leaves the worker, the invocation and the RNG table alone.
Still(s) ==
    /\ UNCHANGED tables
    /\ worker'[s] = worker[s]
    /\ srv'[s].up = srv[s].up /\ srv'[s].iid = srv[s].iid
    /\ srv'[s].egress = srv[s].egress /\ srv'[s].rng = srv[s].rng
    /\ \/ srv'[s].next = srv[s].next
       \/ admin[s].pc \in {"lookup", "register", "publish"}

\* The calls but new_keys, and the removal of a state file.
LEMMA StillFields ==
    ASSUME TypeInv, NEW s \in Servers,
           \/ ActivateBegin(s) \/ ActivateLookup(s) \/ ActivateRegister(s)
           \/ ActivatePublish(s) \/ ActivateFail(s) \/ ActivateWrite(s)
           \/ SetKeyCheck(s) \/ SetKeyApply(s) \/ SetKeyWrite(s)
           \/ Retire(s, TRUE) \/ Retire(s, FALSE)
           \/ \E w \in Windows : SetPubkeyExpiryWindow(s, w)
           \/ RemoveStateFile(s)
    PROVE  Still(s)
<1>1. srv \in [Servers -> Server] /\ srv[s] \in Server
  BY DEF TypeInv, TypeOK
<1>2. CASE \/ ActivateLookup(s) \/ ActivateWrite(s) \/ SetKeyCheck(s)
           \/ SetKeyWrite(s) \/ RemoveStateFile(s)
  BY <1>2, Zenon DEF Still, tables, db_vars, ActivateLookup, ActivateWrite,
     SetKeyCheck, SetKeyWrite, RemoveStateFile
<1>3. CASE ActivateBegin(s)
  <2>1. srv'[s] = [srv[s] EXCEPT !.lock = "admin"]
    BY <1>1, <1>3, Zenon DEF ActivateBegin
  <2>2. UNCHANGED tables /\ UNCHANGED worker
    BY <1>3 DEF ActivateBegin, tables, db_vars
  <2>3. QED
    BY <1>1, <2>1, <2>2, Zenon DEF Still, Server
<1>4. CASE ActivateRegister(s)
  BY <1>4, Zenon DEF Still, ActivateRegister, new_ingress_key, tables
<1>5. CASE ActivatePublish(s)
  <2>1. PICK m : srv'[s] = [srv[s] EXCEPT !.next = admin[s].start,
                                          !.lock = "free", !.mode = m]
    BY <1>1, <1>5, Zenon DEF ActivatePublish
  <2>2. UNCHANGED tables /\ UNCHANGED worker /\ admin[s].pc = "publish"
    BY <1>5, Zenon DEF ActivatePublish, set_report, tables
  <2>3. QED
    BY <1>1, <2>1, <2>2, Zenon DEF Still, Server
<1>6. CASE ActivateFail(s)
  <2>1. PICK n : srv'[s] = [srv[s] EXCEPT !.lock = "free", !.next = n]
    BY <1>1, <1>6, Zenon DEF ActivateFail
  <2>2. /\ UNCHANGED tables /\ UNCHANGED worker
        /\ admin[s].pc \in {"lookup", "register", "publish"}
    BY <1>6, Zenon DEF ActivateFail, db_vars, tables
  <2>3. QED
    BY <1>1, <2>1, <2>2, Zenon DEF Still, Server
<1>7. CASE SetKeyApply(s)
  <2>1. srv'[s] = [srv[s] EXCEPT !.key = setter[s].key]
    BY <1>1, <1>7, Zenon DEF SetKeyApply
  <2>2. UNCHANGED tables /\ UNCHANGED worker
    BY <1>7 DEF SetKeyApply, tables, db_vars
  <2>3. QED
    BY <1>1, <2>1, <2>2, Zenon DEF Still, Server
<1>8. CASE Retire(s, TRUE) \/ Retire(s, FALSE)
  BY <1>8, Zenon DEF Still, Retire, retire_ingress_key, tables
<1>9. CASE \E w \in Windows : SetPubkeyExpiryWindow(s, w)
  <2>1. PICK w : srv'[s] = [srv[s] EXCEPT !.window = w]
    BY <1>1, <1>9, Zenon DEF SetPubkeyExpiryWindow
  <2>2. UNCHANGED tables /\ UNCHANGED worker
    BY <1>9, Zenon DEF SetPubkeyExpiryWindow, tables, db_vars
  <2>3. QED
    BY <1>1, <2>1, <2>2, Zenon DEF Still, Server
<1>10. QED
  BY <1>2, <1>3, <1>4, <1>5, <1>6, <1>7, <1>8, <1>9, Zenon

\* The worker looks at its next block.
LEMMA BeginBlockFields ==
    ASSUME TypeInv, NEW s \in Servers, BeginBlock(s)
    PROVE  /\ UNCHANGED tables /\ SrvSame(s)
           /\ srv[s].up /\ worker[s].pc = "poll" /\ srv[s].mode = "active"
           /\ worker'[s].pc = "publish" /\ worker'[s].rows = {}
           /\ worker'[s].egress = srv[s].egress /\ worker'[s].key = srv[s].key
           /\ worker'[s].block = srv[s].next
<1>1. worker'[s] = [IdleWorker(srv[s].key) EXCEPT !.pc = "publish",
                      !.block = srv[s].next, !.egress = srv[s].egress]
  BY DEF BeginBlock, TypeInv, TypeOK
<1>2. /\ worker'[s].pc = "publish" /\ worker'[s].rows = {}
      /\ worker'[s].egress = srv[s].egress /\ worker'[s].key = srv[s].key
      /\ worker'[s].block = srv[s].next
  BY <1>1 DEF IdleWorker
<1>3. /\ UNCHANGED tables /\ UNCHANGED srv
      /\ srv[s].up /\ worker[s].pc = "poll" /\ srv[s].mode = "active"
  BY Zenon DEF BeginBlock, tables, db_vars
<1>4. QED
  BY <1>2, <1>3, Zenon DEF SrvSame

\* The worker has tried to publish its report.
LEMMA PublishReportFields ==
    ASSUME TypeInv, NEW s \in Servers, PublishReport(s)
    PROVE  /\ UNCHANGED tables /\ SrvSame(s)
           /\ srv[s].up /\ worker[s].pc = "publish"
           /\ worker'[s].pc \in {"retired", "invocation"}
           /\ worker'[s].rows = worker[s].rows
           /\ worker'[s].egress = worker[s].egress
           /\ worker'[s].key = worker[s].key /\ worker'[s].block = worker[s].block
<1>1. srv[s] \in Server /\ worker[s] \in Worker
  BY DEF TypeInv, TypeOK
<1>2. PICK pc \in {"retired", "invocation"} :
        worker'[s] = [worker[s] EXCEPT !.pc = pc]
  BY Zenon DEF PublishReport, TypeInv, TypeOK
<1>3. srv'[s] = [srv[s] EXCEPT !.lock = "worker"]
  BY Zenon DEF PublishReport, TypeInv, TypeOK
<1>4. UNCHANGED tables /\ srv[s].up /\ worker[s].pc = "publish"
  BY Zenon DEF PublishReport, set_report, tables, db_vars
<1>5. SrvSame(s)
  BY <1>1, <1>3, Zenon DEF SrvSame, Server
<1>6. QED
  BY <1>1, <1>2, <1>4, <1>5, ZenonT(60) DEF Worker

\* The worker has an invocation, a new one or the one the server had.
LEMMA EnsureInvocationFields ==
    ASSUME TypeInv, NEW s \in Servers, EnsureInvocation(s)
    PROVE  /\ \/ /\ srv[s].iid = NoInvocation
                 /\ new_ingest_invocation(NoInvocation, worker[s].key,
                      <<s, worker[s].egress>>, worker[s].block)
                 /\ srv'[s].iid = NextInvocationId
              \/ /\ srv[s].iid # NoInvocation
                 /\ UNCHANGED tables
                 /\ srv'[s].iid = srv[s].iid
           /\ srv[s].up /\ srv'[s].up /\ worker[s].pc = "invocation"
           /\ srv'[s].egress = srv[s].egress /\ srv'[s].rng = srv[s].rng
           /\ srv'[s].next = srv[s].next /\ srv'[s].key = srv[s].key
           /\ worker'[s].pc = "ingest" /\ worker'[s].iid = srv'[s].iid
           /\ worker'[s].rows = worker[s].rows
           /\ worker'[s].key = worker[s].key /\ worker'[s].block = worker[s].block
<1>1. srv[s] \in Server /\ worker[s] \in Worker
  BY DEF TypeInv, TypeOK
<1>2. srv[s].up /\ worker[s].pc = "invocation"
  BY DEF EnsureInvocation
<1>3. CASE srv[s].iid = NoInvocation
  <2>1. /\ new_ingest_invocation(NoInvocation, worker[s].key,
             <<s, worker[s].egress>>, worker[s].block)
        /\ srv'[s] = [srv[s] EXCEPT !.iid = NextInvocationId, !.lock = "free"]
        /\ worker'[s] = [worker[s] EXCEPT !.iid = NextInvocationId,
                                          !.pc = "ingest"]
    BY <1>3, Zenon DEF EnsureInvocation, TypeInv, TypeOK
  <2>2. /\ srv'[s].iid = NextInvocationId /\ srv'[s].up = srv[s].up
        /\ srv'[s].egress = srv[s].egress /\ srv'[s].rng = srv[s].rng
        /\ srv'[s].next = srv[s].next /\ srv'[s].key = srv[s].key
    BY <1>1, <2>1, Zenon DEF Server
  <2>3. /\ worker'[s].pc = "ingest" /\ worker'[s].iid = NextInvocationId
        /\ worker'[s].rows = worker[s].rows
        /\ worker'[s].key = worker[s].key /\ worker'[s].block = worker[s].block
    BY <1>1, <2>1, Zenon DEF Worker
  <2>4. QED
    BY <1>2, <1>3, <2>1, <2>2, <2>3, Zenon
<1>4. CASE srv[s].iid # NoInvocation
  <2>1. /\ UNCHANGED tables
        /\ srv'[s] = [srv[s] EXCEPT !.lock = "free"]
        /\ worker'[s] = [worker[s] EXCEPT !.iid = srv[s].iid, !.pc = "ingest"]
    BY <1>4, Zenon DEF EnsureInvocation, TypeInv, TypeOK, tables, db_vars
  <2>2. /\ srv'[s].iid = srv[s].iid /\ srv'[s].up = srv[s].up
        /\ srv'[s].egress = srv[s].egress /\ srv'[s].rng = srv[s].rng
        /\ srv'[s].next = srv[s].next /\ srv'[s].key = srv[s].key
    BY <1>1, <2>1, Zenon DEF Server
  <2>3. /\ worker'[s].pc = "ingest" /\ worker'[s].iid = srv[s].iid
        /\ worker'[s].rows = worker[s].rows
        /\ worker'[s].key = worker[s].key /\ worker'[s].block = worker[s].block
    BY <1>1, <2>1, Zenon DEF Worker
  <2>4. QED
    BY <1>2, <1>4, <2>1, <2>2, <2>3, Zenon
<1>5. QED
  BY <1>3, <1>4

\* A chunk is scanned: its records take the next RNG outputs.
LEMMA IngestChunkFields ==
    ASSUME TypeInv, NEW s \in Servers, IngestChunk(s)
    PROVE  /\ UNCHANGED tables /\ Owned(s) \in Nat
           /\ srv[s].up /\ worker[s].pc = "ingest"
           /\ worker[s].chunk <= Len(ChunksOf(s))
           /\ srv'[s].up /\ srv'[s].iid = srv[s].iid
           /\ srv'[s].egress = srv[s].egress /\ srv'[s].next = srv[s].next
           /\ srv'[s].rng = srv[s].rng + Owned(s)
           /\ worker'[s].pc = "ingest" /\ worker'[s].iid = worker[s].iid
           /\ worker'[s].key = worker[s].key /\ worker'[s].block = worker[s].block
           /\ worker'[s].rows = worker[s].rows
                \cup Outputs(EgressOf(s), srv[s].rng, Owned(s))
<1>1. srv[s] \in Server /\ worker[s] \in Worker
  BY DEF TypeInv, TypeOK
<1>2. /\ UNCHANGED tables /\ srv[s].up /\ worker[s].pc = "ingest"
      /\ worker[s].chunk <= Len(ChunksOf(s))
  BY Zenon DEF IngestChunk, tables, db_vars
<1>3. Owned(s) \in Nat
  BY <1>2, OwnedType
<1>4. PICK c : worker'[s] = [worker[s] EXCEPT
                 !.rows = worker[s].rows
                   \cup Outputs(EgressOf(s), srv[s].rng, Owned(s)),
                 !.chunk = c]
  BY Zenon DEF IngestChunk, TypeInv, TypeOK
<1>5. srv'[s] = [srv[s] EXCEPT !.rng = srv[s].rng + Owned(s)]
  BY DEF IngestChunk, TypeInv, TypeOK
<1>6. /\ srv'[s].up = srv[s].up /\ srv'[s].iid = srv[s].iid
      /\ srv'[s].egress = srv[s].egress /\ srv'[s].next = srv[s].next
      /\ srv'[s].rng = srv[s].rng + Owned(s)
  BY <1>1, <1>5, Zenon DEF Server
<1>7. /\ worker'[s].pc = "ingest" /\ worker'[s].iid = worker[s].iid
      /\ worker'[s].key = worker[s].key /\ worker'[s].block = worker[s].block
      /\ worker'[s].rows = worker[s].rows
           \cup Outputs(EgressOf(s), srv[s].rng, Owned(s))
  BY <1>1, <1>2, <1>4, ZenonT(60) DEF Worker
<1>8. srv'[s].up
  BY <1>2, <1>6
<1>9. QED
  BY <1>2, <1>3, <1>6, <1>7, <1>8, ZenonT(60)

\* A chunk is scanned again with a fresh egress key.
LEMMA IngestChunkOverflowFields ==
    ASSUME TypeInv, NEW s \in Servers, IngestChunkOverflow(s)
    PROVE  /\ UNCHANGED tables /\ Owned(s) \in Nat
           /\ srv[s].up /\ worker[s].pc = "ingest"
           /\ worker[s].chunk <= Len(ChunksOf(s))
           /\ srv'[s].up /\ srv'[s].iid = srv[s].iid
           /\ srv'[s].egress = srv[s].egress + 1 /\ srv'[s].next = srv[s].next
           /\ srv'[s].rng = Owned(s)
           /\ worker'[s].pc = "rotate" /\ worker'[s].iid = worker[s].iid
           /\ worker'[s].key = worker[s].key /\ worker'[s].block = worker[s].block
           /\ worker'[s].rows = worker[s].rows
                \cup Outputs(<<s, srv[s].egress + 1>>, 0, Owned(s))
<1>1. srv[s] \in Server /\ worker[s] \in Worker
  BY DEF TypeInv, TypeOK
<1>2. /\ UNCHANGED tables /\ srv[s].up /\ worker[s].pc = "ingest"
      /\ worker[s].chunk <= Len(ChunksOf(s))
  BY Zenon DEF IngestChunkOverflow, tables, db_vars
<1>3. Owned(s) \in Nat
  BY <1>2, OwnedType
<1>4. PICK c : worker'[s] = [worker[s] EXCEPT
                 !.rows = worker[s].rows
                   \cup Outputs(<<s, srv[s].egress + 1>>, 0, Owned(s)),
                 !.chunk = c, !.pc = "rotate"]
  BY Zenon DEF IngestChunkOverflow, TypeInv, TypeOK
<1>5. srv'[s] = [srv[s] EXCEPT !.egress = srv[s].egress + 1, !.rng = Owned(s)]
  BY DEF IngestChunkOverflow, TypeInv, TypeOK
<1>6. /\ srv'[s].up = srv[s].up /\ srv'[s].iid = srv[s].iid
      /\ srv'[s].egress = srv[s].egress + 1 /\ srv'[s].next = srv[s].next
      /\ srv'[s].rng = Owned(s)
  BY <1>1, <1>5, Zenon DEF Server
<1>7. /\ worker'[s].pc = "rotate" /\ worker'[s].iid = worker[s].iid
      /\ worker'[s].key = worker[s].key /\ worker'[s].block = worker[s].block
      /\ worker'[s].rows = worker[s].rows
           \cup Outputs(<<s, srv[s].egress + 1>>, 0, Owned(s))
  BY <1>1, <1>4, Zenon DEF Worker
<1>8. QED
  BY <1>2, <1>3, <1>6, <1>7, Zenon

\* The enclave gives up on a chunk.
LEMMA IngestChunkTooBigFields ==
    ASSUME TypeInv, NEW s \in Servers, IngestChunkTooBig(s)
    PROVE  /\ UNCHANGED tables
           /\ srv[s].up /\ srv'[s].up /\ worker[s].pc = "ingest"
           /\ srv'[s].iid = srv[s].iid /\ srv'[s].next = srv[s].next
           /\ srv'[s].egress = srv[s].egress + 1
           /\ worker'[s].pc = "poll" /\ worker'[s].rows = {}
           /\ budget["chunk_too_big"] > 0
<1>1. srv[s] \in Server /\ worker[s] \in Worker
  BY DEF TypeInv, TypeOK
<1>2. /\ UNCHANGED tables /\ srv[s].up /\ worker[s].pc = "ingest"
      /\ budget["chunk_too_big"] > 0
  BY Zenon DEF IngestChunkTooBig, Spend, tables, db_vars
<1>3. worker'[s] = IdleWorker(srv[s].key)
  BY DEF IngestChunkTooBig, TypeInv, TypeOK
<1>4. PICK done : srv'[s] = [srv[s] EXCEPT !.egress = srv[s].egress + 1,
                                           !.rng = done]
  BY Zenon DEF IngestChunkTooBig, TypeInv, TypeOK
<1>5. worker'[s].pc = "poll" /\ worker'[s].rows = {}
  BY <1>3 DEF IdleWorker
<1>6. QED
  BY <1>1, <1>2, <1>4, <1>5, Zenon DEF Server

\* The invocation of the new egress key is open; the worker knows, or the
\* reply was lost.
LEMMA RotateInvocationFields ==
    ASSUME TypeInv, NEW s \in Servers, RotateInvocation(s)
    PROVE  /\ new_ingest_invocation(worker[s].iid, worker[s].key, EgressOf(s),
                                    worker[s].block)
           /\ srv[s].up /\ srv'[s].up /\ worker[s].pc = "rotate"
           /\ \/ /\ srv'[s].iid = NextInvocationId
                 /\ worker'[s].iid = NextInvocationId
                 /\ worker'[s].pc = "ingest"
              \/ srv'[s].iid = srv[s].iid /\ worker'[s] = worker[s]
           /\ srv'[s].egress = srv[s].egress /\ srv'[s].rng = srv[s].rng
           /\ srv'[s].next = srv[s].next
           /\ worker'[s].rows = worker[s].rows
           /\ worker'[s].key = worker[s].key /\ worker'[s].block = worker[s].block
<1>1. srv[s] \in Server /\ worker[s] \in Worker
  BY DEF TypeInv, TypeOK
<1>2. /\ new_ingest_invocation(worker[s].iid, worker[s].key, EgressOf(s),
                               worker[s].block)
      /\ srv[s].up /\ worker[s].pc = "rotate"
  BY Zenon DEF RotateInvocation
<1>3. CASE UNCHANGED <<srv, worker>>
  BY <1>2, <1>3, Zenon
<1>4. CASE /\ srv' = [srv EXCEPT ![s].iid = NextInvocationId]
           /\ worker' = [worker EXCEPT ![s].iid = NextInvocationId,
                                       ![s].pc = "ingest"]
  <2>1. /\ srv'[s] = [srv[s] EXCEPT !.iid = NextInvocationId]
        /\ worker'[s] = [worker[s] EXCEPT !.iid = NextInvocationId,
                                          !.pc = "ingest"]
    BY <1>4, Zenon DEF TypeInv, TypeOK
  <2>2. /\ srv'[s].iid = NextInvocationId /\ srv'[s].up = srv[s].up
        /\ srv'[s].egress = srv[s].egress /\ srv'[s].rng = srv[s].rng
        /\ srv'[s].next = srv[s].next
    BY <1>1, <2>1, Zenon DEF Server
  <2>3. /\ worker'[s].pc = "ingest" /\ worker'[s].iid = NextInvocationId
        /\ worker'[s].rows = worker[s].rows
        /\ worker'[s].key = worker[s].key /\ worker'[s].block = worker[s].block
    BY <1>1, <2>1, Zenon DEF Worker
  <2>4. QED
    BY <1>2, <2>2, <2>3, Zenon
<1>5. QED
  BY <1>3, <1>4, Zenon DEF RotateInvocation

\* The block is published, and the worker knows it or not; or it was already.
LEMMA AddBlockDataFields ==
    ASSUME TypeInv, NEW s \in Servers, AddBlockData(s)
    PROVE  /\ srv[s].up /\ worker[s].pc = "ingest" /\ SrvSame(s)
           /\ worker[s].chunk > Len(ChunksOf(s))
           /\ \/ /\ add_block_data(worker[s].iid, worker[s].block, worker[s].rows)
                 /\ worker'[s].pc = "won" \/ worker'[s] = worker[s]
              \/ UNCHANGED tables /\ worker'[s].pc = "lost"
           /\ worker'[s].rows = worker[s].rows /\ worker'[s].iid = worker[s].iid
           /\ worker'[s].key = worker[s].key /\ worker'[s].block = worker[s].block
<1>1. worker[s] \in Worker
  BY DEF TypeInv, TypeOK
<1>2. /\ srv[s].up /\ worker[s].pc = "ingest" /\ UNCHANGED srv
      /\ worker[s].chunk > Len(ChunksOf(s))
  BY Zenon DEF AddBlockData
<1>3. SrvSame(s)
  BY <1>2, Zenon DEF SrvSame
<1>4. \/ /\ add_block_data(worker[s].iid, worker[s].block, worker[s].rows)
         /\ \/ worker'[s] = [worker[s] EXCEPT !.pc = "won"]
            \/ worker'[s] = worker[s]
      \/ UNCHANGED tables /\ worker'[s] = [worker[s] EXCEPT !.pc = "lost"]
  BY Zenon DEF AddBlockData, TypeInv, TypeOK, tables, db_vars
<1>5. CASE worker'[s] = [worker[s] EXCEPT !.pc = "won"]
  <2>1. /\ worker'[s].pc = "won"
        /\ worker'[s].rows = worker[s].rows /\ worker'[s].iid = worker[s].iid
        /\ worker'[s].key = worker[s].key /\ worker'[s].block = worker[s].block
    BY <1>1, <1>5, Zenon DEF Worker
  <2>2. worker'[s] # [worker[s] EXCEPT !.pc = "lost"]
    BY <1>1, <2>1 DEF Worker
  <2>3. QED
    BY <1>2, <1>3, <1>4, <2>1, <2>2, Zenon
<1>6. CASE worker'[s] = worker[s]
  <2>1. worker'[s] # [worker[s] EXCEPT !.pc = "lost"]
    BY <1>1, <1>2, <1>6 DEF Worker
  <2>2. QED
    BY <1>2, <1>3, <1>4, <1>6, <2>1, Zenon
<1>7. CASE UNCHANGED tables /\ worker'[s] = [worker[s] EXCEPT !.pc = "lost"]
  <2>1. /\ worker'[s].pc = "lost"
        /\ worker'[s].rows = worker[s].rows /\ worker'[s].iid = worker[s].iid
        /\ worker'[s].key = worker[s].key /\ worker'[s].block = worker[s].block
    BY <1>1, <1>7, Zenon DEF Worker
  <2>2. QED
    BY <1>2, <1>3, <1>7, <2>1, Zenon
<1>8. QED
  BY <1>4, <1>5, <1>6, <1>7

\* The block index moves on.
LEMMA AdvanceNextBlockFields ==
    ASSUME TypeInv, NEW s \in Servers, AdvanceNextBlock(s)
    PROVE  /\ UNCHANGED tables
           /\ srv[s].up /\ srv'[s].up /\ worker[s].pc = "won"
           /\ srv'[s].iid = srv[s].iid /\ srv'[s].next = srv[s].next + 1
           /\ srv'[s].egress = srv[s].egress /\ srv'[s].rng = srv[s].rng
           /\ worker'[s].pc = "write" /\ worker'[s].rows = {}
<1>1. srv[s] \in Server
  BY DEF TypeInv, TypeOK
<1>2. /\ UNCHANGED tables /\ srv[s].up /\ worker[s].pc = "won"
      /\ srv'[s] = [srv[s] EXCEPT !.next = srv[s].next + 1]
      /\ worker'[s] = [IdleWorker(srv[s].key) EXCEPT !.pc = "write"]
  BY Zenon DEF AdvanceNextBlock, TypeInv, TypeOK, tables, db_vars
<1>3. worker'[s].pc = "write" /\ worker'[s].rows = {}
  BY <1>2 DEF IdleWorker
<1>4. QED
  BY <1>1, <1>2, <1>3, Zenon DEF Server

\* The server gives its invocation up and goes idle.
LEMMA BackOffFields ==
    ASSUME TypeInv, NEW s \in Servers, BackOff(s)
    PROVE  /\ \/ /\ srv[s].iid # NoInvocation
                 /\ decommission_ingest_invocation(srv[s].iid)
              \/ UNCHANGED tables
           /\ srv[s].up /\ srv'[s].up /\ worker[s].pc \in {"lost", "retired"}
           /\ srv'[s].iid = NoInvocation /\ srv'[s].next = srv[s].next
           /\ srv'[s].egress = srv[s].egress /\ srv'[s].rng = srv[s].rng
           /\ worker'[s].pc = "new_egress" /\ worker'[s].rows = worker[s].rows
<1>1. srv[s] \in Server /\ worker[s] \in Worker
  BY DEF TypeInv, TypeOK
<1>2. srv[s].up /\ worker[s].pc \in {"lost", "retired"}
  BY Zenon DEF BackOff
<1>3. PICK b : worker'[s] = [worker[s] EXCEPT !.pc = "new_egress", !.retired = b]
  BY Zenon DEF BackOff, TypeInv, TypeOK
<1>4. \/ /\ srv[s].iid # NoInvocation
         /\ decommission_ingest_invocation(srv[s].iid)
      \/ UNCHANGED tables
  BY Zenon DEF BackOff, DecommissionInvocation, tables, db_vars
<1>5. /\ srv'[s].up = srv[s].up /\ srv'[s].iid = NoInvocation
      /\ srv'[s].egress = srv[s].egress /\ srv'[s].rng = srv[s].rng
      /\ srv'[s].next = srv[s].next
  <2>1. srv'[s] = [srv[s] EXCEPT !.mode = "idle", !.iid = NoInvocation,
                                 !.lock = "worker"]
    BY Zenon DEF BackOff, TypeInv, TypeOK
  <2>2. QED
    BY <1>1, <2>1 DEF Server
<1>6. worker'[s].pc = "new_egress" /\ worker'[s].rows = worker[s].rows
  BY <1>1, <1>3, Zenon DEF Worker
<1>7. QED
  BY <1>2, <1>4, <1>5, <1>6, Zenon

\* The server draws a fresh egress key after it lost a race or retired a key.
LEMMA NewEgressKeyFields ==
    ASSUME TypeInv, NEW s \in Servers, NewEgressKey(s)
    PROVE  /\ UNCHANGED tables
           /\ srv[s].up /\ srv'[s].up /\ worker[s].pc = "new_egress"
           /\ srv'[s].iid = srv[s].iid /\ srv'[s].next = srv[s].next
           /\ srv'[s].egress = srv[s].egress + 1 /\ srv'[s].rng = 0
           /\ worker'[s].pc \in {"poll", "write"} /\ worker'[s].rows = {}
<1>1. srv[s] \in Server
  BY DEF TypeInv, TypeOK
<1>2. UNCHANGED tables /\ srv[s].up /\ worker[s].pc = "new_egress"
  BY Zenon DEF NewEgressKey, tables, db_vars
<1>3. srv'[s] = [srv[s] EXCEPT !.egress = srv[s].egress + 1, !.rng = 0,
                               !.lock = "free"]
  BY Zenon DEF NewEgressKey, TypeInv, TypeOK
<1>4. PICK pc \in {"poll", "write"} :
        worker'[s] = [IdleWorker(srv[s].key) EXCEPT !.pc = pc]
  BY Zenon DEF NewEgressKey, TypeInv, TypeOK
<1>5. worker'[s].pc = pc /\ worker'[s].rows = {}
  BY <1>4 DEF IdleWorker
<1>6. /\ srv'[s].up = srv[s].up /\ srv'[s].iid = srv[s].iid
      /\ srv'[s].next = srv[s].next
      /\ srv'[s].egress = srv[s].egress + 1 /\ srv'[s].rng = 0
  BY <1>1, <1>3, Zenon DEF Server
<1>7. QED
  BY <1>2, <1>4, <1>5, <1>6, Zenon

\* The worker has written the state file.
LEMMA WriteStateFileFields ==
    ASSUME TypeInv, NEW s \in Servers, WriteStateFile(s)
    PROVE  /\ UNCHANGED tables /\ SrvSame(s)
           /\ srv[s].up /\ worker[s].pc = "write"
           /\ worker'[s].pc = "poll" /\ worker'[s].rows = {}
<1>1. /\ UNCHANGED tables /\ srv[s].up /\ worker[s].pc = "write" /\ UNCHANGED srv
      /\ worker'[s] = IdleWorker(srv[s].key)
  BY Zenon DEF WriteStateFile, TypeInv, TypeOK, tables, db_vars
<1>2. worker'[s].pc = "poll" /\ worker'[s].rows = {}
  BY <1>1 DEF IdleWorker
<1>3. QED
  BY <1>1, <1>2, Zenon DEF SrvSame

\* new_keys draws an ingress key and an egress key.
LEMMA NewKeysFields ==
    ASSUME TypeInv, NEW s \in Servers, NewKeys(s)
    PROVE  /\ UNCHANGED tables
           /\ srv[s].up /\ srv'[s].up /\ srv[s].lock = "free"
           /\ srv[s].mode = "idle" /\ srv[s].iid = NoInvocation
           /\ srv'[s].iid = NoInvocation /\ srv'[s].next = srv[s].next
           /\ srv'[s].egress = srv[s].egress + 1 /\ srv'[s].rng = 0
           /\ worker'[s] = worker[s]
<1>1. srv[s] \in Server
  BY DEF TypeInv, TypeOK
<1>2. /\ UNCHANGED tables /\ worker' = worker /\ srv[s].up
      /\ srv[s].lock = "free" /\ srv[s].mode = "idle"
      /\ srv[s].iid = NoInvocation
  BY Zenon DEF NewKeys, tables, db_vars
<1>3. PICK k : srv'[s] = [srv[s] EXCEPT !.key = k, !.egress = srv[s].egress + 1,
                                        !.rng = 0, !.lock = "new_keys"]
  BY Zenon DEF NewKeys, TypeInv, TypeOK
<1>4. /\ srv'[s].up = srv[s].up /\ srv'[s].iid = srv[s].iid
      /\ srv'[s].next = srv[s].next
      /\ srv'[s].egress = srv[s].egress + 1 /\ srv'[s].rng = 0
  BY <1>1, <1>3, Zenon DEF Server
<1>5. QED
  BY <1>2, <1>4, Zenon

\* The process ends, and with it the worker and the RNG table.
LEMMA CrashFields ==
    ASSUME TypeInv, NEW s \in Servers, Crash(s)
    PROVE  /\ UNCHANGED tables /\ srv[s].up /\ ~srv'[s].up
           /\ srv'[s].iid = NoInvocation /\ srv'[s].next = srv[s].next
           /\ srv'[s].egress = srv[s].egress /\ srv'[s].rng = srv[s].rng
           /\ worker'[s].pc = "poll" /\ worker'[s].rows = {}
<1>1. srv[s] \in Server
  BY DEF TypeInv, TypeOK
<1>2. /\ UNCHANGED tables /\ srv[s].up
      /\ srv'[s] = [srv[s] EXCEPT !.up = FALSE, !.lock = "free",
                                  !.mode = "idle", !.iid = NoInvocation]
      /\ worker'[s] = IdleWorker(srv[s].key)
  BY Zenon DEF Crash, TypeInv, TypeOK, tables, db_vars
<1>3. worker'[s].pc = "poll" /\ worker'[s].rows = {}
  BY <1>2 DEF IdleWorker
<1>4. /\ srv'[s].up = FALSE /\ srv'[s].iid = NoInvocation
      /\ srv'[s].next = srv[s].next
      /\ srv'[s].egress = srv[s].egress /\ srv'[s].rng = srv[s].rng
  BY <1>1, <1>2 DEF Server
<1>5. QED
  BY <1>2, <1>3, <1>4, Zenon

\* A server that starts again has a fresh egress key.
LEMMA StartFields ==
    ASSUME TypeInv, NEW s \in Servers, Restart(s) \/ StartFresh(s)
    PROVE  /\ UNCHANGED tables /\ ~srv[s].up /\ srv'[s].up
           /\ srv'[s].iid = srv[s].iid
           /\ srv'[s].egress = srv[s].egress + 1 /\ srv'[s].rng = 0
           /\ worker'[s] = worker[s]
<1>1. srv[s] \in Server
  BY DEF TypeInv, TypeOK
<1>2. UNCHANGED tables /\ ~srv[s].up /\ worker' = worker
  BY Zenon DEF Restart, StartFresh, tables, db_vars
<1>3. /\ srv'[s].up = TRUE /\ srv'[s].iid = srv[s].iid
      /\ srv'[s].egress = srv[s].egress + 1 /\ srv'[s].rng = 0
  <2>1. CASE Restart(s)
    <3>1. PICK m, n, w, k :
            srv'[s] = [srv[s] EXCEPT !.up = TRUE, !.mode = m, !.next = n,
                                     !.window = w, !.key = k,
                                     !.egress = srv[s].egress + 1, !.rng = 0]
      BY <2>1, Zenon DEF Restart, TypeInv, TypeOK
    <3>2. QED
      BY <1>1, <3>1 DEF Server
  <2>2. CASE StartFresh(s)
    <3>1. PICK k \in Keys :
            srv'[s] = [srv[s] EXCEPT !.up = TRUE, !.mode = "idle", !.next = 0,
                                     !.key = k, !.egress = srv[s].egress + 1,
                                     !.rng = 0]
      BY <2>2, Zenon DEF StartFresh, TypeInv, TypeOK
    <3>2. QED
      BY <1>1, <3>1 DEF Server
  <2>3. QED
    BY <2>1, <2>2, Zenon
<1>4. QED
  BY <1>2, <1>3, Zenon

\* The outputs that a chunk takes are consecutive.
LEMMA OutputFacts ==
    ASSUME NEW egress, NEW i \in Nat, NEW n \in Nat
    PROVE  /\ \A r \in Outputs(egress, i, n) :
                /\ r.egress = egress /\ r.index \in Nat
                /\ i <= r.index /\ r.index < i + n
           /\ \A j \in i..(i + n - 1) : Row(egress, j) \in Outputs(egress, i, n)
  BY DEF Outputs, Row

\* What is published and announced stays so.
LEMMA RecordsStay ==
    ASSUME TablesGrow
    PROVE  /\ PublishedRows \subseteq PublishedRows'
           /\ \A e, k, n : Announced(e, k, n) => Announced(e, k, n)'
<1>1. PublishedRows \subseteq PublishedRows'
  BY Zenon DEF TablesGrow, PublishedRows
<1>2. ASSUME NEW e, NEW k, NEW n, Announced(e, k, n)
      PROVE  Announced(e, k, n)'
  <2>1. PICK i \in DOMAIN ingest_invocations :
          /\ ingest_invocations[i].egress_key = e
          /\ ingest_invocations[i].ingress_key = k
          /\ ingest_invocations[i].start_block <= n
    BY <1>2, Zenon DEF Announced
  <2>2. /\ i \in DOMAIN ingest_invocations'
        /\ ingest_invocations'[i].egress_key = e
        /\ ingest_invocations'[i].ingress_key = k
        /\ ingest_invocations'[i].start_block <= n
    BY <2>1, Zenon DEF TablesGrow
  <2>3. QED
    BY <2>2, Zenon DEF Announced
<1>3. QED
  BY <1>1, <1>2, Zenon

\* A step that leaves the published outputs and the worker's as they were, or
\* publishes the worker's.
LEMMA KeptRecord ==
    ASSUME NEW s \in Servers, RecordInv(s), TablesGrow,
           srv[s].iid # NoInvocation => srv[s].iid \in DOMAIN ingest_invocations,
           \/ /\ srv'[s].iid = srv[s].iid
              /\ worker'[s].pc # "rotate" => worker[s].pc # "rotate"
           \/ srv'[s].iid = NoInvocation,
           srv'[s].up => srv[s].up,
           srv'[s].egress = srv[s].egress, srv'[s].rng = srv[s].rng,
           worker'[s].rows \subseteq worker[s].rows,
           worker[s].rows \subseteq PublishedRows' \cup worker'[s].rows,
           worker'[s].pc \in {"publish", "invocation"} =>
               worker'[s].egress = srv[s].egress,
           worker'[s].pc \in {"ingest", "rotate"} => worker'[s] = worker[s],
           worker[s].pc \in {"lost", "new_egress"} =>
               worker'[s].pc \in {"lost", "new_egress"},
           worker'[s].pc = "won" => worker'[s].rows \subseteq PublishedRows'
    PROVE  RecordInv(s)'
<1>1. /\ PublishedRows \subseteq PublishedRows'
      /\ \A e, k, n : Announced(e, k, n) => Announced(e, k, n)'
  BY RecordsStay
<1>2. EgressOf(s)' = EgressOf(s)
  BY DEF EgressOf
<1>3. srv'[s].iid # NoInvocation /\ worker'[s].pc # "rotate" =>
        ingest_invocations'[srv'[s].iid].egress_key = EgressOf(s)'
  BY <1>2, ZenonT(60) DEF RecordInv, TablesGrow
<1>4. ASSUME worker'[s].pc \in {"ingest", "rotate"}, NEW r \in worker'[s].rows
      PROVE  \/ Announced(r.egress, worker[s].key, worker[s].block)'
             \/ worker'[s].pc = "rotate" /\ r.egress = EgressOf(s)'
  <2>1. worker'[s] = worker[s]
    BY <1>4
  <2>2. PICK k, n : k = worker[s].key /\ n = worker[s].block
    BY Zenon
  <2>3. \/ Announced(r.egress, k, n)
        \/ worker[s].pc = "rotate" /\ r.egress = EgressOf(s)
    BY <1>4, <2>1, <2>2, Zenon DEF RecordInv
  <2>4. Announced(r.egress, k, n)' => Announced(r.egress, worker[s].key, worker[s].block)'
    BY <2>1, <2>2, Zenon DEF Announced
  <2>5. QED
    BY <1>1, <1>2, <2>1, <2>3, <2>4, Zenon
<1>5. ASSUME NEW r \in worker'[s].rows, NEW i \in 0..(r.index - 1)
      PROVE  Row(r.egress, i) \in PublishedRows' \cup worker'[s].rows
  <2>1. Row(r.egress, i) \in PublishedRows \cup worker[s].rows
    BY <1>5, Zenon DEF RecordInv
  <2>2. QED
    BY <1>1, <2>1, Zenon
<1>6. ASSUME srv'[s].up, worker'[s].pc \notin {"lost", "new_egress"},
             NEW i \in 0..(srv'[s].rng - 1)
      PROVE  Row(EgressOf(s)', i) \in PublishedRows' \cup worker'[s].rows
  <2>1. Row(EgressOf(s), i) \in PublishedRows \cup worker[s].rows
    BY <1>6, Zenon DEF RecordInv
  <2>2. QED
    BY <1>1, <1>2, <2>1, Zenon
<1>7. QED
  BY <1>2, <1>3, <1>4, <1>5, <1>6 DEF RecordInv, Row

\* A step after which the server starts over with an empty RNG table, or is
\* down.
LEMMA ResetRecord ==
    ASSUME NEW s \in Servers, srv'[s].iid = NoInvocation,
           worker'[s].rows = {}, worker'[s].pc \in {"poll", "write"},
           srv'[s].up => srv'[s].rng = 0
    PROVE  RecordInv(s)'
<1>1. srv'[s].up => 0..(srv'[s].rng - 1) = {}
  OBVIOUS
<1>2. QED
  BY <1>1 DEF RecordInv

\* The servers a step does not touch.
LEMMA OtherRecords ==
    ASSUME NEW t \in Servers, RecordInv(t), TablesGrow,
           srv[t].iid # NoInvocation => srv[t].iid \in DOMAIN ingest_invocations,
           srv'[t] = srv[t], worker'[t] = worker[t]
    PROVE  RecordInv(t)'
<1>1. /\ PublishedRows \subseteq PublishedRows'
      /\ (worker'[t].pc = "won" => worker'[t].rows \subseteq PublishedRows')
  BY RecordsStay, Zenon DEF RecordInv
<1>2. worker'[t].pc \in {"publish", "invocation"} => worker'[t].egress = srv[t].egress
  BY Zenon DEF RecordInv
<1>3. QED
  BY <1>1, <1>2, KeptRecord

\* A step that publishes nothing leaves what is said of published rows true.
LEMMA NothingPublished ==
    ASSUME NoRngGaps, RowsAnnounced, TablesGrow, UNCHANGED ingested_blocks
    PROVE  NoRngGaps' /\ RowsAnnounced'
<1>1. NoRngGaps'
  BY Zenon DEF NoRngGaps, PublishedRows
<1>2. ASSUME NEW b \in ingested_blocks', NEW r \in b.rows
      PROVE  Announced(r.egress, b.ingress_key, b.block)'
  <2>1. Announced(r.egress, b.ingress_key, b.block)
    BY <1>2, Zenon DEF RowsAnnounced, Announced
  <2>2. QED
    BY <2>1, RecordsStay, Zenon
<1>3. QED
  BY <1>1, <1>2, Zenon DEF RowsAnnounced, Announced

\* The events that the model bounds with budget do not become more.
LEMMA BudgetKept ==
    ASSUME TypeInv, budget["chunk_too_big"] = 0, [Next]_vars
    PROVE  budget'["chunk_too_big"] = 0
<1>1. budget \in [Kinds -> Nat]
  BY DEF TypeInv, TypeOK
<1>2. ASSUME NEW kind \in Kinds, Spend(kind)
      PROVE  budget'["chunk_too_big"] = 0
  <2>1. budget[kind] > 0 /\ budget' = [budget EXCEPT ![kind] = @ - 1]
    BY <1>2 DEF Spend
  <2>2. kind # "chunk_too_big"
    BY <2>1
  <2>3. QED
    BY <1>1, <2>1, <2>2
<1>3. UNCHANGED budget \/ \E kind \in Kinds : Spend(kind)
  <2>1. \A kind \in {"crash", "lost_ack", "overflow", "chunk_too_big",
                     "new_keys", "db_error", "transfer", "activate", "retire"} :
          kind \in Kinds
    BY DEF Kinds
  <2>2. ASSUME NEW s \in Servers, WorkerStep(s)
        PROVE  UNCHANGED budget \/ \E kind \in Kinds : Spend(kind)
    BY <2>1, <2>2, Zenon DEF WorkerStep, BeginBlock, PublishReport, EnsureInvocation,
       IngestChunk, IngestChunkOverflow, IngestChunkTooBig, RotateInvocation,
       AddBlockData, AdvanceNextBlock, BackOff, DecommissionInvocation,
       NewEgressKey, WriteStateFile
  <2>3. ASSUME NEW s \in Servers, AdminStep(s)
        PROVE  UNCHANGED budget \/ \E kind \in Kinds : Spend(kind)
    BY <2>1, <2>3, Zenon DEF AdminStep, ActivateBegin, ActivateLookup,
       ActivateRegister, ActivatePublish, ActivateFail, ActivateWrite, NewKeys,
       SetKeyCheck, SetKeyApply, SetKeyWrite, Retire, SetPubkeyExpiryWindow
  <2>4. ASSUME NEW s \in Servers, FaultStep(s)
        PROVE  UNCHANGED budget \/ \E kind \in Kinds : Spend(kind)
    BY <2>1, <2>4, Zenon DEF FaultStep, Crash, Restart, RemoveStateFile, StartFresh
  <2>5. CASE (\E k \in Keys : ReportLost(k)) \/ AppendBlock \/ UNCHANGED vars
    BY <2>5, Zenon DEF ReportLost, AppendBlock, vars, thread_vars
  <2>6. QED
    BY <2>2, <2>3, <2>4, <2>5, Zenon DEF Next
<1>4. QED
  BY <1>2, <1>3, Zenon

\* What an action's record lemma starts from.
LEMMA RecordFacts ==
    ASSUME TypeInv, ScanInv, UsedOnceInv, InvocationsInv, RecordsInv,
           NEW s \in Servers
    PROVE  /\ RecordInv(s) /\ InvocationInv(s) /\ ServerInv(s) /\ RngInv(s)
           /\ srv[s].iid # NoInvocation => srv[s].iid \in DOMAIN ingest_invocations
           /\ worker[s].pc \in {"poll", "write", "publish", "invocation"} =>
                worker[s].rows = {}
<1>1. RecordInv(s) /\ InvocationInv(s) /\ ServerInv(s) /\ RngInv(s)
  BY DEF RecordsInv, InvocationsInv, ScanInv, UsedOnceInv
<1>2. srv[s].iid # NoInvocation => srv[s].iid \in DOMAIN ingest_invocations
  BY <1>1, Zenon DEF ServerInv, InvocationOf
<1>3. QED
  BY <1>1, <1>2, Zenon DEF RngInv

\* The invocation that the worker ensures announces the egress key it read.
LEMMA EnsureRecord ==
    ASSUME TypeInv, ScanInv, UsedOnceInv, InvocationsInv, RecordsInv, TablesGrow,
           NEW s \in Servers, EnsureInvocation(s)
    PROVE  RecordInv(s)' /\ UNCHANGED ingested_blocks
<1>1. /\ RecordInv(s)
      /\ srv[s].iid # NoInvocation => srv[s].iid \in DOMAIN ingest_invocations
      /\ worker[s].pc \in {"poll", "write", "publish", "invocation"} =>
           worker[s].rows = {}
  BY RecordFacts
<1>2. /\ \/ /\ srv[s].iid = NoInvocation
            /\ new_ingest_invocation(NoInvocation, worker[s].key,
                 <<s, worker[s].egress>>, worker[s].block)
            /\ srv'[s].iid = NextInvocationId
         \/ /\ srv[s].iid # NoInvocation
            /\ UNCHANGED tables
            /\ srv'[s].iid = srv[s].iid
      /\ srv[s].up /\ worker[s].pc = "invocation"
      /\ srv'[s].egress = srv[s].egress /\ srv'[s].rng = srv[s].rng
      /\ worker'[s].pc = "ingest" /\ worker'[s].rows = worker[s].rows
  BY EnsureInvocationFields, Zenon
<1>3. EgressOf(s)' = EgressOf(s) /\ EgressOf(s) = <<s, worker[s].egress>>
  BY <1>1, <1>2 DEF EgressOf, RecordInv
<1>4. /\ UNCHANGED ingested_blocks
      /\ ingest_invocations'[srv'[s].iid].egress_key = EgressOf(s)'
  <2>1. CASE /\ srv[s].iid = NoInvocation
             /\ new_ingest_invocation(NoInvocation, worker[s].key,
                  <<s, worker[s].egress>>, worker[s].block)
             /\ srv'[s].iid = NextInvocationId
    <3>1. /\ DbTypeOK /\ NoInvocation \in Nat /\ worker[s].key \in Keys
          /\ <<s, worker[s].egress>> \in EgressKeys /\ worker[s].block \in Nat
      <4>1. DbTypeOK /\ worker[s].key \in Keys /\ worker[s].block \in Nat
        BY TypeParts, FieldTypes, Zenon DEF SharedOK
      <4>2. worker[s].egress \in Nat /\ s \in Enclaves
        BY TypeParts, FieldTypes, Zenon
      <4>3. QED
        BY <4>1, <4>2 DEF NoInvocation, EgressKeys
    <3>2. /\ ingest_invocations'[NextInvocationId] =
               NewInvocation(worker[s].key, <<s, worker[s].egress>>, worker[s].block)
          /\ UNCHANGED ingested_blocks
      BY <2>1, <3>1, NewInvocationCall
    <3>3. QED
      BY <1>3, <2>1, <3>2 DEF NewInvocation
  <2>2. CASE /\ srv[s].iid # NoInvocation /\ UNCHANGED tables
             /\ srv'[s].iid = srv[s].iid
    BY <1>1, <1>2, <1>3, <2>2 DEF RecordInv, tables
  <2>3. QED
    BY <1>2, <2>1, <2>2
<1>5. worker[s].rows = {} /\ worker'[s].rows = {}
  BY <1>1, <1>2
<1>6. PublishedRows' = PublishedRows
  BY <1>4 DEF PublishedRows
<1>7. ASSUME NEW i \in 0..(srv'[s].rng - 1)
      PROVE  Row(EgressOf(s)', i) \in PublishedRows' \cup worker'[s].rows
  BY <1>1, <1>2, <1>3, <1>5, <1>6, <1>7 DEF RecordInv
<1>8. QED
  BY <1>2, <1>4, <1>5, <1>7 DEF RecordInv, Row

\* The egress key of the enclave is announced while the worker ingests.
LEMMA OwnEgressAnnounced ==
    ASSUME TypeInv, ScanInv, UsedOnceInv, InvocationsInv, RecordsInv,
           NEW s \in Servers, worker[s].pc = "ingest"
    PROVE  Announced(EgressOf(s), worker[s].key, worker[s].block)
<1>1. RecordInv(s) /\ InvocationInv(s) /\ ServerInv(s)
  BY RecordFacts
<1>2. srv[s].iid # NoInvocation /\ worker[s].iid = srv[s].iid
  BY <1>1 DEF InvocationInv
<1>3. /\ srv[s].iid \in DOMAIN ingest_invocations
      /\ ingest_invocations[srv[s].iid].ingress_key = worker[s].key
  BY <1>1, <1>2 DEF ServerInv, InvocationOf
<1>4. worker[s].block = srv[s].next
  BY <1>1 DEF ServerInv, InBlock, WorkerPCs
<1>5. ingest_invocations[srv[s].iid].start_block <= worker[s].block
  BY <1>1, <1>2, <1>4 DEF InvocationInv, OpenAt
<1>6. ingest_invocations[srv[s].iid].egress_key = EgressOf(s)
  BY <1>1, <1>2 DEF RecordInv
<1>7. QED
  BY <1>3, <1>5, <1>6, Zenon DEF Announced

\* The rows of a chunk follow the RNG outputs that were drawn before.
LEMMA ChunkRecord ==
    ASSUME TypeInv, ScanInv, UsedOnceInv, InvocationsInv, RecordsInv, TablesGrow,
           NEW s \in Servers, IngestChunk(s)
    PROVE  RecordInv(s)'
<1>1. /\ UNCHANGED tables /\ srv[s].up /\ worker[s].pc = "ingest"
      /\ srv'[s].iid = srv[s].iid /\ srv'[s].egress = srv[s].egress
      /\ srv'[s].rng = srv[s].rng + Owned(s)
      /\ worker'[s].pc = "ingest"
      /\ worker'[s].key = worker[s].key /\ worker'[s].block = worker[s].block
      /\ worker'[s].rows = worker[s].rows
           \cup Outputs(EgressOf(s), srv[s].rng, Owned(s))
  BY IngestChunkFields, Zenon
<1>2. PICK n \in Nat : n = Owned(s)
  BY IngestChunkFields, Zenon
<1>3. PICK i0 \in Nat : i0 = srv[s].rng
  BY TypeParts, FieldTypes, Zenon
<1>4. PICK e : e = EgressOf(s)
  OBVIOUS
<1>5. PICK new : new = Outputs(e, i0, n)
  OBVIOUS
<1>6. /\ \A r \in new : /\ r.egress = e /\ r.index \in Nat
                        /\ i0 <= r.index /\ r.index < i0 + n
      /\ \A j \in i0..(i0 + n - 1) : Row(e, j) \in new
  BY <1>5, OutputFacts
<1>7. /\ worker'[s].rows = worker[s].rows \cup new
      /\ srv'[s].rng = i0 + n /\ EgressOf(s)' = e
      /\ PublishedRows' = PublishedRows
      /\ UNCHANGED ingest_invocations
  BY <1>1, <1>2, <1>3, <1>4, <1>5 DEF EgressOf, tables, PublishedRows
<1>8. RecordInv(s)
  BY RecordFacts
<1>9. \A j \in 0..(i0 - 1) : Row(e, j) \in PublishedRows \cup worker[s].rows
  BY <1>1, <1>3, <1>4, <1>8 DEF RecordInv
<1>10. \A j \in 0..(i0 + n - 1) : Row(e, j) \in PublishedRows' \cup worker'[s].rows
  <2>1. SUFFICES ASSUME NEW j \in 0..(i0 + n - 1)
                 PROVE  Row(e, j) \in PublishedRows' \cup worker'[s].rows
    OBVIOUS
  <2>2. j \in 0..(i0 - 1) \/ j \in i0..(i0 + n - 1)
    OBVIOUS
  <2>3. QED
    BY <1>6, <1>7, <1>9, <2>2, Zenon
<1>11. ASSUME NEW r \in worker'[s].rows, NEW j \in 0..(r.index - 1)
       PROVE  Row(r.egress, j) \in PublishedRows' \cup worker'[s].rows
  <2>1. CASE r \in worker[s].rows
    BY <1>7, <1>8, <1>11, <2>1, Zenon DEF RecordInv
  <2>2. CASE r \in new
    <3>1. r.egress = e /\ j \in 0..(i0 + n - 1)
      BY <1>6, <1>11, <2>2
    <3>2. QED
      BY <1>10, <3>1
  <2>3. QED
    BY <1>7, <1>11, <2>1, <2>2
<1>12. PICK k, b : k = worker[s].key /\ b = worker[s].block
  BY Zenon
<1>13. \A r \in worker'[s].rows : Announced(r.egress, k, b)'
  <2>1. Announced(e, k, b)
    BY <1>1, <1>4, <1>12, OwnEgressAnnounced
  <2>2. \A r \in worker[s].rows : Announced(r.egress, k, b)
    BY <1>1, <1>8, <1>12 DEF RecordInv
  <2>3. \A r \in worker'[s].rows : Announced(r.egress, k, b)
    BY <1>6, <1>7, <2>1, <2>2, Zenon
  <2>4. QED
    BY <2>3, RecordsStay, Zenon
<1>14. \A r \in worker'[s].rows :
         Announced(r.egress, worker[s].key, worker[s].block)'
  BY <1>1, <1>12, <1>13, Zenon DEF Announced
<1>15. srv'[s].iid # NoInvocation =>
         ingest_invocations'[srv'[s].iid].egress_key = EgressOf(s)'
  BY <1>1, <1>4, <1>7, <1>8 DEF RecordInv
<1>16. QED
  BY <1>1, <1>7, <1>10, <1>11, <1>14, <1>15 DEF RecordInv, Row

\* After an overflow the rows of the chunk are the first of the new RNG, whose
\* egress key is announced when the invocation is rotated.
LEMMA OverflowRecord ==
    ASSUME TypeInv, ScanInv, UsedOnceInv, InvocationsInv, RecordsInv, TablesGrow,
           NEW s \in Servers, IngestChunkOverflow(s)
    PROVE  RecordInv(s)'
<1>1. /\ UNCHANGED tables /\ srv[s].up /\ worker[s].pc = "ingest"
      /\ srv'[s].egress = srv[s].egress + 1 /\ srv'[s].rng = Owned(s)
      /\ worker'[s].pc = "rotate"
      /\ worker'[s].key = worker[s].key /\ worker'[s].block = worker[s].block
      /\ worker'[s].rows = worker[s].rows
           \cup Outputs(<<s, srv[s].egress + 1>>, 0, Owned(s))
  BY IngestChunkOverflowFields, Zenon
<1>2. PICK n \in Nat : n = Owned(s)
  BY IngestChunkOverflowFields, Zenon
<1>3. PICK e : e = <<s, srv[s].egress + 1>>
  BY Zenon
<1>4. PICK new : new = Outputs(e, 0, n)
  OBVIOUS
<1>5. /\ \A r \in new : /\ r.egress = e /\ r.index \in Nat
                        /\ 0 <= r.index /\ r.index < 0 + n
      /\ \A j \in 0..(0 + n - 1) : Row(e, j) \in new
  BY <1>4, OutputFacts
<1>6. /\ worker'[s].rows = worker[s].rows \cup new
      /\ srv'[s].rng = n /\ EgressOf(s)' = e
      /\ PublishedRows' = PublishedRows
  BY <1>1, <1>2, <1>3, <1>4 DEF EgressOf, tables, PublishedRows
<1>7. RecordInv(s)
  BY RecordFacts
<1>8. \A j \in 0..(n - 1) : Row(e, j) \in PublishedRows' \cup worker'[s].rows
  BY <1>5, <1>6
<1>9. ASSUME NEW r \in worker'[s].rows, NEW j \in 0..(r.index - 1)
      PROVE  Row(r.egress, j) \in PublishedRows' \cup worker'[s].rows
  <2>1. CASE r \in worker[s].rows
    BY <1>6, <1>7, <1>9, <2>1, Zenon DEF RecordInv
  <2>2. CASE r \in new
    <3>1. r.egress = e /\ j \in 0..(n - 1)
      BY <1>5, <1>9, <2>2
    <3>2. QED
      BY <1>8, <3>1
  <2>3. QED
    BY <1>6, <1>9, <2>1, <2>2
<1>10. PICK k, b : k = worker[s].key /\ b = worker[s].block
  BY Zenon
<1>11. \A r \in worker'[s].rows : Announced(r.egress, k, b)' \/ r.egress = e
  <2>1. \A r \in worker[s].rows : Announced(r.egress, k, b)
    BY <1>1, <1>7, <1>10 DEF RecordInv
  <2>2. QED
    BY <1>5, <1>6, <2>1, RecordsStay, Zenon
<1>12. \A r \in worker'[s].rows :
         \/ Announced(r.egress, worker[s].key, worker[s].block)'
         \/ r.egress = EgressOf(s)'
  BY <1>1, <1>6, <1>10, <1>11, Zenon DEF Announced
<1>13. QED
  BY <1>1, <1>6, <1>8, <1>9, <1>12 DEF RecordInv, Row

\* The invocation that the worker rotates to announces the new egress key.
LEMMA RotateRecord ==
    ASSUME TypeInv, ScanInv, UsedOnceInv, InvocationsInv, RecordsInv, TablesGrow,
           NEW s \in Servers, RotateInvocation(s)
    PROVE  RecordInv(s)' /\ UNCHANGED ingested_blocks
<1>1. /\ new_ingest_invocation(worker[s].iid, worker[s].key, EgressOf(s),
                               worker[s].block)
      /\ srv[s].up /\ worker[s].pc = "rotate"
      /\ \/ /\ srv'[s].iid = NextInvocationId
            /\ worker'[s].iid = NextInvocationId
            /\ worker'[s].pc = "ingest"
         \/ srv'[s].iid = srv[s].iid /\ worker'[s] = worker[s]
      /\ srv'[s].egress = srv[s].egress /\ srv'[s].rng = srv[s].rng
      /\ worker'[s].rows = worker[s].rows
      /\ worker'[s].key = worker[s].key /\ worker'[s].block = worker[s].block
  BY RotateInvocationFields, Zenon
<1>2. PICK e, k, b : e = EgressOf(s) /\ k = worker[s].key /\ b = worker[s].block
  BY Zenon
<1>3. /\ DbTypeOK /\ worker[s].iid \in Nat /\ k \in Keys /\ e \in EgressKeys
      /\ b \in Nat
  <2>1. /\ DbTypeOK /\ worker[s].iid \in Nat /\ worker[s].key \in Keys
        /\ worker[s].block \in Nat /\ s \in Enclaves /\ srv[s].egress \in Nat
    BY TypeParts, FieldTypes, Zenon DEF SharedOK
  <2>2. QED
    BY <1>2, <2>1 DEF EgressOf, EgressKeys
<1>4. /\ ingest_invocations'[NextInvocationId] = NewInvocation(k, e, b)
      /\ DOMAIN ingest_invocations' = DOMAIN ingest_invocations \cup {NextInvocationId}
      /\ UNCHANGED ingested_blocks
  <2>1. new_ingest_invocation(worker[s].iid, k, e, b)
    BY <1>1, <1>2, Zenon
  <2>2. QED
    BY <1>3, <2>1, NewInvocationCall, Zenon
<1>5. Announced(e, k, b)'
  <2>1. /\ NextInvocationId \in DOMAIN ingest_invocations'
        /\ ingest_invocations'[NextInvocationId].egress_key = e
        /\ ingest_invocations'[NextInvocationId].ingress_key = k
        /\ ingest_invocations'[NextInvocationId].start_block <= b
    BY <1>3, <1>4 DEF NewInvocation
  <2>2. QED
    BY <2>1, Zenon DEF Announced
<1>6. RecordInv(s)
  BY RecordFacts
<1>7. EgressOf(s)' = e /\ PublishedRows' = PublishedRows
  BY <1>1, <1>2, <1>4 DEF EgressOf, PublishedRows
<1>8. \A r \in worker'[s].rows : Announced(r.egress, k, b)'
  <2>1. \A r \in worker[s].rows : Announced(r.egress, k, b) \/ r.egress = e
    BY <1>1, <1>2, <1>6, Zenon DEF RecordInv
  <2>2. QED
    BY <1>1, <1>5, <2>1, RecordsStay, Zenon
<1>9. \A r \in worker'[s].rows : Announced(r.egress, worker[s].key, worker[s].block)'
  BY <1>1, <1>2, <1>8, Zenon DEF Announced
<1>10. worker'[s].pc # "rotate" =>
         ingest_invocations'[srv'[s].iid].egress_key = EgressOf(s)'
  BY <1>1, <1>4, <1>7 DEF NewInvocation
<1>11. \A r \in worker'[s].rows : \A i \in 0..(r.index - 1) :
         Row(r.egress, i) \in PublishedRows' \cup worker'[s].rows
  BY <1>1, <1>6, <1>7, Zenon DEF RecordInv
<1>12. \A i \in 0..(srv'[s].rng - 1) :
         Row(EgressOf(s)', i) \in PublishedRows' \cup worker'[s].rows
  <2>1. \A i \in 0..(srv[s].rng - 1) :
          Row(e, i) \in PublishedRows \cup worker[s].rows
    BY <1>1, <1>2, <1>6 DEF RecordInv
  <2>2. QED
    BY <1>1, <1>7, <2>1
<1>13. worker'[s].pc \in {"ingest", "rotate"}
  BY <1>1
<1>14. QED
  BY <1>4, <1>9, <1>10, <1>11, <1>12, <1>13 DEF RecordInv, Row

\* A block is published with rows that are announced, and that leave no gap.
LEMMA AddBlockRecord ==
    ASSUME TypeInv, ScanInv, UsedOnceInv, InvocationsInv, RecordsInv, TablesGrow,
           NEW s \in Servers, AddBlockData(s)
    PROVE  RecordInv(s)' /\ NoRngGaps' /\ RowsAnnounced'
<1>1. /\ worker[s].pc = "ingest" /\ SrvSame(s)
      /\ \/ /\ add_block_data(worker[s].iid, worker[s].block, worker[s].rows)
            /\ worker'[s].pc = "won" \/ worker'[s] = worker[s]
         \/ UNCHANGED tables /\ worker'[s].pc = "lost"
      /\ worker'[s].rows = worker[s].rows
  BY AddBlockDataFields, Zenon
<1>2. /\ RecordInv(s) /\ ServerInv(s)
      /\ srv[s].iid # NoInvocation => srv[s].iid \in DOMAIN ingest_invocations
  BY RecordFacts
<1>3. NoRngGaps /\ RowsAnnounced
  BY DEF RecordsInv
<1>4. CASE UNCHANGED tables /\ worker'[s].pc = "lost"
  <2>1. RecordInv(s)'
    BY <1>1, <1>2, <1>4, KeptRecord DEF SrvSame
  <2>2. QED
    BY <1>3, <1>4, <2>1, NothingPublished DEF tables
<1>5. CASE /\ add_block_data(worker[s].iid, worker[s].block, worker[s].rows)
           /\ worker'[s].pc = "won" \/ worker'[s] = worker[s]
  <2>1. /\ DbTypeOK /\ worker[s].iid \in Nat /\ worker[s].block \in Nat
        /\ worker[s].rows \in SUBSET Rows
    BY TypeParts, FieldTypes, Zenon DEF SharedOK
  <2>2. PICK k, n, rows :
          k = worker[s].key /\ n = worker[s].block /\ rows = worker[s].rows
    BY Zenon
  <2>3. ingest_invocations[worker[s].iid].ingress_key = k
    BY <1>1, <1>2, <2>2 DEF ServerInv, InvocationOf
  <2>4. /\ ingested_blocks' = ingested_blocks \cup
             {[iid |-> worker[s].iid, ingress_key |-> k, block |-> n, rows |-> rows]}
        /\ PublishedRows' = PublishedRows \cup rows
    BY <1>5, <2>1, <2>2, <2>3, AddBlockCall
  <2>5. RecordInv(s)'
    <3>1. /\ worker[s].rows \subseteq PublishedRows' \cup worker'[s].rows
          /\ worker'[s].rows \subseteq PublishedRows'
          /\ worker'[s].rows \subseteq worker[s].rows
      BY <1>1, <2>2, <2>4, Zenon
    <3>2. /\ worker'[s].pc \notin {"publish", "invocation", "rotate"}
          /\ worker'[s].pc \in {"ingest", "rotate"} => worker'[s] = worker[s]
      BY <1>1, <1>5
    <3>3. QED
      BY <1>1, <1>2, <3>1, <3>2, KeptRecord DEF SrvSame
  <2>6. NoRngGaps'
    <3>1. ASSUME NEW r \in PublishedRows', NEW i \in 0..(r.index - 1)
          PROVE  Row(r.egress, i) \in PublishedRows'
      <4>1. CASE r \in PublishedRows
        BY <1>3, <2>4, <3>1, <4>1, Zenon DEF NoRngGaps, Row
      <4>2. CASE r \in rows
        BY <1>2, <2>2, <2>4, <3>1, <4>2, Zenon DEF RecordInv
      <4>3. QED
        BY <2>4, <3>1, <4>1, <4>2
    <3>2. QED
      BY <3>1, Zenon DEF NoRngGaps, Row
  <2>7. RowsAnnounced'
    <3>1. ASSUME NEW b \in ingested_blocks', NEW r \in b.rows
          PROVE  Announced(r.egress, b.ingress_key, b.block)
      <4>1. CASE b \in ingested_blocks
        BY <1>3, <3>1, <4>1, Zenon DEF RowsAnnounced, Announced
      <4>2. CASE b = [iid |-> worker[s].iid, ingress_key |-> k, block |-> n,
                      rows |-> rows]
        <5>1. b.ingress_key = k /\ b.block = n /\ b.rows = rows
          BY <4>2
        <5>2. Announced(r.egress, k, n)
          BY <1>1, <1>2, <2>2, <3>1, <5>1 DEF RecordInv
        <5>3. QED
          BY <5>1, <5>2
      <4>3. QED
        BY <2>4, <3>1, <4>1, <4>2
    <3>2. ASSUME NEW b \in ingested_blocks', NEW r \in b.rows
          PROVE  Announced(r.egress, b.ingress_key, b.block)'
      BY <3>1, <3>2, RecordsStay, Zenon
    <3>3. QED
      BY <3>2, Zenon DEF RowsAnnounced, Announced
  <2>8. QED
    BY <2>5, <2>6, <2>7
<1>6. QED
  BY <1>1, <1>4, <1>5

\* No step of the worker breaks RecordsInv.
LEMMA WorkerRecords ==
    ASSUME TypeInv, ScanInv, UsedOnceInv, InvocationsInv, RecordsInv, TablesGrow,
           NEW s \in Servers, WorkerStep(s)
    PROVE  RecordInv(s)' /\ NoRngGaps' /\ RowsAnnounced'
<1>1. /\ RecordInv(s) /\ InvocationInv(s)
      /\ srv[s].iid # NoInvocation => srv[s].iid \in DOMAIN ingest_invocations
      /\ worker[s].pc \in {"poll", "write", "publish", "invocation"} =>
           worker[s].rows = {}
  BY RecordFacts
<1>2. NoRngGaps /\ RowsAnnounced /\ budget["chunk_too_big"] = 0
  BY DEF RecordsInv
<1>3. PublishedRows \subseteq PublishedRows'
  BY RecordsStay
<1>4. SUFFICES \/ RecordInv(s)' /\ UNCHANGED ingested_blocks
               \/ RecordInv(s)' /\ NoRngGaps' /\ RowsAnnounced'
  BY <1>2, NothingPublished, Zenon
<1>5. CASE BeginBlock(s)
  <2>1. /\ UNCHANGED tables /\ SrvSame(s) /\ worker[s].pc = "poll"
        /\ worker'[s].pc = "publish" /\ worker'[s].rows = {}
        /\ worker'[s].egress = srv[s].egress
    BY <1>5, BeginBlockFields, Zenon
  <2>2. RecordInv(s)'
    BY <1>1, <2>1, KeptRecord DEF SrvSame
  <2>3. QED
    BY <2>1, <2>2 DEF tables
<1>6. CASE PublishReport(s)
  <2>1. /\ UNCHANGED tables /\ SrvSame(s) /\ worker[s].pc = "publish"
        /\ worker'[s].pc \in {"retired", "invocation"}
        /\ worker'[s].rows = worker[s].rows
        /\ worker'[s].egress = worker[s].egress
    BY <1>6, PublishReportFields, Zenon
  <2>2. worker[s].egress = srv[s].egress
    BY <1>1, <2>1 DEF RecordInv
  <2>3. RecordInv(s)'
    BY <1>1, <2>1, <2>2, KeptRecord DEF SrvSame
  <2>4. QED
    BY <2>1, <2>3 DEF tables
<1>7. CASE EnsureInvocation(s) \/ RotateInvocation(s)
  BY <1>7, EnsureRecord, RotateRecord
<1>8. CASE IngestChunk(s)
  BY <1>8, ChunkRecord, IngestChunkFields DEF tables
<1>9. CASE IngestChunkOverflow(s)
  BY <1>9, OverflowRecord, IngestChunkOverflowFields, Zenon DEF tables
<1>10. CASE IngestChunkTooBig(s)
  BY <1>2, <1>10, IngestChunkTooBigFields
<1>11. CASE AddBlockData(s)
  BY <1>11, AddBlockRecord
<1>12. CASE AdvanceNextBlock(s)
  <2>1. /\ UNCHANGED tables /\ srv[s].up /\ worker[s].pc = "won"
        /\ srv'[s].iid = srv[s].iid
        /\ srv'[s].egress = srv[s].egress /\ srv'[s].rng = srv[s].rng
        /\ worker'[s].pc = "write" /\ worker'[s].rows = {}
    BY <1>12, AdvanceNextBlockFields, Zenon
  <2>2. worker[s].rows \subseteq PublishedRows' \cup worker'[s].rows
    BY <1>1, <1>3, <2>1, Zenon DEF RecordInv
  <2>3. RecordInv(s)'
    BY <1>1, <2>1, <2>2, KeptRecord
  <2>4. QED
    BY <2>1, <2>3 DEF tables
<1>13. CASE BackOff(s)
  <2>1. /\ srv[s].up /\ worker[s].pc \in {"lost", "retired"}
        /\ srv'[s].iid = NoInvocation
        /\ srv'[s].egress = srv[s].egress /\ srv'[s].rng = srv[s].rng
        /\ worker'[s].pc = "new_egress" /\ worker'[s].rows = worker[s].rows
    BY <1>13, BackOffFields, Zenon
  <2>2. RecordInv(s)'
    BY <1>1, <2>1, KeptRecord
  <2>3. UNCHANGED ingested_blocks
    BY <1>13, Zenon DEF BackOff, DecommissionInvocation,
       decommission_ingest_invocation, db_vars
  <2>4. QED
    BY <2>2, <2>3
<1>14. CASE NewEgressKey(s)
  <2>1. /\ UNCHANGED tables /\ worker[s].pc = "new_egress"
        /\ srv'[s].iid = srv[s].iid /\ srv'[s].rng = 0
        /\ worker'[s].pc \in {"poll", "write"} /\ worker'[s].rows = {}
    BY <1>14, NewEgressKeyFields, Zenon
  <2>2. srv'[s].iid = NoInvocation
    BY <1>1, <2>1 DEF InvocationInv
  <2>3. RecordInv(s)'
    BY <2>1, <2>2, ResetRecord
  <2>4. QED
    BY <2>1, <2>3 DEF tables
<1>15. CASE WriteStateFile(s)
  <2>1. /\ UNCHANGED tables /\ SrvSame(s) /\ worker[s].pc = "write"
        /\ worker'[s].pc = "poll" /\ worker'[s].rows = {}
    BY <1>15, WriteStateFileFields, Zenon
  <2>2. RecordInv(s)'
    BY <1>1, <2>1, KeptRecord DEF SrvSame
  <2>3. QED
    BY <2>1, <2>2 DEF tables
<1>16. QED
  BY <1>5, <1>6, <1>7, <1>8, <1>9, <1>10, <1>11, <1>12, <1>13, <1>14, <1>15, ZenonT(60)
     DEF WorkerStep

\* Neither does a call or a fault.
LEMMA OtherStepsRecords ==
    ASSUME TypeInv, ScanInv, UsedOnceInv, InvocationsInv, RecordsInv, TablesGrow,
           NEW s \in Servers, AdminStep(s) \/ FaultStep(s)
    PROVE  RecordInv(s)' /\ NoRngGaps' /\ RowsAnnounced'
<1>1. /\ RecordInv(s) /\ ServerInv(s)
      /\ srv[s].iid # NoInvocation => srv[s].iid \in DOMAIN ingest_invocations
      /\ worker[s].pc \in {"poll", "write", "publish", "invocation"} =>
           worker[s].rows = {}
  BY RecordFacts
<1>2. NoRngGaps /\ RowsAnnounced
  BY DEF RecordsInv
<1>3. srv[s] \in Server /\ worker[s] \in Worker
  BY TypeParts DEF ServerOK
<1>4. CASE Still(s)
  <2>1. /\ UNCHANGED tables /\ worker'[s] = worker[s] /\ srv'[s].up = srv[s].up
        /\ srv'[s].iid = srv[s].iid
        /\ srv'[s].egress = srv[s].egress /\ srv'[s].rng = srv[s].rng
    BY <1>4, Zenon DEF Still
  <2>2. /\ worker'[s].pc \in {"publish", "invocation"} =>
             worker'[s].egress = srv[s].egress
        /\ worker'[s].pc = "won" => worker'[s].rows \subseteq PublishedRows'
    BY <1>1, <2>1, RecordsStay, Zenon DEF RecordInv
  <2>3. RecordInv(s)'
    BY <1>1, <2>1, <2>2, KeptRecord
  <2>4. QED
    BY <1>2, <2>1, <2>3, NothingPublished DEF tables
<1>5. CASE NewKeys(s) \/ Crash(s) \/ Restart(s) \/ StartFresh(s)
  <2>1. UNCHANGED tables /\ (srv'[s].up => srv'[s].rng = 0)
    BY <1>5, NewKeysFields, CrashFields, StartFields, ZenonT(60)
  <2>2. /\ srv'[s].iid = NoInvocation /\ worker'[s].rows = {}
        /\ worker'[s].pc \in {"poll", "write"}
    <3>1. CASE Crash(s)
      BY <3>1, CrashFields, ZenonT(60)
    <3>2. CASE Restart(s) \/ StartFresh(s)
      <4>1. ~srv[s].up /\ srv'[s].iid = srv[s].iid /\ worker'[s] = worker[s]
        BY <3>2, StartFields, Zenon
      <4>2. srv[s].mode = "idle"
        BY <1>1, <1>3, <4>1 DEF ServerInv, Server
      <4>3. QED
        BY <1>1, <4>1, <4>2 DEF ServerInv
    <3>3. CASE NewKeys(s)
      <4>1. /\ srv[s].lock = "free" /\ srv[s].mode = "idle"
            /\ srv'[s].iid = NoInvocation /\ worker'[s] = worker[s]
        BY <3>3, NewKeysFields, Zenon
      <4>2. worker[s].pc \in {"poll", "write"}
        <5>1. worker[s].pc \in WorkerPCs
          BY <1>3 DEF Worker
        <5>2. ~InBlock(s) /\ worker[s].pc # "new_egress"
          BY <1>1, <4>1 DEF ServerInv
        <5>3. QED
          BY <5>1, <5>2 DEF InBlock, WorkerPCs
      <4>3. QED
        BY <1>1, <4>1, <4>2
    <3>4. QED
      BY <1>5, <3>1, <3>2, <3>3
  <2>3. RecordInv(s)'
    BY <2>1, <2>2, ResetRecord
  <2>4. QED
    BY <1>2, <2>1, <2>3, NothingPublished DEF tables
<1>6. QED
  BY <1>4, <1>5, StillFields, Zenon DEF AdminStep, FaultStep

\* No step breaks RecordsInv.
LEMMA RecordsStep ==
    ASSUME TypeInv, ScanInv, UsedOnceInv, InvocationsInv, RecordsInv, TablesGrow,
           [Next]_vars
    PROVE  RecordsInv'
<1>1. budget'["chunk_too_big"] = 0
  BY BudgetKept DEF RecordsInv
<1>2. ASSUME NEW t \in Servers, srv'[t] = srv[t], worker'[t] = worker[t]
      PROVE  RecordInv(t)'
  <2>1. /\ RecordInv(t)
        /\ srv[t].iid # NoInvocation => srv[t].iid \in DOMAIN ingest_invocations
    BY RecordFacts
  <2>2. QED
    BY <1>2, <2>1, OtherRecords
<1>3. ASSUME NEW s \in Servers, WorkerStep(s) \/ AdminStep(s) \/ FaultStep(s)
      PROVE  RecordsInv'
  <2>1. Local(s)
    BY <1>3, ServerTypes, Zenon
  <2>2. RecordInv(s)' /\ NoRngGaps' /\ RowsAnnounced'
    BY <1>3, WorkerRecords, OtherStepsRecords
  <2>3. ASSUME NEW t \in Servers, t # s
        PROVE  RecordInv(t)'
    <3>1. srv'[t] = srv[t] /\ worker'[t] = worker[t]
      BY <2>1, <2>3 DEF Local, TypeInv, TypeOK
    <3>2. QED
      BY <1>2, <3>1
  <2>4. QED
    BY <1>1, <2>2, <2>3, Zenon DEF RecordsInv
<1>4. CASE (\E k \in Keys : ReportLost(k)) \/ AppendBlock \/ UNCHANGED vars
  <2>1. UNCHANGED <<ingested_blocks, srv, worker>>
    BY <1>4, Zenon DEF ReportLost, report_lost_ingress_key, AppendBlock, vars,
       db_vars, thread_vars
  <2>2. NoRngGaps' /\ RowsAnnounced'
    BY <2>1, NothingPublished DEF RecordsInv
  <2>3. QED
    BY <1>1, <1>2, <2>1, <2>2, Zenon DEF RecordsInv
<1>5. QED
  BY <1>3, <1>4, Zenon DEF Next

\* RecordsInv holds when nothing happened yet.
LEMMA InitRecords ==
    ASSUME Budget["chunk_too_big"] = 0
    PROVE  Init => RecordsInv
<1>1. SUFFICES ASSUME Init PROVE RecordsInv
  OBVIOUS
<1>2. ingested_blocks = {} /\ budget["chunk_too_big"] = 0
  BY <1>1, Zenon DEF Init, DbInit
<1>3. \A s \in Servers : /\ srv[s].iid = NoInvocation /\ srv[s].rng = 0
                         /\ worker[s].pc = "poll" /\ worker[s].rows = {}
  BY <1>1 DEF Init, IdleWorker
<1>4. NoRngGaps /\ RowsAnnounced
  BY <1>2 DEF NoRngGaps, RowsAnnounced, PublishedRows
<1>5. \A s \in Servers : RecordInv(s)
  BY <1>3 DEF RecordInv
<1>6. QED
  BY <1>2, <1>4, <1>5 DEF RecordsInv

-----------------------------------------------------------------------------
(* RNG outputs are used once. *)

\* The RNG of the enclave of s only moves on.
RngMovesOn(s) ==
    \/ srv'[s].egress > srv[s].egress
    \/ srv'[s].egress = srv[s].egress /\ srv'[s].rng >= srv[s].rng

\* UsedOnceInv is an invariant: what a block publishes, and what a worker is
\* about to publish, was drawn from the enclave's RNG table and is not drawn
\* again.
THEOREM UsedOnceInvariant == Spec => [](TypeInv /\ UsedOnceInv)

\* The rows in the tables and in the workers' memory are typed.
<1>RowTypes.
      ASSUME TypeInv
      PROVE  /\ PublishedRows \subseteq Rows
             /\ \A s \in Servers : worker[s].rows \subseteq Rows
             /\ \A r \in Rows : r.egress[2] \in Nat /\ r.index \in Nat
  <2> USE <1>RowTypes
  <2>1. DbTypeOK
    BY DEF TypeInv, TypeOK
  <2>2. PublishedRows \subseteq Rows
    BY <2>1 DEF PublishedRows, DbTypeOK, IngestedBlock
  <2>3. \A s \in Servers : worker[s].rows \subseteq Rows
    BY TypeParts, FieldTypes, Zenon
  <2>4. \A r \in Rows : r.egress[2] \in Nat /\ r.index \in Nat
    BY DEF Rows, EgressKeys
  <2>5. QED
    BY <2>2, <2>3, <2>4

\* What was drawn stays drawn.
<1>DrawnStays.
      ASSUME TypeInv, TypeInv', NEW s \in Servers, RngMovesOn(s)
      PROVE  \A r \in Rows : Drawn(s, r) => Drawn(s, r)'
  <2> USE <1>DrawnStays
  <2>1. /\ srv[s].egress \in Nat /\ srv[s].rng \in Nat
        /\ srv'[s].egress \in Nat /\ srv'[s].rng \in Nat
    BY DEF TypeInv, TypeOK, Server
  <2>2. \A r \in Rows : r.egress[2] \in Nat /\ r.index \in Nat
    BY <1>RowTypes
  <2>3. QED
    BY <2>1, <2>2 DEF RngMovesOn, Drawn

\* A published block stays published.
<1>ScannedStays.
      ASSUME TablesGrow, NEW iid \in DOMAIN ingest_invocations, NEW b,
             AlreadyScanned(iid, b)
      PROVE  AlreadyScanned(iid, b)'
  <2> USE <1>ScannedStays
  <2>1. PICK r \in ingested_blocks :
          /\ r.block = b
          /\ r.iid = iid \/ r.ingress_key = ingest_invocations[iid].ingress_key
    BY DEF AlreadyScanned
  <2>2. /\ r \in ingested_blocks'
        /\ ingest_invocations'[iid].ingress_key = ingest_invocations[iid].ingress_key
    BY DEF TablesGrow
  <2>3. QED
    BY <2>1, <2>2, Zenon DEF AlreadyScanned

\* A step of one server does not touch the RNG of another.
<1>OtherRngs.
      ASSUME TypeInv, NEW s \in Servers, Local(s), TablesGrow,
             \A r \in PublishedRows' : r \in PublishedRows \/ r.egress[1] = s,
             NEW t \in Servers, t # s, RngInv(t)
      PROVE  RngInv(t)'
  <2> USE <1>OtherRngs
  <2>1. srv'[t] = srv[t] /\ worker'[t] = worker[t] /\ ledger' = ledger
    BY DEF Local, TypeInv, TypeOK
  <2>2. \A r : Drawn(t, r)' <=> Drawn(t, r)
    BY <2>1 DEF Drawn
  <2>3. \A r \in PublishedRows' : r.egress[1] = t => Drawn(t, r)'
    BY <2>2, Zenon DEF RngInv
  <2>4. \A r \in worker'[t].rows : r.egress[1] = t /\ Drawn(t, r)'
    BY <2>1, <2>2, Zenon DEF RngInv
  <2>5. worker[t].rows \cap PublishedRows = {} => worker'[t].rows \cap PublishedRows' = {}
    <3>1. ASSUME NEW r \in worker'[t].rows, r \in PublishedRows'
          PROVE  r \in worker[t].rows /\ r \in PublishedRows
      BY <2>1, <2>4, <3>1
    <3>2. QED
      BY <3>1, Zenon
  <2>6. ASSUME worker[t].iid \in DOMAIN ingest_invocations,
               AlreadyScanned(worker[t].iid, worker[t].block)
        PROVE  /\ worker'[t].iid \in DOMAIN ingest_invocations'
               /\ AlreadyScanned(worker[t].iid, worker[t].block)'
    <3>1. PICK i \in DOMAIN ingest_invocations : i = worker[t].iid
      BY <2>6
    <3>2. PICK b : b = worker[t].block
      OBVIOUS
    <3>3. AlreadyScanned(i, b)'
      BY <2>6, <3>1, <3>2, <1>ScannedStays
    <3>4. i \in DOMAIN ingest_invocations'
      BY DEF TablesGrow
    <3>5. QED
      BY <2>1, <3>1, <3>2, <3>3, <3>4 DEF AlreadyScanned
  <2>7. ChunksOf(t)' = ChunksOf(t)
    BY <2>1 DEF ChunksOf
  <2>8. QED
    BY <2>1, <2>3, <2>4, <2>5, <2>6, <2>7, Zenon DEF RngInv

\* So it is enough to look at the server that takes the step.
<1>LocalRng.
      ASSUME TypeInv, UsedOnceInv, NEW s \in Servers, Local(s), TablesGrow,
             \A r \in PublishedRows' : r \in PublishedRows \/ r.egress[1] = s,
             RngOutputsUsedOnce', RngInv(s)'
      PROVE  UsedOnceInv'
  BY <1>LocalRng, <1>OtherRngs, Zenon DEF UsedOnceInv

\* A step that publishes nothing and scans nothing.
<1>RngKept.
      ASSUME TypeInv, TypeInv', UsedOnceInv, NEW s \in Servers, Local(s),
             TablesGrow, UNCHANGED ingested_blocks, RngMovesOn(s),
             worker'[s].rows \subseteq worker[s].rows,
             worker'[s].pc \in {"poll", "write", "publish", "invocation"} =>
                 worker'[s].rows = {},
             worker'[s].pc \in {"ingest", "rotate"} =>
                 \/ worker'[s] = worker[s]
                 \/ worker'[s].rows \cap PublishedRows = {}
      PROVE  UsedOnceInv'
  <2> USE <1>RngKept
  <2>1. RngInv(s) /\ RngOutputsUsedOnce
    BY DEF UsedOnceInv
  <2>2. PublishedRows' = PublishedRows /\ RngOutputsUsedOnce'
    BY <2>1, Zenon DEF PublishedRows, RngOutputsUsedOnce
  <2>3. \A r \in Rows : Drawn(s, r) => Drawn(s, r)'
    BY <1>DrawnStays
  <2>4. \A r \in PublishedRows' : r.egress[1] = s => Drawn(s, r)'
    BY <2>1, <2>2, <2>3, <1>RowTypes, Zenon DEF RngInv
  <2>5. \A r \in worker'[s].rows : r.egress[1] = s /\ Drawn(s, r)'
    BY <2>1, <2>3, <1>RowTypes, Zenon DEF RngInv
  <2>6. worker'[s].pc \in {"ingest", "rotate"} =>
          \/ worker'[s].rows \cap PublishedRows' = {}
          \/ /\ worker'[s].pc = "ingest"
             /\ worker'[s].chunk > Len(ChunksOf(s)')
             /\ worker'[s].iid \in DOMAIN ingest_invocations'
             /\ AlreadyScanned(worker[s].iid, worker[s].block)'
    <3>1. SUFFICES ASSUME worker'[s].pc \in {"ingest", "rotate"},
                          worker'[s] = worker[s],
                          ~(worker[s].rows \cap PublishedRows = {})
                   PROVE  /\ worker'[s].pc = "ingest"
                          /\ worker'[s].chunk > Len(ChunksOf(s)')
                          /\ worker'[s].iid \in DOMAIN ingest_invocations'
                          /\ AlreadyScanned(worker[s].iid, worker[s].block)'
      BY <2>2, Zenon
    <3>2. /\ worker[s].pc = "ingest" /\ worker[s].chunk > Len(ChunksOf(s))
          /\ worker[s].iid \in DOMAIN ingest_invocations
          /\ AlreadyScanned(worker[s].iid, worker[s].block)
      BY <2>1, <3>1, Zenon DEF RngInv
    <3>3. ChunksOf(s)' = ChunksOf(s)
      BY <3>1 DEF ChunksOf, Local
    <3>4. PICK i \in DOMAIN ingest_invocations : i = worker[s].iid
      BY <3>2
    <3>5. PICK b : b = worker[s].block
      OBVIOUS
    <3>6. AlreadyScanned(i, b)' /\ i \in DOMAIN ingest_invocations'
      BY <3>2, <3>4, <3>5, <1>ScannedStays, Zenon DEF TablesGrow
    <3>7. QED
      BY <3>1, <3>2, <3>3, <3>4, <3>5, <3>6 DEF AlreadyScanned
  <2>7. RngInv(s)'
    BY <2>4, <2>5, <2>6, Zenon DEF RngInv
  <2>8. QED
    BY <2>2, <2>7, <1>LocalRng, Zenon

\* Scanning a chunk takes outputs that are neither published nor in use.
<1>ChunkRng.
      ASSUME TypeInv, UsedOnceInv, NEW s \in Servers,
             IngestChunk(s) \/ IngestChunkOverflow(s)
      PROVE  UsedOnceInv'
  <2> USE <1>ChunkRng
  <2>1. Local(s) /\ TypeInv'
    BY ServerTypes DEF WorkerStep
  <2>2. RngInv(s) /\ RngOutputsUsedOnce
    BY DEF UsedOnceInv
  <2>3. /\ UNCHANGED tables /\ Owned(s) \in Nat
        /\ worker[s].pc = "ingest" /\ worker[s].chunk <= Len(ChunksOf(s))
        /\ worker'[s].pc \in {"ingest", "rotate"}
    BY IngestChunkFields, IngestChunkOverflowFields, Zenon
  <2>4. TablesGrow /\ PublishedRows' = PublishedRows
    BY <2>3, TablesSame
  <2>5. RngOutputsUsedOnce'
    BY <2>2, <2>3 DEF RngOutputsUsedOnce, tables
  <2>6. /\ srv[s].egress \in Nat /\ srv[s].rng \in Nat /\ worker[s].chunk \in Nat
        /\ worker[s].block \in Nat
    BY TypeParts, FieldTypes, Zenon
  <2>7. PICK egress \in Nat, i \in Nat :
          /\ srv'[s].egress = egress /\ srv'[s].rng = i + Owned(s)
          /\ \/ egress = srv[s].egress /\ i = srv[s].rng
             \/ egress = srv[s].egress + 1 /\ i = 0
          /\ worker'[s].rows = worker[s].rows \cup Outputs(<<s, egress>>, i, Owned(s))
    <3>1. CASE IngestChunk(s)
      <4>1. /\ srv'[s].egress = srv[s].egress /\ srv'[s].rng = srv[s].rng + Owned(s)
            /\ worker'[s].rows = worker[s].rows
                 \cup Outputs(<<s, srv[s].egress>>, srv[s].rng, Owned(s))
        BY <3>1, IngestChunkFields DEF EgressOf
      <4>2. QED
        BY <2>6, <4>1, Zenon
    <3>2. CASE IngestChunkOverflow(s)
      <4>1. /\ srv'[s].egress = srv[s].egress + 1 /\ srv'[s].rng = 0 + Owned(s)
            /\ worker'[s].rows = worker[s].rows
                 \cup Outputs(<<s, srv[s].egress + 1>>, 0, Owned(s))
            /\ srv[s].egress + 1 \in Nat /\ 0 \in Nat
        BY <2>3, <2>6, <3>2, IngestChunkOverflowFields
      <4>2. QED
        BY <4>1, Zenon
    <3>3. QED
      BY <3>1, <3>2, Zenon
  <2>8. RngMovesOn(s)
    BY <2>3, <2>6, <2>7 DEF RngMovesOn
  <2>9. \A r \in Outputs(<<s, egress>>, i, Owned(s)) :
          /\ r.egress = <<s, egress>> /\ r.index \in Nat
          /\ i <= r.index /\ r.index < i + Owned(s)
    BY <2>3, OutputFacts, Zenon
  <2>10. \A r \in Outputs(<<s, egress>>, i, Owned(s)) :
           r.egress[1] = s /\ Drawn(s, r)' /\ ~Drawn(s, r)
    BY <2>3, <2>6, <2>7, <2>9 DEF Drawn
  <2>11. \A r \in Rows : Drawn(s, r) => Drawn(s, r)'
    BY <2>1, <2>8, <1>DrawnStays
  <2>12. \A r \in worker'[s].rows : r.egress[1] = s /\ Drawn(s, r)'
    BY <2>2, <2>7, <2>10, <2>11, <1>RowTypes, Zenon DEF RngInv
  <2>13. \A r \in PublishedRows' : r.egress[1] = s => Drawn(s, r)'
    BY <2>2, <2>4, <2>11, <1>RowTypes, Zenon DEF RngInv
  <2>14. worker[s].rows \cap PublishedRows = {}
    <3>1. ~(worker[s].chunk > Len(ChunksOf(s)))
      <4>1. SharedOK /\ ServerOK(s)
        BY TypeParts
      <4>2. worker[s].block < Len(ledger)
        BY <2>3, <4>1 DEF ServerOK, InBlock, WorkerPCs
      <4>3. ChunksOf(s) \in Seq([Keys -> Nat])
        BY <2>6, <4>1, <4>2, ContentsAreChunks DEF SharedOK, ChunksOf
      <4>4. Len(ChunksOf(s)) \in Nat
        BY <4>3
      <4>5. QED
        BY <2>3, <2>6, <4>4
    <3>2. QED
      BY <2>2, <2>3, <3>1, Zenon DEF RngInv
  <2>15. worker'[s].rows \cap PublishedRows' = {}
    BY <2>2, <2>4, <2>7, <2>10, <2>14, ZenonT(60) DEF RngInv
  <2>16. RngInv(s)'
    BY <2>3, <2>12, <2>13, <2>15 DEF RngInv
  <2>17. QED
    BY <2>1, <2>4, <2>5, <2>16, <1>LocalRng, Zenon

\* Publishing a block publishes outputs that no block has.
<1>AddBlockRng.
      ASSUME TypeInv, UsedOnceInv, NEW s \in Servers, AddBlockData(s)
      PROVE  UsedOnceInv'
  <2> USE <1>AddBlockRng
  <2>1. Local(s) /\ TypeInv'
    BY ServerTypes DEF WorkerStep
  <2>2. RngInv(s) /\ RngOutputsUsedOnce
    BY DEF UsedOnceInv
  <2>3. /\ worker[s].pc = "ingest" /\ worker[s].chunk > Len(ChunksOf(s))
        /\ srv'[s].egress = srv[s].egress /\ srv'[s].rng = srv[s].rng
        /\ worker'[s].rows = worker[s].rows
        /\ \/ /\ add_block_data(worker[s].iid, worker[s].block, worker[s].rows)
              /\ worker'[s].pc = "won" \/ worker'[s] = worker[s]
           \/ UNCHANGED tables /\ worker'[s].pc = "lost"
    BY AddBlockDataFields, Zenon DEF SrvSame
  <2>4. /\ srv[s].egress \in Nat /\ srv[s].rng \in Nat /\ worker[s].iid \in Nat
        /\ worker[s].block \in Nat /\ worker[s].rows \in SUBSET Rows /\ DbTypeOK
    BY TypeParts, FieldTypes, Zenon DEF SharedOK
  <2>5. RngMovesOn(s)
    BY <2>3, <2>4 DEF RngMovesOn
  <2>6. CASE UNCHANGED tables /\ worker'[s].pc = "lost"
    <3>1. TablesGrow /\ UNCHANGED ingested_blocks
      BY <2>6, TablesSame DEF tables
    <3>2. worker'[s].rows \subseteq worker[s].rows
      BY <2>3
    <3>3. worker'[s].pc \notin {"poll", "write", "publish", "invocation",
                                "ingest", "rotate"}
      BY <2>6
    <3>4. QED
      BY <2>1, <2>5, <3>1, <3>2, <3>3, <1>RngKept, Zenon
  <2>7. CASE /\ add_block_data(worker[s].iid, worker[s].block, worker[s].rows)
             /\ worker'[s].pc = "won" \/ worker'[s] = worker[s]
    <3> DEFINE row == [iid |-> worker[s].iid,
                       ingress_key |-> ingest_invocations[worker[s].iid].ingress_key,
                       block |-> worker[s].block, rows |-> worker[s].rows]
    <3>1. /\ TablesGrow /\ UNCHANGED ingest_invocations
          /\ worker[s].iid \in DOMAIN ingest_invocations
          /\ ~AlreadyScanned(worker[s].iid, worker[s].block)
          /\ ingested_blocks' = ingested_blocks \cup {row}
          /\ PublishedRows' = PublishedRows \cup worker[s].rows
      BY <2>4, <2>7, AddBlockCall, ZenonT(60)
    <3>2. worker[s].rows \cap PublishedRows = {}
      BY <2>2, <2>3, <3>1, Zenon DEF RngInv
    <3>3. row.rows = worker[s].rows /\ row.iid = worker[s].iid /\ row.block = worker[s].block
      OBVIOUS
    <3> HIDE DEF row
    <3>4. RngOutputsUsedOnce'
      <4>1. \A r \in ingested_blocks : r.rows \cap row.rows = {}
        BY <3>2, <3>3, Zenon DEF PublishedRows
      <4>2. QED
        BY <2>2, <3>1, <4>1, Zenon DEF RngOutputsUsedOnce
    <3>5. \A r \in worker[s].rows : r.egress[1] = s /\ Drawn(s, r)
      BY <2>2, Zenon DEF RngInv
    <3>6. \A r : Drawn(s, r)' <=> Drawn(s, r)
      BY <2>3 DEF Drawn
    <3>7. \A r \in PublishedRows' : r.egress[1] = s => Drawn(s, r)'
      BY <2>2, <3>1, <3>5, <3>6, Zenon DEF RngInv
    <3>8. \A r \in worker'[s].rows : r.egress[1] = s /\ Drawn(s, r)'
      BY <2>3, <3>5, <3>6, Zenon
    <3>9. worker'[s].pc \notin {"poll", "write", "publish", "invocation"}
      BY <2>3, <2>7
    <3>10. ASSUME worker'[s].pc \in {"ingest", "rotate"}
           PROVE  /\ worker'[s].pc = "ingest"
                  /\ worker'[s].chunk > Len(ChunksOf(s)')
                  /\ worker'[s].iid \in DOMAIN ingest_invocations'
                  /\ AlreadyScanned(worker[s].iid, worker[s].block)'
      <4>1. worker'[s] = worker[s]
        BY <2>7, <3>10
      <4>2. ChunksOf(s)' = ChunksOf(s)
        BY <2>1, <4>1 DEF ChunksOf, Local
      <4>3. row \in ingested_blocks'
        BY <3>1
      <4>4. AlreadyScanned(worker[s].iid, worker[s].block)'
        BY <3>3, <4>1, <4>3, Zenon DEF AlreadyScanned
      <4>5. QED
        BY <2>3, <3>1, <4>1, <4>2, <4>4, Zenon
    <3>11. RngInv(s)'
      BY <3>7, <3>8, <3>9, <3>10, Zenon DEF RngInv
    <3>12. QED
      BY <2>1, <3>1, <3>4, <3>5, <3>11, <1>LocalRng, Zenon
  <2>8. QED
    BY <2>3, <2>6, <2>7

\* The worker's other steps.
<1>WorkerRng.
      ASSUME TypeInv, UsedOnceInv, NEW s \in Servers, WorkerStep(s)
      PROVE  UsedOnceInv'
  <2> USE <1>WorkerRng
  <2>1. Local(s) /\ TypeInv'
    BY ServerTypes
  <2>2. RngInv(s)
    BY DEF UsedOnceInv
  <2>3. /\ srv[s].egress \in Nat /\ srv[s].rng \in Nat /\ srv[s].iid \in Nat
        /\ worker[s].key \in Keys /\ worker[s].egress \in Nat
        /\ worker[s].block \in Nat /\ worker[s].iid \in Nat
        /\ DbTypeOK /\ s \in Enclaves
    BY TypeParts, FieldTypes, Zenon DEF SharedOK
  <2>4. CASE \/ BeginBlock(s) \/ PublishReport(s) \/ IngestChunkTooBig(s)
             \/ AdvanceNextBlock(s) \/ NewEgressKey(s) \/ WriteStateFile(s)
    <3>1. UNCHANGED tables
      BY <2>4, BeginBlockFields, PublishReportFields, IngestChunkTooBigFields,
         AdvanceNextBlockFields, NewEgressKeyFields, WriteStateFileFields, ZenonT(60)
    <3>2. RngMovesOn(s)
      <4>1. \/ srv'[s].egress = srv[s].egress /\ srv'[s].rng = srv[s].rng
            \/ srv'[s].egress = srv[s].egress + 1
        BY <2>4, BeginBlockFields, PublishReportFields, IngestChunkTooBigFields,
           AdvanceNextBlockFields, NewEgressKeyFields, WriteStateFileFields, ZenonT(60)
           DEF SrvSame
      <4>2. QED
        BY <2>3, <4>1 DEF RngMovesOn
    <3>3. worker'[s].rows = {} /\ worker'[s].pc \notin {"ingest", "rotate"}
      <4>1. CASE PublishReport(s)
        <5>1. /\ worker[s].pc = "publish" /\ worker'[s].rows = worker[s].rows
              /\ worker'[s].pc \in {"retired", "invocation"}
          BY <4>1, PublishReportFields, Zenon
        <5>2. QED
          BY <2>2, <5>1 DEF RngInv
      <4>2. CASE ~PublishReport(s)
        <5>1. worker'[s].rows = {} /\ worker'[s].pc \in {"publish", "poll", "write"}
          BY <2>4, <4>2, BeginBlockFields, IngestChunkTooBigFields,
             AdvanceNextBlockFields, NewEgressKeyFields, WriteStateFileFields, ZenonT(60)
        <5>2. QED
          BY <5>1
      <4>3. QED
        BY <4>1, <4>2
    <3>4. TablesGrow /\ UNCHANGED ingested_blocks
      BY <3>1, TablesSame DEF tables
    <3>5. QED
      BY <2>1, <3>2, <3>3, <3>4, <1>RngKept, Zenon
  <2>5. CASE EnsureInvocation(s)
    <3>1. /\ worker[s].pc = "invocation" /\ worker'[s].rows = worker[s].rows
          /\ worker'[s].pc = "ingest"
          /\ srv'[s].egress = srv[s].egress /\ srv'[s].rng = srv[s].rng
          /\ \/ new_ingest_invocation(NoInvocation, worker[s].key,
                  <<s, worker[s].egress>>, worker[s].block)
             \/ UNCHANGED tables
      BY <2>5, EnsureInvocationFields, Zenon
    <3>2. worker[s].rows = {}
      BY <2>2, <3>1 DEF RngInv
    <3>3. TablesGrow /\ UNCHANGED ingested_blocks
      <4>1. <<s, worker[s].egress>> \in EgressKeys /\ NoInvocation \in Nat
        BY <2>3 DEF EgressKeys, NoInvocation
      <4>2. CASE UNCHANGED tables
        BY <4>2, TablesSame DEF tables
      <4>3. CASE new_ingest_invocation(NoInvocation, worker[s].key,
                   <<s, worker[s].egress>>, worker[s].block)
        BY <2>3, <4>1, <4>3, NewInvocationCall, Zenon
      <4>4. QED
        BY <3>1, <4>2, <4>3
    <3>4. RngMovesOn(s)
      BY <2>3, <3>1 DEF RngMovesOn
    <3>5. worker'[s].pc \notin {"poll", "write", "publish", "invocation"}
      BY <3>1
    <3>6. QED
      BY <2>1, <3>1, <3>2, <3>3, <3>4, <3>5, <1>RngKept, Zenon
  <2>6. CASE RotateInvocation(s)
    <3>1. /\ worker[s].pc = "rotate" /\ worker'[s].rows = worker[s].rows
          /\ worker'[s].pc = "ingest" \/ worker'[s] = worker[s]
          /\ srv'[s].egress = srv[s].egress /\ srv'[s].rng = srv[s].rng
          /\ new_ingest_invocation(worker[s].iid, worker[s].key, EgressOf(s),
                                   worker[s].block)
      BY <2>6, RotateInvocationFields, Zenon
    <3>2. worker[s].rows \cap PublishedRows = {}
      BY <2>2, <3>1 DEF RngInv
    <3>3. EgressOf(s) \in EgressKeys
      BY <2>3 DEF EgressOf, EgressKeys
    <3>4. TablesGrow /\ UNCHANGED ingested_blocks
      BY <2>3, <3>1, <3>3, NewInvocationCall, Zenon
    <3>5. RngMovesOn(s)
      BY <2>3, <3>1 DEF RngMovesOn
    <3>6. worker'[s].pc \notin {"poll", "write", "publish", "invocation"}
      BY <3>1
    <3>7. QED
      BY <2>1, <3>1, <3>2, <3>4, <3>5, <3>6, <1>RngKept, Zenon
  <2>7. CASE BackOff(s)
    <3>1. /\ worker'[s].rows = worker[s].rows /\ worker'[s].pc = "new_egress"
          /\ srv'[s].egress = srv[s].egress /\ srv'[s].rng = srv[s].rng
          /\ \/ decommission_ingest_invocation(srv[s].iid)
             \/ UNCHANGED tables
      BY <2>7, BackOffFields, Zenon
    <3>2. TablesGrow /\ UNCHANGED ingested_blocks
      <4>1. CASE UNCHANGED tables
        BY <4>1, TablesSame DEF tables
      <4>2. CASE decommission_ingest_invocation(srv[s].iid)
        BY <2>3, <4>2, DecommissionCall, Zenon
      <4>3. QED
        BY <3>1, <4>1, <4>2
    <3>3. RngMovesOn(s)
      BY <2>3, <3>1 DEF RngMovesOn
    <3>4. worker'[s].pc \notin {"poll", "write", "publish", "invocation",
                                "ingest", "rotate"}
      BY <3>1
    <3>5. QED
      BY <2>1, <3>1, <3>2, <3>3, <3>4, <1>RngKept, Zenon
  <2>8. QED
    BY <2>4, <2>5, <2>6, <2>7, <1>ChunkRng, <1>AddBlockRng DEF WorkerStep

\* A call or a fault publishes nothing and takes no RNG output.
<1>OtherStepsRng.
      ASSUME TypeInv, UsedOnceInv, NEW s \in Servers, AdminStep(s) \/ FaultStep(s)
      PROVE  UsedOnceInv'
  <2> USE <1>OtherStepsRng
  <2>1. Local(s) /\ TypeInv'
    BY ServerTypes, Zenon
  <2>2. RngInv(s)
    BY DEF UsedOnceInv
  <2>3. srv[s].egress \in Nat /\ srv[s].rng \in Nat
    BY TypeParts, FieldTypes, Zenon
  <2>4. CASE Still(s) \/ NewKeys(s) \/ Restart(s) \/ StartFresh(s)
    <3>1. UNCHANGED tables /\ worker'[s] = worker[s]
      BY <2>4, NewKeysFields, StartFields, Zenon DEF Still
    <3>2. \/ srv'[s].egress = srv[s].egress /\ srv'[s].rng = srv[s].rng
          \/ srv'[s].egress = srv[s].egress + 1
      BY <2>4, NewKeysFields, StartFields, Zenon DEF Still
    <3>3. RngMovesOn(s)
      BY <2>3, <3>2 DEF RngMovesOn
    <3>4. TablesGrow /\ UNCHANGED ingested_blocks
      BY <3>1, TablesSame DEF tables
    <3>5. worker'[s].pc \in {"poll", "write", "publish", "invocation"} =>
            worker'[s].rows = {}
      BY <2>2, <3>1, Zenon DEF RngInv
    <3>6. QED
      BY <2>1, <3>1, <3>3, <3>4, <3>5, <1>RngKept, Zenon
  <2>5. CASE Crash(s)
    <3>1. /\ UNCHANGED tables /\ worker'[s].pc = "poll" /\ worker'[s].rows = {}
          /\ srv'[s].egress = srv[s].egress /\ srv'[s].rng = srv[s].rng
      BY <2>5, CrashFields, Zenon
    <3>2. RngMovesOn(s)
      BY <2>3, <3>1 DEF RngMovesOn
    <3>3. TablesGrow /\ UNCHANGED ingested_blocks
      BY <3>1, TablesSame DEF tables
    <3>4. worker'[s].pc \notin {"ingest", "rotate"}
      BY <3>1
    <3>5. QED
      BY <2>1, <3>1, <3>2, <3>3, <3>4, <1>RngKept, Zenon
  <2>6. QED
    BY <2>4, <2>5, StillFields, Zenon DEF AdminStep, FaultStep

\* Neither does a step that is no server's.
<1>NoServerRng.
      ASSUME TypeInv, UsedOnceInv,
             (\E k \in Keys : ReportLost(k)) \/ AppendBlock \/ UNCHANGED vars
      PROVE  UsedOnceInv'
  <2> USE <1>NoServerRng
  <2>1. UNCHANGED <<ingested_blocks, ingest_invocations, srv, worker>>
    BY Zenon DEF ReportLost, report_lost_ingress_key, AppendBlock, vars,
       db_vars, thread_vars
  <2>2. PublishedRows' = PublishedRows /\ RngOutputsUsedOnce'
    BY <2>1, Zenon DEF UsedOnceInv, PublishedRows, RngOutputsUsedOnce
  <2>3. ASSUME NEW s \in Servers
        PROVE  RngInv(s)'
    <3>1. RngInv(s)
      BY DEF UsedOnceInv
    <3>2. worker[s].pc = "ingest" => ChunksOf(s)' = ChunksOf(s)
      <4>1. CASE UNCHANGED ledger
        BY <2>1, <4>1 DEF ChunksOf
      <4>2. CASE AppendBlock /\ worker[s].pc = "ingest"
        <5>1. SharedOK /\ ServerOK(s)
          BY TypeParts
        <5>2. worker[s].block \in Nat /\ worker[s].block < Len(ledger)
          BY <4>2, <5>1, FieldTypes DEF ServerOK, InBlock, WorkerPCs
        <5>3. ledger'[worker[s].block + 1] = ledger[worker[s].block + 1]
          BY <4>2, <5>1, <5>2 DEF SharedOK, AppendBlock
        <5>4. QED
          BY <2>1, <5>3 DEF ChunksOf
      <4>3. QED
        BY <4>1, <4>2 DEF ReportLost, vars, thread_vars
    <3>3. \A r : Drawn(s, r)' <=> Drawn(s, r)
      BY <2>1 DEF Drawn
    <3>4. AlreadyScanned(worker[s].iid, worker[s].block)' <=>
            AlreadyScanned(worker[s].iid, worker[s].block)
      BY <2>1, ZenonT(60) DEF AlreadyScanned
    <3>5. QED
      BY <2>1, <2>2, <3>1, <3>2, <3>3, <3>4, Zenon DEF RngInv
  <2>4. QED
    BY <2>2, <2>3 DEF UsedOnceInv
<1>1. Init => UsedOnceInv
  <2>1. SUFFICES ASSUME Init PROVE UsedOnceInv
    OBVIOUS
  <2>2. ingested_blocks = {} /\ PublishedRows = {}
    BY <2>1, ZenonT(60) DEF Init, DbInit, PublishedRows
  <2>3. \A s \in Servers : worker[s].pc = "poll" /\ worker[s].rows = {}
    BY <2>1 DEF Init, IdleWorker
  <2>4. QED
    BY <2>2, <2>3 DEF UsedOnceInv, RngOutputsUsedOnce, RngInv
<1>2. TypeInv /\ UsedOnceInv /\ [Next]_vars => UsedOnceInv'
  BY <1>WorkerRng, <1>OtherStepsRng, <1>NoServerRng, Zenon DEF Next
<1>3. QED
  BY <1>1, <1>2, InitTypes, NextTypes, PTL DEF Spec

\* ingest_txs and add_block_data: no two published blocks share an RNG output,
\* however servers race for a block, lose replies, crash, restart, change keys
\* or give up on a chunk.  With two records under one search key the user
\* would see only one of them.
THEOREM OutputsUsedOnce == Spec => []RngOutputsUsedOnce
<1>1. UsedOnceInv => RngOutputsUsedOnce
  BY DEF UsedOnceInv
<1>2. QED
  BY <1>1, UsedOnceInvariant, PTL

-----------------------------------------------------------------------------
(* Invocations. *)

\* What the step of s does to the tables concerns no other server's invocation.
OwnTables(s) ==
    /\ TablesGrow
    /\ \A i \in DOMAIN ingest_invocations : i # srv[s].iid =>
         /\ IngestedBy(i)' = IngestedBy(i)
         /\ Decommissioned(i)' => Decommissioned(i)
    /\ srv'[s].iid \in DOMAIN ingest_invocations => srv'[s].iid = srv[s].iid

\* A server's invocation is in the table, and block numbers are numbers.
LEMMA InvocationTypes ==
    ASSUME TypeInv, ScanInv
    PROVE  /\ \A i \in DOMAIN ingest_invocations :
                ingest_invocations[i].start_block \in Nat /\ i # NoInvocation
           /\ \A i : IngestedBy(i) \in SUBSET Nat
           /\ \A s \in Servers : srv[s].iid # NoInvocation =>
                srv[s].iid \in DOMAIN ingest_invocations
           /\ NoInvocation \notin DOMAIN ingest_invocations
<1>1. DbTypeOK
  BY DEF TypeInv, TypeOK
<1>2. \A i \in DOMAIN ingest_invocations :
        ingest_invocations[i].start_block \in Nat /\ i # NoInvocation
  <2>1. \A i \in DOMAIN ingest_invocations :
          ingest_invocations[i] \in Invocation /\ i # NoInvocation
    BY <1>1 DEF DbTypeOK, NoInvocation
  <2>2. QED
    BY <2>1 DEF Invocation
<1>3. \A r \in ingested_blocks : r.block \in Nat
  BY <1>1 DEF DbTypeOK, IngestedBlock
<1>4. \A i : IngestedBy(i) \in SUBSET Nat
  BY <1>3, Zenon DEF IngestedBy
<1>5. \A s \in Servers : srv[s].iid # NoInvocation =>
        srv[s].iid \in DOMAIN ingest_invocations
  BY Zenon DEF ScanInv, ServerInv, InvocationOf
<1>6. QED
  BY <1>2, <1>4, <1>5

\* A block is published only by an invocation that is open, from its start
\* block on, and nothing is taken back.
LEMMA InvocationsStep ==
    TypeInv /\ ScanInv /\ InvocationsInv /\ [Next]_vars =>
        /\ InvocationsInv' /\ TablesGrow
        /\ \A r \in ingested_blocks' :
             \/ r \in ingested_blocks
             \/ /\ r.iid \in DOMAIN ingest_invocations
                /\ ~Decommissioned(r.iid)
                /\ ingest_invocations[r.iid].start_block <= r.block

\* A call that publishes no block keeps TablesInv when the events it adds are
\* of invocations in the table, and it announces what it closes.
<1>CallKeepsTables.
      ASSUME TablesInv, TablesGrow, UNCHANGED ingested_blocks,
             \A i \in DOMAIN user_events' :
                 \/ i \in DOMAIN user_events
                 \/ user_events'[i].type = "missing_blocks"
                 \/ user_events'[i].iid \in DOMAIN ingest_invocations',
             \A i \in DOMAIN ingest_invocations' :
                 ingest_invocations'[i].decommissioned => Decommissioned(i)'
      PROVE  TablesInv'
  <2> USE <1>CallKeepsTables
  <2>1. \A i : IngestedBy(i)' = IngestedBy(i)
    BY Zenon DEF IngestedBy
  <2>2. ASSUME NEW r \in ingested_blocks'
        PROVE  /\ r.iid \in DOMAIN ingest_invocations'
               /\ r.ingress_key = ingest_invocations'[r.iid].ingress_key
               /\ ingest_invocations'[r.iid].start_block <= r.block
               /\ \A b \in ingest_invocations'[r.iid].start_block..r.block :
                    b \in IngestedBy(r.iid)'
    <3>1. r \in ingested_blocks
      OBVIOUS
    <3>2. /\ r.iid \in DOMAIN ingest_invocations'
          /\ ingest_invocations'[r.iid].ingress_key =
               ingest_invocations[r.iid].ingress_key
          /\ ingest_invocations'[r.iid].start_block =
               ingest_invocations[r.iid].start_block
      BY <3>1, Zenon DEF TablesInv, TablesGrow
    <3>3. IngestedBy(r.iid)' = IngestedBy(r.iid)
      BY <2>1
    <3>4. QED
      BY <3>1, <3>2, <3>3, Zenon DEF TablesInv
  <2>3. \A i \in DOMAIN user_events' :
          user_events'[i].type # "missing_blocks" =>
              user_events'[i].iid \in DOMAIN ingest_invocations'
    BY Zenon DEF TablesInv, TablesGrow
  <2>4. QED
    BY <2>2, <2>3, Zenon DEF TablesInv

\* new_ingest_invocation announces the invocation it opens and the one it
\* closes.
<1>OpeningKeepsTables.
      ASSUME DbTypeOK, TablesInv, NEW prev \in Nat, NEW k \in Keys,
             NEW egress \in EgressKeys, NEW start \in Nat,
             new_ingest_invocation(prev, k, egress, start)
      PROVE  TablesInv'
  <2> USE <1>OpeningKeepsTables
  <2>1. /\ TablesGrow /\ UNCHANGED ingested_blocks
        /\ DOMAIN ingest_invocations' =
             DOMAIN ingest_invocations \cup {NextInvocationId}
        /\ ingest_invocations'[NextInvocationId] = NewInvocation(k, egress, start)
        /\ prev # NoInvocation => prev \in DOMAIN ingest_invocations
        /\ \A i \in DOMAIN ingest_invocations :
             ingest_invocations'[i].decommissioned =>
                 ingest_invocations[i].decommissioned \/ i = prev
        /\ \A i : Decommissioned(i)' <=>
                    Decommissioned(i) \/ (prev # NoInvocation /\ i = prev)
    BY NewInvocationCall, Zenon
  <2>2. \A i \in DOMAIN user_events' :
          \/ i \in DOMAIN user_events
          \/ user_events'[i] = [type |-> "new_ingest_invocation",
                                iid |-> NextInvocationId]
          \/ /\ prev # NoInvocation
             /\ user_events'[i] =
                  [type |-> "decommission_ingest_invocation", iid |-> prev]
    BY NewInvocationCall, Zenon
  <2>3. \A i \in DOMAIN user_events' :
          i \in DOMAIN user_events
          \/ user_events'[i].iid \in DOMAIN ingest_invocations'
    <3>1. TAKE i \in DOMAIN user_events'
    <3>2. CASE user_events'[i] = [type |-> "new_ingest_invocation",
                                  iid |-> NextInvocationId]
      BY <2>1, <3>2
    <3>3. CASE /\ prev # NoInvocation
               /\ user_events'[i] =
                    [type |-> "decommission_ingest_invocation", iid |-> prev]
      BY <2>1, <3>3
    <3>4. QED
      BY <2>2, <3>2, <3>3, Zenon
  <2>4. ASSUME NEW i \in DOMAIN ingest_invocations',
               ingest_invocations'[i].decommissioned
        PROVE  Decommissioned(i)'
    <3>1. CASE i = NextInvocationId
      BY <2>1, <2>4, <3>1 DEF NewInvocation
    <3>2. CASE i \in DOMAIN ingest_invocations
      <4>1. ingest_invocations[i].decommissioned \/ i = prev
        BY <2>1, <2>4, <3>2, Zenon
      <4>2. i # NoInvocation
        BY <3>2 DEF DbTypeOK, NoInvocation
      <4>3. ingest_invocations[i].decommissioned => Decommissioned(i)
        BY <3>2, Zenon DEF TablesInv
      <4>4. QED
        BY <2>1, <4>1, <4>2, <4>3, Zenon
    <3>3. QED
      BY <2>1, <3>1, <3>2, Zenon
  <2>5. QED
    BY <2>1, <2>3, <2>4, <1>CallKeepsTables, Zenon

\* So does decommission_ingest_invocation.
<1>ClosingKeepsTables.
      ASSUME DbTypeOK, TablesInv, NEW iid \in Nat,
             decommission_ingest_invocation(iid)
      PROVE  TablesInv'
  <2> USE <1>ClosingKeepsTables
  <2>1. /\ TablesGrow /\ UNCHANGED ingested_blocks
        /\ iid \in DOMAIN ingest_invocations
        /\ DOMAIN ingest_invocations' = DOMAIN ingest_invocations
        /\ \A i \in DOMAIN ingest_invocations :
             ingest_invocations'[i].decommissioned =>
                 ingest_invocations[i].decommissioned \/ i = iid
        /\ \A i : Decommissioned(i)' <=> Decommissioned(i) \/ i = iid
    BY DecommissionCall, Zenon
  <2>2. \A i \in DOMAIN user_events' :
          \/ i \in DOMAIN user_events
          \/ user_events'[i] = [type |-> "decommission_ingest_invocation",
                                iid |-> iid]
    BY DecommissionCall, ZenonT(60)
  <2>3. \A i \in DOMAIN user_events' :
          i \in DOMAIN user_events
          \/ user_events'[i].iid \in DOMAIN ingest_invocations'
    <3>1. [type |-> "decommission_ingest_invocation", iid |-> iid].iid = iid
      OBVIOUS
    <3>2. QED
      BY <2>1, <2>2, <3>1, Zenon
  <2>4. \A i \in DOMAIN ingest_invocations' :
          ingest_invocations'[i].decommissioned => Decommissioned(i)'
    BY <2>1, Zenon DEF TablesInv
  <2>5. QED
    BY <2>1, <2>3, <2>4, <1>CallKeepsTables, Zenon

\* So does add_block_data for the block after the invocation's last one.
<1>BlockKeepsTables.
      ASSUME DbTypeOK, TablesInv, NEW iid \in Nat, NEW b \in Nat,
             NEW rows \in SUBSET Rows, add_block_data(iid, b, rows),
             ingest_invocations[iid].start_block <= b,
             \A c \in ingest_invocations[iid].start_block..(b - 1) :
                 c \in IngestedBy(iid)
      PROVE  TablesInv'
  <2> USE <1>BlockKeepsTables
  <2> DEFINE row == [iid |-> iid,
                     ingress_key |-> ingest_invocations[iid].ingress_key,
                     block |-> b, rows |-> rows]
  <2>1. /\ UNCHANGED ingest_invocations /\ UNCHANGED user_events
        /\ iid \in DOMAIN ingest_invocations
        /\ ingested_blocks' = ingested_blocks \cup {row}
        /\ IngestedBy(iid)' = IngestedBy(iid) \cup {b}
        /\ \A i : i # iid => IngestedBy(i)' = IngestedBy(i)
        /\ \A i : Decommissioned(i)' <=> Decommissioned(i)
    BY AddBlockCall, Zenon
  <2>2. /\ row.iid = iid /\ row.block = b
        /\ row.ingress_key = ingest_invocations[iid].ingress_key
    OBVIOUS
  <2> HIDE DEF row
  <2>3. ingest_invocations[iid].start_block \in Nat
    <3>1. ingest_invocations[iid] \in Invocation
      BY <2>1 DEF DbTypeOK
    <3>2. QED
      BY <3>1 DEF Invocation
  <2>4. \A c \in ingest_invocations[iid].start_block..b : c \in IngestedBy(iid)'
    BY <2>1, <2>3
  <2>5. ASSUME NEW i, NEW c \in IngestedBy(i)
        PROVE  c \in IngestedBy(i)'
    <3>1. CASE i = iid
      BY <2>1, <2>5, <3>1
    <3>2. CASE i # iid
      BY <2>1, <2>5, <3>2, Zenon
    <3>3. QED
      BY <3>1, <3>2
  <2>6. ASSUME NEW r \in ingested_blocks'
        PROVE  /\ r.iid \in DOMAIN ingest_invocations
               /\ r.ingress_key = ingest_invocations[r.iid].ingress_key
               /\ ingest_invocations[r.iid].start_block <= r.block
               /\ \A c \in ingest_invocations[r.iid].start_block..r.block :
                    c \in IngestedBy(r.iid)'
    <3>1. CASE r \in ingested_blocks
      BY <2>5, <3>1, Zenon DEF TablesInv
    <3>2. CASE r = row
      BY <2>1, <2>2, <2>4, <3>2, Zenon
    <3>3. QED
      BY <2>1, <3>1, <3>2, Zenon
  <2>7. QED
    BY <2>1, <2>6, Zenon DEF TablesInv

\* OpenAt after a step, with the values the server has then.
<1>OpenAfter.
      ASSUME NEW s \in Servers, NEW i, NEW n, NEW pc,
             i = srv'[s].iid, n = srv'[s].next, pc = worker'[s].pc,
             OpenAt(i, n, pc)'
      PROVE  OpenAt(srv[s].iid, srv[s].next, worker[s].pc)'
  BY <1>OpenAfter, Zenon DEF OpenAt, IngestedBy, Decommissioned

\* So it is enough to look at the server that takes the step.
<1>LocalInvocations.
      ASSUME TypeInv, ScanInv, InvocationsInv, NEW s \in Servers, Local(s),
             OwnTables(s), TablesInv', InvocationInv(s)'
      PROVE  InvocationsInv'
  <2> USE <1>LocalInvocations
  <2>1. \A t \in Servers : t # s => srv'[t] = srv[t] /\ worker'[t] = worker[t]
    BY DEF Local, TypeInv, TypeOK
  <2>2. Exclusive'
    <3>1. SUFFICES ASSUME NEW a \in Servers, NEW b \in Servers,
                          srv'[a].iid # NoInvocation, srv'[b].iid = srv'[a].iid
                   PROVE  b = a
      BY Zenon DEF Exclusive
    <3>2. \A t \in Servers : t # s /\ srv'[t].iid = srv'[s].iid
                             /\ srv'[t].iid # NoInvocation => FALSE
      <4>1. SUFFICES ASSUME NEW t \in Servers, t # s, srv'[t].iid = srv'[s].iid,
                            srv'[t].iid # NoInvocation
                     PROVE  FALSE
        OBVIOUS
      <4>2. srv[t].iid \in DOMAIN ingest_invocations /\ srv[t].iid = srv'[t].iid
        BY <2>1, <4>1, InvocationTypes, Zenon
      <4>3. srv'[s].iid = srv[s].iid
        BY <4>1, <4>2, Zenon DEF OwnTables
      <4>4. QED
        BY <4>1, <4>2, <4>3, Zenon DEF InvocationsInv, Exclusive
    <3>3. CASE a # s /\ b # s
      BY <2>1, <3>1, <3>3, Zenon DEF InvocationsInv, Exclusive
    <3>4. CASE a = s \/ b = s
      BY <3>1, <3>2, <3>4
    <3>5. QED
      BY <3>3, <3>4
  <2>3. ASSUME NEW t \in Servers, t # s
        PROVE  InvocationInv(t)'
    <3>1. InvocationInv(t)
      BY DEF InvocationsInv
    <3>2. PICK i : i = srv[t].iid
      OBVIOUS
    <3>3. PICK n : n = srv[t].next
      OBVIOUS
    <3>4. PICK pc : pc = worker[t].pc
      OBVIOUS
    <3>5. srv'[t] = srv[t] /\ worker'[t] = worker[t]
      BY <2>1, <2>3
    <3>6. CASE i = NoInvocation
      BY <3>1, <3>2, <3>5, <3>6, ZenonT(60) DEF InvocationInv
    <3>7. CASE i # NoInvocation
      <4>1. i \in DOMAIN ingest_invocations
        BY <3>2, <3>7, InvocationTypes, Zenon
      <4>2. i # srv[s].iid
        BY <2>3, <3>2, <3>7, Zenon DEF InvocationsInv, Exclusive
      <4>3. /\ IngestedBy(i)' = IngestedBy(i)
            /\ Decommissioned(i)' => Decommissioned(i)
            /\ ingest_invocations'[i].start_block = ingest_invocations[i].start_block
        BY <4>1, <4>2, Zenon DEF OwnTables, TablesGrow
      <4>4. OpenAt(i, n, pc)
        BY <3>1, <3>2, <3>3, <3>4, <3>7, Zenon DEF InvocationInv
      <4>5. OpenAt(i, n, pc)'
        BY <4>3, <4>4, Zenon DEF OpenAt
      <4>6. OpenAt(srv[t].iid, srv[t].next, worker[t].pc)'
        BY <3>2, <3>3, <3>4, <3>5, <4>5, <1>OpenAfter, Zenon
      <4>7. worker[t].pc = "won" => n \in IngestedBy(i)
        BY <3>1, <3>2, <3>3, Zenon DEF InvocationInv
      <4>8. IngestedBy(srv[t].iid)' = IngestedBy(i)'
        BY <3>2, <3>5, Zenon DEF IngestedBy
      <4>9. worker'[t].pc = "won" => srv'[t].next \in IngestedBy(srv[t].iid)'
        BY <3>3, <3>5, <4>3, <4>7, <4>8, ZenonT(60)
      <4>10. QED
        BY <3>1, <3>5, <4>6, <4>9, Zenon DEF InvocationInv
    <3>8. QED
      BY <3>6, <3>7
  <2>4. QED
    BY <2>2, <2>3, Zenon DEF InvocationsInv

\* A step that leaves the tables and the server's invocation alone.
<1>KeptInvocation.
      ASSUME NEW s \in Servers, InvocationsInv, UNCHANGED tables,
             srv'[s].iid = srv[s].iid,
             srv'[s].next = srv[s].next \/ srv[s].iid = NoInvocation,
             worker[s].pc = "rotate" => worker'[s].pc = "rotate"
                                        \/ srv[s].iid = NoInvocation,
             worker'[s].pc \in {"ingest", "rotate"} =>
                 /\ worker[s].pc \in {"ingest", "rotate"}
                 /\ worker'[s].iid = worker[s].iid,
             worker'[s].pc \in {"won", "new_egress"} => worker'[s] = worker[s]
      PROVE  OwnTables(s) /\ TablesInv' /\ InvocationInv(s)'
  <2> USE <1>KeptInvocation
  <2>1. /\ TablesGrow
        /\ \A i : IngestedBy(i)' = IngestedBy(i)
        /\ \A i : Decommissioned(i)' <=> Decommissioned(i)
    BY TablesSame
  <2>2. OwnTables(s)
    BY <2>1, Zenon DEF OwnTables
  <2>3. InvocationInv(s) /\ TablesInv
    BY DEF InvocationsInv
  <2>4. TablesInv'
    BY <2>1, <2>3, Zenon DEF TablesInv, tables
  <2>5. PICK i : i = srv[s].iid
    OBVIOUS
  <2>6. PICK n : n = srv[s].next
    OBVIOUS
  <2>7. PICK pc : pc = worker'[s].pc
    OBVIOUS
  <2>8. CASE i = NoInvocation
    <3>1. /\ worker'[s].pc \notin {"ingest", "rotate", "won"}
          /\ srv'[s].iid = NoInvocation
      BY <2>3, <2>5, <2>8 DEF InvocationInv
    <3>2. QED
      BY <2>2, <2>4, <3>1 DEF InvocationInv
  <2>9. CASE i # NoInvocation
    <3>1. OpenAt(i, n, worker[s].pc)
      BY <2>3, <2>5, <2>6, <2>9, Zenon DEF InvocationInv
    <3>2. UNCHANGED ingest_invocations
      BY Zenon DEF tables
    <3>3. Decommissioned(i) => pc = "rotate"
      BY <2>5, <2>7, <2>9, <3>1, Zenon DEF OpenAt
    <3>4. OpenAt(i, n, pc)'
      BY <2>1, <3>1, <3>2, <3>3, Zenon DEF OpenAt
    <3>5. OpenAt(srv[s].iid, srv[s].next, worker[s].pc)'
      BY <2>5, <2>6, <2>7, <2>9, <3>4, <1>OpenAfter, Zenon
    <3>6. IngestedBy(srv[s].iid)' = IngestedBy(srv[s].iid)
      <4>1. IngestedBy(srv[s].iid)' = IngestedBy(i)'
        BY <2>5, Zenon DEF IngestedBy
      <4>2. IngestedBy(srv[s].iid) = IngestedBy(i)
        BY <2>5
      <4>3. QED
        BY <2>1, <4>1, <4>2, Zenon
    <3>7. /\ worker'[s].pc = "won" => srv'[s].next \in IngestedBy(srv[s].iid)'
          /\ worker'[s].pc # "new_egress"
      BY <2>3, <2>5, <2>9, <3>6, ZenonT(60) DEF InvocationInv
    <3>8. worker'[s].pc \in {"ingest", "rotate", "won"} =>
            srv'[s].iid # NoInvocation /\ worker'[s].iid = srv'[s].iid
      BY <2>3, <2>5, <2>9 DEF InvocationInv
    <3>9. QED
      BY <2>2, <2>4, <3>5, <3>7, <3>8, Zenon DEF InvocationInv
  <2>10. QED
    BY <2>2, <2>4, <2>8, <2>9

\* A step that opens an invocation at the server's next block, or closes the
\* one it rotates away from without learning of it.
<1>OpenedInvocation.
      ASSUME TypeInv, ScanInv, InvocationsInv, NEW s \in Servers,
             NEW prev \in Nat, NEW k \in Keys, NEW egress \in EgressKeys,
             new_ingest_invocation(prev, k, egress, srv[s].next),
             prev # NoInvocation => prev = srv[s].iid,
             srv'[s].next = srv[s].next,
             \/ /\ srv'[s].iid = NextInvocationId
                /\ worker'[s].iid = NextInvocationId /\ worker'[s].pc = "ingest"
             \/ /\ srv'[s].iid = srv[s].iid /\ worker'[s] = worker[s]
                /\ worker[s].pc = "rotate"
      PROVE  OwnTables(s) /\ TablesInv' /\ InvocationInv(s)'
  <2> USE <1>OpenedInvocation
  <2>1. DbTypeOK /\ srv[s].next \in Nat /\ InvocationInv(s) /\ TablesInv
    BY TypeParts, FieldTypes, ZenonT(60) DEF SharedOK, InvocationsInv
  <2>2. /\ TablesGrow /\ UNCHANGED ingested_blocks
        /\ NextInvocationId \in Nat \ {NoInvocation}
        /\ NextInvocationId \notin DOMAIN ingest_invocations
        /\ ingest_invocations'[NextInvocationId] =
             NewInvocation(k, egress, srv[s].next)
        /\ prev # NoInvocation => prev \in DOMAIN ingest_invocations
    BY <2>1, NewInvocationCall, ZenonT(60)
  <2>3. \A i : Decommissioned(i)' <=>
                 Decommissioned(i) \/ (prev # NoInvocation /\ i = prev)
    BY <2>1, NewInvocationCall
  <2>4. \A i : IngestedBy(i)' = IngestedBy(i)
    BY <2>2, Zenon DEF IngestedBy
  <2>5. OwnTables(s)
    BY <2>2, <2>4, <2>3, Zenon DEF OwnTables
  <2>6. TablesInv'
    BY <2>1, <1>OpeningKeepsTables, Zenon
  <2>7. CASE /\ srv'[s].iid = NextInvocationId
             /\ worker'[s].iid = NextInvocationId /\ worker'[s].pc = "ingest"
    <3>1. PICK i : i = NextInvocationId
      OBVIOUS
    <3>2. PICK n \in Nat : n = srv[s].next
      BY <2>1
    <3>3. IngestedBy(i) = {}
      BY <2>1, <2>2, <3>1, Zenon DEF TablesInv, IngestedBy
    <3>4. ~Decommissioned(i)
      <4>1. SUFFICES ASSUME Decommissioned(i) PROVE FALSE
        OBVIOUS
      <4>2. PICK j \in DOMAIN user_events :
              user_events[j] = [type |-> "decommission_ingest_invocation", iid |-> i]
        BY <4>1 DEF Decommissioned
      <4>3. user_events[j].type # "missing_blocks" /\ user_events[j].iid = i
        BY <4>2
      <4>4. QED
        BY <2>1, <2>2, <3>1, <4>3, Zenon DEF TablesInv
    <3>5. ~Decommissioned(i)' /\ IngestedBy(i)' = {}
      <4>1. prev # NoInvocation => i # prev
        BY <2>2, <3>1, Zenon
      <4>2. QED
        BY <2>4, <2>3, <3>3, <3>4, <4>1, Zenon
    <3>6. ingest_invocations'[i].start_block = n
      <4>1. NewInvocation(k, egress, n).start_block = n
        BY Zenon DEF NewInvocation
      <4>2. QED
        BY <2>2, <3>1, <3>2, <4>1, ZenonT(60)
    <3>7. OpenAt(i, n, "ingest")'
      BY <3>2, <3>5, <3>6 DEF OpenAt
    <3>8. OpenAt(srv[s].iid, srv[s].next, worker[s].pc)'
      BY <2>7, <3>1, <3>2, <3>7, <1>OpenAfter, Zenon
    <3>9. srv'[s].iid # NoInvocation /\ worker'[s].iid = srv'[s].iid
      BY <2>2, <2>7, ZenonT(60)
    <3>10. QED
      BY <2>5, <2>6, <2>7, <3>8, <3>9 DEF InvocationInv
  <2>8. CASE /\ srv'[s].iid = srv[s].iid /\ worker'[s] = worker[s]
             /\ worker[s].pc = "rotate"
    <3>1. PICK i : i = srv[s].iid
      OBVIOUS
    <3>2. PICK n : n = srv[s].next
      OBVIOUS
    <3>3. i # NoInvocation /\ OpenAt(i, n, "rotate")
      BY <2>1, <2>8, <3>1, <3>2, Zenon DEF InvocationInv
    <3>4. i \in DOMAIN ingest_invocations
      BY <3>1, <3>3, InvocationTypes, Zenon
    <3>5. ingest_invocations'[i].start_block = ingest_invocations[i].start_block
      BY <2>2, <3>4, Zenon DEF TablesGrow
    <3>6. OpenAt(i, n, "rotate")'
      BY <2>4, <3>3, <3>5, Zenon DEF OpenAt
    <3>7. OpenAt(srv[s].iid, srv[s].next, worker[s].pc)'
      BY <2>8, <3>1, <3>2, <3>6, <1>OpenAfter, Zenon
    <3>8. QED
      BY <2>1, <2>5, <2>6, <2>8, <3>7, ZenonT(60) DEF InvocationInv
  <2>9. QED
    BY <2>7, <2>8

\* The worker publishes the block after the invocation's last one.
<1>PublishedInvocation.
      ASSUME TypeInv, ScanInv, InvocationsInv, NEW s \in Servers, AddBlockData(s)
      PROVE  OwnTables(s) /\ TablesInv' /\ InvocationInv(s)'
  <2> USE <1>PublishedInvocation
  <2>1. /\ worker[s].pc = "ingest" /\ SrvSame(s)
        /\ \/ /\ add_block_data(worker[s].iid, worker[s].block, worker[s].rows)
              /\ worker'[s].pc = "won" \/ worker'[s] = worker[s]
           \/ UNCHANGED tables /\ worker'[s].pc = "lost"
        /\ worker'[s].iid = worker[s].iid
    BY AddBlockDataFields, Zenon
  <2>2. /\ DbTypeOK /\ worker[s].iid \in Nat /\ worker[s].block \in Nat
        /\ worker[s].rows \in SUBSET Rows
    BY TypeParts, FieldTypes, Zenon DEF SharedOK
  <2>3. InvocationInv(s) /\ TablesInv
    BY DEF InvocationsInv
  <2>4. /\ srv[s].iid # NoInvocation /\ worker[s].iid = srv[s].iid
        /\ worker[s].block = srv[s].next
        /\ srv'[s].iid = srv[s].iid /\ srv'[s].next = srv[s].next
    <3>1. InBlock(s)
      BY <2>1 DEF InBlock, WorkerPCs
    <3>2. worker[s].block = srv[s].next
      BY <3>1, Zenon DEF ScanInv, ServerInv
    <3>3. QED
      BY <2>1, <2>3, <3>2, Zenon DEF InvocationInv, SrvSame
  <2>5. CASE UNCHANGED tables /\ worker'[s].pc = "lost"
    BY <2>1, <2>4, <2>5, <1>KeptInvocation, ZenonT(60)
  <2>6. CASE /\ add_block_data(worker[s].iid, worker[s].block, worker[s].rows)
             /\ worker'[s].pc = "won" \/ worker'[s] = worker[s]
    <3>1. PICK i \in Nat : i = srv[s].iid
      BY <2>2, <2>4
    <3>2. PICK n \in Nat : n = srv[s].next
      BY <2>2, <2>4
    <3>3. add_block_data(i, n, worker[s].rows)
      BY <2>4, <2>6, <3>1, <3>2
    <3>4. /\ TablesGrow /\ UNCHANGED ingest_invocations
          /\ IngestedBy(i)' = IngestedBy(i) \cup {n}
          /\ \A j : j # i => IngestedBy(j)' = IngestedBy(j)
          /\ \A j : Decommissioned(j)' <=> Decommissioned(j)
          /\ i \in DOMAIN ingest_invocations
      BY <2>2, <3>3, AddBlockCall
    <3>5. OwnTables(s)
      BY <2>4, <3>1, <3>4, Zenon DEF OwnTables
    <3>6. OpenAt(i, n, "ingest")
      BY <2>1, <2>3, <2>4, <3>1, <3>2, Zenon DEF InvocationInv
    <3>7. TablesInv'
      <4>1. /\ ingest_invocations[i].start_block <= n
            /\ \A c \in ingest_invocations[i].start_block..(n - 1) :
                 c \in IngestedBy(i)
        BY <3>6 DEF OpenAt
      <4>2. QED
        BY <2>2, <2>3, <3>3, <4>1, <1>BlockKeepsTables, Zenon
    <3>8. PICK pc : pc = worker'[s].pc
      OBVIOUS
    <3>9. OpenAt(i, n, pc)'
      <4>1. ~Decommissioned(i) /\ \A b \in IngestedBy(i) : b <= n
        BY <3>6 DEF OpenAt
      <4>2. \A b \in IngestedBy(i)' : b <= n
        BY <3>4, <4>1
      <4>3. QED
        BY <3>4, <3>6, <4>1, <4>2, Zenon DEF OpenAt
    <3>10. OpenAt(srv[s].iid, srv[s].next, worker[s].pc)'
      BY <2>4, <3>1, <3>2, <3>8, <3>9, <1>OpenAfter, Zenon
    <3>11. IngestedBy(srv[s].iid)' = IngestedBy(i)'
      BY <2>4, <3>1, Zenon DEF IngestedBy
    <3>12. srv'[s].next \in IngestedBy(srv[s].iid)'
      BY <2>4, <3>2, <3>4, <3>11
    <3>13. /\ worker'[s].pc # "new_egress"
           /\ srv'[s].iid # NoInvocation /\ worker'[s].iid = srv'[s].iid
      BY <2>1, <2>4, <2>6
    <3>14. QED
      BY <3>5, <3>7, <3>10, <3>12, <3>13 DEF InvocationInv
  <2>7. QED
    BY <2>1, <2>5, <2>6, Zenon

\* No step of the worker breaks InvocationsInv.
<1>WorkerInvocations.
      ASSUME TypeInv, ScanInv, InvocationsInv, NEW s \in Servers, WorkerStep(s)
      PROVE  OwnTables(s) /\ InvocationsInv'
  <2> USE <1>WorkerInvocations
  <2>1. Local(s)
    BY ServerTypes
  <2>2. SUFFICES OwnTables(s) /\ TablesInv' /\ InvocationInv(s)'
    BY <2>1, <1>LocalInvocations, Zenon
  <2>3. InvocationInv(s) /\ TablesInv /\ ServerInv(s)
    BY DEF InvocationsInv, ScanInv
  <2>4. /\ DbTypeOK /\ srv[s].iid \in Nat /\ srv[s].next \in Nat
        /\ worker[s].key \in Keys /\ worker[s].iid \in Nat
        /\ worker[s].egress \in Nat /\ srv[s].egress \in Nat /\ s \in Enclaves
    BY TypeParts, FieldTypes, Zenon DEF SharedOK
  <2>5. CASE \/ BeginBlock(s) \/ PublishReport(s) \/ IngestChunk(s)
             \/ IngestChunkOverflow(s) \/ IngestChunkTooBig(s)
             \/ NewEgressKey(s) \/ WriteStateFile(s)
    <3>1. UNCHANGED tables /\ srv'[s].iid = srv[s].iid /\ srv'[s].next = srv[s].next
      BY <2>5, BeginBlockFields, PublishReportFields, IngestChunkFields,
         IngestChunkOverflowFields, IngestChunkTooBigFields, NewEgressKeyFields,
         WriteStateFileFields, ZenonT(60) DEF SrvSame
    <3>2. /\ worker[s].pc # "rotate" /\ worker'[s].pc \notin {"won", "new_egress"}
          /\ worker'[s].pc \in {"ingest", "rotate"} =>
               worker[s].pc = "ingest" /\ worker'[s].iid = worker[s].iid
      <4>1. CASE IngestChunk(s) \/ IngestChunkOverflow(s)
        <5>1. /\ worker[s].pc = "ingest" /\ worker'[s].pc \in {"ingest", "rotate"}
              /\ worker'[s].iid = worker[s].iid
          BY <4>1, IngestChunkFields, IngestChunkOverflowFields, Zenon
        <5>2. QED
          BY <5>1
      <4>2. CASE ~(IngestChunk(s) \/ IngestChunkOverflow(s))
        <5>1. /\ worker[s].pc \in {"poll", "publish", "ingest", "new_egress", "write"}
              /\ worker'[s].pc \in {"publish", "retired", "invocation", "poll", "write"}
          BY <2>5, <4>2, BeginBlockFields, PublishReportFields,
             IngestChunkTooBigFields, NewEgressKeyFields, WriteStateFileFields, Zenon
        <5>2. QED
          BY <5>1
      <4>3. QED
        BY <4>1, <4>2
    <3>3. QED
      BY <3>1, <3>2, <1>KeptInvocation, Zenon
  <2>6. CASE EnsureInvocation(s)
    <3>1. /\ worker[s].pc = "invocation" /\ srv'[s].next = srv[s].next
          /\ worker'[s].pc = "ingest" /\ worker'[s].iid = srv'[s].iid
      BY <2>6, EnsureInvocationFields, Zenon
    <3>2. worker[s].block = srv[s].next
      BY <2>3, <3>1, Zenon DEF ServerInv, InBlock, WorkerPCs
    <3>3. CASE /\ srv[s].iid = NoInvocation
               /\ new_ingest_invocation(NoInvocation, worker[s].key,
                    <<s, worker[s].egress>>, worker[s].block)
               /\ srv'[s].iid = NextInvocationId
      <4>1. <<s, worker[s].egress>> \in EgressKeys /\ NoInvocation \in Nat
        BY <2>4 DEF EgressKeys, NoInvocation
      <4>2. new_ingest_invocation(NoInvocation, worker[s].key,
              <<s, worker[s].egress>>, srv[s].next)
        BY <3>2, <3>3
      <4>3. QED
        BY <2>4, <3>1, <3>3, <4>1, <4>2, <1>OpenedInvocation, ZenonT(60)
    <3>4. CASE /\ srv[s].iid # NoInvocation /\ UNCHANGED tables
               /\ srv'[s].iid = srv[s].iid
      <4>1. /\ TablesGrow
            /\ \A i : IngestedBy(i)' = IngestedBy(i)
            /\ \A i : Decommissioned(i)' <=> Decommissioned(i)
        BY <3>4, TablesSame
      <4>2. OwnTables(s)
        BY <3>4, <4>1, Zenon DEF OwnTables
      <4>3. TablesInv'
        BY <2>3, <3>4, <4>1, Zenon DEF TablesInv, tables
      <4>4. PICK i : i = srv[s].iid
        OBVIOUS
      <4>5. PICK n : n = srv[s].next
        OBVIOUS
      <4>6. OpenAt(i, n, "invocation")
        BY <2>3, <3>1, <3>4, <4>4, <4>5 DEF InvocationInv
      <4>7. OpenAt(i, n, "ingest")'
        BY <3>4, <4>1, <4>6 DEF OpenAt, tables
      <4>8. OpenAt(srv[s].iid, srv[s].next, worker[s].pc)'
        BY <3>1, <3>4, <4>4, <4>5, <4>7, <1>OpenAfter, Zenon
      <4>9. QED
        BY <3>1, <3>4, <4>2, <4>3, <4>8, ZenonT(60) DEF InvocationInv
    <3>5. QED
      BY <2>6, <3>3, <3>4, EnsureInvocationFields
  <2>7. CASE RotateInvocation(s)
    <3>1. /\ new_ingest_invocation(worker[s].iid, worker[s].key, EgressOf(s),
                                   worker[s].block)
          /\ worker[s].pc = "rotate" /\ srv'[s].next = srv[s].next
          /\ \/ /\ srv'[s].iid = NextInvocationId
                /\ worker'[s].iid = NextInvocationId
                /\ worker'[s].pc = "ingest"
             \/ srv'[s].iid = srv[s].iid /\ worker'[s] = worker[s]
      BY <2>7, RotateInvocationFields, Zenon
    <3>2. worker[s].block = srv[s].next
      BY <2>3, <3>1, ZenonT(60) DEF ServerInv, InBlock, WorkerPCs
    <3>3. worker[s].iid = srv[s].iid /\ EgressOf(s) \in EgressKeys
      <4>1. worker[s].iid = srv[s].iid
        BY <2>3, <3>1, ZenonT(60) DEF InvocationInv
      <4>2. EgressOf(s) \in EgressKeys
        BY <2>4 DEF EgressOf, EgressKeys
      <4>3. QED
        BY <4>1, <4>2
    <3>4. new_ingest_invocation(worker[s].iid, worker[s].key, EgressOf(s),
                                srv[s].next)
      BY <3>1, <3>2, Zenon
    <3>5. QED
      BY <2>4, <3>1, <3>3, <3>4, <1>OpenedInvocation, ZenonT(60)
  <2>8. CASE AdvanceNextBlock(s)
    <3>1. /\ UNCHANGED tables /\ worker[s].pc = "won" /\ worker'[s].pc = "write"
          /\ srv'[s].iid = srv[s].iid /\ srv'[s].next = srv[s].next + 1
      BY <2>8, AdvanceNextBlockFields, Zenon
    <3>2. /\ TablesGrow /\ UNCHANGED ingest_invocations
          /\ \A i : IngestedBy(i)' = IngestedBy(i)
          /\ \A i : Decommissioned(i)' <=> Decommissioned(i)
      BY <3>1, TablesSame DEF tables
    <3>3. OwnTables(s)
      BY <3>1, <3>2, Zenon DEF OwnTables
    <3>4. TablesInv'
      BY <2>3, <3>1, <3>2, Zenon DEF TablesInv, tables
    <3>5. PICK i : i = srv[s].iid
      OBVIOUS
    <3>6. PICK n \in Nat : n = srv[s].next
      BY <2>4
    <3>7. i # NoInvocation /\ OpenAt(i, n, "won") /\ n \in IngestedBy(i)
      BY <2>3, <3>1, <3>5, <3>6 DEF InvocationInv
    <3>8. i \in DOMAIN ingest_invocations
      BY <3>5, <3>7, InvocationTypes, Zenon
    <3>9. ingest_invocations[i].start_block \in Nat /\ IngestedBy(i) \in SUBSET Nat
      BY <3>8, InvocationTypes, Zenon
    <3>10. OpenAt(i, n + 1, "write")'
      BY <3>2, <3>6, <3>7, <3>9 DEF OpenAt
    <3>11. OpenAt(srv[s].iid, srv[s].next, worker[s].pc)'
      <4>1. srv'[s].iid = i /\ srv'[s].next = n + 1 /\ worker'[s].pc = "write"
        BY <3>1, <3>5, <3>6, Zenon
      <4>2. QED
        BY <3>10, <4>1, <1>OpenAfter, Zenon
    <3>12. QED
      BY <3>1, <3>3, <3>4, <3>11, ZenonT(60) DEF InvocationInv
  <2>9. CASE BackOff(s)
    <3>1. /\ \/ decommission_ingest_invocation(srv[s].iid)
             \/ UNCHANGED tables
          /\ srv'[s].iid = NoInvocation /\ worker'[s].pc = "new_egress"
      BY <2>9, BackOffFields, Zenon
    <3>2. InvocationInv(s)'
      BY <3>1 DEF InvocationInv
    <3>3. NoInvocation \notin DOMAIN ingest_invocations
      BY InvocationTypes
    <3>4. CASE UNCHANGED tables
      <4>1. /\ TablesGrow
            /\ \A i : IngestedBy(i)' = IngestedBy(i)
            /\ \A i : Decommissioned(i)' <=> Decommissioned(i)
        BY <3>4, TablesSame
      <4>2. OwnTables(s)
        BY <3>1, <3>3, <4>1, Zenon DEF OwnTables
      <4>3. QED
        BY <2>3, <3>2, <3>4, <4>1, <4>2, Zenon DEF TablesInv, tables
    <3>5. CASE decommission_ingest_invocation(srv[s].iid)
      <4>1. /\ TablesGrow /\ UNCHANGED ingested_blocks
            /\ \A i : Decommissioned(i)' <=> Decommissioned(i) \/ i = srv[s].iid
        BY <2>4, <3>5, DecommissionCall, Zenon
      <4>2. \A i : IngestedBy(i)' = IngestedBy(i)
        BY <4>1, Zenon DEF IngestedBy
      <4>3. OwnTables(s)
        BY <3>1, <3>3, <4>1, <4>2, Zenon DEF OwnTables
      <4>4. TablesInv'
        BY <2>3, <2>4, <3>5, <1>ClosingKeepsTables, Zenon
      <4>5. QED
        BY <3>2, <4>3, <4>4
    <3>6. QED
      BY <3>1, <3>4, <3>5
  <2>10. QED
    BY <2>5, <2>6, <2>7, <2>8, <2>9, <1>PublishedInvocation DEF WorkerStep

\* No call and no fault breaks InvocationsInv.
<1>OtherStepsInvocations.
      ASSUME TypeInv, ScanInv, InvocationsInv, NEW s \in Servers,
             AdminStep(s) \/ FaultStep(s)
      PROVE  UNCHANGED tables /\ InvocationsInv'
  <2> USE <1>OtherStepsInvocations
  <2>1. Local(s)
    BY ServerTypes, Zenon
  <2>2. InvocationInv(s) /\ ServerInv(s) /\ TablesInv
    BY DEF InvocationsInv, ScanInv
  <2>3. srv[s] \in Server
    BY TypeParts DEF ServerOK
  <2>4. CASE Still(s) \/ NewKeys(s) \/ Restart(s) \/ StartFresh(s)
    <3>1. UNCHANGED tables /\ worker'[s] = worker[s] /\ srv'[s].iid = srv[s].iid
      BY <2>4, NewKeysFields, StartFields, Zenon DEF Still
    <3>2. srv'[s].next = srv[s].next \/ srv[s].iid = NoInvocation
      <4>1. CASE Still(s)
        BY <2>2, <4>1, ZenonT(60) DEF Still, ServerInv
      <4>2. CASE NewKeys(s)
        BY <4>2, NewKeysFields, Zenon
      <4>3. CASE Restart(s) \/ StartFresh(s)
        <5>1. ~srv[s].up
          BY <4>3, StartFields, Zenon
        <5>2. srv[s].mode = "idle"
          BY <2>2, <2>3, <5>1, ZenonT(60) DEF ServerInv, Server
        <5>3. QED
          BY <2>2, <5>2, ZenonT(60) DEF ServerInv
      <4>4. QED
        BY <2>4, <4>1, <4>2, <4>3, Zenon
    <3>3. OwnTables(s) /\ TablesInv' /\ InvocationInv(s)'
      BY <3>1, <3>2, <1>KeptInvocation
    <3>4. QED
      BY <2>1, <3>1, <3>3, <1>LocalInvocations, Zenon
  <2>5. CASE Crash(s)
    <3>1. UNCHANGED tables /\ srv'[s].iid = NoInvocation /\ worker'[s].pc = "poll"
      BY <2>5, CrashFields, ZenonT(60)
    <3>2. InvocationInv(s)'
      BY <3>1 DEF InvocationInv
    <3>3. NoInvocation \notin DOMAIN ingest_invocations
      BY InvocationTypes
    <3>4. /\ TablesGrow
          /\ \A i : IngestedBy(i)' = IngestedBy(i)
          /\ \A i : Decommissioned(i)' <=> Decommissioned(i)
      BY <3>1, TablesSame
    <3>5. OwnTables(s)
      BY <3>1, <3>3, <3>4, Zenon DEF OwnTables
    <3>6. TablesInv'
      BY <2>2, <3>1, <3>4, Zenon DEF TablesInv, tables
    <3>7. QED
      BY <2>1, <3>1, <3>2, <3>5, <3>6, <1>LocalInvocations, Zenon
  <2>6. QED
    BY <2>4, <2>5, StillFields, Zenon DEF AdminStep, FaultStep

\* report_lost_ingress_key adds a missing-blocks event at most.
<1>ReportLostCall.
      ASSUME TypeInv, NEW k \in Keys, ReportLost(k)
      PROVE  /\ TablesGrow /\ UNCHANGED <<ingest_invocations, ingested_blocks>>
             /\ UNCHANGED thread_vars
             /\ \A i \in DOMAIN user_events' :
                  \/ i \in DOMAIN user_events
                  \/ user_events'[i].type = "missing_blocks"
             /\ \A i : Decommissioned(i)' => Decommissioned(i)
  <2> USE <1>ReportLostCall
  <2>1. /\ UNCHANGED <<ingest_invocations, ingested_blocks>>
        /\ UNCHANGED thread_vars
        /\ user_events' = user_events \/ user_events' = Append(user_events, MissedRange(k))
    BY Zenon DEF ReportLost, report_lost_ingress_key
  <2>2. MissedRange(k).type = "missing_blocks"
    BY DEF MissedRange
  <2>3. /\ \A i \in DOMAIN user_events :
             i \in DOMAIN user_events' /\ user_events'[i] = user_events[i]
        /\ \A i \in DOMAIN user_events' :
             i \in DOMAIN user_events \/ user_events'[i] = MissedRange(k)
    <3>1. user_events \in Seq(UserEvent)
      BY DEF TypeInv, TypeOK, DbTypeOK
    <3>2. CASE user_events' = user_events
      BY <3>2
    <3>3. CASE user_events' = Append(user_events, MissedRange(k))
      <4>1. PICK e : e = MissedRange(k)
        OBVIOUS
      <4>2. user_events' = Append(user_events, e)
        BY <3>3, <4>1
      <4>3. /\ DOMAIN user_events = 1..Len(user_events)
            /\ DOMAIN user_events' = 1..(Len(user_events) + 1)
            /\ user_events'[Len(user_events) + 1] = e
            /\ \A i \in 1..Len(user_events) : user_events'[i] = user_events[i]
            /\ Len(user_events) \in Nat
        BY <3>1, <4>2
      <4>4. QED
        BY <4>1, <4>3
    <3>4. QED
      BY <2>1, <3>2, <3>3
  <2>4. ASSUME NEW i, Decommissioned(i)'
        PROVE  Decommissioned(i)
    <3>1. PICK j \in DOMAIN user_events' :
            user_events'[j] = [type |-> "decommission_ingest_invocation", iid |-> i]
      BY <2>4 DEF Decommissioned
    <3>2. user_events'[j].type = "decommission_ingest_invocation"
      <4>1. [type |-> "decommission_ingest_invocation", iid |-> i].type
              = "decommission_ingest_invocation"
        OBVIOUS
      <4>2. QED
        BY <3>1, <4>1, Zenon
    <3>3. j \in DOMAIN user_events /\ user_events[j] = user_events'[j]
      BY <2>2, <2>3, <3>2
    <3>4. QED
      BY <3>1, <3>3, ZenonT(60) DEF Decommissioned
  <2>5. TablesGrow
    BY <2>1, <2>3, Zenon DEF TablesGrow
  <2>6. QED
    BY <2>1, <2>2, <2>3, <2>4, <2>5, Zenon

\* Neither does a step that is no server's.
<1>NoServerInvocations.
      ASSUME TypeInv, ScanInv, InvocationsInv,
             (\E k \in Keys : ReportLost(k)) \/ AppendBlock \/ UNCHANGED vars
      PROVE  /\ TablesGrow /\ UNCHANGED ingested_blocks
             /\ InvocationsInv'
  <2> USE <1>NoServerInvocations
  <2>1. UNCHANGED <<ingest_invocations, ingested_blocks, srv, worker>>
    BY Zenon DEF ReportLost, report_lost_ingress_key, AppendBlock, vars,
       db_vars, thread_vars
  <2>2. /\ TablesGrow
        /\ \A i \in DOMAIN user_events' :
             \/ i \in DOMAIN user_events
             \/ user_events'[i].type = "missing_blocks"
        /\ \A i : Decommissioned(i)' => Decommissioned(i)
    <3>1. CASE UNCHANGED user_events
      <4>1. UNCHANGED tables
        BY <2>1, <3>1 DEF tables
      <4>2. QED
        BY <3>1, <4>1, TablesSame, Zenon
    <3>2. ASSUME NEW k \in Keys, ReportLost(k)
          PROVE  /\ TablesGrow
                 /\ \A i \in DOMAIN user_events' :
                      \/ i \in DOMAIN user_events
                      \/ user_events'[i].type = "missing_blocks"
                 /\ \A i : Decommissioned(i)' => Decommissioned(i)
      BY <3>2, <1>ReportLostCall, Zenon
    <3>3. QED
      BY <3>1, <3>2, Zenon DEF AppendBlock, vars, db_vars
  <2>3. TablesInv
    BY DEF InvocationsInv
  <2>4. \A i \in DOMAIN ingest_invocations' :
          ingest_invocations'[i].decommissioned => Decommissioned(i)'
    <3>1. \A i : Decommissioned(i) => Decommissioned(i)'
      BY <2>2, Zenon DEF TablesGrow, Decommissioned
    <3>2. QED
      BY <2>1, <2>3, <3>1, Zenon DEF TablesInv
  <2>5. TablesInv'
    BY <2>1, <2>2, <2>3, <2>4, <1>CallKeepsTables, Zenon
  <2>6. Exclusive'
    BY <2>1, Zenon DEF InvocationsInv, Exclusive
  <2>7. ASSUME NEW s \in Servers
        PROVE  InvocationInv(s)'
    <3>1. InvocationInv(s)
      BY DEF InvocationsInv
    <3>2. IngestedBy(srv[s].iid)' = IngestedBy(srv[s].iid)
      BY <2>1, Zenon DEF IngestedBy
    <3>3. Decommissioned(srv[s].iid)' => Decommissioned(srv[s].iid)
      <4>1. PICK i : i = srv[s].iid
        OBVIOUS
      <4>2. Decommissioned(srv[s].iid)' => Decommissioned(i)'
        BY <2>1, <4>1, Zenon DEF Decommissioned
      <4>3. QED
        BY <2>2, <4>1, <4>2, Zenon
    <3>4. OpenAt(srv[s].iid, srv[s].next, worker[s].pc) =>
            OpenAt(srv[s].iid, srv[s].next, worker[s].pc)'
      BY <2>1, <3>2, <3>3, Zenon DEF OpenAt
    <3>5. QED
      BY <2>1, <3>1, <3>2, <3>4, Zenon DEF InvocationInv
  <2>8. QED
    BY <2>1, <2>2, <2>5, <2>6, <2>7, Zenon DEF InvocationsInv
<1> SUFFICES ASSUME TypeInv, ScanInv, InvocationsInv, [Next]_vars
      PROVE  /\ InvocationsInv' /\ TablesGrow
             /\ \A r \in ingested_blocks' :
                  \/ r \in ingested_blocks
                  \/ /\ r.iid \in DOMAIN ingest_invocations
                     /\ ~Decommissioned(r.iid)
                     /\ ingest_invocations[r.iid].start_block <= r.block
  BY Zenon
<1>1. ASSUME NEW s \in Servers, WorkerStep(s)
      PROVE  /\ InvocationsInv' /\ TablesGrow
             /\ \A r \in ingested_blocks' :
                  \/ r \in ingested_blocks
                  \/ /\ r.iid \in DOMAIN ingest_invocations
                     /\ ~Decommissioned(r.iid)
                     /\ ingest_invocations[r.iid].start_block <= r.block
  <2>1. InvocationsInv' /\ TablesGrow
    BY <1>1, <1>WorkerInvocations, Zenon DEF OwnTables
  <2>2. CASE AddBlockData(s)
    <3>1. /\ worker[s].pc = "ingest"
          /\ \/ add_block_data(worker[s].iid, worker[s].block, worker[s].rows)
             \/ UNCHANGED tables
      BY <2>2, AddBlockDataFields, Zenon
    <3>2. CASE UNCHANGED tables
      BY <2>1, <3>2 DEF tables
    <3>3. CASE add_block_data(worker[s].iid, worker[s].block, worker[s].rows)
      <4>1. InvocationInv(s) /\ ServerInv(s)
        BY DEF InvocationsInv, ScanInv
      <4>2. worker[s].iid = srv[s].iid /\ srv[s].iid # NoInvocation
        BY <3>1, <4>1 DEF InvocationInv
      <4>3. worker[s].block = srv[s].next
        BY <3>1, <4>1, ZenonT(60) DEF ServerInv, InBlock, WorkerPCs
      <4>4. OpenAt(srv[s].iid, srv[s].next, "ingest")
        BY <3>1, <4>1, <4>2 DEF InvocationInv
      <4>5. /\ ~Decommissioned(worker[s].iid)
            /\ ingest_invocations[worker[s].iid].start_block <= worker[s].block
        BY <4>2, <4>3, <4>4 DEF OpenAt
      <4>6. ingested_blocks' = ingested_blocks \cup
              {[iid |-> worker[s].iid,
                ingress_key |-> ingest_invocations[worker[s].iid].ingress_key,
                block |-> worker[s].block, rows |-> worker[s].rows]}
        BY <3>3 DEF add_block_data
      <4>7. worker[s].iid \in DOMAIN ingest_invocations
        BY <3>3 DEF add_block_data
      <4>8. QED
        <5>1. ASSUME NEW r \in ingested_blocks', r \notin ingested_blocks
              PROVE  r.iid = worker[s].iid /\ r.block = worker[s].block
          BY <4>6, <5>1
        <5>2. QED
          BY <2>1, <4>5, <4>7, <5>1, ZenonT(60)
    <3>4. QED
      BY <3>1, <3>2, <3>3
  <2>3. CASE ~AddBlockData(s)
    <3>1. UNCHANGED ingested_blocks
      BY <1>1, <2>3, Zenon DEF WorkerStep, BeginBlock, PublishReport,
         EnsureInvocation, IngestChunk, IngestChunkOverflow, IngestChunkTooBig,
         RotateInvocation, AdvanceNextBlock, BackOff, NewEgressKey,
         WriteStateFile, DecommissionInvocation, set_report,
         new_ingest_invocation, decommission_ingest_invocation, db_vars
    <3>2. QED
      BY <2>1, <3>1, Zenon
  <2>4. QED
    BY <2>2, <2>3
<1>2. ASSUME NEW s \in Servers, AdminStep(s) \/ FaultStep(s)
      PROVE  InvocationsInv' /\ TablesGrow /\ UNCHANGED ingested_blocks
  BY <1>2, <1>OtherStepsInvocations, TablesSame, Zenon DEF tables
<1>3. CASE (\E k \in Keys : ReportLost(k)) \/ AppendBlock \/ UNCHANGED vars
  BY <1>3, <1>NoServerInvocations, Zenon
<1>4. QED
  BY <1>1, <1>2, <1>3, Zenon DEF Next

\* At first there is no invocation and no server has one.
LEMMA InitInvocations == Init => InvocationsInv
<1>1. SUFFICES ASSUME Init PROVE InvocationsInv
  OBVIOUS
<1>2. /\ ingested_blocks = {} /\ user_events = << >>
      /\ ingest_invocations = << >>
  BY <1>1, ZenonT(60) DEF Init, DbInit
<1> \A s \in Servers : srv[s].iid = NoInvocation /\ worker[s].pc = "poll"
  <2>1. PICK key \in [Servers -> Keys], window \in Windows :
          /\ srv = [s \in Servers |->
                      [up |-> TRUE, mode |-> "idle", next |-> 0,
                       window |-> window, iid |-> NoInvocation,
                       key |-> key[s], egress |-> 0, rng |-> 0,
                       lock |-> "free"]]
          /\ worker = [s \in Servers |-> IdleWorker(key[s])]
    BY <1>1, ZenonT(60) DEF Init
  <2>2. \A k : IdleWorker(k).pc = "poll"
    BY DEF IdleWorker
  <2>3. \A s \in Servers : srv[s].iid = NoInvocation
    BY <2>1
  <2>4. \A s \in Servers : worker[s] = IdleWorker(key[s])
    BY <2>1, Zenon
  <2>5. QED
    BY <2>2, <2>3, <2>4, Zenon
<1>3. TablesInv
  BY <1>2 DEF TablesInv
<1>4. Exclusive
  BY <1>2 DEF Exclusive
<1>5. \A s \in Servers : InvocationInv(s)
  BY <1>2 DEF InvocationInv
<1>6. QED
  BY <1>3, <1>4, <1>5 DEF InvocationsInv

\* InvocationsInv is an invariant: servers that share a key, race for its
\* blocks, crash and restart never publish a block under an invocation that
\* another server has, or that was closed.
THEOREM InvocationsInvariant ==
    ASSUME KeyRace = FALSE
    PROVE  Spec => [](TypeInv /\ ScanInv /\ InvocationsInv)
<1>1. Spec => [](TypeInv /\ ScanInv)
  BY ScanInvariant, ZenonT(30)
<1>2. TypeInv /\ ScanInv /\ InvocationsInv /\ [Next]_vars => InvocationsInv'
  BY InvocationsStep, Zenon
<1>3. QED
  BY <1>1, <1>2, InitInvocations, PTL DEF Spec

\* The last ingested block of an invocation is the largest it published.
LEMMA LastIngested ==
    ASSUME TypeInv, NEW i, IngestedBy(i) # {}
    PROVE  /\ MaxOr(IngestedBy(i), NoBlock) \in IngestedBy(i)
           /\ \A b \in IngestedBy(i) : b <= MaxOr(IngestedBy(i), NoBlock)
<1>1. IngestedBy(i) \in SUBSET Nat
  BY Zenon DEF TypeInv, TypeOK, DbTypeOK, IngestedBlock, IngestedBy
<1>2. IngestedBy(i) \in SUBSET {r.block : r \in ingested_blocks}
  BY DEF IngestedBy
<1>3. HasMax(IngestedBy(i))
  BY <1>2, Zenon DEF TypeInv, BlocksHaveMaxima
<1>4. QED
  BY <1>1, <1>3, MaxOrIsMax, ZenonT(60)

\* RangesHaveNoHoles: the blocks an invocation published are all those from
\* its start block to its last ingested block, the range that
\* get_ingestable_ranges gives the view server.
THEOREM RangesHaveEveryBlock ==
    ASSUME KeyRace = FALSE
    PROVE  Spec => []RangesHaveNoHoles
<1>1. ASSUME TypeInv, ScanInv, InvocationsInv
      PROVE  RangesHaveNoHoles
  <2>1. SUFFICES ASSUME NEW i \in DOMAIN ingest_invocations
                 PROVE  ingest_invocations[i].start_block
                          ..MaxOr(IngestedBy(i), NoBlock) \subseteq IngestedBy(i)
    BY DEF RangesHaveNoHoles, get_ingestable_ranges
  <2>2. CASE IngestedBy(i) = {}
    <3>1. MaxOr(IngestedBy(i), NoBlock) = -1
      BY <2>2 DEF MaxOr, NoBlock
    <3>2. ingest_invocations[i].start_block \in Nat
      BY <1>1, InvocationTypes
    <3>3. ingest_invocations[i].start_block..(-1) = {}
      BY <3>2
    <3>4. QED
      BY <3>1, <3>3
  <2>3. CASE IngestedBy(i) # {}
    <3>1. MaxOr(IngestedBy(i), NoBlock) \in IngestedBy(i)
      BY <1>1, <2>3, LastIngested
    <3>2. PICK r \in ingested_blocks :
            r.iid = i /\ r.block = MaxOr(IngestedBy(i), NoBlock)
      BY <3>1 DEF IngestedBy
    <3>3. QED
      BY <1>1, <3>2, Zenon DEF InvocationsInv, TablesInv
  <2>4. QED
    BY <2>2, <2>3
<1>2. QED
  BY <1>1, InvocationsInvariant, PTL

\* AnswersStand: what search_user_events told a client about an event stays
\* true, the last ingested block of a decommissioned invocation included: no
\* block is published under an invocation after it was decommissioned.
THEOREM UserEventsNeverChange ==
    ASSUME KeyRace = FALSE
    PROVE  Spec => EventsNeverChange
<1>1. ASSUME TypeInv, ScanInv, InvocationsInv, [Next]_vars
      PROVE  AnswersStand
  <2>1. /\ TablesGrow
        /\ \A r \in ingested_blocks' :
             \/ r \in ingested_blocks
             \/ /\ r.iid \in DOMAIN ingest_invocations
                /\ ~Decommissioned(r.iid)
    BY <1>1, InvocationsStep
  <2>2. SUFFICES ASSUME NEW j \in DOMAIN user_events
                 PROVE  FogUserEvent(user_events[j])' = FogUserEvent(user_events[j])
    BY DEF AnswersStand
  <2>3. PICK e : e = user_events[j]
    OBVIOUS
  <2>4. user_events'[j] = e
    BY <2>1, <2>3 DEF TablesGrow
  <2>5. e \in UserEvent
    BY <1>1, <2>3 DEF TypeInv, TypeOK, DbTypeOK
  <2>6. SUFFICES FogUserEvent(e)' = FogUserEvent(e)
    BY <2>3, <2>4, Zenon DEF FogUserEvent, IngestedBy
  <2>7. CASE e.type = "new_ingest_invocation"
    <3>1. e.iid \in DOMAIN ingest_invocations
      BY <1>1, <2>3, <2>7 DEF InvocationsInv, TablesInv
    <3>2. /\ ingest_invocations'[e.iid].egress_key
               = ingest_invocations[e.iid].egress_key
          /\ ingest_invocations'[e.iid].start_block
               = ingest_invocations[e.iid].start_block
      BY <2>1, <3>1 DEF TablesGrow
    <3>3. QED
      BY <2>7, <3>2 DEF FogUserEvent
  <2>8. CASE e.type = "decommission_ingest_invocation"
    <3>1. e = [type |-> "decommission_ingest_invocation", iid |-> e.iid]
      BY <2>5, <2>8 DEF UserEvent, NewRngEvent, DecommissionEvent,
         MissingBlocksEvent
    <3>2. Decommissioned(e.iid)
      BY <2>3, <3>1 DEF Decommissioned
    <3>3. IngestedBy(e.iid)' = IngestedBy(e.iid)
      BY <2>1, <3>2, Zenon DEF IngestedBy, TablesGrow
    <3>4. QED
      BY <2>8, <3>3 DEF FogUserEvent, MaxOr
  <2>9. CASE e.type = "missing_blocks"
    BY <2>9 DEF FogUserEvent
  <2>10. QED
    BY <2>5, <2>7, <2>8, <2>9 DEF UserEvent, NewRngEvent, DecommissionEvent,
       MissingBlocksEvent
<1>2. QED
  BY <1>1, InvocationsInvariant, PTL DEF Spec, EventsNeverChange

\* RangeAnswersStand: once get_ingestable_ranges says that an invocation cannot
\* provide a block, no step publishes the block under it.
THEOREM IngestableRangesNeverLie ==
    ASSUME KeyRace = FALSE
    PROVE  Spec => RangesNeverLie
<1>1. ASSUME TypeInv, ScanInv, InvocationsInv, [Next]_vars
      PROVE  RangeAnswersStand
  <2>1. SUFFICES ASSUME NEW r \in ingested_blocks'
                 PROVE  can_provide_block(get_ingestable_ranges[r.iid], r.block)
    BY DEF RangeAnswersStand
  <2>2. TablesInv
    BY <1>1 DEF InvocationsInv
  <2>3. CASE r \in ingested_blocks
    <3>1. /\ r.iid \in DOMAIN ingest_invocations
          /\ ingest_invocations[r.iid].start_block <= r.block
      BY <2>2, <2>3 DEF TablesInv
    <3>2. r.block \in IngestedBy(r.iid)
      BY <2>3 DEF IngestedBy
    <3>3. r.block <= MaxOr(IngestedBy(r.iid), NoBlock)
      BY <1>1, <3>2, LastIngested
    <3>4. QED
      BY <3>1, <3>3 DEF can_provide_block, get_ingestable_ranges
  <2>4. CASE r \notin ingested_blocks
    <3>1. /\ r.iid \in DOMAIN ingest_invocations
          /\ ~Decommissioned(r.iid)
          /\ ingest_invocations[r.iid].start_block <= r.block
      BY <1>1, <2>4, InvocationsStep
    <3>2. ~ingest_invocations[r.iid].decommissioned
      BY <2>2, <3>1 DEF TablesInv
    <3>3. QED
      BY <3>1, <3>2 DEF can_provide_block, get_ingestable_ranges
  <2>5. QED
    BY <2>3, <2>4
<1>2. QED
  BY <1>1, InvocationsInvariant, PTL DEF Spec, RangesNeverLie

\* RecordsInv is an invariant as long as no chunk is too big.
THEOREM RecordsInvariant ==
    ASSUME KeyRace = FALSE, Budget["chunk_too_big"] = 0
    PROVE  Spec => []RecordsInv
<1>1. Spec => [](TypeInv /\ ScanInv /\ InvocationsInv)
  BY InvocationsInvariant, Zenon
<1>2. TypeInv /\ ScanInv /\ InvocationsInv /\ [Next]_vars => TablesGrow
  BY InvocationsStep, Zenon
<1>3. TypeInv /\ ScanInv /\ InvocationsInv /\ UsedOnceInv /\ RecordsInv
        /\ TablesGrow /\ [Next]_vars => RecordsInv'
  BY RecordsStep, Zenon
<1>4. Init => RecordsInv
  BY InitRecords
<1>5. QED
  BY <1>1, <1>2, <1>3, <1>4, UsedOnceInvariant, PTL DEF Spec

\* NoRngGaps: the published outputs of every RNG are an initial segment of its
\* sequence, whatever was scanned and lost to another server, a crash or an
\* overflow, so a client that asks for them in order misses none.
THEOREM RngSequencesHaveNoGaps ==
    ASSUME KeyRace = FALSE, Budget["chunk_too_big"] = 0
    PROVE  Spec => []NoRngGaps
<1>1. RecordsInv => NoRngGaps
  BY DEF RecordsInv
<1>2. QED
  BY <1>1, RecordsInvariant, PTL

\* RowsAnnounced: the egress key of every published record was announced by an
\* invocation of the block's ingress key that starts at or before the block.
THEOREM RecordsAreAnnounced ==
    ASSUME KeyRace = FALSE, Budget["chunk_too_big"] = 0
    PROVE  Spec => []RowsAnnounced
<1>1. RecordsInv => RowsAnnounced
  BY DEF RecordsInv
<1>2. QED
  BY <1>1, RecordsInvariant, PTL

=============================================================================

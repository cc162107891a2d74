------------------------- MODULE MCIngestController -------------------------
(* Instances of IngestController for TLC. *)
EXTENDS IngestScans, TLC

One == [k \in Keys |-> 1]

\* One chunk per block with one TxOut for the user under every key.
OneChunk == {<<One>>}
\* Blocks of one or two chunks.
TwoChunks == {<<One>>, <<One, One>>}

Allow(kinds, n) == [f \in Kinds |-> IF f \in kinds THEN n ELSE 0]

\* Two servers share a key and race; the key is retired, unretired, retired.
Races == [Allow({"transfer"}, 1) EXCEPT !["activate"] = 2, !["retire"] = 2]
\* One server crashes, restarts or is replaced; a chunk is too big.
Crashes == [Allow({"transfer", "crash", "chunk_too_big"}, 1)
              EXCEPT !["activate"] = 2]
\* Whatever else can go wrong on one server does so once, an overflow of the
\* RNG table twice.
Faults == [Allow(Kinds \ {"retire", "transfer", "chunk_too_big"}, 1)
             EXCEPT !["activate"] = 2, !["overflow"] = 2]
\* Progress of two racing servers, with a lost reply.
Progress == [Allow({"transfer", "lost_ack"}, 1) EXCEPT !["activate"] = 2]

ChunkTooBigOnce == Allow({"chunk_too_big", "activate"}, 1)

Symmetry == Permutations(Servers) \cup Permutations(Keys)
=============================================================================

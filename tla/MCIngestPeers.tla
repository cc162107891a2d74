---------------------------- MODULE MCIngestPeers ----------------------------
(* IngestPeers on small instances. *)
EXTENDS IngestPeers

CONSTANTS s1, s2, k1, k2

FirstKeys == [s \in Servers |-> IF s = s1 THEN k1 ELSE k2]

\* Every server lists all, or the second was configured without the others.
TwoConfigs == {[s \in Servers |-> Servers],
               [s \in Servers |-> IF s = s2 THEN {s2} ELSE Servers]}

\* Two activations, and two disturbances of different kinds, or two crashes.
Disturbances == Kinds \ {"activate"}
TwoDisturbances ==
    {[k \in Kinds |-> IF k = "activate" THEN 2
                      ELSE Cardinality({i \in 1..2 : pair[i] = k})] :
       pair \in {p \in Disturbances \X Disturbances : p[1] = p[2] => p[1] = "crash"}}

=============================================================================

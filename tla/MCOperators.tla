---------------------------- MODULE MCOperators ----------------------------
(***************************************************************************)
(* The two operator checks of WalletHD in one model: generate_ahead's     *)
(* shards (GenerateAhead) and encrypt_data/decrypt_data's row lengths     *)
(* (RowEncryption). Each component's variables are its inputs; a state    *)
(* enumerates the inputs of one of them while the other's stay at a fixed  *)
(* input, so the two input sets are added, not multiplied.                *)
(***************************************************************************)
EXTENDS Naturals

CONSTANTS GA, SingleLimit, MaxUsed, Threads, Lengths

VARIABLES size, used, thc, n

vars == <<size, used, thc, n>>

Ahead == INSTANCE GenerateAhead
Row == INSTANCE RowEncryption

\* Input lengths for RowEncryption: every length up to two size classes
\* past the 256-byte minimum, and the edges of larger classes up to the
\* largest whose padded length TLC's integers hold.
MCLengths == (0..600) \cup UNION {{2^k - 37, 2^k - 36, 2^k - 35} : k \in 10..29}

Init ==
    \/ Ahead!Init /\ n = 0
    \/ Row!Init /\ size = 0 /\ used = 0 /\ thc = 1

Next == UNCHANGED vars

Spec == Init /\ [][Next]_vars

\* Whatever hardware_concurrency() returns (from 1), generate_ahead leaves
\* exactly the window materialised, each record at the position of its
\* derivation index.
WindowMaterialised == Ahead!WindowMaterialised

\* decrypt_data(encrypt_data(v)) passes its invariants and returns the
\* original length.
RoundTrip == Row!RoundTrip
====

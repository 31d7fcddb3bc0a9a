---------------------------- MODULE GenerateAhead ----------------------------
(***************************************************************************)
(* WalletHD::generate_ahead and generate_ahead1 (src/src/Core/Wallet.cpp): *)
(* materialise the records up to m_used_address_count + GENERATE_AHEAD,    *)
(* in one piece below a size limit, else in hardware_concurrency() shards  *)
(* filled by threads and appended in shard order. A record is its          *)
(* derivation index (the counter generate_hd_spendkeys starts from plus    *)
(* its offset); m_records_map maps it to its position in the vector.       *)
(* The variables are the inputs: the operator is checked for every value. *)
(***************************************************************************)
EXTENDS Naturals, Sequences, SequencesExt

CONSTANTS
    GA,          \* GENERATE_AHEAD (20000 in the code)
    SingleLimit, \* below this many records one thread is used (1000 in the code)
    MaxUsed,     \* bound: m_used_address_count
    Threads      \* values std::thread::hardware_concurrency() may return

ASSUME GA \in Nat \ {0} /\ SingleLimit \in Nat /\ MaxUsed \in Nat /\ Threads \subseteq Nat

VARIABLES
    size,  \* m_wallet_records.size() on entry
    used,  \* m_used_address_count
    thc    \* hardware_concurrency()

vars == <<size, used, thc>>

\* The records already materialised: derivation indices 0..size-1.
Existing == [p \in 1..size |-> p - 1]

\* delta: the records missing from the window.
Delta == used + GA - size

\* Shard i of thc covers delta*i/thc .. delta*(i+1)/thc - 1.
ShardStart(i) == (Delta * i) \div thc

\* Mutant: every shard gets delta/thc records, the remainder is dropped.
ShardSizeEven(i) == Delta \div thc

ShardSize(i) == (Delta * (i + 1)) \div thc - ShardStart(i)

\* generate_ahead1(counter, result): result.size() consecutive key pairs
\* from derivation index counter.
GenerateAhead1(counter, n) == [j \in 1..n |-> counter + j - 1]

\* The vector of per-thread results.
Results ==
    IF Delta < SingleLimit
    THEN <<GenerateAhead1(size, Delta)>>
    ELSE [k \in 1..thc |-> GenerateAhead1(size + ShardStart(k - 1), ShardSize(k - 1))]

\* m_wallet_records after generate_ahead.
GenerateAhead ==
    IF size >= used + GA THEN Existing
    ELSE Existing \o FlattenSeq(Results)

Init ==
    /\ used \in 0..MaxUsed
    \* load() starts from an empty vector; later calls from a full window
    \* for an earlier used count.
    /\ size \in {0} \cup {u + GA : u \in 0..used}
    /\ thc \in Threads

Next == UNCHANGED vars

Spec == Init /\ [][Next]_vars

\* Whatever hardware_concurrency() returns, generate_ahead leaves exactly
\* the window 0..used+GENERATE_AHEAD-1 materialised, each record at the
\* position of its derivation index (spec section 8, invariant 6, and
\* invariant 1 for the records map built from the positions).
WindowMaterialised ==
    LET recs == GenerateAhead
    IN /\ Len(recs) >= used + GA
       /\ \A p \in DOMAIN recs : recs[p] = p - 1

====

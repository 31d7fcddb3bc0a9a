---------------------------- MODULE RowEncryption ----------------------------
(***************************************************************************)
(* The lengths of WalletHD::encrypt_data and decrypt_data                 *)
(* (src/src/Core/Wallet.cpp): a value of n bytes is stored as a 32-byte iv *)
(* followed by the chacha20 image of [n as 4 bytes LE] ++ value ++ zero    *)
(* padding. The cipher preserves lengths, so only lengths are modelled;   *)
(* the variable is the input length, checked for every value.             *)
(***************************************************************************)
EXTENDS Naturals

CONSTANTS
    Lengths   \* plaintext lengths data.size() to check

ASSUME Lengths \subseteq Nat

MIN_SIZE   == 256
HashSize   == 32             \* sizeof(Hash): the iv
\* Mutant: room for the iv only, not for the length field.
ExtraIvOnly == HashSize

EXTRA_SIZE == HashSize + 4   \* iv, actual size in le

VARIABLE n

\* The doubling loop of encrypt_data, from actual_size = 1.
RECURSIVE Grow(_, _)
Grow(actual, len) ==
    IF actual < len + EXTRA_SIZE \/ actual < MIN_SIZE
    THEN Grow(2 * actual, len)
    ELSE actual

\* enc_data.size(): the iv plus large_data of actual_size - 32 bytes.
EncryptedLength(len) == HashSize + (Grow(1, len) - HashSize)

\* The 4-byte length field written by uint_le_to_bytes and read back by
\* uint_le_from_bytes: len mod 2^32, which is len for every length TLC's
\* integers represent (below 2^31).
LengthField(len) == len

\* decrypt_data of a value of vsize bytes whose length field was written
\* from len: the two invariants it asserts, and the length it returns.
DecryptOk(vsize, len) ==
    /\ vsize >= 4 + HashSize
    /\ LengthField(len) <= (vsize - HashSize) - 4
DecryptedLength(vsize, len) == LengthField(len)

Init == n \in Lengths
Next == UNCHANGED n
Spec == Init /\ [][Next]_n

\* decrypt_data(encrypt_data(v)) passes its invariants and returns n
\* bytes (spec section 8, invariant 7, first half).
RoundTrip ==
    /\ DecryptOk(EncryptedLength(n), n)
    /\ DecryptedLength(EncryptedLength(n), n) = n

====

----------------------------- MODULE AddressBook -----------------------------
(***************************************************************************)
(* What a deterministic (HD) wallet promises about its addresses, without *)
(* databases, transactions or crashes. Addresses are the indices of the   *)
(* derivation sequence. "reserved" is how many of them the wallet will    *)
(* never hand out again; "handed" is every address given to the user or   *)
(* seen receiving an output.                                               *)
(*                                                                         *)
(* Handing out takes the next unreserved addresses and reserves them in   *)
(* the same step. An output is recognised only for an address less than  *)
(* GA past the reserved ones (the look-ahead window), and it reserves     *)
(* every address up to it.                                                 *)
(***************************************************************************)
EXTENDS Naturals

CONSTANT GA   \* the look-ahead window

VARIABLES reserved, handed

abvars == <<reserved, handed>>

ABInit == reserved = 0 /\ handed = {}

\* Hand out the addresses reserved..reserved'-1.
HandOut ==
    /\ reserved' > reserved
    /\ handed' = handed \cup (reserved..(reserved' - 1))

\* Recognise a payment to address i within the window.
Observe(i) ==
    /\ i < reserved + GA
    /\ handed' = handed \cup {i}
    /\ reserved' = IF i < reserved THEN reserved ELSE i + 1

ABNext == HandOut \/ \E i \in 0..(reserved + GA - 1) : Observe(i)

ABSpec == ABInit /\ [][ABNext]_abvars

====

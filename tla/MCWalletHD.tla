--------------------------- MODULE MCWalletHD ---------------------------
(* Model values and bounds for checking WalletHD with TLC.                *)
EXTENDS WalletHD
CONSTANTS p1, p2, tx, tn, a1, l1
MCPassword == {p1, p2}
\* tx stands for a tid whose first byte is 'x', tn for any other.
MCTid == {tx, tn}
MCXTid == {tx}
MCAddr1 == {a1}
MCAddr0 == {}
MCLabel == {l1}
MCExportPw1 == {p1}
MCTid1 == {tx}
====

------------------------ MODULE MCWalletContainer ------------------------
(* Model values and bounds for checking WalletContainer with TLC.         *)
EXTENDS WalletContainer, TLC

CONSTANTS k1, k2, k3, k4, p1, p2

MCKey3 == {k1, k2, k3}
MCKey4 == {k1, k2, k3, k4}
MCPassword1 == {p1}
MCPassword2 == {p1, p2}

\* Key pairs are only compared for equality.
KeySymmetry == Permutations(MCKey4)
====

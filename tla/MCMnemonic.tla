--------------------------- MODULE MCMnemonic ---------------------------
(* A 7-bit CRC (x^7 + x^3 + 1, reflected) over 2-bit characters and a     *)
(* dictionary of six words of lengths 1 to 3, two of each, sorted by      *)
(* length as the real table is.                                           *)
EXTENDS Mnemonic
MCWords == << <<1>>, <<3>>, <<2, 1>>, <<1, 3>>, <<1, 2, 2>>, <<3, 1, 2>> >>
MCVersions == 0..(2^7 - 1)
====

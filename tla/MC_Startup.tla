----------------------------- MODULE MC_Startup -----------------------------
(* Startup with the numbers that clients ask the port mapper about, with   *)
(* some that it does not know, and with some whose key is that of others:  *)
(* protocol 262 with version 2 is protocol 6 with version 3, and version   *)
(* 2^24 + 3 of program 100002 is version 3 of program 100003.              *)
EXTENDS Startup

\* A number as a u32; the numbers here have no bit above 24.
U32Of(n) == {b \in 0..24 : (n \div 2^b) % 2 = 1}

Programs == {U32Of(n) : n \in {100000, 100002, 100003}}
Versions == {U32Of(n) : n \in {2, 3, 2^24 + 3}}
Protocols == {U32Of(n) : n \in {6, 17, 262}}
=============================================================================

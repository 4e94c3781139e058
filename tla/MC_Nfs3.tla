------------------------------- MODULE MC_Nfs3 -------------------------------
(* Nfs3 on small trees: two exports side by side.                          *)
EXTENDS Nfs3

CONSTANTS a, b, n

\* Two exports, with a name in each.
SideBySide == {<<a>>, <<a, n>>, <<b>>, <<b, n>>}
Tops == {<<a>>, <<b>>}
TopB == {<<b>>}

\* They are what the second part of OnlyRenameReachesReadOnly is about.
ASSUME TopsApart == Apart
=============================================================================

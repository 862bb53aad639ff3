---------------------------- MODULE MCFolderOps ----------------------------
(* A folder r with a file and a subfolder, beside a file; conn 1 has part of it and a
   symbolic link, conn 2 is an object store that has the subfolder already. *)
EXTENDS FolderOps
r == <<"r">>
d == <<"d">>
a == <<"a">>
l == <<"l">>
MCDirs == {<<r>>, <<r, d>>}
MCLinks == {<<r, l>>}
MCContent == [p \in Conn \cup {Local} |->
    CASE p = 1 -> {<<r>>, <<r, a>>, <<r, l>>}
      [] p = 2 -> {<<r>>, <<r, d>>, <<r, d, a>>}
      [] OTHER -> {<<r>>, <<r, a>>, <<r, d>>, <<r, d, a>>, <<a>>}]
MCWord == {"r", "d", "a", "l"}
MCSaved == {[up \in BOOLEAN |-> IF up THEN "ask" ELSE "rename"]}
MCComparison == {[newer |-> TRUE, differs |-> TRUE, shorter |-> s] : s \in BOOLEAN}
=============================================================================

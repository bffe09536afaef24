---------------------------- MODULE MCUninstall ----------------------------
(* An installation g in a new directory /d/u, with a directory d that has a  *)
(* file in it and the metadata directory; places for the user's files next   *)
(* to the manifests and where /d/u is looked for.                            *)
EXTENDS Uninstall

Sorted == <<"g", ".m", ".m/l", ".m/t", ".m/u", ".m/x", ".m/z", "/d/u", "d", "d/f", "d/u">>
Names == {Sorted[i] : i \in 1 .. Len(Sorted)}
Paths == Names \ {"/d/u"}
Ranks == [p \in Names |-> CHOOSE i \in 1 .. Len(Sorted) : Sorted[i] = p]
InDir(p) == IF p \in {".m/l", ".m/t", ".m/u", ".m/x", ".m/z"} THEN ".m"
            ELSE IF p \in {"d/f", "d/u"} THEN "d" ELSE "g"
Parents == [p \in Paths |-> InDir(p)]
Dirs == [p \in Paths |-> {InDir(p), "g"} \ {p}]
NewParents == {"/d/u"}
LookedFor == [p \in NewParents |-> "d/u"]
AllInstalled == Paths \ {".m/u", "d/u"}
ProgramFiles == {".m/z"}
AllLists == <<".m/l", ".m/x", ".m/t">>
=============================================================================

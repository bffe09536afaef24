----------------------------- MODULE MCFileCopy -----------------------------
(* A file of five bytes, and a ring that it goes round.                    *)
EXTENDS FileCopy

Five == <<1, 2, 3, 4, 5>>
Call(op, max) == [op |-> op, max |-> max]
AllCalls == {Call("url", Unknown), Call("url", 2), Call("copy", Unknown),
             Call("copy", 2), Call("copy", 9), Call("move", Unknown)}
NoticedFaults == FaultKind \ {"close", "remove"}
=============================================================================

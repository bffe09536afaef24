--------------------------- MODULE AtomicInstall ---------------------------
(***************************************************************************)
(* What an installation promises about the files of the user: it happens   *)
(* once and as a whole, or it leaves every one of them as it was.          *)
(***************************************************************************)
CONSTANTS
  File,     \* the paths the promise is about
  Nothing,  \* what an empty path holds
  Fresh     \* [File -> object], what the package puts at a path

VARIABLES
  offer,    \* [writes, drops]: paths the package may write or remove
  disk,     \* [File -> object or Nothing]
  outcome   \* "undecided", "installed" or "reverted"

Init == outcome = "undecided"

\* Each path keeps its object, gets the package's, or loses an obsolete one.
Commit ==
  /\ outcome = "undecided" /\ outcome' = "installed"
  /\ offer' = offer
  /\ \A f \in File :
       \/ disk'[f] = disk[f]
       \/ f \in offer.writes /\ disk'[f] = Fresh[f]
       \/ f \in offer.drops /\ disk'[f] = Nothing

Abort ==
  /\ outcome = "undecided" /\ outcome' = "reverted"
  /\ UNCHANGED <<offer, disk>>

Next == Commit \/ Abort

Spec == Init /\ [][Next]_<<offer, disk, outcome>>
=============================================================================

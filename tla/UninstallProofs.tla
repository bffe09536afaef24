-------------------------- MODULE UninstallProofs --------------------------
(***************************************************************************)
(* Theorems about what becomes of an installation, for any installation,   *)
(* any files of the user's, and any number of kills, failures and          *)
(* commands.  The inductive invariant says what the deletion has reached:  *)
(* the names it is through with sort after those it still has to try, and  *)
(* are gone, or are directories that hold something else; and what the     *)
(* program needs to be started is only missing when it was tried itself.   *)
(***************************************************************************)
EXTENDS Uninstall, TLAPS

Listed == Installed \cup Outer

Listings == [names : SUBSET Listed, nokey : SUBSET Listed]

Types ==
  /\ fs \subseteq Name /\ users \subseteq Name /\ cut \in BOOLEAN
  /\ lists \in [Manifests -> Listings]
  /\ \A l \in Manifests : lists[l].nokey \subseteq lists[l].names
  /\ package \in Listings /\ package.nokey \subseteq package.names
  /\ pc \in {"idle", "commands", "unlink", "write", "confirm", "delete", "gone"}
  /\ at \in 0 .. 3
  /\ kills \in Nat /\ faults \in Nat /\ commands \in Nat

\* What exists is in a directory that exists, the manifests' among them.
Closed ==
  /\ \A p \in fs \cap Path : Parent[p] \in fs
  /\ pc \in {"commands", "unlink", "write"} => Parent[Lua] \in fs

Working ==
  /\ pc \in {"unlink", "write"} => at \in 1 .. 3
  /\ pc # "delete" => todo = {}
  /\ todo \subseteq package.names

\* The manifests are not the user's.
UsersApart == users \cap Manifests = {}

\* The names that were tried sort after those still to be tried.
InOrder ==
  pc = "delete" =>
    \A p \in package.names \ todo : \A q \in todo : Rank[q] < Rank[p]

\* What is left at p is there for something in it that is not to be deleted.
Excused(p) ==
  \/ \E q \in fs \cap Path : q \notin package.names \ users /\ p \in Above[q]
  \/ \E q \in EmptiedLate : p \in Above[q] \cup {q}

\* What of the deletion's names is still there and not the user's.
Remaining == ((fs \cap package.names) \ users) \ Outer

\* The deletion is through with all names but todo.
Deleted ==
  pc \in {"delete", "gone"} /\ faults = 0 =>
    \A p \in Remaining \ todo : Excused(p) /\ \E q \in Path : Parent[q] = p

\* What the program is started with.
Needed == Program \cup {Lua}

\* It is there unless the deletion has come to it, or a rebuild is under way.
Startable ==
  /\ pc \in {"commands", "confirm"} => Needed \subseteq fs
  /\ pc \in {"unlink", "write"} => Program \subseteq fs
  /\ pc = "delete" => \A q \in Needed : q \in fs \/ q \in package.names \ todo

\* The manifests before the one that is being written are written.
Written ==
  pc = "write" /\ faults = 0 =>
    \A j \in 1 .. 3 : j < at => Lists[j] \in fs /\ lists[Lists[j]] = package

IInv == /\ Types /\ Closed /\ Working /\ UsersApart /\ InOrder /\ Deleted /\ Startable
        /\ Written /\ ProgramGoesLast

-----------------------------------------------------------------------------
\* The manifests are different files, and paths of the installation.
LEMMA ListFacts ==
  /\ Lua \in Installed /\ Lua \in Path /\ Lua \in Manifests /\ Lua = Lists[1]
  /\ \A i \in 1 .. 3 : Lists[i] \in Manifests /\ Lists[i] \in Installed /\ Lists[i] \in Path
  /\ \A l \in Manifests : l \in Installed /\ l \in Path /\ Parent[l] = Parent[Lua]
                          /\ \A p \in Path : Parent[p] # l
  /\ \A i, j \in 1 .. 3 : Lists[i] = Lists[j] => i = j
BY UninstallAssumption DEF Manifests, Lua

\* What is asked of the steps that delete nothing: the parts of the invariant that
\* do not speak of the deletion, and those that do.
Base == Types /\ Closed /\ Working /\ UsersApart /\ Startable /\ Written

Swept == InOrder /\ Deleted /\ ProgramGoesLast

LEMMA InitIInv == Init => IInv
<1> SUFFICES ASSUME Init PROVE IInv
  OBVIOUS
<1>1. Listed \subseteq Name /\ Listing(Listed, {}) \in Listings /\ Listing({}, {}) \in Listings
  BY UninstallAssumption DEF Listed, Name, Listing, Listings
<1>2. Types
  <2>1. fs \subseteq Name /\ users \subseteq Name /\ package \in Listings
        /\ package.nokey \subseteq package.names
    BY <1>1 DEF Init, Listing, Listed
  <2>2. lists \in [Manifests -> Listings]
    BY <1>1 DEF Init, Listed
  <2>3. \A l \in Manifests : lists[l].nokey \subseteq lists[l].names
    BY DEF Init, Listing
  <2>4. cut \in BOOLEAN
    BY Zenon DEF Init
  <2>5. /\ pc \in {"idle", "commands", "unlink", "write", "confirm", "delete", "gone"}
        /\ at \in 0 .. 3 /\ kills \in Nat /\ faults \in Nat /\ commands \in Nat
    BY DEF Init
  <2> QED BY <2>1, <2>2, <2>3, <2>4, <2>5 DEF Types
<1>3. Closed
  BY UninstallAssumption, ListFacts DEF Init, Closed
<1>4. Base
  BY <1>2, <1>3 DEF Init, Base, Working, UsersApart, Startable, Written
<1>5. CanStart
  BY UninstallAssumption, ListFacts DEF Init, CanStart
<1>6. Swept
  BY <1>5 DEF Init, Swept, InOrder, Deleted, ProgramGoesLast
<1> QED BY <1>4, <1>6 DEF IInv, Base, Swept

\* A step into a state in which the program can be started, or is rebuilding the
\* manifests, and nothing is being deleted.
LEMMA NothingSwept ==
  ASSUME pc' \in {"idle", "commands", "confirm", "unlink", "write"},
         CanStart' \/ pc' \in {"unlink", "write"} \/ cut' \/ faults' # 0
  PROVE  Swept'
BY DEF Swept, InOrder, Deleted, ProgramGoesLast

\* A step that changes none of what the promise of the program speaks of.
LEMMA StillStranded ==
  ASSUME ProgramGoesLast, UNCHANGED <<fs, package, users>>,
         faults' = 0 => faults = 0, ~cut' => ~cut,
         pc \notin {"unlink", "write"} \/ cut'
  PROVE  ProgramGoesLast'
BY DEF ProgramGoesLast, CanStart

-----------------------------------------------------------------------------
(* The steps that delete nothing.                                          *)

\* What was left at p is left there still when the user adds a file.
LEMMA UserAddsIInv == IInv /\ UserAdds => IInv'
<1> SUFFICES ASSUME IInv, UserAdds PROVE IInv'
  OBVIOUS
<1>1. PICK n \in Path \ (Manifests \cup Program) :
        /\ Parent[n] \in fs /\ fs' = fs \cup {n} /\ users' = users \cup {n}
  BY DEF UserAdds
<1>2. pc \in {"idle", "gone"} /\ UNCHANGED <<lists, pc, at, package, todo, cut, kills, faults,
                                              commands>>
  BY DEF UserAdds
<1>3. Base'
  BY <1>1, <1>2, UninstallAssumption, ListFacts
     DEF IInv, Base, Types, Closed, Working, UsersApart, Startable, Written, Name
<1>4. InOrder'
  BY <1>2 DEF InOrder
<1>5. Remaining' \subseteq Remaining /\ EmptiedLate' = EmptiedLate
  BY <1>1, <1>2 DEF Remaining, EmptiedLate
<1>6. Deleted'
  <2> SUFFICES ASSUME pc = "gone", faults = 0, NEW p \in Remaining' \ todo
               PROVE  Excused(p)' /\ \E q \in Path : Parent[q] = p
    BY <1>2 DEF Deleted
  <2>1. Excused(p) /\ \E q \in Path : Parent[q] = p
    BY <1>5 DEF IInv, Deleted
  <2>2. Excused(p)'
    BY <2>1, <1>1, <1>2, <1>5 DEF Excused
  <2> QED BY <2>1, <2>2
<1>7. ProgramGoesLast'
  <2>1. Needed \ fs' = Needed \ fs /\ (CanStart' <=> CanStart)
    BY <1>1, ListFacts DEF Needed, CanStart
  <2> QED BY <2>1, <1>2, <1>5 DEF IInv, ProgramGoesLast, Remaining, Needed
<1> QED BY <1>3, <1>4, <1>6, <1>7 DEF IInv, Base

LEMMA LoadIInv ==
  ASSUME IInv, NEW next \in {"commands", "confirm"}, Load(next)
  PROVE  IInv'
<1>1. Base'
  BY UninstallAssumption, ListFacts
     DEF Load, CanStart, IInv, Base, Types, Closed, Working, UsersApart, Startable,
         Written, Needed, Listings
<1>2. Swept'
  BY NothingSwept DEF Load, CanStart
<1> QED BY <1>1, <1>2 DEF IInv, Base, Swept

LEMMA CommandsIInv ==
  IInv /\ (Add \/ \E p \in Name : Delete(p) \/ Resync(p)) => IInv'
<1> SUFFICES ASSUME IInv, Add \/ \E p \in Name : Delete(p) \/ Resync(p) PROVE IInv'
  OBVIOUS
<1>1. /\ pc = "commands" /\ pc' \in {"commands", "idle"} /\ commands' = commands + 1
      /\ UNCHANGED <<fs, lists, at, todo, users, cut, kills, faults>>
  BY DEF Add, Delete, Resync, Command
<1>2. package' \in Listings /\ package'.nokey \subseteq package'.names
  <2>1. CASE Add
    BY <2>1 DEF Add, IInv, Types
  <2>2. ASSUME NEW p \in Name, Delete(p) PROVE <1>2!1 /\ <1>2!2
    BY <2>2 DEF Delete, Listing, IInv, Types, Listings
  <2>3. ASSUME NEW p \in Name, Resync(p) PROVE <1>2!1 /\ <1>2!2
    BY <2>3 DEF Resync, IInv, Types, Listings
  <2> QED BY <2>1, <2>2, <2>3
<1>3. Base'
  BY <1>1, <1>2 DEF IInv, Base, Types, Closed, Working, UsersApart, Startable, Written
<1>4. CanStart'
  BY <1>1 DEF IInv, Startable, CanStart, Needed
<1>5. Swept'
  BY <1>1, <1>4, NothingSwept
<1> QED BY <1>3, <1>5 DEF IInv, Base, Swept

LEMMA RebuildIInv == IInv /\ Rebuild => IInv'
<1> SUFFICES ASSUME IInv, Rebuild PROVE IInv'
  OBVIOUS
<1>1. Base'
  BY DEF Rebuild, IInv, Base, Types, Closed, Working, UsersApart, Startable, Written, Needed
<1>2. Swept'
  BY NothingSwept DEF Rebuild
<1> QED BY <1>1, <1>2 DEF IInv, Base, Swept

LEMMA UnlinkListIInv == IInv /\ UnlinkList => IInv'
<1> SUFFICES ASSUME IInv, UnlinkList PROVE IInv'
  OBVIOUS
<1>1. Base'
  BY UninstallAssumption, ListFacts
     DEF UnlinkList, Works, Fails, IInv, Base, Types, Closed, Working, UsersApart,
         Startable, Written
<1>2. Swept'
  BY NothingSwept DEF UnlinkList
<1> QED BY <1>1, <1>2 DEF IInv, Base, Swept

LEMMA WriteListIInv == IInv /\ WriteList => IInv'
<1> SUFFICES ASSUME IInv, WriteList PROVE IInv'
  OBVIOUS
<1> DEFINE l == Lists[at]
<1>a. at \in 1 .. 3 /\ l \in Manifests /\ l \in Path /\ pc = "write" /\ pc' \in {"idle", "write"}
  BY ListFacts DEF WriteList, IInv, Working
<1>b. package \in Listings /\ package' = package /\ package.nokey \subseteq package.names
  BY DEF WriteList, IInv, Types
<1>c. UNCHANGED <<todo, cut, kills, commands>> /\ (faults' = 0 => faults = 0) /\ faults' \in Nat
  BY DEF WriteList, Works, Fails, IInv, Types
<1>d. \/ UNCHANGED <<fs, lists, users, at, faults>> /\ at = 2 /\ pc' = "idle"
      \/ /\ \/ /\ Works /\ fs' = fs \cup {l} /\ lists' = [lists EXCEPT ![l] = package]
               /\ users' = users \/ users' = users \cup (fs \ (package.names \cup Manifests))
            \/ Fails /\ fs' = fs \ {l} /\ UNCHANGED <<lists, users>>
         /\ \/ at = 3 /\ pc' = "idle" /\ at' = at
            \/ at \in 1 .. 2 /\ at' = at + 1 /\ pc' = pc
  BY <1>a DEF WriteList
<1>1. Types'
  <2>1. lists' \in [Manifests -> Listings]
        /\ \A m \in Manifests : lists'[m].nokey \subseteq lists'[m].names
    BY <1>a, <1>b, <1>d DEF IInv, Types
  <2>2. fs' \subseteq Name /\ users' \subseteq Name
    BY <1>a, <1>d DEF IInv, Types, Name
  <2>3. pc' \in {"idle", "write"} /\ at' \in 0 .. 3
    BY <1>a, <1>d
  <2> QED BY <2>1, <2>2, <2>3, <1>b, <1>c DEF IInv, Types
<1>2. Closed'
  <2>1. Parent[Lua] \in fs /\ Parent[l] = Parent[Lua] /\ \A p \in Path : Parent[p] # l
    BY <1>a, ListFacts DEF IInv, Closed
  <2>2. \A p \in fs' \cap Path : Parent[p] \in fs'
    BY <2>1, <1>d DEF IInv, Closed
  <2>3. Parent[Lua] \in fs'
    BY <2>1, <1>d, ListFacts
  <2> QED BY <2>2, <2>3 DEF Closed
<1>3. Working'
  BY <1>a, <1>b, <1>c, <1>d DEF IInv, Working
<1>4. UsersApart'
  BY <1>d DEF IInv, UsersApart
<1>5. Startable'
  BY <1>a, <1>d, UninstallAssumption DEF IInv, Startable, Manifests
<1>6. Written'
  BY <1>a, <1>b, <1>c, <1>d, ListFacts DEF IInv, Written, Types, Works, Fails
<1>7. CanStart' \/ pc' = "write" \/ cut' \/ faults' # 0
  <2> SUFFICES ASSUME pc' = "idle", faults' = 0 PROVE CanStart'
    BY <1>a
  <2>1. faults = 0 /\ at \in 2 .. 3 /\ fs \subseteq fs'
    BY <1>a, <1>c, <1>d DEF Fails, IInv, Types
  <2>2. Lua \in fs
    BY <2>1, <1>a, ListFacts DEF IInv, Written
  <2> QED BY <2>1, <2>2, <1>a DEF CanStart, IInv, Startable
<1>8. Swept'
  BY <1>a, <1>7, NothingSwept
<1> QED BY <1>1, <1>2, <1>3, <1>4, <1>5, <1>6, <1>8 DEF IInv, Swept

LEMMA ConfirmIInv == IInv /\ Confirm => IInv'
<1> SUFFICES ASSUME IInv, Confirm PROVE IInv'
  OBVIOUS
<1>1. Base'
  BY DEF Confirm, IInv, Base, Types, Closed, Working, UsersApart, Startable, Written
<1>2. CanStart'
  BY DEF Confirm, IInv, Startable, CanStart, Needed
<1>3. Swept'
  BY <1>2 DEF Confirm, Swept, InOrder, Deleted, ProgramGoesLast, Remaining
<1> QED BY <1>1, <1>3 DEF IInv, Base, Swept

LEMMA FinishIInv == IInv /\ Finish => IInv'
<1> SUFFICES ASSUME IInv, Finish PROVE IInv'
  OBVIOUS
<1>1. Base'
  BY DEF Finish, IInv, Base, Types, Closed, Working, UsersApart, Startable, Written
<1>2. InOrder' /\ Deleted'
  BY DEF Finish, IInv, InOrder, Deleted, Remaining, Excused, EmptiedLate
<1>3. ProgramGoesLast'
  BY StillStranded DEF Finish, IInv
<1> QED BY <1>1, <1>2, <1>3 DEF IInv, Base

LEMMA KilledIInv == IInv /\ Killed => IInv'
<1> SUFFICES ASSUME IInv, Killed PROVE IInv'
  OBVIOUS
<1>1. Base'
  BY DEF Killed, IInv, Base, Types, Closed, Working, UsersApart, Startable, Written
<1>2. InOrder' /\ Deleted'
  BY DEF Killed, InOrder, Deleted
<1>3. ProgramGoesLast'
  BY StillStranded DEF Killed, IInv
<1> QED BY <1>1, <1>2, <1>3 DEF IInv, Base

-----------------------------------------------------------------------------
(* The deletion.                                                           *)

\* What is left of a directory that is not empty has something in it that is not
\* on the list, or has been left for the same reason further down.
LEMMA LeftForOthers ==
  ASSUME IInv, faults = 0, pc = "delete",
         NEW p \in todo, Latest(p, todo), p \in Path,
         NEW q \in (fs \cap Path) \ {p}, Parent[q] = p
  PROVE  Excused(p)
<1>1. p \in Above[q] /\ Rank[p] < Rank[q] /\ q \in Name /\ p \in Name
  BY UninstallAssumption DEF Name
<1>2. q \notin todo
  BY <1>1, UninstallAssumption DEF Latest
<1>3. CASE q \notin package.names \ users
  BY <1>1, <1>3 DEF Excused
<1>4. CASE q \in package.names \ users
  <2>1. q \in Remaining \ todo
    BY <1>2, <1>4, UninstallAssumption DEF Remaining
  <2>2. Excused(q)
    BY <2>1 DEF IInv, Deleted
  <2>3. \A r \in Path : q \in Above[r] => p \in Above[r]
    BY <1>1, UninstallAssumption
  <2>4. ASSUME NEW r \in fs \cap Path, r \notin package.names \ users, q \in Above[r]
        PROVE  Excused(p)
    BY <2>4, <2>3 DEF Excused
  <2>5. ASSUME NEW r \in EmptiedLate, q \in Above[r] \cup {r} PROVE Excused(p)
    <3>1. p \in Above[r]
      BY <2>5, <2>3, <1>1 DEF EmptiedLate
    <3> QED BY <3>1, <2>5 DEF Excused
  <2> QED BY <2>2, <2>4, <2>5 DEF Excused
<1> QED BY <1>3, <1>4

\* What was left at r stays left there when the name n is tried.
LEMMA StillExcused ==
  ASSUME IInv, pc = "delete", NEW n \in todo, NEW r \in (package.names \ todo) \cap Path,
         Excused(r), UNCHANGED <<package, users>>,
         fs \ {Place(n)} \subseteq fs'
  PROVE  Excused(r)'
<1>1. EmptiedLate' = EmptiedLate
  BY DEF EmptiedLate
<1>2. CASE \E q \in EmptiedLate : r \in Above[q] \cup {q}
  BY <1>1, <1>2 DEF Excused
<1>3. ASSUME NEW q \in fs \cap Path, q \notin package.names \ users, r \in Above[q]
      PROVE  Excused(r)'
  <2>1. CASE q \in fs'
    BY <2>1, <1>3 DEF Excused
  <2>2. CASE q \notin fs'
    <3>1. q = Place(n) /\ n \in package.names
      BY <2>2 DEF IInv, Working
    <3>2. Rank[n] < Rank[r]
      BY DEF IInv, InOrder
    <3>3. CASE n \in Outer
      <4>1. q = Below[n] /\ r \in EmptiedLate
        BY <3>1, <3>2, <3>3, <1>3 DEF Place, EmptiedLate
      <4> QED BY <4>1, <1>1 DEF Excused
    <3>4. CASE n \notin Outer
      <4>1. q = n /\ Rank[r] < Rank[n]
        BY <3>1, <3>4, <1>3, UninstallAssumption DEF Place
      <4>2. Rank[r] \in Nat /\ Rank[n] \in Nat
        BY <4>1, UninstallAssumption DEF Name
      <4> QED BY <4>1, <4>2, <3>2
    <3> QED BY <3>3, <3>4
  <2> QED BY <2>1, <2>2
<1> QED BY <1>2, <1>3 DEF Excused

LEMMA DeleteNextIInv == IInv /\ DeleteNext => IInv'
<1> SUFFICES ASSUME IInv, DeleteNext PROVE IInv'
  OBVIOUS
<1>1. PICK n \in todo :
        /\ Latest(n, todo) /\ todo' = todo \ {n}
        /\ \/ Works /\ Unlink(Place(n))
           \/ Fails /\ Place(n) \in fs /\ UNCHANGED fs
  BY DEF DeleteNext
<1>2. /\ pc = "delete" /\ pc' = "delete"
      /\ UNCHANGED <<lists, at, package, users, cut, kills, commands>>
  BY DEF DeleteNext
<1>3. n \in package.names /\ n \in Listed /\ n \in Name /\ Place(n) \in Path
  BY UninstallAssumption DEF IInv, Working, Types, Listings, Listed, Name, Place
<1>4. fs' \subseteq fs /\ fs \ {Place(n)} \subseteq fs'
  BY <1>1 DEF Unlink
<1>5. faults \in Nat /\ faults' \in Nat /\ (faults' = 0 => faults = 0 /\ Unlink(Place(n)))
  BY <1>1 DEF IInv, Types, Works, Fails
<1>6. Types'
  BY <1>2, <1>4, <1>5 DEF IInv, Types
<1>7. Closed'
  <2>1. ASSUME NEW q \in fs' \cap Path PROVE Parent[q] \in fs'
    BY <1>1, <1>4, <2>1, UninstallAssumption DEF Unlink, IInv, Closed
  <2> QED BY <2>1, <1>2 DEF Closed
<1>8. Working' /\ UsersApart' /\ Written'
  BY <1>1, <1>2 DEF IInv, Working, UsersApart, Written
<1>9. InOrder'
  <2> SUFFICES ASSUME NEW p \in package.names \ todo', NEW q \in todo'
               PROVE  Rank[q] < Rank[p]
    BY <1>2 DEF InOrder
  <2>1. CASE p = n
    <3>1. q \in Name /\ q # n /\ Rank[q] <= Rank[n]
      BY <1>1, UninstallAssumption DEF Latest, IInv, Working, Types, Listings, Listed, Name
    <3>2. Rank[q] \in Nat /\ Rank[n] \in Nat /\ Rank[q] # Rank[n]
      BY <3>1, <1>3, UninstallAssumption
    <3> QED BY <3>1, <3>2, <2>1
  <2>2. CASE p # n
    BY <1>1, <1>2, <2>2 DEF IInv, InOrder
  <2> QED BY <2>1, <2>2
<1>10. Deleted'
  <2> SUFFICES ASSUME faults' = 0, NEW r \in Remaining' \ todo'
               PROVE  Excused(r)' /\ \E q \in Path : Parent[q] = r
    BY DEF Deleted
  <2>1. r \in fs /\ r \in fs' /\ r \in package.names \ users /\ r \in Path /\ r \notin Outer
    BY <1>2, <1>4, <1>6 DEF Remaining, Types, Name
  <2>2. CASE r = n
    <3>1. Place(n) = n
      BY <2>1, <2>2 DEF Place
    <3>2. PICK q \in (fs \cap Path) \ {n} : Parent[q] = n
      BY <1>5, <2>1, <2>2, <3>1 DEF Unlink
    <3>3. Excused(n)
      BY <1>1, <1>2, <1>5, <2>1, <2>2, <3>2, LeftForOthers
    <3>4. fs' = fs
      BY <1>5, <3>1, <3>2 DEF Unlink
    <3> QED BY <3>2, <3>3, <3>4, <2>2, <1>2 DEF Excused, EmptiedLate
  <2>3. CASE r # n
    <3>1. r \in Remaining \ todo
      BY <2>1, <2>3, <1>1 DEF Remaining
    <3>2. Excused(r) /\ \E q \in Path : Parent[q] = r
      BY <3>1, <1>2, <1>5 DEF IInv, Deleted
    <3>3. Excused(r)'
      BY <3>1, <3>2, <2>1, <1>2, <1>4, StillExcused
    <3> QED BY <3>2, <3>3
  <2> QED BY <2>2, <2>3
<1>11. Startable'
  <2> SUFFICES ASSUME NEW q \in Needed PROVE q \in fs' \/ q \in package.names \ todo'
    BY <1>2 DEF Startable
  <2>1. q \in Path /\ q \notin Outer
    BY UninstallAssumption, ListFacts DEF Needed
  <2>2. q \in fs \/ q \in package.names \ todo
    BY <1>2 DEF IInv, Startable
  <2>3. CASE n \in Outer
    BY <2>1, <2>2, <2>3, <1>1, <1>4, UninstallAssumption, ListFacts DEF Place, Needed
  <2>4. CASE n \notin Outer
    BY <2>2, <2>4, <1>1, <1>3, <1>4 DEF Place
  <2> QED BY <2>3, <2>4
<1>12. ProgramGoesLast'
  <2> SUFFICES ASSUME faults' = 0, NEW p \in Remaining',
                      ~\E q \in Path : Parent[q] = p,
                      NEW q \in Needed \ fs'
               PROVE  Rank[p] < Rank[q]
    BY DEF ProgramGoesLast, Remaining, Needed
  <2>1. p \in todo'
    BY <1>2, <1>10 DEF Deleted
  <2>2. q \in package.names \ todo'
    BY <1>2, <1>11 DEF Startable
  <2> QED BY <2>1, <2>2, <1>2, <1>9 DEF InOrder
<1> QED BY <1>6, <1>7, <1>8, <1>9, <1>10, <1>11, <1>12 DEF IInv

LEMMA StepIInv == IInv /\ [Next]_vars => IInv'
<1> SUFFICES ASSUME IInv, [Next]_vars PROVE IInv'
  OBVIOUS
<1>1. CASE StartManaging \/ StartUninstalling
  BY <1>1, LoadIInv DEF StartManaging, StartUninstalling
<1>2. CASE UNCHANGED vars
  <2>1. Base'
    BY <1>2 DEF vars, IInv, Base, Types, Closed, Working, UsersApart, Startable, Written
  <2>2. InOrder' /\ Deleted'
    BY <1>2 DEF vars, IInv, InOrder, Deleted, Remaining, Excused, EmptiedLate
  <2>3. ProgramGoesLast'
    BY <1>2 DEF vars, IInv, ProgramGoesLast, CanStart
  <2> QED BY <2>1, <2>2, <2>3 DEF IInv, Base
<1> QED
  BY <1>1, <1>2, UserAddsIInv, CommandsIInv, RebuildIInv, UnlinkListIInv,
     WriteListIInv, ConfirmIInv, DeleteNextIInv, FinishIInv, KilledIInv DEF Next

THEOREM Invariance == Spec => []IInv
BY InitIInv, StepIInv, PTL DEF Spec

-----------------------------------------------------------------------------
\* Whatever is managed, killed and uninstalled, only an uninstallation takes a file
\* from the user, and only one that is where it looks for a name of the manifest.
THEOREM NothingOfTheUsers == Spec => UsersFilesStay
<1> DEFINE Stay ==
      \A p \in users \cap fs :
        p \in fs' \/ (pc = "delete" /\ \E n \in package.names : Place(n) = p)
<1>1. ASSUME IInv, [Next]_vars PROVE Stay
  <2> SUFFICES ASSUME NEW p \in users \cap fs, p \notin fs'
               PROVE  pc = "delete" /\ \E n \in package.names : Place(n) = p
    OBVIOUS
  <2>1. \A i \in 1 .. 3 : p # Lists[i]
    BY <1>1, ListFacts DEF IInv, UsersApart
  <2>2. DeleteNext
    BY <1>1, <2>1 DEF Next, vars, UserAdds, StartManaging, StartUninstalling, Load, Add,
                Delete, Resync, Command, Rebuild, UnlinkList, WriteList, Confirm,
                Finish, Killed, IInv, Working
  <2> QED BY <2>2, <1>1 DEF DeleteNext, Unlink, IInv, Working
<1>2. IInv /\ [Next]_vars => [Stay]_vars
  BY <1>1
<1> QED BY <1>2, Invariance, PTL DEF Spec, UsersFilesStay

\* A whole uninstallation removes what it lists, but for the directories in which
\* there is something it does not list, those that are emptied late, and the
\* directories above the destination, which it does not find.
THEOREM AllIsRemoved == Spec => []NothingIsLeft
<1>1. IInv => TypeOK
  BY UninstallAssumption
     DEF IInv, Types, Closed, Working, TypeOK, Listings, Listed, Name
<1>2. ASSUME IInv, pc = "gone", faults = 0,
             NEW p \in ((fs \cap package.names) \ users) \ Outer
      PROVE  Excused(p)
  BY <1>2 DEF IInv, Working, Deleted, Remaining
<1>3. IInv => NothingIsLeft
  BY <1>1, <1>2 DEF NothingIsLeft, Excused
<1> QED BY <1>3, Invariance, PTL

\* As long as a name is left that sorts after the program and its manifest, a killed
\* uninstallation can be started again.
THEOREM ProgramStays == Spec => []ProgramGoesLast
<1>1. IInv => ProgramGoesLast
  BY DEF IInv
<1> QED BY <1>1, Invariance, PTL

\* The manifests agree after a rebuild during which nothing went wrong.
THEOREM ListsWillAgree == Spec => ListsAgree
<1> DEFINE Agree ==
      pc = "write" /\ pc' = "idle" /\ kills' = 0 /\ faults' = 0 /\ package.nokey = {} =>
        \A l \in Manifests : l \in fs' /\ lists'[l] = package
<1>1. ASSUME IInv, [Next]_vars PROVE Agree
  <2> SUFFICES ASSUME pc = "write", pc' = "idle", kills' = 0, faults' = 0,
                      package.nokey = {}
               PROVE  \A l \in Manifests : l \in fs' /\ lists'[l] = package
    OBVIOUS
  <2>1. WriteList
    BY <1>1 DEF Next, vars, UserAdds, StartManaging, StartUninstalling, Load, Add,
                Delete, Resync, Command, Rebuild, UnlinkList, Confirm, DeleteNext,
                Finish, Killed, IInv, Types
  <2>2. at = 3 /\ faults = 0 /\ fs' = fs \cup {Lists[3]}
        /\ lists' = [lists EXCEPT ![Lists[3]] = package]
    BY <2>1, <1>1 DEF WriteList, Works, Fails, IInv, Types, Working
  <2>3. \A j \in 1 .. 2 : Lists[j] \in fs /\ lists[Lists[j]] = package
    BY <2>2, <1>1 DEF IInv, Written
  <2>4. \A j \in 1 .. 3 : Lists[j] \in fs' /\ lists'[Lists[j]] = package
    BY <2>2, <2>3, <1>1, ListFacts DEF IInv, Types
  <2> QED BY <2>4 DEF Manifests
<1>2. IInv /\ [Next]_vars => [Agree]_vars
  BY <1>1
<1> QED BY <1>2, Invariance, PTL DEF Spec, ListsAgree
=============================================================================

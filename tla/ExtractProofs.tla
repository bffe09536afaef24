--------------------------- MODULE ExtractProofs ---------------------------
(***************************************************************************)
(* Proofs about installing from an archive, for every disk, whatever the   *)
(* files hold, and whatever Read and Seek answer: a failure, too little,   *)
(* or what no archive should say.  The readers are thus shown to keep      *)
(* their archives and streams in order by themselves, with no help from    *)
(* what they read.                                                         *)
(*                                                                         *)
(* Stacked says how the open archives and streams stand on each other.     *)
(* What is on top of that depends on where the installation is: Opening,   *)
(* Idle or Reading.  First the operations are shown to lead from one to    *)
(* the other, then the steps to keep IInv, which names the one that each   *)
(* value of pc needs.                                                      *)
(***************************************************************************)
EXTENDS Extract, SequenceTheorems, TLAPS

-----------------------------------------------------------------------------
(* Worlds, and what leaves their streams and archives as they are. *)

\* An archive is a record of these fields.  A state of this module is never a
\* member of a set of records, because nothing is known of the values in it.
IsArchive(x) ==
  /\ x = [format |-> x.format, io |-> x.io, prev |-> x.prev, cur |-> x.cur,
          next |-> x.next, input |-> x.input, first |-> x.first, table |-> x.table,
          index |-> x.index]
  /\ x.input \in BOOLEAN

IsWorld(w) ==
  /\ w = [st |-> w.st, ar |-> w.ar, bug |-> w.bug, io |-> w.io]
  /\ \E T : w.st \in Seq(T)
  /\ \E T : w.ar \in Seq(T)
  /\ \A a \in 1 .. Len(w.ar) : IsArchive(w.ar[a])

SameArchive(x, y) == y.format = x.format /\ y.io = x.io /\ y.input = x.input

\* World v has the streams and archives of w open.
Same(w, v) ==
  /\ IsWorld(v)
  /\ v.st = w.st /\ v.bug = w.bug /\ Len(v.ar) = Len(w.ar)
  /\ \A a \in 1 .. Len(w.ar) : SameArchive(w.ar[a], v.ar[a])

LEMMA IoIsIo ==
  ASSUME NEW w, IsWorld(w), NEW x
  PROVE  LET v == [w EXCEPT !.io = x] IN
         IsWorld(v) /\ v.st = w.st /\ v.ar = w.ar /\ v.bug = w.bug
<1>1. [w EXCEPT !.io = x] = [st |-> w.st, ar |-> w.ar, bug |-> w.bug, io |-> x]
  BY DEF IsWorld
<1> QED
  BY <1>1 DEF IsWorld

LEMMA ReadingOpensNothing ==
  ASSUME NEW w, IsWorld(w), NEW k, NEW n
  PROVE  LET v == ReadFrom(w, k, n).w IN
         IsWorld(v) /\ v.st = w.st /\ v.ar = w.ar /\ v.bug = w.bug
BY IoIsIo DEF ReadFrom

LEMMA SeekingOpensNothing ==
  ASSUME NEW w, IsWorld(w), NEW k, NEW p
  PROVE  LET v == SeekIn(w, k, p).w IN
         IsWorld(v) /\ v.st = w.st /\ v.ar = w.ar /\ v.bug = w.bug
BY IoIsIo DEF SeekIn

LEMMA SameAsItself ==
  ASSUME NEW w, IsWorld(w)
  PROVE  Same(w, w)
BY DEF Same, SameArchive

LEMMA SameForLong ==
  ASSUME NEW u, NEW v, NEW w, Same(u, v), Same(v, w)
  PROVE  Same(u, w)
BY DEF Same, SameArchive

\* An archive may change in all but what it is.
LEMMA OneChanges ==
  ASSUME NEW w, IsWorld(w), NEW a \in 1 .. Len(w.ar), NEW y,
         IsArchive(y), SameArchive(w.ar[a], y), NEW v,
         v = [w EXCEPT !.ar = [@ EXCEPT ![a] = y]]
  PROVE  Same(w, v) /\ v.ar[a] = y
<1>1. PICK T : w.ar \in Seq(T)
  BY DEF IsWorld
<1>2. v = [st |-> w.st, ar |-> [w.ar EXCEPT ![a] = y], bug |-> w.bug, io |-> w.io]
  BY DEF IsWorld
<1>3. [w.ar EXCEPT ![a] = y] \in Seq(T \cup {y})
  BY <1>1
<1>4. /\ Len([w.ar EXCEPT ![a] = y]) = Len(w.ar)
      /\ \A b \in 1 .. Len(w.ar) : [w.ar EXCEPT ![a] = y][b] = IF b = a THEN y ELSE w.ar[b]
  BY <1>1
<1>5. IsWorld(v)
  BY <1>2, <1>3, <1>4 DEF IsWorld
<1> QED
  BY <1>2, <1>4, <1>5 DEF Same, SameArchive

LEMMA SetNext ==
  ASSUME NEW u, NEW w, Same(u, w), NEW a \in 1 .. Len(u.ar), NEW z
  PROVE  Same(u, [w EXCEPT !.ar[a].next = z])
<1> DEFINE x == w.ar[a]
           y == [x EXCEPT !.next = z]
<1>1. IsWorld(w) /\ a \in 1 .. Len(w.ar) /\ IsArchive(x)
  BY DEF Same, IsWorld
<1>2. IsArchive(y) /\ SameArchive(x, y)
  BY <1>1 DEF IsArchive, SameArchive
<1>3. [w EXCEPT !.ar[a].next = z] = [w EXCEPT !.ar = [@ EXCEPT ![a] = y]]
  BY <1>1 DEF IsWorld
<1>4. Same(w, [w EXCEPT !.ar[a].next = z])
  BY <1>1, <1>2, <1>3, OneChanges
<1> QED
  BY <1>4, SameForLong

LEMMA SetPrev ==
  ASSUME NEW u, NEW w, Same(u, w), NEW a \in 1 .. Len(u.ar), NEW z
  PROVE  Same(u, [w EXCEPT !.ar[a].prev = z])
<1> DEFINE x == w.ar[a]
           y == [x EXCEPT !.prev = z]
<1>1. IsWorld(w) /\ a \in 1 .. Len(w.ar) /\ IsArchive(x)
  BY DEF Same, IsWorld
<1>2. IsArchive(y) /\ SameArchive(x, y)
  BY <1>1 DEF IsArchive, SameArchive
<1>3. [w EXCEPT !.ar[a].prev = z] = [w EXCEPT !.ar = [@ EXCEPT ![a] = y]]
  BY <1>1 DEF IsWorld
<1>4. Same(w, [w EXCEPT !.ar[a].prev = z])
  BY <1>1, <1>2, <1>3, OneChanges
<1> QED
  BY <1>4, SameForLong

LEMMA SetCur ==
  ASSUME NEW u, NEW w, Same(u, w), NEW a \in 1 .. Len(u.ar), NEW z
  PROVE  Same(u, [w EXCEPT !.ar[a].cur = z])
<1> DEFINE x == w.ar[a]
           y == [x EXCEPT !.cur = z]
<1>1. IsWorld(w) /\ a \in 1 .. Len(w.ar) /\ IsArchive(x)
  BY DEF Same, IsWorld
<1>2. IsArchive(y) /\ SameArchive(x, y)
  BY <1>1 DEF IsArchive, SameArchive
<1>3. [w EXCEPT !.ar[a].cur = z] = [w EXCEPT !.ar = [@ EXCEPT ![a] = y]]
  BY <1>1 DEF IsWorld
<1>4. Same(w, [w EXCEPT !.ar[a].cur = z])
  BY <1>1, <1>2, <1>3, OneChanges
<1> QED
  BY <1>4, SameForLong

LEMMA SetTable ==
  ASSUME NEW u, NEW w, Same(u, w), NEW a \in 1 .. Len(u.ar), NEW z
  PROVE  Same(u, [w EXCEPT !.ar[a].table = z])
<1> DEFINE x == w.ar[a]
           y == [x EXCEPT !.table = z]
<1>1. IsWorld(w) /\ a \in 1 .. Len(w.ar) /\ IsArchive(x)
  BY DEF Same, IsWorld
<1>2. IsArchive(y) /\ SameArchive(x, y)
  BY <1>1 DEF IsArchive, SameArchive
<1>3. [w EXCEPT !.ar[a].table = z] = [w EXCEPT !.ar = [@ EXCEPT ![a] = y]]
  BY <1>1 DEF IsWorld
<1>4. Same(w, [w EXCEPT !.ar[a].table = z])
  BY <1>1, <1>2, <1>3, OneChanges
<1> QED
  BY <1>4, SameForLong

LEMMA SetIndex ==
  ASSUME NEW u, NEW w, Same(u, w), NEW a \in 1 .. Len(u.ar), NEW z
  PROVE  Same(u, [w EXCEPT !.ar[a].index = z])
<1> DEFINE x == w.ar[a]
           y == [x EXCEPT !.index = z]
<1>1. IsWorld(w) /\ a \in 1 .. Len(w.ar) /\ IsArchive(x)
  BY DEF Same, IsWorld
<1>2. IsArchive(y) /\ SameArchive(x, y)
  BY <1>1 DEF IsArchive, SameArchive
<1>3. [w EXCEPT !.ar[a].index = z] = [w EXCEPT !.ar = [@ EXCEPT ![a] = y]]
  BY <1>1 DEF IsWorld
<1>4. Same(w, [w EXCEPT !.ar[a].index = z])
  BY <1>1, <1>2, <1>3, OneChanges
<1> QED
  BY <1>4, SameForLong

LEMMA SetInput ==
  ASSUME NEW x, IsArchive(x), NEW z \in BOOLEAN
  PROVE  LET y == [x EXCEPT !.input = z] IN
         /\ IsArchive(y) /\ y.format = x.format /\ y.io = x.io /\ y.prev = x.prev
         /\ y.input = z
BY DEF IsArchive

LEMMA SetWild ==
  ASSUME NEW u, NEW w, Same(u, w), NEW z
  PROVE  Same(u, [w EXCEPT !.io.wild = z])
<1>1. [w EXCEPT !.io.wild = z] = [w EXCEPT !.io = [w.io EXCEPT !.wild = z]]
  BY DEF IsWorld, Same
<1>2. Same(w, [w EXCEPT !.io.wild = z])
  BY <1>1, IoIsIo DEF Same, SameArchive
<1> QED
  BY <1>2, SameForLong

\* As long as no entry is open, there is nothing to complain about.
LEMMA NoComplaint ==
  ASSUME NEW u, NEW w, Same(u, w), u.bug = FALSE, NEW z, z = FALSE
  PROVE  Same(u, [w EXCEPT !.bug = z])
<1>1. [w EXCEPT !.bug = z] = w
  BY DEF IsWorld, Same
<1> QED
  BY <1>1

LEMMA DirectoryKeeps ==
  ASSUME NEW u, NEW w, Same(u, w), NEW a \in 1 .. Len(u.ar), NEW o, NEW n, NEW z
  PROVE  Same(u, [w EXCEPT !.ar[a].table = o, !.ar[a].index = 0, !.ar[a].next = n,
                           !.ar[a].prev = NoEntryYet, !.io.wild = z])
<1>1. Same(u, [w EXCEPT !.ar[a].table = o])
  BY SetTable
<1>2. Same(u, [w EXCEPT !.ar[a].table = o, !.ar[a].index = 0])
  BY <1>1, SetIndex
<1>3. Same(u, [w EXCEPT !.ar[a].table = o, !.ar[a].index = 0, !.ar[a].next = n])
  BY <1>2, SetNext
<1>4. Same(u, [w EXCEPT !.ar[a].table = o, !.ar[a].index = 0, !.ar[a].next = n,
                        !.ar[a].prev = NoEntryYet])
  BY <1>3, SetPrev
<1> QED
  BY <1>4, SetWild

LEMMA ReadKeeps ==
  ASSUME NEW u, NEW w, Same(u, w), NEW k, NEW n
  PROVE  Same(u, ReadFrom(w, k, n).w)
<1>1. IsWorld(w)
  BY DEF Same
<1> QED
  BY <1>1, ReadingOpensNothing, SameForLong DEF Same, SameArchive

LEMMA SeekKeeps ==
  ASSUME NEW u, NEW w, Same(u, w), NEW k, NEW p
  PROVE  Same(u, SeekIn(w, k, p).w)
<1>1. IsWorld(w)
  BY DEF Same
<1> QED
  BY <1>1, SeekingOpensNothing, SameForLong DEF Same, SameArchive

\* enumerate() rewinds an archive; none of its entries may be open.
LEMMA EnumerateKeeps ==
  ASSUME NEW w, IsWorld(w), NEW a \in 1 .. Len(w.ar), w.bug = FALSE, w.ar[a].input = FALSE
  PROVE  Same(w, Enumerate(w, a).w)
<1> DEFINE x == w.ar[a]
<1>0. Same(w, w)
  BY SameAsItself
<1>1. CASE x.format = "pkg"
  <2>1. Same(w, [w EXCEPT !.ar[a].next = 1])
    BY <1>0, SetNext
  <2>2. Same(w, [w EXCEPT !.ar[a].next = 1, !.ar[a].prev = NoEntryYet])
    BY <2>1, SetPrev
  <2> QED
    BY <1>1, <2>2 DEF Enumerate, Answer
<1>2. CASE x.format \notin {"pck", "pkg"}
  <2>1. Same(w, [w EXCEPT !.ar[a].next = 0])
    BY <1>0, SetNext
  <2>2. Same(w, [w EXCEPT !.ar[a].next = 0, !.ar[a].cur = 0])
    BY <2>1, SetCur
  <2>3. Same(w, [w EXCEPT !.ar[a].next = 0, !.ar[a].cur = 0, !.ar[a].prev = NoEntryYet])
    BY <2>2, SetPrev
  <2> DEFINE v == [w EXCEPT !.ar[a].next = 0, !.ar[a].cur = 0, !.ar[a].prev = NoEntryYet]
  <2>4. v.bug = FALSE
    BY <2>3 DEF Same
  <2>5. (v.bug \/ x.input) = FALSE
    BY <2>4
  <2>6. Same(w, [v EXCEPT !.bug = v.bug \/ x.input])
    BY <2>3, <2>5, NoComplaint
  <2>7. [v EXCEPT !.bug = v.bug \/ x.input]
         = [w EXCEPT !.ar[a].next = 0, !.ar[a].cur = 0, !.ar[a].prev = NoEntryYet,
                     !.bug = @ \/ x.input]
    OBVIOUS
  <2> QED
    BY <1>2, <2>6, <2>7 DEF Enumerate, Answer
<1>3. CASE x.format = "pck"
  <2> DEFINE r == ReadFrom(w, x.io, x.first - 1)
  <2>1. Same(w, r.w)
    BY <1>0, ReadKeeps
  <2>2. \A z : Same(w, [r.w EXCEPT !.ar[a].table = r.out, !.ar[a].index = 0,
                                  !.ar[a].next = r.w.ar[a].first,
                                  !.ar[a].prev = NoEntryYet, !.io.wild = z])
    BY <2>1, DirectoryKeeps
  <2>3. Same(w, DirectoryRead(r, a).w)
    BY <2>1, <2>2 DEF DirectoryRead, Answer
  <2> QED
    BY <1>3, <2>3 DEF Enumerate, EnumeratePck
<1> QED
  BY <1>1, <1>2, <1>3

LEMMA OneMoreKeeps ==
  ASSUME NEW u, NEW w, Same(u, w), NEW a \in 1 .. Len(u.ar),
         NEW head, NEW name, NEW cur, NEW next
  PROVE  Same(u, OneMore(w, a, head, name, cur, next).w)
<1> DEFINE e == [name |-> name, size |-> head.size, type |-> head.type]
<1>1. Same(u, [w EXCEPT !.ar[a].prev = e])
  BY SetPrev
<1>2. Same(u, [w EXCEPT !.ar[a].prev = e, !.ar[a].cur = cur])
  BY <1>1, SetCur
<1>3. Same(u, [w EXCEPT !.ar[a].prev = e, !.ar[a].cur = cur, !.ar[a].next = next])
  BY <1>2, SetNext
<1> QED
  BY <1>3 DEF OneMore

LEMMA LongNameKeeps ==
  ASSUME NEW u, NEW l, Same(u, l.w), NEW a \in 1 .. Len(u.ar), NEW size
  PROVE  Same(u, LongNameRead(l, a, size).w)
<1>1. \A n, m : Same(u, [l.w EXCEPT !.ar[a].next = n, !.ar[a].prev.name = m])
  <2> TAKE n, m
  <2>1. Same(u, [l.w EXCEPT !.ar[a].next = n])
    BY SetNext
  <2> DEFINE v == [l.w EXCEPT !.ar[a].next = n]
  <2>2. Same(u, [v EXCEPT !.ar[a].prev = [v.ar[a].prev EXCEPT !.name = m]])
    BY <2>1, SetPrev
  <2>3. [v EXCEPT !.ar[a].prev = [v.ar[a].prev EXCEPT !.name = m]]
         = [l.w EXCEPT !.ar[a].next = n, !.ar[a].prev.name = m]
    BY <2>1 DEF Same, IsWorld
  <2> QED
    BY <2>2, <2>3
<1> QED
  BY <1>1 DEF LongNameRead, NoMore, Again

LEMMA TarBlockKeeps ==
  ASSUME NEW u, NEW r, Same(u, r.w), NEW a \in 1 .. Len(u.ar)
  PROVE  Same(u, TarBlock(r, a).w)
<1> DEFINE head == r.out[1]
           l == ReadFrom(r.w, r.w.ar[a].io, head.size)
<1>1. Same(u, LongNameRead(l, a, head.size).w)
  BY ReadKeeps, LongNameKeeps
<1>2. Same(u, [r.w EXCEPT !.io.wild = TRUE])
  BY SetWild
<1>3. \A name, cur, next : Same(u, OneMore(r.w, a, head, name, cur, next).w)
  BY OneMoreKeeps
<1> QED
  BY <1>1, <1>2, <1>3 DEF TarBlock, NoMore, Again

LEMMA TarHeaderKeeps ==
  ASSUME NEW u, NEW w, Same(u, w), NEW a \in 1 .. Len(u.ar)
  PROVE  Same(u, NextBlock(w, a).w) /\ Same(u, TarHeader(w, a).w)
<1>1. \A v : Same(u, v) => Same(u, NextBlock(v, a).w)
  BY ReadKeeps, TarBlockKeeps DEF NextBlock
<1> QED
  BY <1>1, SeekKeeps DEF TarHeader, TarSought, NoMore

LEMMA NextTarKeeps ==
  ASSUME NEW w, IsWorld(w), NEW a \in 1 .. Len(w.ar), w.bug = FALSE, w.ar[a].input = FALSE
  PROVE  Same(w, NextTar(w, a).w)
<1> DEFINE v == [w EXCEPT !.ar[a].prev = NoEntryYet]
<1>1. Same(w, v)
  BY SameAsItself, SetPrev
<1>2. v.bug = FALSE /\ (v.bug \/ w.ar[a].input) = FALSE
  BY <1>1 DEF Same
<1>3. Same(w, [v EXCEPT !.bug = v.bug \/ w.ar[a].input])
  BY <1>1, <1>2, NoComplaint
<1>4. [v EXCEPT !.bug = v.bug \/ w.ar[a].input]
       = [w EXCEPT !.ar[a].prev = NoEntryYet, !.bug = @ \/ w.ar[a].input]
  OBVIOUS
<1> QED
  BY <1>3, <1>4, TarHeaderKeeps DEF NextTar

LEMMA NextPckKeeps ==
  ASSUME NEW w, IsWorld(w), NEW a \in 1 .. Len(w.ar)
  PROVE  Same(w, NextPck(w, a).w)
<1> DEFINE s == SeekIn(w, w.ar[a].io, w.ar[a].next)
<1>0. Same(w, w)
  BY SameAsItself
<1>1. Same(w, s.w)
  BY <1>0, SeekKeeps
<1>2. \A n : Same(w, [s.w EXCEPT !.ar[a].index = n])
  BY <1>1, SetIndex
<1>3. \A n, head, name, cur, next :
         Same(w, OneMore([s.w EXCEPT !.ar[a].index = n], a, head, name, cur, next).w)
  BY <1>2, OneMoreKeeps
<1> QED
  BY <1>0, <1>1, <1>3 DEF NextPck, PckSought, NoMore

LEMMA NextPkgKeeps ==
  ASSUME NEW w, IsWorld(w), NEW a \in 1 .. Len(w.ar)
  PROVE  Same(w, NextPkg(w, a).w)
<1> DEFINE s == SeekIn(w, w.ar[a].io, w.ar[a].next)
           r == ReadFrom(s.w, s.w.ar[a].io, 1)
<1>1. Same(w, s.w)
  BY SameAsItself, SeekKeeps
<1>2. Same(w, r.w)
  BY <1>1, ReadKeeps
<1>3. Same(w, [r.w EXCEPT !.io.wild = TRUE])
  BY <1>2, SetWild
<1>4. \A head, name, cur, next : Same(w, OneMore(r.w, a, head, name, cur, next).w)
  BY <1>2, OneMoreKeeps
<1> QED
  BY <1>1, <1>2, <1>3, <1>4 DEF NextPkg, PkgSought, PkgHeader, NoMore

\* Looking for an entry opens none and closes none.
LEMMA LookKeeps ==
  ASSUME IsWorld(world), Top \in 1 .. Len(world.ar), world.bug = FALSE,
         world.ar[Top].input = FALSE
  PROVE  Same(world, Look.w)
<1>1. Same(world, world)
  BY SameAsItself
<1> QED
  BY <1>1, TarHeaderKeeps, NextTarKeeps, NextPckKeeps, NextPkgKeeps DEF Look, EnumNext

-----------------------------------------------------------------------------
(* What is stacked on what. *)

\* An entry of archive a is open: a member is above the stream it reads from.
MemberOpen(w, a) ==
  LET k == w.ar[a].io + 1 IN
  k \in 1 .. Len(w.st) /\ w.st[k].kind = "member" /\ w.st[k].ar = a

\* The archives read from ever higher streams, each from an entry of the one below
\* it, and there are no other members and no other files.
Stacked(w) ==
  /\ IsWorld(w) /\ w.bug = FALSE
  /\ Len(w.st) >= 1 /\ w.st[1].kind = "file"
  /\ \A k \in 2 .. Len(w.st) :
       /\ w.st[k].kind # "file"
       /\ w.st[k].kind = "member" => \E a \in 1 .. Len(w.ar) : k = w.ar[a].io + 1
  /\ \A a \in 1 .. Len(w.ar) : w.ar[a].io \in 1 .. Len(w.st)
  /\ \A a, b \in 1 .. Len(w.ar) : a < b => w.ar[a].io < w.ar[b].io /\ MemberOpen(w, a)

\* No entry of the innermost archive is open.
Idle(w) ==
  LET n == Len(w.ar) IN
  /\ Stacked(w) /\ n >= 1
  /\ Len(w.st) = w.ar[n].io /\ w.ar[n].input = FALSE

\* Its current entry is.
Reading(w) ==
  LET n == Len(w.ar)
      m == Len(w.st) IN
  /\ Stacked(w) /\ n >= 1
  /\ m = w.ar[n].io + 1 /\ MemberOpen(w, n) /\ Length(w, m) = w.ar[n].prev.size

\* What the next archive is read from is on top.
Opening(w) == Stacked(w) /\ (Len(w.ar) = 0 \/ MemberOpen(w, Len(w.ar)))

LEMMA Lengths ==
  ASSUME NEW w, IsWorld(w)
  PROVE  Len(w.st) \in Nat /\ Len(w.ar) \in Nat
<1>1. PICK S, T : w.st \in Seq(S) /\ w.ar \in Seq(T)
  BY DEF IsWorld
<1> QED
  BY <1>1

LEMMA SameStack ==
  ASSUME NEW w, NEW v, Same(w, v)
  PROVE  /\ Stacked(w) => Stacked(v)
         /\ Idle(w) => Idle(v)
         /\ Opening(w) => Opening(v)
<1>1. \A a \in 1 .. Len(w.ar) : MemberOpen(w, a) => MemberOpen(v, a)
  BY DEF Same, SameArchive, MemberOpen
<1>0. /\ IsWorld(v) /\ v.st = w.st /\ v.bug = w.bug /\ Len(v.ar) = Len(w.ar)
      /\ \A a \in 1 .. Len(w.ar) : v.ar[a].io = w.ar[a].io /\ v.ar[a].input = w.ar[a].input
  BY DEF Same, SameArchive
<1>2. ASSUME Stacked(w) PROVE Stacked(v)
  <2>1. \A k \in 2 .. Len(v.st) :
          /\ v.st[k].kind # "file"
          /\ v.st[k].kind = "member" => \E a \in 1 .. Len(v.ar) : k = v.ar[a].io + 1
    <3> TAKE k \in 2 .. Len(v.st)
    <3>1. /\ w.st[k].kind # "file"
          /\ w.st[k].kind = "member" => \E a \in 1 .. Len(w.ar) : k = w.ar[a].io + 1
      BY <1>0, <1>2 DEF Stacked
    <3> QED
      BY <1>0, <3>1
  <2>2. \A a \in 1 .. Len(v.ar) : v.ar[a].io \in 1 .. Len(v.st)
    BY <1>0, <1>2 DEF Stacked
  <2>3. \A a, b \in 1 .. Len(v.ar) : a < b => v.ar[a].io < v.ar[b].io /\ MemberOpen(v, a)
    BY <1>0, <1>1, <1>2 DEF Stacked
  <2> QED
    BY <1>0, <1>2, <2>1, <2>2, <2>3 DEF Stacked
<1>3. IsWorld(w) => Len(w.ar) \in Nat
  BY Lengths
<1>4. Idle(w) => Idle(v)
  <2>1. Stacked(w) => Len(w.ar) \in Nat
    BY <1>3 DEF Stacked
  <2> QED
    BY <1>0, <1>2, <2>1 DEF Idle
<1>5. ASSUME Opening(w) PROVE Opening(v)
  <2>1. Len(w.ar) \in Nat
    BY <1>3, <1>5 DEF Opening, Stacked
  <2>2. Len(w.ar) = 0 \/ MemberOpen(v, Len(w.ar))
    BY <1>1, <1>5, <2>1 DEF Opening
  <2> QED
    BY <1>0, <1>2, <1>5, <2>2 DEF Opening
<1> QED
  BY <1>2, <1>4, <1>5

\* To read from a member does not change how long it is.
LEMMA ReadingStays ==
  ASSUME NEW w, NEW k, NEW n, Reading(w)
  PROVE  LET v == ReadFrom(w, k, n).w IN
         Reading(v) /\ v.ar = w.ar
<1> DEFINE v == ReadFrom(w, k, n).w
<1>1. IsWorld(v) /\ v.st = w.st /\ v.ar = w.ar /\ v.bug = w.bug
  BY ReadingOpensNothing DEF Reading, Stacked
<1>2. Same(w, v)
  BY <1>1 DEF Same, SameArchive
<1>3. Stacked(v)
  BY <1>2, SameStack DEF Reading
<1>4. Length(v, Len(w.st)) = Length(w, Len(w.st))
  BY <1>1 DEF Length, MemberSize
<1> QED
  BY <1>1, <1>3, <1>4 DEF Reading, MemberOpen

\* What a push puts on top.
LEMMA Pushed ==
  ASSUME NEW w, IsWorld(w), NEW s
  PROVE  LET v == Push(w, s) IN
         /\ IsWorld(v) /\ v.ar = w.ar /\ v.bug = w.bug
         /\ Len(v.st) = Len(w.st) + 1 /\ v.st[Len(w.st) + 1] = s
         /\ \A k \in 1 .. Len(w.st) : v.st[k] = w.st[k]
<1>1. PICK S : w.st \in Seq(S)
  BY DEF IsWorld
<1>2. Append(w.st, s) \in Seq(S \cup {s})
  BY <1>1
<1>3. /\ Len(Append(w.st, s)) = Len(w.st) + 1 /\ Append(w.st, s)[Len(w.st) + 1] = s
      /\ \A k \in 1 .. Len(w.st) : Append(w.st, s)[k] = w.st[k]
  BY <1>1
<1>4. \E z : Push(w, s) = [st |-> Append(w.st, s), ar |-> w.ar, bug |-> w.bug, io |-> z]
  <2>1. Push(w, s) = [[w EXCEPT !.st = Append(w.st, s)]
                        EXCEPT !.io = [w.io EXCEPT !.at = Append(w.io.at, AtStart)]]
    BY DEF IsWorld, Push
  <2> QED
    BY <2>1 DEF IsWorld
<1> QED
  BY <1>2, <1>3, <1>4 DEF IsWorld

\* A stream that is no member can be put on what is being opened.
LEMMA PushOpening ==
  ASSUME NEW w, Opening(w), NEW s, s.kind \notin {"file", "member"}
  PROVE  Opening(Push(w, s))
<1> DEFINE v == Push(w, s)
<1>1. IsWorld(w) /\ Len(w.st) \in Nat /\ Len(w.ar) \in Nat
  BY Lengths DEF Opening, Stacked
<1>2. /\ IsWorld(v) /\ v.ar = w.ar /\ v.bug = w.bug
      /\ Len(v.st) = Len(w.st) + 1 /\ v.st[Len(w.st) + 1] = s
      /\ \A k \in 1 .. Len(w.st) : v.st[k] = w.st[k]
  BY <1>1, Pushed
<1> HIDE DEF v
<1>3. \A a \in 1 .. Len(w.ar) : MemberOpen(w, a) => MemberOpen(v, a)
  BY <1>1, <1>2 DEF MemberOpen
<1>4. Stacked(v)
  <2>1. Stacked(w)
    BY DEF Opening
  <2>2. v.bug = FALSE /\ Len(v.st) >= 1 /\ v.st[1].kind = "file"
    BY <1>1, <1>2, <2>1 DEF Stacked
  <2>3. ASSUME NEW k \in 2 .. Len(v.st)
        PROVE  /\ v.st[k].kind # "file"
               /\ v.st[k].kind = "member" => \E a \in 1 .. Len(v.ar) : k = v.ar[a].io + 1
    BY <1>1, <1>2, <2>1 DEF Stacked
  <2>4. \A a \in 1 .. Len(v.ar) : v.ar[a].io \in 1 .. Len(v.st)
    BY <1>1, <1>2, <2>1 DEF Stacked
  <2>5. \A a, b \in 1 .. Len(v.ar) : a < b => v.ar[a].io < v.ar[b].io /\ MemberOpen(v, a)
    BY <1>2, <1>3, <2>1 DEF Stacked
  <2> QED
    BY <1>2, <2>2, <2>3, <2>4, <2>5 DEF Stacked
<1> QED
  BY <1>1, <1>2, <1>3, <1>4 DEF Opening, v

-----------------------------------------------------------------------------
(* Opening. *)

\* A new archive reads from what is on top.
LEMMA ArchiveIsIdle ==
  ASSUME NEW w, Opening(w), NEW format, NEW first
  PROVE  Idle(Archive(w, format, first))
<1> DEFINE v == Archive(w, format, first)
           n == Len(w.ar)
           m == Len(w.st)
           x == [format |-> format, io |-> m, prev |-> NoEntryYet, cur |-> 0, next |-> 0,
                 input |-> FALSE, first |-> first, table |-> <<>>, index |-> 0]
<1>1. Stacked(w) /\ IsWorld(w) /\ m \in Nat /\ n \in Nat
  BY Lengths DEF Opening, Stacked
<1>2. v = [st |-> w.st, ar |-> Append(w.ar, x), bug |-> w.bug, io |-> w.io]
  BY <1>1 DEF IsWorld, Archive
<1>3. PICK T : w.ar \in Seq(T)
  BY <1>1 DEF IsWorld
<1>4. Append(w.ar, x) \in Seq(T \cup {x})
  BY <1>3
<1>5. /\ Len(v.ar) = n + 1 /\ v.ar[n + 1] = x /\ \A a \in 1 .. n : v.ar[a] = w.ar[a]
      /\ v.st = w.st /\ v.bug = w.bug
  BY <1>2, <1>3
<1>6. IsArchive(x)
  BY DEF IsArchive
<1>a. v.ar = Append(w.ar, x)
  BY <1>2
<1>7. IsWorld(v)
  <2>1. v = [st |-> v.st, ar |-> v.ar, bug |-> v.bug, io |-> v.io]
    BY <1>2
  <2> HIDE DEF v, x
  <2>2. \A a \in 1 .. Len(v.ar) : IsArchive(v.ar[a])
    BY <1>1, <1>5, <1>6 DEF IsWorld
  <2>3. (\E S : v.st \in Seq(S)) /\ (\E S : v.ar \in Seq(S))
    BY <1>1, <1>4, <1>5, <1>a DEF IsWorld
  <2> QED
    BY <2>1, <2>2, <2>3 DEF IsWorld
<1> HIDE DEF v, x
<1>8. x.io = m /\ x.input = FALSE
  BY DEF x
<1>9. \A a \in 1 .. n : v.ar[a].io = w.ar[a].io /\ (MemberOpen(w, a) => MemberOpen(v, a))
  BY <1>5 DEF MemberOpen
<1>10. \A a \in 1 .. n : MemberOpen(v, a) /\ v.ar[a].io < m
  <2> TAKE a \in 1 .. n
  <2>1. MemberOpen(w, n)
    BY <1>1 DEF Opening
  <2>2. MemberOpen(w, a) /\ w.ar[a].io <= w.ar[n].io
    BY <1>1, <2>1 DEF Stacked
  <2>3. w.ar[n].io < m
    BY <1>1, <2>1 DEF MemberOpen, Stacked
  <2> QED
    BY <1>1, <1>9, <2>2, <2>3 DEF Stacked
<1>11. Stacked(v)
  <2>1. v.bug = FALSE /\ Len(v.st) >= 1 /\ v.st[1].kind = "file"
    BY <1>1, <1>5 DEF Stacked
  <2>2. \A k \in 2 .. Len(v.st) :
          /\ v.st[k].kind # "file"
          /\ v.st[k].kind = "member" => \E a \in 1 .. Len(v.ar) : k = v.ar[a].io + 1
    <3> TAKE k \in 2 .. Len(v.st)
    <3>1. /\ w.st[k].kind # "file"
          /\ w.st[k].kind = "member" => \E a \in 1 .. n : k = w.ar[a].io + 1
      BY <1>1, <1>5 DEF Stacked
    <3>2. \A a \in 1 .. n : a \in 1 .. Len(v.ar)
      BY <1>1, <1>5
    <3> QED
      BY <1>5, <1>9, <3>1, <3>2
  <2>3. \A a \in 1 .. Len(v.ar) : v.ar[a].io \in 1 .. Len(v.st)
    <3> TAKE a \in 1 .. Len(v.ar)
    <3>1. CASE a = n + 1
      BY <1>1, <1>5, <1>8, <3>1 DEF Stacked
    <3>2. CASE a \in 1 .. n
      BY <1>1, <1>5, <1>9, <3>2 DEF Stacked
    <3> QED
      BY <1>1, <1>5, <3>1, <3>2
  <2>4. \A a, b \in 1 .. Len(v.ar) : a < b => v.ar[a].io < v.ar[b].io /\ MemberOpen(v, a)
    <3> TAKE a, b \in 1 .. Len(v.ar)
    <3> HAVE a < b
    <3>1. a \in 1 .. n
      BY <1>1, <1>5
    <3>2. CASE b = n + 1
      BY <1>5, <1>8, <1>10, <3>1, <3>2
    <3>3. CASE b \in 1 .. n
      BY <1>1, <1>9, <1>10, <3>1, <3>3 DEF Stacked
    <3> QED
      BY <1>1, <1>5, <3>2, <3>3
  <2> QED
    BY <1>7, <2>1, <2>2, <2>3, <2>4 DEF Stacked
<1> QED
  BY <1>1, <1>5, <1>8, <1>11 DEF Idle, v

\* What a create() leaves: an archive, or things as they were.
Creation(w, r) == IF r.ok THEN Idle(r.w) ELSE Opening(r.w)

LEMMA OpeningStays ==
  ASSUME NEW w, Opening(w), NEW k, NEW n
  PROVE  Opening(ReadFrom(w, k, n).w) /\ Opening(SeekIn(w, k, n).w)
<1>1. Same(w, w)
  BY SameAsItself DEF Opening, Stacked
<1> QED
  BY <1>1, ReadKeeps, SeekKeeps, SameStack

LEMMA TarCreation ==
  ASSUME NEW w, Opening(w)
  PROVE  Creation(w, CreateTAR(w))
<1> DEFINE r == ReadFrom(w, Len(w.st), Block)
           b == SeekIn(r.w, Len(w.st), 0)
<1>1. Opening(b.w)
  BY OpeningStays
<1>2. Idle(Archive(b.w, "tar", 0))
  BY <1>1, ArchiveIsIdle
<1> QED
  BY <1>1, <1>2 DEF Creation, CreateTAR, TarRead, TarChecked, Created

LEMMA PckCreation ==
  ASSUME NEW w, Opening(w)
  PROVE  Creation(w, CreatePCK(w)) /\ Creation(w, CreatePKG(w))
<1> DEFINE r == ReadFrom(w, Len(w.st), 1)
<1>1. Opening(r.w)
  BY OpeningStays
<1>2. \A f, n : Idle(Archive(r.w, f, n))
  BY <1>1, ArchiveIsIdle
<1> QED
  BY <1>1, <1>2 DEF Creation, CreatePCK, CreatePKG, HeaderRead, Created

LEMMA OrElseCreation ==
  ASSUME NEW w, NEW r, Creation(w, r)
  PROVE  /\ Creation(w, OrElse(r, CreateTAR))
         /\ Creation(w, OrElse(r, CreatePCK))
         /\ Creation(w, OrElse(r, CreatePKG))
BY TarCreation, PckCreation DEF Creation, OrElse

LEMMA Identified ==
  ASSUME NEW w, Opening(w)
  PROVE  Creation(w, Identify(w))
<1>1. Creation(w, CreateZIP(w))
  BY OpeningStays DEF Creation, CreateZIP, Created
<1>2. Creation(w, OrElse(CreateZIP(w), CreateTAR))
  BY <1>1, OrElseCreation
<1>3. Creation(w, OrElse(OrElse(CreateZIP(w), CreateTAR), CreateTAR))
  BY <1>2, OrElseCreation
<1>4. Creation(w, OrElse(OrElse(OrElse(CreateZIP(w), CreateTAR), CreateTAR), CreatePCK))
  BY <1>3, OrElseCreation
<1> QED
  BY <1>4, OrElseCreation DEF Identify

-----------------------------------------------------------------------------
(* Closing. *)

\* The first members of a sequence.
LEMMA FirstOf ==
  ASSUME NEW T, NEW s \in Seq(T), NEW k \in 0 .. Len(s)
  PROVE  /\ SubSeq(s, 1, k) \in Seq(T) /\ Len(SubSeq(s, 1, k)) = k
         /\ \A i \in 1 .. k : SubSeq(s, 1, k)[i] = s[i]
OBVIOUS

LEMMA BelowKeeps ==
  ASSUME NEW w, IsWorld(w), NEW k \in 0 .. Len(w.st)
  PROVE  LET v == Below(w, k) IN
         /\ IsWorld(v) /\ v.ar = w.ar /\ v.bug = w.bug
         /\ Len(v.st) = k /\ \A i \in 1 .. k : v.st[i] = w.st[i]
<1>1. PICK S : w.st \in Seq(S)
  BY DEF IsWorld
<1>2. \E z : Below(w, k) = [st |-> SubSeq(w.st, 1, k), ar |-> w.ar, bug |-> w.bug, io |-> z]
  <2>1. Below(w, k) = [[w EXCEPT !.st = SubSeq(w.st, 1, k)]
                         EXCEPT !.io = [w.io EXCEPT !.at = SubSeq(w.io.at, 1, k)]]
    BY DEF IsWorld, Below
  <2> QED
    BY <2>1 DEF IsWorld
<1>3. PICK v : v = Below(w, k)
  OBVIOUS
<1>4. /\ v = [st |-> v.st, ar |-> v.ar, bug |-> v.bug, io |-> v.io]
      /\ v.st = SubSeq(w.st, 1, k) /\ v.ar = w.ar /\ v.bug = w.bug
  BY <1>2, <1>3
<1>5. /\ v.st \in Seq(S) /\ Len(v.st) = k /\ \A i \in 1 .. k : v.st[i] = w.st[i]
  BY <1>1, <1>4, FirstOf
<1>6. IsWorld(v)
  BY <1>4, <1>5 DEF IsWorld
<1> QED
  BY <1>3, <1>4, <1>5, <1>6

LEMMA LowestIsTheMember ==
  ASSUME NEW w, Stacked(w), NEW a \in 1 .. Len(w.ar), MemberOpen(w, a),
         \A b \in a + 1 .. Len(w.ar) : w.ar[b].io >= Len(w.st)
  PROVE  LowestOwned(w) = w.ar[a].io + 1
<1> DEFINE L == w.ar[a].io + 1
           Owned(k) == /\ w.st[k].kind \in {"file", "member"}
                       /\ \A i \in k + 1 .. Len(w.st) : w.st[i].kind \notin {"file", "member"}
<1>0. Len(w.st) \in Nat /\ Len(w.ar) \in Nat /\ w.ar[a].io \in Nat
  BY Lengths DEF Stacked
<1>1. L \in 1 .. Len(w.st) /\ w.st[L].kind = "member"
  BY DEF MemberOpen
<1>2. \A k \in L + 1 .. Len(w.st) : w.st[k].kind \notin {"file", "member"}
  <2> SUFFICES ASSUME NEW k \in L + 1 .. Len(w.st), w.st[k].kind \in {"file", "member"}
               PROVE  FALSE
    OBVIOUS
  <2>1. PICK b \in 1 .. Len(w.ar) : k = w.ar[b].io + 1
    BY <1>0 DEF Stacked
  <2>2. CASE b <= a
    <3>1. w.ar[b].io <= w.ar[a].io
      BY <1>0, <2>2 DEF Stacked
    <3> QED
      BY <1>0, <2>1, <3>1 DEF Stacked
  <2>3. CASE b > a
    <3>1. w.ar[b].io \in 1 .. Len(w.st) /\ b \in a + 1 .. Len(w.ar)
      BY <1>0, <2>3 DEF Stacked
    <3>2. w.ar[b].io >= Len(w.st)
      BY <3>1
    <3> QED
      BY <1>0, <1>1, <2>1, <3>1, <3>2
  <2> QED
    BY <1>0, <2>2, <2>3
<1>3. Owned(L)
  BY <1>1, <1>2
<1>4. \A k \in 1 .. Len(w.st) : Owned(k) => k = L
  <2> SUFFICES ASSUME NEW k \in 1 .. Len(w.st), Owned(k)
               PROVE  k = L
    OBVIOUS
  <2> HIDE DEF L
  <2>1. ~(k < L)
    BY <1>0, <1>1
  <2>2. ~(k > L)
    BY <1>0, <1>1, <1>2
  <2> QED
    BY <1>1, <2>1, <2>2
<1>5. LowestOwned(w) = CHOOSE k \in 1 .. Len(w.st) : Owned(k)
  BY DEF LowestOwned
<1> QED
  BY <1>1, <1>3, <1>4, <1>5

\* Closing the last open member takes away all that is above its archive's stream,
\* and the archive learns of it.
LEMMA ClosesMember ==
  ASSUME NEW w, Stacked(w), NEW a \in 1 .. Len(w.ar), MemberOpen(w, a),
         \A b \in a + 1 .. Len(w.ar) : w.ar[b].io >= Len(w.st)
  PROVE  LET v == Close(w) IN
         /\ IsWorld(v) /\ v.bug = w.bug /\ Len(v.ar) = Len(w.ar)
         /\ Len(v.st) = w.ar[a].io /\ \A k \in 1 .. w.ar[a].io : v.st[k] = w.st[k]
         /\ \A b \in 1 .. Len(w.ar) : v.ar[b].io = w.ar[b].io
         /\ v.ar[a].input = FALSE
<1> DEFINE x == w.ar[a]
           y == [x EXCEPT !.input = FALSE]
<1>0. Len(w.st) \in Nat /\ Len(w.ar) \in Nat /\ x.io \in 0 .. Len(w.st) /\ IsWorld(w)
  BY Lengths DEF Stacked
<1>1. PICK b : b = Below(w, x.io)
  OBVIOUS
<1>2. /\ IsWorld(b) /\ b.ar = w.ar /\ b.bug = w.bug
      /\ Len(b.st) = x.io /\ \A i \in 1 .. x.io : b.st[i] = w.st[i]
  BY <1>0, <1>1, BelowKeeps
<1>3. LowestOwned(w) = x.io + 1
  BY LowestIsTheMember
<1>4. w.st[x.io + 1].kind = "member" /\ w.st[x.io + 1].ar = a
  BY DEF MemberOpen
<1>5. Close(w) = [b EXCEPT !.ar[a].input = FALSE]
  <2>1. LowestOwned(w) - 1 = x.io
    BY <1>0, <1>3
  <2>2. b = Below(w, LowestOwned(w) - 1)
    BY <1>1, <2>1
  <2>3. w.st[LowestOwned(w)].kind = "member" /\ w.st[LowestOwned(w)].ar = a
    BY <1>3, <1>4
  <2> QED
    BY <2>2, <2>3 DEF Close
<1>6. Close(w) = [st |-> b.st, ar |-> [w.ar EXCEPT ![a] = y], bug |-> w.bug, io |-> b.io]
  BY <1>2, <1>5 DEF IsWorld
<1>7. IsArchive(x)
  BY <1>0 DEF IsWorld
<1>8. IsArchive(y) /\ y.io = x.io /\ y.input = FALSE
  BY <1>7, SetInput
<1>9. PICK T : w.ar \in Seq(T)
  BY <1>0 DEF IsWorld
<1>10. PICK s : s = [w.ar EXCEPT ![a] = y]
  OBVIOUS
<1>11. /\ s \in Seq(T \cup {y}) /\ Len(s) = Len(w.ar)
       /\ \A c \in 1 .. Len(w.ar) : s[c] = IF c = a THEN y ELSE w.ar[c]
  BY <1>9, <1>10
<1>12. PICK v : v = Close(w)
  OBVIOUS
<1>13. /\ v = [st |-> v.st, ar |-> v.ar, bug |-> v.bug, io |-> v.io]
       /\ v.st = b.st /\ v.ar = s /\ v.bug = w.bug
  BY <1>6, <1>10, <1>12
<1> HIDE DEF y
<1>14. IsWorld(v)
  <2>1. \A c \in 1 .. Len(v.ar) : IsArchive(v.ar[c])
    BY <1>0, <1>8, <1>11, <1>13 DEF IsWorld
  <2> QED
    BY <1>2, <1>11, <1>13, <2>1 DEF IsWorld
<1>15. \A c \in 1 .. Len(w.ar) : v.ar[c].io = w.ar[c].io
  BY <1>8, <1>11, <1>13
<1> QED
  BY <1>2, <1>8, <1>11, <1>12, <1>13, <1>14, <1>15

\* What is left when the last open member has been closed.
LEMMA LeftStacked ==
  ASSUME NEW w, Stacked(w), NEW a \in 1 .. Len(w.ar), NEW v,
         IsWorld(v), v.bug = FALSE, Len(v.ar) = a,
         Len(v.st) = w.ar[a].io, \A k \in 1 .. w.ar[a].io : v.st[k] = w.st[k],
         \A b \in 1 .. a : v.ar[b].io = w.ar[b].io,
         v.ar[a].input = FALSE
  PROVE  Idle(v)
<1>0. Len(w.st) \in Nat /\ Len(w.ar) \in Nat /\ w.ar[a].io \in 1 .. Len(w.st)
  BY Lengths DEF Stacked
<1>1. \A b \in 1 .. a : w.ar[b].io \in 1 .. w.ar[a].io
  BY <1>0 DEF Stacked
<1>2. Len(v.st) >= 1 /\ v.st[1].kind = "file"
  BY <1>0 DEF Stacked
<1>3. \A k \in 2 .. Len(v.st) :
        /\ v.st[k].kind # "file"
        /\ v.st[k].kind = "member" => \E b \in 1 .. Len(v.ar) : k = v.ar[b].io + 1
  <2> TAKE k \in 2 .. Len(v.st)
  <2>0. k \in 2 .. Len(w.st)
    BY <1>0
  <2>1. /\ w.st[k].kind # "file"
        /\ w.st[k].kind = "member" => \E b \in 1 .. Len(w.ar) : k = w.ar[b].io + 1
    BY <2>0 DEF Stacked
  <2>2. ASSUME NEW b \in 1 .. Len(w.ar), k = w.ar[b].io + 1
        PROVE  b \in 1 .. a
    <3>1. ~(a < b)
      <4>1. a < b => w.ar[a].io < w.ar[b].io
        BY DEF Stacked
      <4>2. w.ar[b].io \in 1 .. Len(w.st)
        BY DEF Stacked
      <4> QED
        BY <1>0, <2>2, <4>1, <4>2
    <3> QED
      BY <1>0, <3>1
  <2>3. v.st[k] = w.st[k]
    BY <1>0
  <2> QED
    BY <2>1, <2>2, <2>3
<1>4. \A b \in 1 .. Len(v.ar) : v.ar[b].io \in 1 .. Len(v.st)
  BY <1>1
<1>5. \A b, c \in 1 .. Len(v.ar) : b < c => v.ar[b].io < v.ar[c].io /\ MemberOpen(v, b)
  <2> TAKE b, c \in 1 .. Len(v.ar)
  <2> HAVE b < c
  <2>1. w.ar[b].io < w.ar[c].io /\ MemberOpen(w, b)
    BY <1>0 DEF Stacked
  <2>2. w.ar[b].io + 1 \in 1 .. w.ar[a].io
    <3>1. PICK p \in 1 .. w.ar[a].io, q \in 1 .. w.ar[a].io : p = w.ar[b].io /\ q = w.ar[c].io
      BY <1>1
    <3>2. p < q
      BY <2>1, <3>1
    <3>3. p + 1 \in 1 .. w.ar[a].io
      BY <1>0, <3>2
    <3> QED
      BY <3>1, <3>3
  <2> QED
    BY <2>1, <2>2 DEF MemberOpen
<1>6. Stacked(v)
  BY <1>2, <1>3, <1>4, <1>5 DEF Stacked
<1> QED
  BY <1>0, <1>6 DEF Idle

LEMMA CloseEndsReading ==
  ASSUME NEW w, Reading(w)
  PROVE  Idle(Close(w))
<1> DEFINE n == Len(w.ar)
<1>1. Stacked(w) /\ n \in Nat /\ n \in 1 .. n /\ MemberOpen(w, n)
  BY Lengths DEF Reading, Stacked
<1>2. \A b \in n + 1 .. n : w.ar[b].io >= Len(w.st)
  BY <1>1
<1>3. w.bug = FALSE
  BY <1>1 DEF Stacked
<1>4. PICK v : v = Close(w)
  OBVIOUS
<1>5. /\ IsWorld(v) /\ v.bug = w.bug /\ Len(v.ar) = Len(w.ar)
      /\ Len(v.st) = w.ar[n].io /\ \A k \in 1 .. w.ar[n].io : v.st[k] = w.st[k]
      /\ \A b \in 1 .. Len(w.ar) : v.ar[b].io = w.ar[b].io
      /\ v.ar[n].input = FALSE
  BY <1>1, <1>2, <1>4, ClosesMember
<1> QED
  BY <1>1, <1>3, <1>4, <1>5, LeftStacked

LEMMA CloseArchiveIsIdle ==
  ASSUME NEW w, Idle(w), Len(w.ar) > 1
  PROVE  Idle(CloseArchive(w)) /\ Len(CloseArchive(w).ar) = Len(w.ar) - 1
<1> DEFINE n == Len(w.ar)
           a == n - 1
<1>1. Stacked(w) /\ n \in Nat /\ a \in 1 .. n /\ MemberOpen(w, a) /\ w.bug = FALSE
  <2>1. Stacked(w) /\ n \in Nat
    BY Lengths DEF Idle, Stacked
  <2>2. a \in 1 .. n /\ n \in 1 .. n /\ a < n
    BY <2>1
  <2> QED
    BY <2>1, <2>2 DEF Stacked
<1>2. \A b \in a + 1 .. n : w.ar[b].io >= Len(w.st)
  BY <1>1, Lengths DEF Idle, Stacked
<1>3. PICK c : c = Close(w)
  OBVIOUS
<1>4. /\ IsWorld(c) /\ c.bug = w.bug /\ Len(c.ar) = n
      /\ Len(c.st) = w.ar[a].io /\ \A k \in 1 .. w.ar[a].io : c.st[k] = w.st[k]
      /\ \A b \in 1 .. n : c.ar[b].io = w.ar[b].io
      /\ c.ar[a].input = FALSE
  BY <1>1, <1>2, <1>3, ClosesMember
<1>5. PICK v : v = CloseArchive(w)
  OBVIOUS
<1>6. v = [st |-> c.st, ar |-> SubSeq(c.ar, 1, a), bug |-> c.bug, io |-> c.io]
  BY <1>3, <1>4, <1>5 DEF CloseArchive, IsWorld
<1>7. PICK T : c.ar \in Seq(T)
  BY <1>4 DEF IsWorld
<1>8. /\ SubSeq(c.ar, 1, a) \in Seq(T) /\ Len(SubSeq(c.ar, 1, a)) = a
      /\ \A i \in 1 .. a : SubSeq(c.ar, 1, a)[i] = c.ar[i]
  <2>1. a \in 0 .. Len(c.ar)
    BY <1>1, <1>4
  <2> QED
    BY <1>7, <2>1, FirstOf
<1>9. /\ v = [st |-> v.st, ar |-> v.ar, bug |-> v.bug, io |-> v.io]
      /\ v.st = c.st /\ v.ar = SubSeq(c.ar, 1, a) /\ v.bug = c.bug
  BY <1>6
<1> HIDE DEF a
<1>10. v.ar \in Seq(T) /\ Len(v.ar) = a /\ \A i \in 1 .. a : v.ar[i] = c.ar[i]
  BY <1>8, <1>9
<1>11. IsWorld(v)
  <2>1. \A i \in 1 .. Len(v.ar) : IsArchive(v.ar[i])
    BY <1>1, <1>4, <1>10 DEF IsWorld
  <2> QED
    BY <1>4, <1>9, <1>10, <2>1 DEF IsWorld
<1>12. Idle(v)
  <2>1. v.bug = FALSE /\ Len(v.st) = w.ar[a].io
    BY <1>1, <1>4, <1>9
  <2>2. \A k \in 1 .. w.ar[a].io : v.st[k] = w.st[k]
    BY <1>4, <1>9
  <2>3. \A b \in 1 .. a : v.ar[b].io = w.ar[b].io
    BY <1>1, <1>4, <1>10 DEF a
  <2>4. v.ar[a].input = FALSE
    BY <1>1, <1>4, <1>10 DEF a
  <2> QED
    BY <1>1, <1>10, <1>11, <2>1, <2>2, <2>3, <2>4, LeftStacked
<1> QED
  BY <1>5, <1>10, <1>12 DEF a

-----------------------------------------------------------------------------
(* Opening an entry. *)

LEMMA MemberOnTop ==
  ASSUME NEW w, Idle(w), NEW s, s.kind = "member", s.ar = Len(w.ar),
         s.end = w.ar[Len(w.ar)].prev.size
  PROVE  Reading(Push(w, s)) /\ Push(w, s).ar = w.ar /\ Push(w, s).bug = FALSE
<1> DEFINE n == Len(w.ar)
           m == Len(w.st)
<1>1. /\ Stacked(w) /\ IsWorld(w) /\ n \in Nat /\ m \in Nat /\ n \in 1 .. n
      /\ w.bug = FALSE /\ w.ar[n].io = m
  BY Lengths DEF Idle, Stacked
<1>2. PICK v : v = Push(w, s)
  OBVIOUS
<1>3. /\ IsWorld(v) /\ v.ar = w.ar /\ v.bug = w.bug
      /\ Len(v.st) = m + 1 /\ v.st[m + 1] = s
      /\ \A k \in 1 .. m : v.st[k] = w.st[k]
  BY <1>1, <1>2, Pushed
<1>4. \A a \in 1 .. n : MemberOpen(w, a) => MemberOpen(v, a)
  BY <1>1, <1>3 DEF MemberOpen
<1>5. MemberOpen(v, n)
  BY <1>1, <1>3 DEF MemberOpen
<1>6. Stacked(v)
  <2>1. Len(v.st) >= 1 /\ v.st[1].kind = "file"
    BY <1>1, <1>3 DEF Stacked
  <2>2. \A k \in 2 .. Len(v.st) :
          /\ v.st[k].kind # "file"
          /\ v.st[k].kind = "member" => \E a \in 1 .. Len(v.ar) : k = v.ar[a].io + 1
    <3> TAKE k \in 2 .. Len(v.st)
    <3>1. CASE k = m + 1
      BY <1>1, <1>3, <3>1
    <3>2. CASE k \in 2 .. m
      BY <1>1, <1>3, <3>2 DEF Stacked
    <3> QED
      BY <1>1, <1>3, <3>1, <3>2
  <2>3. \A a \in 1 .. Len(v.ar) : v.ar[a].io \in 1 .. Len(v.st)
    BY <1>1, <1>3 DEF Stacked
  <2>4. \A a, b \in 1 .. Len(v.ar) : a < b => v.ar[a].io < v.ar[b].io /\ MemberOpen(v, a)
    BY <1>1, <1>3, <1>4 DEF Stacked
  <2> QED
    BY <1>1, <1>3, <2>1, <2>2, <2>3, <2>4 DEF Stacked
<1>7. Length(v, m + 1) = v.ar[n].prev.size
  BY <1>1, <1>3 DEF Length, MemberSize
<1> QED
  BY <1>1, <1>2, <1>3, <1>5, <1>6, <1>7 DEF Reading

\* An archive notes that its entry is open.
LEMMA MarkedReading ==
  ASSUME NEW w, Reading(w)
  PROVE  LET n == Len(w.ar)
             v == [w EXCEPT !.ar[n].input = TRUE] IN
         Reading(v) /\ Len(v.ar) = n /\ v.ar[n].prev = w.ar[n].prev
<1> DEFINE n == Len(w.ar)
           x == w.ar[n]
           y == [x EXCEPT !.input = TRUE]
<1>1. /\ Stacked(w) /\ IsWorld(w) /\ n \in Nat /\ n \in 1 .. n /\ Len(w.st) \in Nat
      /\ w.bug = FALSE /\ MemberOpen(w, n) /\ Len(w.st) = x.io + 1
      /\ Length(w, Len(w.st)) = x.prev.size
  BY Lengths DEF Reading, Stacked
<1>2. IsArchive(x)
  BY <1>1 DEF IsWorld
<1>3. IsArchive(y) /\ y.io = x.io /\ y.format = x.format /\ y.prev = x.prev
  BY <1>2, SetInput
<1>4. PICK v : v = [w EXCEPT !.ar[n].input = TRUE]
  OBVIOUS
<1>5. v = [st |-> w.st, ar |-> [w.ar EXCEPT ![n] = y], bug |-> w.bug, io |-> w.io]
  BY <1>1, <1>4 DEF IsWorld
<1>6. PICK T : w.ar \in Seq(T)
  BY <1>1 DEF IsWorld
<1>7. PICK t : t = [w.ar EXCEPT ![n] = y]
  OBVIOUS
<1> HIDE DEF y
<1>8. /\ t \in Seq(T \cup {y}) /\ Len(t) = n /\ t[n] = y
      /\ \A a \in 1 .. n : a # n => t[a] = w.ar[a]
  BY <1>1, <1>6, <1>7
<1>9. /\ v = [st |-> v.st, ar |-> v.ar, bug |-> v.bug, io |-> v.io]
      /\ v.st = w.st /\ v.ar = t /\ v.bug = w.bug
  BY <1>5, <1>7
<1>10. IsWorld(v)
  <2>1. \A a \in 1 .. Len(v.ar) : IsArchive(v.ar[a])
    BY <1>1, <1>3, <1>8, <1>9 DEF IsWorld
  <2> QED
    BY <1>1, <1>8, <1>9, <2>1 DEF IsWorld
<1>11. \A a \in 1 .. n : v.ar[a].io = w.ar[a].io
  BY <1>3, <1>8, <1>9
<1>12. \A a \in 1 .. n : MemberOpen(w, a) => MemberOpen(v, a)
  BY <1>9, <1>11 DEF MemberOpen
<1>13. Stacked(v)
  <2>1. Len(v.ar) = n
    BY <1>8, <1>9
  <2>2. \A k \in 2 .. Len(v.st) :
          /\ v.st[k].kind # "file"
          /\ v.st[k].kind = "member" => \E a \in 1 .. n : k = v.ar[a].io + 1
    <3> TAKE k \in 2 .. Len(v.st)
    <3>1. /\ w.st[k].kind # "file"
          /\ w.st[k].kind = "member" => \E a \in 1 .. n : k = w.ar[a].io + 1
      BY <1>1, <1>9 DEF Stacked
    <3> QED
      BY <1>9, <1>11, <3>1
  <2>3. \A a \in 1 .. n : v.ar[a].io \in 1 .. Len(v.st)
    BY <1>1, <1>9, <1>11 DEF Stacked
  <2>4. \A a, b \in 1 .. n : a < b => v.ar[a].io < v.ar[b].io /\ MemberOpen(v, a)
    BY <1>1, <1>11, <1>12 DEF Stacked
  <2>5. v.bug = FALSE /\ Len(v.st) >= 1 /\ v.st[1].kind = "file"
    BY <1>1, <1>9 DEF Stacked
  <2> QED
    BY <1>10, <2>1, <2>2, <2>3, <2>4, <2>5 DEF Stacked
<1>14. Length(v, Len(v.st)) = v.ar[n].prev.size
  <2>1. w.st[Len(w.st)].kind = "member" /\ w.st[Len(w.st)].ar = n
    BY <1>1 DEF MemberOpen
  <2> QED
    BY <1>1, <1>3, <1>8, <1>9, <2>1 DEF Length, MemberSize
<1> QED
  BY <1>1, <1>3, <1>4, <1>8, <1>9, <1>11, <1>12, <1>13, <1>14 DEF Reading

LEMMA EntryOpened ==
  ASSUME NEW w, Idle(w)
  PROVE  LET n == Len(w.ar)
             o == OpenCurrentEntry(w, n) IN
         /\ o.w.bug = FALSE
         /\ o.ok => /\ Reading(o.w) /\ Opening(o.w)
                    /\ Len(o.w.ar) = n /\ o.w.ar[n].prev = w.ar[n].prev
<1> DEFINE n == Len(w.ar)
           x == w.ar[n]
           s == [Stream("member") EXCEPT !.ar = n, !.start = x.cur, !.end = x.prev.size]
           p == Push(w, s)
<1>1. s.kind = "member" /\ s.ar = n /\ s.end = x.prev.size
  BY DEF Stream
<1>2. Reading(p) /\ p.ar = w.ar /\ p.bug = FALSE
  BY <1>1, MemberOnTop
<1>3. w.bug = FALSE /\ x.input = FALSE
  BY DEF Idle, Stacked
<1>4. \A v : Reading(v) => Opening(v)
  BY DEF Reading, Opening
<1>5. CASE x.format # "tar"
  BY <1>2, <1>4, <1>5 DEF OpenCurrentEntry, Answer
<1>6. CASE x.format = "tar" /\ x.cur = 0
  BY <1>3, <1>6 DEF OpenCurrentEntry, Answer
<1>7. CASE x.format = "tar" /\ x.cur # 0
  <2>1. [p EXCEPT !.bug = @ \/ x.input] = p
    BY <1>2, <1>3 DEF Reading, Stacked, IsWorld
  <2>2. PICK v : v = [p EXCEPT !.ar[n].input = TRUE]
    OBVIOUS
  <2>3. Reading(v) /\ Len(v.ar) = n /\ v.ar[n].prev = x.prev
    BY <1>2, <2>2, MarkedReading
  <2>4. [p EXCEPT !.bug = @ \/ x.input, !.ar[n].input = TRUE] = v
    BY <2>1, <2>2
  <2>5. v.bug = FALSE
    BY <2>3 DEF Reading, Stacked
  <2>6. OpenCurrentEntry(w, n) = [w |-> v, ok |-> TRUE]
    BY <1>7, <2>4 DEF OpenCurrentEntry, Answer
  <2> QED
    BY <1>4, <2>3, <2>5, <2>6
<1> QED
  BY <1>5, <1>6, <1>7

-----------------------------------------------------------------------------
(* What is on top when it has been unpacked, and what is made of it. *)

\* However much is closed, there is nothing to complain about.
LEMMA CloseComplainsNot ==
  ASSUME NEW w, IsWorld(w)
  PROVE  Close(w).bug = w.bug
<1> DEFINE k == LowestOwned(w) - 1
           b == Below(w, k)
<1>1. \E s, z : b = [st |-> s, ar |-> w.ar, bug |-> w.bug, io |-> z]
  <2>1. b = [[w EXCEPT !.st = SubSeq(w.st, 1, k)]
               EXCEPT !.io = [w.io EXCEPT !.at = SubSeq(w.io.at, 1, k)]]
    BY DEF IsWorld, Below
  <2> QED
    BY <2>1 DEF IsWorld
<1> HIDE DEF b
<1>2. b.bug = w.bug
  BY <1>1
<1>3. \A a : [b EXCEPT !.ar[a].input = FALSE].bug = b.bug
  BY <1>1
<1> QED
  BY <1>2, <1>3 DEF Close, b

LEMMA NewFromInputOpens ==
  ASSUME NEW w, Opening(w), NEW known
  PROVE  LET r == NewFromInput(w, known) IN
         /\ r.w.bug = FALSE
         /\ r.ok => Idle(r.w)
<1>1. \A r : Creation(w, r) => r.w.bug = FALSE /\ (r.ok => Idle(r.w))
  BY DEF Creation, Idle, Opening, Stacked
<1>2. Creation(w, Identify(w))
  BY Identified
<1>3. LET r == OrClose(Identify(w)) IN r.w.bug = FALSE /\ (r.ok => Idle(r.w))
  <2>1. PICK i : i = Identify(w)
    OBVIOUS
  <2>2. CASE i.ok
    BY <1>1, <1>2, <2>1, <2>2 DEF OrClose
  <2>3. CASE ~i.ok
    <3>1. IsWorld(i.w) /\ i.w.bug = FALSE
      BY <1>2, <2>1, <2>3 DEF Creation, Opening, Stacked
    <3>2. Close(i.w).bug = FALSE
      BY <3>1, CloseComplainsNot
    <3> QED
      BY <2>1, <2>3, <3>2 DEF OrClose, Created
  <2> QED
    BY <2>2, <2>3
<1>4. Creation(w, CreateTAR(w)) /\ Creation(w, CreatePCK(w)) /\ Creation(w, CreatePKG(w))
  BY TarCreation, PckCreation
<1> QED
  BY <1>1, <1>3, <1>4 DEF NewFromInput

LEMMA UnpackedOpens ==
  ASSUME NEW w, Opening(w)
  PROVE  Opening(NewCompressedStream(w)) /\ Len(NewCompressedStream(w).ar) = Len(w.ar)
<1> DEFINE r == ReadFrom(w, Len(w.st), 1)
           b == SeekIn(r.w, Len(w.st), 0)
<1>1. IsWorld(w)
  BY DEF Opening, Stacked
<1>2. Opening(r.w) /\ Opening(b.w)
  BY OpeningStays
<1>3. IsWorld(r.w) /\ IsWorld(b.w)
  BY <1>2 DEF Opening, Stacked
<1>4. b.w.ar = w.ar
  BY <1>1, <1>3, ReadingOpensNothing, SeekingOpensNothing
<1>5. \A kind : kind \in {"bz2", "xz"} =>
        Opening(Push(b.w, Stream(kind))) /\ Push(b.w, Stream(kind)).ar = b.w.ar
  <2> TAKE kind
  <2> HAVE kind \in {"bz2", "xz"}
  <2>1. Stream(kind).kind \notin {"file", "member"}
    BY DEF Stream
  <2> QED
    BY <1>2, <1>3, <2>1, PushOpening, Pushed
<1> HIDE DEF b, r
<1>6. NewCompressedStream(w) = SoughtBack(r, b)
  BY DEF NewCompressedStream, Sniffed, r, b
<1> QED
  BY <1>2, <1>4, <1>5, <1>6 DEF SoughtBack

LEMMA FileOpens ==
  ASSUME NEW data, NEW fails
  PROVE  Opening(World(data, fails)) /\ Len(World(data, fails).ar) = 0
<1> DEFINE f == [Stream("file") EXCEPT !.data = data]
           v == World(data, fails)
<1>1. f.kind = "file"
  BY DEF Stream
<1> HIDE DEF f
<1>2. v.st = <<f>> /\ v.ar = <<>> /\ v.bug = FALSE
  BY DEF World, f
<1>3. v = [st |-> v.st, ar |-> v.ar, bug |-> v.bug, io |-> v.io]
  BY DEF World
<1> HIDE DEF v
<1>4. v.st \in Seq({f}) /\ v.ar \in Seq({f}) /\ Len(v.st) = 1 /\ Len(v.ar) = 0 /\ v.st[1] = f
  BY <1>2
<1>5. IsWorld(v)
  BY <1>3, <1>4 DEF IsWorld
<1>6. Stacked(v)
  BY <1>1, <1>2, <1>4, <1>5 DEF Stacked
<1> QED
  BY <1>4, <1>6 DEF Opening, v

-----------------------------------------------------------------------------
(* The inductive invariant. *)

\* The installation is where it can be, in a pass that there is.
Placed ==
  /\ disk \in Disks
  /\ pc \in Looking \cup {"open", "unpack", "identify", "enumerate", "drill", "entry",
                         "copy", "finish", "done", "failed"}
  /\ pass \in 1 .. Len(disk.passes)

\* What is open is what the step that comes next works with.
Open ==
  /\ world.bug = FALSE
  /\ pc = "open" => Len(world.ar) = 0
  /\ pc \in {"open", "unpack", "identify"} => Opening(world)
  /\ pc \in Looking \cup {"enumerate", "drill", "entry", "finish", "done"} => Idle(world)
  /\ pc = "copy" => Reading(world)
  /\ pc = "done" => Len(world.ar) = 1

\* What is being installed is wanted.
Wants == pc \in {"entry", "copy"} => world.ar[Top].prev.name \in Wanted.names

\* What was installed was wanted, and a pass that wants one file has none of it
\* until it is over.
Installed ==
  /\ \E T : installed \in Seq(T)
  /\ \A i \in 1 .. Len(installed) :
       /\ installed[i].pass \in 1 .. pass
       /\ installed[i].name \in disk.passes[installed[i].pass].names
  /\ \A i, j \in 1 .. Len(installed) :
       installed[i].pass = installed[j].pass /\ disk.passes[installed[i].pass].single => i = j
  /\ pc \notin {"finish", "done", "failed"} /\ Wanted.single =>
       \A i \in 1 .. Len(installed) : installed[i].pass # pass

IInv == Placed /\ Open /\ Wants /\ Installed

LEMMA IInvSuffices == IInv => Tidy
<1> SUFFICES ASSUME IInv PROVE Tidy
  OBVIOUS
<1> USE DEF IInv
<1>1. TypeOK
  <2>1. pc # "failed" => Stacked(world)
    BY DEF Placed, Open, Looking, Opening, Idle, Reading
  <2> QED
    BY <2>1 DEF TypeOK, Placed, Stacked
<1>2. AllClosed
  BY DEF AllClosed, Open, Idle, TopStream
<1>3. OneAtATime
  BY DEF OneAtATime, Open
<1>4. CopiesTheEntry
  BY DEF CopiesTheEntry, Open, Reading, Top, TopStream
<1>5. OnlyWanted
  BY DEF OnlyWanted, Installed
<1> QED
  BY <1>1, <1>2, <1>3, <1>4, <1>5 DEF Tidy

LEMMA IInvInit == Init => IInv
<1> SUFFICES ASSUME Init PROVE IInv
  OBVIOUS
<1>1. PICK f \in Fails : world = World(disk.file, f)
  BY DEF Init
<1>2. Opening(world) /\ Len(world.ar) = 0
  BY <1>1, FileOpens
<1>3. Open
  BY <1>2 DEF Init, Open, Looking, Opening, Stacked
<1>4. Placed
  <2>1. disk \in Disks /\ pc = "open" /\ pass = 1
    BY DEF Init
  <2>2. Len(disk.passes) \in Nat \ {0}
    BY <2>1, PassesAssumption
  <2> QED
    BY <2>1, <2>2 DEF Placed, Looking
<1>5. Installed
  <2>1. installed = <<>>
    BY DEF Init
  <2>2. Len(installed) = 0 /\ installed \in Seq({0})
    BY <2>1
  <2> QED
    BY <2>2 DEF Installed
<1>6. Wants
  BY DEF Init, Wants
<1> QED
  BY <1>3, <1>4, <1>5, <1>6 DEF IInv

\* As long as nothing is installed and the pass goes on, what was installed stays
\* as it should be.
LEMMA InstalledStays ==
  ASSUME Installed, UNCHANGED <<disk, pass, installed>>,
         pc \in {"finish", "done", "failed"} => pc' \in {"finish", "done", "failed"}
  PROVE  Installed'
BY DEF Installed, Wanted

\* One more is installed, which is the last if one is wanted.
LEMMA OneInstalled ==
  ASSUME Placed, Installed, pc \notin {"finish", "done", "failed"},
         UNCHANGED <<disk, pass>>, pc' = AfterInstall,
         NEW name \in Wanted.names, NEW data,
         installed' = Append(installed, [pass |-> pass, name |-> name, data |-> data])
  PROVE  Installed'
<1> DEFINE x == [pass |-> pass, name |-> name, data |-> data]
           n == Len(installed)
<1>1. PICK T : installed \in Seq(T)
  BY DEF Installed
<1>2. /\ installed' \in Seq(T \cup {x}) /\ Len(installed') = n + 1 /\ n \in Nat
      /\ installed'[n + 1] = x /\ \A i \in 1 .. n : installed'[i] = installed[i]
  BY <1>1
<1>3. x.pass = pass /\ x.name = name
  OBVIOUS
<1> HIDE DEF x
<1>4. pass \in 1 .. pass
  BY DEF Placed
<1>5. \A i \in 1 .. Len(installed') : i = n + 1 \/ i \in 1 .. n
  BY <1>2
<1>6. \A i \in 1 .. Len(installed') :
        /\ installed'[i].pass \in 1 .. pass'
        /\ installed'[i].name \in disk'.passes[installed'[i].pass].names
  BY <1>2, <1>3, <1>4, <1>5 DEF Installed, Wanted
<1>7. \A i, j \in 1 .. Len(installed') :
        installed'[i].pass = installed'[j].pass
        /\ disk'.passes[installed'[i].pass].single => i = j
  <2>1. Wanted.single => \A i \in 1 .. n : installed[i].pass # pass
    BY DEF Installed
  <2> QED
    BY <1>2, <1>3, <1>5, <2>1 DEF Installed, Wanted
<1>8. ~(pc' \notin {"finish", "done", "failed"} /\ Wanted'.single)
  BY DEF AfterInstall, Wanted
<1> QED
  BY <1>2, <1>6, <1>7, <1>8 DEF Installed

-----------------------------------------------------------------------------
(* The steps. *)

LEMMA OpenBaseKeeps == IInv /\ OpenBase => IInv'
<1> SUFFICES ASSUME IInv, OpenBase PROVE IInv'
  OBVIOUS
<1> USE DEF IInv
<1>1. pc = "open" /\ pc' = "unpack" /\ UNCHANGED <<disk, pass, installed>>
  BY DEF OpenBase
<1>2. Opening(world)
  BY <1>1 DEF Open
<1>3. Opening(world')
  <2> DEFINE sub == [Stream("subset") EXCEPT !.start = disk.start,
                                             !.end = Len(Content[disk.file]) - 1]
  <2>1. sub.kind \notin {"file", "member"}
    BY DEF Stream
  <2>2. Opening(Push(SeekIn(world, 1, disk.start).w, sub))
    BY <1>2, <2>1, OpeningStays, PushOpening
  <2> QED
    BY <1>2, <2>2 DEF OpenBase
<1>4. Open'
  BY <1>1, <1>3 DEF Open, Looking, Opening, Stacked
<1>5. Placed' /\ Wants'
  BY <1>1 DEF Placed, Wants, Looking
<1>6. Installed'
  BY <1>1, InstalledStays
<1> QED
  BY <1>4, <1>5, <1>6

LEMMA UnpackKeeps == IInv /\ Unpack => IInv'
<1> SUFFICES ASSUME IInv, Unpack PROVE IInv'
  OBVIOUS
<1> USE DEF IInv
<1>1. /\ pc = "unpack" /\ pc' = "identify" /\ UNCHANGED <<disk, pass, installed>>
      /\ world' = NewCompressedStream(world)
  BY DEF Unpack
<1>2. Opening(world')
  BY <1>1, UnpackedOpens DEF Open
<1>3. Open'
  BY <1>1, <1>2 DEF Open, Looking, Opening, Stacked
<1>4. Placed' /\ Wants'
  BY <1>1 DEF Placed, Wants, Looking
<1>5. Installed'
  BY <1>1, InstalledStays
<1> QED
  BY <1>3, <1>4, <1>5

LEMMA NewArchiveKeeps == IInv /\ NewArchive => IInv'
<1> SUFFICES ASSUME IInv, NewArchive PROVE IInv'
  OBVIOUS
<1> USE DEF IInv
<1>1. PICK r : /\ r = NewFromInput(world, ext) /\ world' = r.w
               /\ pc' = IF r.ok THEN "enumerate" ELSE "failed"
  BY DEF NewArchive
<1>2. pc = "identify" /\ UNCHANGED <<disk, pass, installed>>
  BY DEF NewArchive
<1>3. world'.bug = FALSE /\ (r.ok => Idle(world'))
  BY <1>1, <1>2, NewFromInputOpens DEF Open
<1>4. Open'
  BY <1>1, <1>3 DEF Open, Looking
<1>5. Placed' /\ Wants'
  BY <1>1, <1>2 DEF Placed, Wants, Looking
<1>6. Installed'
  BY <1>2, InstalledStays
<1> QED
  BY <1>4, <1>5, <1>6

\* A round of looking comes to an end, to an entry, or to another round.
LEMMA LookFinds == Look.found \in {"end", "entry"} \cup Looking
<1> DEFINE Found == {"end", "entry"} \cup Looking
<1>1. \A l, a, size : LongNameRead(l, a, size).found \in Found
  BY DEF LongNameRead, NoMore, Again, Looking
<1>2. /\ \A w, a, head, name, cur, next : OneMore(w, a, head, name, cur, next).found \in Found
      /\ \A w : NoMore(w).found \in Found
      /\ \A w : Again(w, "zeroes").found \in Found
  BY DEF OneMore, NoMore, Again, Looking
<1> HIDE DEF Found
<1>3. \A r, a : TarBlock(r, a).found \in Found
  BY <1>1, <1>2, Zenon DEF TarBlock
<1>4. \A w, a : NextBlock(w, a).found \in Found
  BY <1>3 DEF NextBlock
<1>5. \A w, a : TarHeader(w, a).found \in Found
  BY <1>2, <1>4, Zenon DEF TarHeader, TarSought
<1>6. \A w, a : NextTar(w, a).found \in Found
  BY <1>5 DEF NextTar
<1>7. \A w, a : NextPck(w, a).found \in Found
  <2>1. \A s, a : PckSought(s, a).found \in Found
    BY <1>2 DEF PckSought
  <2> QED
    BY <1>2, <2>1 DEF NextPck
<1>8. \A w, a : NextPkg(w, a).found \in Found
  <2>1. \A r, a : PkgHeader(r, a).found \in Found
    BY <1>2 DEF PkgHeader
  <2> QED
    BY <1>2, <2>1 DEF NextPkg, PkgSought
<1> QED
  BY <1>4, <1>5, <1>6, <1>7, <1>8 DEF Look, EnumNext, Found

LEMMA TopIsOpen ==
  ASSUME Idle(world)
  PROVE  /\ IsWorld(world) /\ Top \in 1 .. Len(world.ar) /\ world.bug = FALSE
         /\ world.ar[Top].input = FALSE
BY Lengths DEF Idle, Stacked, Top

LEMMA StartEnumerationKeeps == IInv /\ StartEnumeration => IInv'
<1> SUFFICES ASSUME IInv, StartEnumeration PROVE IInv'
  OBVIOUS
<1> USE DEF IInv
<1>1. PICK r : /\ r = Enumerate(world, Top) /\ world' = r.w
               /\ pc' = IF r.ok THEN "next" ELSE "failed"
  BY DEF StartEnumeration
<1>2. pc = "enumerate" /\ UNCHANGED <<disk, pass, installed>>
  BY DEF StartEnumeration
<1>3. Idle(world)
  BY <1>2 DEF Open
<1>4. Same(world, world')
  BY <1>1, <1>3, TopIsOpen, EnumerateKeeps
<1>5. Idle(world')
  BY <1>3, <1>4, SameStack
<1>6. Open'
  BY <1>1, <1>5 DEF Open, Looking, Idle, Stacked
<1>7. Placed' /\ Wants'
  BY <1>1, <1>2 DEF Placed, Wants, Looking
<1>8. Installed'
  BY <1>2, InstalledStays
<1> QED
  BY <1>6, <1>7, <1>8

LEMMA DrillNextKeeps == IInv /\ DrillNext => IInv'
<1> SUFFICES ASSUME IInv, DrillNext PROVE IInv'
  OBVIOUS
<1> USE DEF IInv
<1>1. PICK r :
        /\ r = Look /\ world' = r.w
        /\ \/ pc' \in {"failed", "drill", "next"}
           \/ pc' = r.found /\ r.found \notin {"end", "entry"}
  BY DEF DrillNext
<1>2. pc \in Looking /\ UNCHANGED <<disk, pass, installed>>
  BY DEF DrillNext
<1>3. Idle(world)
  BY <1>2 DEF Open
<1>4. Idle(world')
  BY <1>1, <1>3, TopIsOpen, LookKeeps, SameStack
<1>5. pc' \in {"failed", "drill"} \cup Looking
  BY <1>1, LookFinds DEF Looking
<1>6. Open'
  BY <1>4, <1>5 DEF Open, Looking, Idle, Stacked
<1>7. Placed' /\ Wants'
  BY <1>2, <1>5 DEF Placed, Wants, Looking
<1>8. Installed'
  BY <1>2, InstalledStays DEF Looking
<1> QED
  BY <1>6, <1>7, <1>8

LEMMA OpenInnerKeeps == IInv /\ OpenInner => IInv'
<1> SUFFICES ASSUME IInv, OpenInner PROVE IInv'
  OBVIOUS
<1> USE DEF IInv
<1>1. PICK o : /\ o = OpenCurrentEntry(world, Top) /\ world' = o.w
               /\ pc' = IF o.ok THEN "unpack" ELSE "failed"
  BY DEF OpenInner
<1>2. pc = "drill" /\ UNCHANGED <<disk, pass, installed>>
  BY DEF OpenInner
<1>3. world'.bug = FALSE /\ (o.ok => Opening(world'))
  BY <1>1, <1>2, EntryOpened DEF Open, Top
<1>4. Open'
  BY <1>1, <1>3 DEF Open, Looking
<1>5. Placed' /\ Wants'
  BY <1>1, <1>2 DEF Placed, Wants, Looking
<1>6. Installed'
  BY <1>2, InstalledStays
<1> QED
  BY <1>4, <1>5, <1>6

LEMMA InstallNextKeeps == IInv /\ InstallNext => IInv'
<1> SUFFICES ASSUME IInv, InstallNext PROVE IInv'
  OBVIOUS
<1> USE DEF IInv
<1> DEFINE e == Look.w.ar[Top].prev
<1>1. world' = Look.w /\ pc \in Looking /\ UNCHANGED <<disk, pass>>
  BY DEF InstallNext
<1>2. \/ pc' \in {"finish", "next"} /\ UNCHANGED installed
      \/ /\ pc' = Look.found /\ Look.found \notin {"end", "entry"} /\ UNCHANGED installed
      \/ pc' = "entry" /\ e.name \in Wanted.names /\ UNCHANGED installed
      \/ /\ pc' = AfterInstall /\ e.name \in Wanted.names
         /\ installed' = Append(installed, [pass |-> pass, name |-> e.name, data |-> <<>>])
  BY DEF InstallNext
<1> HIDE DEF e
<1>3. Idle(world)
  BY <1>1 DEF Open
<1>4. Same(world, world')
  BY <1>1, <1>3, TopIsOpen, LookKeeps
<1>5. Idle(world')
  BY <1>3, <1>4, SameStack
<1>6. pc' \in {"finish", "entry"} \cup Looking
  BY <1>2, LookFinds DEF Looking, AfterInstall
<1>7. Open'
  BY <1>5, <1>6 DEF Open, Looking, Idle, Stacked
<1>8. Placed'
  BY <1>1, <1>6 DEF Placed, Looking
<1>9. Wants'
  <2>1. Top' = Top
    BY <1>4 DEF Same, Top
  <2>2. world'.ar[Top'].prev = e
    BY <1>1, <2>1 DEF e
  <2>3. pc' \in {"entry", "copy"} => pc' = "entry" /\ e.name \in Wanted.names
    BY <1>2, <1>6, LookFinds DEF Looking, AfterInstall
  <2>4. Wanted' = Wanted
    BY <1>1 DEF Wanted
  <2> QED
    BY <2>2, <2>3, <2>4 DEF Wants
<1>10. Installed'
  <2>1. pc \notin {"finish", "done", "failed"}
    BY <1>1 DEF Looking
  <2>2. CASE UNCHANGED installed
    BY <1>1, <2>1, <2>2, InstalledStays
  <2>3. CASE /\ pc' = AfterInstall /\ e.name \in Wanted.names
             /\ installed' = Append(installed, [pass |-> pass, name |-> e.name, data |-> <<>>])
    BY <1>1, <2>1, <2>3, OneInstalled
  <2> QED
    BY <1>2, <2>2, <2>3
<1> QED
  BY <1>7, <1>8, <1>9, <1>10

LEMMA OpenEntryKeeps == IInv /\ OpenEntry => IInv'
<1> SUFFICES ASSUME IInv, OpenEntry PROVE IInv'
  OBVIOUS
<1> USE DEF IInv
<1>1. PICK o : /\ o = OpenCurrentEntry(world, Top) /\ world' = o.w
               /\ pc' = IF o.ok THEN "copy" ELSE "failed"
  BY DEF OpenEntry
<1>2. pc = "entry" /\ UNCHANGED <<disk, pass, installed>>
  BY DEF OpenEntry
<1>3. /\ world'.bug = FALSE
      /\ o.ok => /\ Reading(world') /\ Len(world'.ar) = Top
                 /\ world'.ar[Top].prev = world.ar[Top].prev
  BY <1>1, <1>2, EntryOpened DEF Open, Top
<1>4. Open'
  BY <1>1, <1>3 DEF Open, Looking
<1>5. Placed'
  BY <1>1, <1>2 DEF Placed, Looking
<1>6. Wants'
  BY <1>1, <1>2, <1>3 DEF Wants, Wanted, Top
<1>7. Installed'
  BY <1>2, InstalledStays
<1> QED
  BY <1>4, <1>5, <1>6, <1>7

LEMMA CopyKeeps == IInv /\ Copy => IInv'
<1> SUFFICES ASSUME IInv, Copy PROVE IInv'
  OBVIOUS
<1> USE DEF IInv
<1> DEFINE name == world.ar[Top].prev.name
<1>1. pc = "copy" /\ UNCHANGED <<disk, pass>>
  BY DEF Copy
<1>2. Reading(world) /\ name \in Wanted.names
  BY <1>1 DEF Open, Wants
<1>3. PICK r : /\ \E n : r = Got(world, <<>>) \/ r = ReadFrom(world, TopStream, n)
               /\ \/ world' = r.w /\ UNCHANGED <<pc, installed>>
                  \/ /\ world' = Close(r.w)
                     /\ \/ /\ installed' = Append(installed,
                                [pass |-> pass, name |-> name, data |-> written])
                           /\ pc' = AfterInstall
                        \/ pc' = "failed" /\ UNCHANGED installed
  BY DEF Copy
<1>4. Reading(r.w) /\ r.w.ar = world.ar
  BY <1>2, <1>3, ReadingStays DEF Got
<1>5. Idle(Close(r.w))
  BY <1>4, CloseEndsReading
<1> HIDE DEF name
<1>6. CASE world' = r.w /\ UNCHANGED <<pc, installed>>
  <2>1. Open'
    BY <1>1, <1>4, <1>6 DEF Open, Looking, Reading, Stacked
  <2>2. Placed'
    BY <1>1, <1>6 DEF Placed
  <2>3. Wants'
    BY <1>1, <1>2, <1>4, <1>6 DEF Wants, Wanted, Top, name
  <2>4. Installed'
    BY <1>1, <1>6, InstalledStays
  <2> QED
    BY <2>1, <2>2, <2>3, <2>4
<1>7. CASE world' = Close(r.w)
  <2>1. pc' \in {"finish", "next", "failed"}
    <3>1. world' # r.w
      BY <1>4, <1>5, <1>7 DEF Reading, Idle
    <3> QED
      BY <1>3, <3>1 DEF AfterInstall
  <2>2. Open'
    BY <1>5, <1>7, <2>1 DEF Open, Looking, Idle, Stacked
  <2>3. Placed' /\ Wants'
    BY <1>1, <2>1 DEF Placed, Wants, Looking
  <2>4. Installed'
    <3>1. CASE /\ installed' = Append(installed,
                     [pass |-> pass, name |-> name, data |-> written])
               /\ pc' = AfterInstall
      BY <1>1, <1>2, <3>1, OneInstalled
    <3>2. CASE UNCHANGED installed
      BY <1>1, <3>2, InstalledStays
    <3> QED
      BY <1>3, <3>1, <3>2
  <2> QED
    BY <2>2, <2>3, <2>4
<1> QED
  BY <1>3, <1>6, <1>7

LEMMA CloseInnerKeeps == IInv /\ CloseInner => IInv'
<1> SUFFICES ASSUME IInv, CloseInner PROVE IInv'
  OBVIOUS
<1> USE DEF IInv
<1>1. /\ pc = "finish" /\ Top > 1 /\ world' = CloseArchive(world)
      /\ UNCHANGED <<disk, pc, pass, installed>>
  BY DEF CloseInner
<1>2. Idle(world')
  BY <1>1, CloseArchiveIsIdle DEF Open, Top
<1>3. Open'
  BY <1>1, <1>2 DEF Open, Looking, Idle, Stacked
<1>4. Placed' /\ Wants'
  BY <1>1 DEF Placed, Wants
<1>5. Installed'
  BY <1>1, InstalledStays
<1> QED
  BY <1>3, <1>4, <1>5

LEMMA FinishPassKeeps == IInv /\ FinishPass => IInv'
<1> SUFFICES ASSUME IInv, FinishPass PROVE IInv'
  OBVIOUS
<1> USE DEF IInv
<1>1. pc = "finish" /\ Top <= 1 /\ UNCHANGED <<disk, world, installed>>
  BY DEF FinishPass
<1>2. Idle(world) /\ Len(world.ar) = 1
  <2>1. Idle(world)
    BY <1>1 DEF Open
  <2>2. Len(world.ar) \in Nat
    BY <2>1, Lengths DEF Idle, Stacked
  <2>3. Len(world.ar) >= 1
    BY <2>1 DEF Idle
  <2>4. Len(world.ar) <= 1
    BY <1>1 DEF Top
  <2>5. \A n \in Nat : n >= 1 /\ n <= 1 => n = 1
    OBVIOUS
  <2>6. Len(world.ar) = 1
    BY <2>2, <2>3, <2>4, <2>5
  <2> QED
    BY <2>1, <2>6
<1>3. CASE pass = Len(disk.passes) /\ pc' = "done" /\ UNCHANGED pass
  <2>1. Open'
    BY <1>1, <1>2, <1>3 DEF Open, Looking, Idle, Stacked
  <2>2. Placed' /\ Wants'
    BY <1>1, <1>3 DEF Placed, Wants
  <2>3. Installed'
    BY <1>1, <1>3, InstalledStays
  <2> QED
    BY <2>1, <2>2, <2>3
<1>4. CASE pass # Len(disk.passes) /\ pc' = "enumerate" /\ pass' = pass + 1
  <2>1. Open'
    BY <1>1, <1>2, <1>4 DEF Open, Looking, Idle, Stacked
  <2>2. Len(disk.passes) \in Nat
    BY PassesAssumption DEF Placed
  <2>3. Placed' /\ Wants'
    BY <1>1, <1>4, <2>2 DEF Placed, Wants
  <2>4. Installed'
    BY <1>1, <1>4, <2>2 DEF Installed, Placed, Wanted
  <2> QED
    BY <2>1, <2>3, <2>4
<1> QED
  BY <1>3, <1>4 DEF FinishPass

LEMMA NextKeeps == IInv /\ [Next]_vars => IInv'
<1> SUFFICES ASSUME IInv, [Next]_vars PROVE IInv'
  OBVIOUS
<1>1. CASE UNCHANGED vars
  BY <1>1 DEF vars, IInv, Placed, Open, Wants, Installed, Wanted, Top
<1> QED
  BY <1>1, OpenBaseKeeps, UnpackKeeps, NewArchiveKeeps, StartEnumerationKeeps, DrillNextKeeps,
     OpenInnerKeeps, InstallNextKeeps, OpenEntryKeeps, CopyKeeps, CloseInnerKeeps,
     FinishPassKeeps DEF Next

-----------------------------------------------------------------------------
(* The theorems. *)

LEMMA AlwaysIInv == Spec => []IInv
BY IInvInit, NextKeeps, PTL DEF Spec

\* Whatever is in the archive, whatever reading and seeking it answer, and however
\* often it is drilled through and passed over: no entry is opened or enumerated
\* over an open one, what is copied is as long as the archive says its current entry
\* is, only what is wanted is installed, one file where one is wanted, and at the end
\* the archives that were drilled for are closed.
THEOREM AlwaysTidy == Spec => []Tidy
BY AlwaysIInv, IInvSuffices, PTL

\* A file that was copied counts as installed only at the length its archive gives
\* for it.
WholeFiles ==
  [][pc = "copy" /\ installed' # installed => Len(written) = world.ar[Top].prev.size]_vars

\* Whatever a read answers, a copy that came out shorter, or longer, than the entry
\* is not installed.
THEOREM OnlyWholeFiles == Spec => WholeFiles
<1>1. IInv /\ [Next]_vars =>
        [pc = "copy" /\ installed' # installed => Len(written) = world.ar[Top].prev.size]_vars
  <2> SUFFICES ASSUME IInv, Next, pc = "copy", installed' # installed
               PROVE  Len(written) = world.ar[Top].prev.size
    BY DEF vars
  <2>1. Copy
    BY DEF Next, OpenBase, Unpack, NewArchive, StartEnumeration, DrillNext, OpenInner,
           InstallNext, OpenEntry, CloseInner, FinishPass, Looking
  <2>2. Len(written) = Length(world, TopStream)
    BY <2>1 DEF Copy
  <2> QED
    BY <2>2 DEF IInv, Open, Reading, Top, TopStream
<1> QED
  BY <1>1, AlwaysIInv, PTL DEF Spec, WholeFiles
=============================================================================

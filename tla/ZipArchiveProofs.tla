-------------------------- MODULE ZipArchiveProofs --------------------------
(***************************************************************************)
(* Theorems about the resolution of zip entries, for any number of them    *)
(* and any archive.  The inductive invariant describes the stack of        *)
(* zip_resolve() calls: each call but the last waits for the entry its     *)
(* link names, no entry is in it twice, and an entry's offset has been     *)
(* moved exactly when its own call is past zip_parse_local().  The verdict *)
(* on an entry is compared with the chain of links in the archive, which   *)
(* is recursive: what is said of it is proved by a least counterexample.   *)
(***************************************************************************)
EXTENDS ZipArchive, SequenceTheorems, FiniteSetTheorems, WellFoundedInduction, TLAPS

Depth == 1 .. Len(stack)

\* Every call but the last is that of a link and waits for its target.
StackOK ==
  /\ phase \in {"idle", "crashed"} => stack = <<>>
  /\ phase \in {"parse", "link"} => stack # <<>>
  /\ phase = "link" => kind[Top] = "symlink"
  /\ \A i \in Depth :
       i < Len(stack) \/ phase = "return" =>
         kind[stack[i]] = "symlink" /\ target[stack[i]] \in Entry
  /\ \A i \in Depth : i < Len(stack) => target[stack[i]] = stack[i + 1]
  /\ phase = "return" /\ stack # <<>> /\ result =>
       resolved[target[Top]] = "RESOLVED"

\* The offset is that of the local header until zip_parse_local() has moved it.
OffsetOK ==
  \A e \in Entry :
    /\ resolved[e] \in Unresolved => offset[e] = 0
    /\ resolved[e] = "RESOLVING" =>
         offset[e] = IF phase = "parse" /\ e = Top THEN 0 ELSE 1

\* A link has its final entry exactly while it is resolved.
LinksOK ==
  \A e \in Entry :
    symlink[e] # NoEntry <=> kind[e] = "symlink" /\ resolved[e] = "RESOLVED"

\* The cursor of the enumeration is where the operations look for it.
CursorOK ==
  /\ prevEnum = "file" => enumIndex \in Entry
  /\ phase \notin {"idle", "crashed"} /\ caller = "enumNext" => enumIndex < N
  /\ phase \notin {"idle", "crashed"} /\ caller = "openRead" => enumIndex \in Entry \/ handle # NoEntry

IInv ==
  /\ TypeOK /\ RunsOnce /\ OffsetAtData /\ FinalIsNoLink
  /\ StackOK /\ OffsetOK /\ LinksOK /\ CursorOK

-----------------------------------------------------------------------------
(* The stack.                                                              *)

\* What a call added to the stack changes of it.
LEMMA PushFacts ==
  ASSUME NEW s \in Seq(Entry), NEW e \in Entry
  PROVE  /\ Append(s, e) \in Seq(Entry)
         /\ Len(Append(s, e)) = Len(s) + 1
         /\ Append(s, e)[Len(s) + 1] = e
         /\ \A i \in 1 .. Len(s) : Append(s, e)[i] = s[i]
         /\ Append(s, e) # <<>>
  OBVIOUS

\* What a call that returns leaves of it.
LEMMA PopFacts ==
  ASSUME NEW s \in Seq(Entry), s # <<>>
  PROVE  /\ Len(s) \in Nat \ {0}
         /\ s[Len(s)] \in Entry
         /\ SubSeq(s, 1, Len(s) - 1) \in Seq(Entry)
         /\ Len(SubSeq(s, 1, Len(s) - 1)) = Len(s) - 1
         /\ \A i \in 1 .. Len(s) - 1 : SubSeq(s, 1, Len(s) - 1)[i] = s[i]
         /\ SubSeq(s, 1, Len(s) - 1) = <<>> <=> Len(s) = 1
<1> DEFINE u == SubSeq(s, 1, Len(s) - 1)
<1>1. Len(s) \in Nat /\ Len(s) # 0
  BY EmptySeq
<1>2. \A i \in 1 .. Len(s) : s[i] \in Entry
  BY <1>1, ElementOfSeq
<1>3. \A i \in 1 .. Len(s) - 1 : s[i] \in Entry
  BY <1>1, <1>2
<1> DEFINE n == Len(s) - 1
<1>4. /\ n \in Nat /\ n - 1 + 1 = n /\ (1 <= n \/ n = 0)
      /\ \A i \in 1 .. n : 1 + i - 1 = i
  <2>1. n \in Nat
    BY <1>1
  <2> HIDE DEF n
  <2>2. n - 1 + 1 = n
    BY <2>1
  <2>3. 1 <= n \/ n = 0
    BY <2>1
  <2>4. \A i \in 1 .. n : 1 + i - 1 = i
    BY <2>1
  <2> QED
    BY <2>1, <2>2, <2>3, <2>4
<1>5. /\ u \in Seq(Entry)
      /\ Len(u) = IF 1 <= n THEN n - 1 + 1 ELSE 0
      /\ \A i \in 1 .. n - 1 + 1 : u[i] = s[1 + i - 1]
  <2>1. 1 \in Int /\ n \in Int
    BY <1>4
  <2> QED
    BY <1>3, <2>1, SubSeqProperties
<1>6. Len(u) = n /\ \A i \in 1 .. n : u[i] = s[i]
  <2> HIDE DEF u, n
  <2> QED
    BY <1>4, <1>5
<1>7. u = <<>> <=> Len(u) = 0
  BY <1>5, EmptySeq
<1> QED
  BY <1>1, <1>2, <1>5, <1>6, <1>7

-----------------------------------------------------------------------------
(* The invariant is inductive.                                             *)

\* An archive that has just been opened satisfies the invariant.
LEMMA InitInv == Init => IInv
<1> SUFFICES ASSUME Init PROVE IInv
  OBVIOUS
<1> USE ZipAssumption DEF Init
<1>1. TypeOK
  <2>1. /\ resolved \in [Entry -> Unresolved \cup Settled \cup {"RESOLVING"}]
        /\ symlink \in [Entry -> Entry \cup {NoEntry}]
        /\ linkdest \in [Entry -> BOOLEAN] /\ offset \in [Entry -> {0, 1}]
    BY DEF LoadEntry, Unresolved
  <2>2. stack \in Seq(Entry)
    OBVIOUS
  <2>3. enumIndex \in 0 .. N /\ handle \in Entry \cup {NoEntry}
    OBVIOUS
  <2> QED
    BY <2>1, <2>2, <2>3 DEF TypeOK
<1>2. RunsOnce
  BY DEF RunsOnce, LoadEntry
<1>3. OffsetAtData /\ FinalIsNoLink
  BY DEF OffsetAtData, FinalIsNoLink, LoadEntry, NoEntry
<1>4. StackOK
  BY DEF StackOK, Depth
<1>5. OffsetOK
  BY DEF OffsetOK, LoadEntry, Unresolved
<1>6. LinksOK /\ CursorOK
  BY DEF LinksOK, CursorOK, LoadEntry, NoEntry
<1> QED
  BY <1>1, <1>2, <1>3, <1>4, <1>5, <1>6 DEF IInv

\* A call of zip_resolve() for e: from the archive's operations, when nothing
\* runs, and from the link that runs last, which waits for e from now on.
LEMMA ResolveKeeps ==
  ASSUME IInv, NEW e \in Entry, Resolve(e),
         \/ phase = "idle"
         \/ phase = "link" /\ target[Top] = e,
         UNCHANGED <<archive, symlink, offset, outer, faulted>>,
         linkdest' \in [Entry -> BOOLEAN],
         caller' \in {"enumNext", "openRead"},
         phase # "idle" => caller' = caller,
         caller' = "enumNext" => enumIndex < N,
         caller' = "openRead" => enumIndex \in Entry \/ handle # NoEntry
  PROVE  IInv'
<1> USE DEF archive, outer, NoEntry
<1>1. TypeOK /\ RunsOnce /\ OffsetAtData /\ FinalIsNoLink /\ StackOK /\ OffsetOK
      /\ LinksOK /\ CursorOK
  BY DEF IInv
<1>2. Len(stack) \in Nat /\ stack \in Seq(Entry)
  BY <1>1 DEF TypeOK
<1>3. CASE Enter(e)
  <2>1. /\ resolved[e] \in Unresolved /\ resolved' = [resolved EXCEPT ![e] = "RESOLVING"]
        /\ stack' = Append(stack, e) /\ phase' = "parse" /\ result' = result
    BY <1>3 DEF Enter
  <2>2. /\ stack' \in Seq(Entry) /\ Len(stack') = Len(stack) + 1
        /\ stack'[Len(stack) + 1] = e /\ Top' = e /\ stack' # <<>>
        /\ \A i \in 1 .. Len(stack) : stack'[i] = stack[i]
    BY <2>1, <1>2, PushFacts DEF Top
  <2>3. \A x \in Entry : resolved'[x] = IF x = e THEN "RESOLVING" ELSE resolved[x]
    BY <2>1, <1>1 DEF TypeOK
  <2>4. resolved[e] # "RESOLVING" /\ resolved[e] # "RESOLVED"
    BY <2>1 DEF Unresolved
  <2>5. \A i \in 1 .. Len(stack) : stack[i] # e /\ stack[i] \in Entry
    BY <2>4, <1>1, <1>2 DEF RunsOnce
  <2>6. TypeOK'
    BY <1>1, <2>1, <2>2 DEF TypeOK
  <2>7. RunsOnce'
    <3>1. \A i, j \in 1 .. Len(stack') : stack'[i] = stack'[j] => i = j
      BY <1>1, <1>2, <2>2, <2>5 DEF RunsOnce
    <3>2. ASSUME NEW x \in Entry
          PROVE  resolved'[x] = "RESOLVING" <=> \E i \in 1 .. Len(stack') : stack'[i] = x
      <4>1. CASE x = e
        BY <4>1, <2>2, <2>3, <1>2
      <4>2. CASE x # e
        <5>1. resolved'[x] = "RESOLVING" <=> \E i \in 1 .. Len(stack) : stack[i] = x
          BY <4>2, <2>3, <1>1 DEF RunsOnce
        <5>2. (\E i \in 1 .. Len(stack) : stack[i] = x)
               <=> \E i \in 1 .. Len(stack') : stack'[i] = x
          BY <4>2, <2>2, <1>2
        <5> QED
          BY <5>1, <5>2
      <4> QED
        BY <4>1, <4>2
    <3> QED
      BY <3>1, <3>2 DEF RunsOnce
  <2>8. OffsetAtData' /\ FinalIsNoLink'
    BY <1>1, <2>1, <2>3, <2>4 DEF OffsetAtData, FinalIsNoLink, TypeOK
  <2>9. StackOK'
    <3>1. ASSUME NEW i \in Depth', i < Len(stack')
          PROVE  /\ kind'[stack'[i]] = "symlink" /\ target'[stack'[i]] \in Entry
                 /\ target'[stack'[i]] = stack'[i + 1]
      <4>1. i \in 1 .. Len(stack) /\ phase = "link" /\ stack'[i] = stack[i]
        BY <3>1, <1>1, <1>2, <2>2 DEF Depth, StackOK
      <4>2. CASE i < Len(stack)
        BY <4>1, <4>2, <1>1, <1>2, <2>2 DEF StackOK, Depth
      <4>3. CASE i = Len(stack)
        BY <4>1, <4>3, <1>1, <1>2, <2>2 DEF StackOK, Depth, Top
      <4> QED
        BY <4>1, <4>2, <4>3, <1>2
    <3> QED
      BY <3>1, <2>1, <2>2 DEF StackOK
  <2>10. OffsetOK'
    <3>1. ASSUME NEW x \in Entry
          PROVE  /\ resolved'[x] \in Unresolved => offset'[x] = 0
                 /\ resolved'[x] = "RESOLVING" => offset'[x] = IF x = e THEN 0 ELSE 1
      <4>1. CASE x = e
        BY <4>1, <1>1, <2>1, <2>3 DEF OffsetOK, Unresolved
      <4>2. CASE x # e
        <5>1. phase # "parse"
          OBVIOUS
        <5> QED
          BY <4>2, <5>1, <1>1, <2>3 DEF OffsetOK
      <4> QED
        BY <4>1, <4>2
    <3> QED
      BY <3>1, <2>1, <2>2 DEF OffsetOK
  <2>11. LinksOK' /\ CursorOK'
    <3>1. LinksOK'
      BY <1>1, <2>1, <2>3, <2>4 DEF LinksOK
    <3>2. CursorOK'
      BY <1>1, <2>1 DEF CursorOK
    <3> QED
      BY <3>1, <3>2
  <2> QED
    BY <2>6, <2>7, <2>8, <2>9, <2>10, <2>11 DEF IInv
<1>4. CASE Refuse(e)
  <2>1. /\ phase' = "return" /\ resolved' = resolved /\ stack' = stack
        /\ result' = (resolved[e] = "RESOLVED")
    BY <1>4 DEF Refuse
  <2>2. TypeOK'
    BY <1>1, <2>1 DEF TypeOK
  <2>3. RunsOnce' /\ OffsetAtData' /\ FinalIsNoLink' /\ LinksOK' /\ CursorOK'
    BY <1>1, <2>1 DEF RunsOnce, OffsetAtData, FinalIsNoLink, LinksOK, CursorOK
  <2>4. StackOK'
    <3>1. CASE phase = "idle"
      BY <3>1, <1>1, <2>1 DEF StackOK, Depth
    <3>2. CASE phase = "link"
      <4>1. kind[Top] = "symlink" /\ target[Top] = e /\ stack # <<>>
        BY <3>2, <1>1 DEF StackOK
      <4>2. ASSUME NEW i \in Depth
            PROVE  kind[stack[i]] = "symlink" /\ target[stack[i]] \in Entry
        BY <4>1, <1>1, <1>2 DEF StackOK, Depth, Top
      <4> QED
        BY <4>1, <4>2, <1>1, <2>1 DEF StackOK, Depth, Top
    <3> QED
      BY <3>1, <3>2
  <2>5. OffsetOK'
    BY <1>1, <2>1 DEF OffsetOK, Top
  <2> QED
    BY <2>2, <2>3, <2>4, <2>5 DEF IInv
<1> QED
  BY <1>3, <1>4 DEF Resolve

\* The end of the last zip_resolve(), whose entry has its offset at its data and,
\* if it is a link, its final entry.
LEMMA FinishKeeps ==
  ASSUME IInv, phase # "idle", stack # <<>>, NEW ok \in BOOLEAN, Finish(Top, ok),
         UNCHANGED <<archive, caller, outer>>,
         faulted' \in BOOLEAN, linkdest' \in [Entry -> BOOLEAN],
         offset' \in [Entry -> {0, 1}], symlink' \in [Entry -> Entry \cup {NoEntry}],
         \A x \in Entry : x # Top => offset'[x] = offset[x] /\ symlink'[x] = symlink[x],
         ok => offset'[Top] = 1,
         symlink'[Top] # NoEntry <=> ok /\ kind[Top] = "symlink",
         symlink'[Top] # NoEntry =>
           kind[symlink'[Top]] # "symlink" /\ resolved[symlink'[Top]] = "RESOLVED"
  PROVE  IInv'
<1> DEFINE t == Top
<1> USE DEF archive, outer, NoEntry
<1>1. TypeOK /\ RunsOnce /\ OffsetAtData /\ FinalIsNoLink /\ StackOK /\ OffsetOK
      /\ LinksOK /\ CursorOK
  BY DEF IInv
<1>2. /\ stack \in Seq(Entry) /\ Len(stack) \in Nat \ {0} /\ t \in Entry
      /\ stack' \in Seq(Entry) /\ Len(stack') = Len(stack) - 1
      /\ \A i \in 1 .. Len(stack) - 1 : stack'[i] = stack[i]
      /\ stack' = <<>> <=> Len(stack) = 1
  BY <1>1, PopFacts DEF TypeOK, Finish, Popped, Top
<1>3. /\ resolved' = [resolved EXCEPT ![t] =
             IF ok THEN "RESOLVED"
             ELSE IF kind[t] = "symlink" THEN "BROKEN_SYMLINK" ELSE "BROKEN_FILE"]
      /\ phase' = "return" /\ result' = ok
  BY DEF Finish
<1>4. /\ \A x \in Entry : x # t => resolved'[x] = resolved[x]
      /\ resolved'[t] \in Settled
      /\ resolved'[t] = "RESOLVED" <=> ok
  BY <1>1, <1>2, <1>3 DEF TypeOK, Settled, Broken
<1>5. \A i \in 1 .. Len(stack) - 1 : stack[i] # t /\ stack[i] \in Entry
  BY <1>1, <1>2 DEF RunsOnce, Top
<1>6. resolved[t] = "RESOLVING"
  BY <1>1, <1>2 DEF RunsOnce, Top
<1> HIDE DEF t
<1>7. TypeOK'
  <2>1. resolved' \in [Entry -> Unresolved \cup Settled \cup {"RESOLVING"}]
    BY <1>1, <1>2, <1>3 DEF TypeOK, Settled, Broken
  <2> QED
    BY <2>1, <1>1, <1>2, <1>3 DEF TypeOK
<1>8. RunsOnce'
  <2>1. \A i, j \in 1 .. Len(stack') : stack'[i] = stack'[j] => i = j
    BY <1>1, <1>2 DEF RunsOnce
  <2>2. ASSUME NEW x \in Entry
        PROVE  resolved'[x] = "RESOLVING" <=> \E i \in 1 .. Len(stack') : stack'[i] = x
    <3>1. CASE x = t
      BY <3>1, <1>2, <1>4, <1>5 DEF Settled, Broken
    <3>2. CASE x # t
      <4>1. resolved'[x] = "RESOLVING" <=> \E i \in 1 .. Len(stack) : stack[i] = x
        BY <3>2, <1>4, <1>1 DEF RunsOnce
      <4>2. stack[Len(stack)] # x
        BY <3>2 DEF t, Top
      <4>3. (\E i \in 1 .. Len(stack) : stack[i] = x)
             <=> \E i \in 1 .. Len(stack') : stack'[i] = x
        BY <4>2, <1>2
      <4> QED
        BY <4>1, <4>3
    <3> QED
      BY <3>1, <3>2
  <2> QED
    BY <2>1, <2>2 DEF RunsOnce
<1>9. OffsetAtData'
  BY <1>1, <1>4 DEF OffsetAtData, t
<1>10. FinalIsNoLink'
  <2>1. \A x \in Entry : resolved[x] = "RESOLVED" => resolved'[x] = "RESOLVED"
    BY <1>4, <1>6
  <2>2. ASSUME NEW x \in Entry, symlink'[x] # NoEntry
        PROVE  /\ kind[x] = "symlink" /\ kind[symlink'[x]] # "symlink"
               /\ resolved'[symlink'[x]] = "RESOLVED"
    <3>1. CASE x = t
      BY <3>1, <2>1, <2>2, <1>2 DEF t
    <3>2. CASE x # t
      BY <3>2, <2>1, <2>2, <1>1 DEF FinalIsNoLink, TypeOK, t
    <3> QED
      BY <3>1, <3>2
  <2> QED
    BY <2>2 DEF FinalIsNoLink
<1>11. StackOK'
  <2>1. ASSUME NEW i \in Depth'
        PROVE  /\ kind[stack'[i]] = "symlink" /\ target[stack'[i]] \in Entry
               /\ i < Len(stack') => target[stack'[i]] = stack'[i + 1]
               /\ i = Len(stack') => target[stack'[i]] = t
    <3>1. i \in 1 .. Len(stack) - 1 /\ i \in Depth /\ i < Len(stack)
      BY <1>2 DEF Depth
    <3>2. kind[stack[i]] = "symlink" /\ target[stack[i]] \in Entry
          /\ target[stack[i]] = stack[i + 1]
      BY <3>1, <1>1 DEF StackOK
    <3>3. stack'[i] = stack[i]
      BY <3>1, <1>2
    <3>4. i < Len(stack') => stack'[i + 1] = stack[i + 1]
      <4>1. i < Len(stack') => i + 1 \in 1 .. Len(stack) - 1
        BY <3>1, <1>2
      <4> QED
        BY <4>1, <1>2
    <3>5. i = Len(stack') => stack[i + 1] = t
      BY <3>1, <1>2 DEF t, Top
    <3> QED
      BY <3>2, <3>3, <3>4, <3>5
  <2>2. stack' # <<>> => Len(stack') \in Depth'
    BY <1>2 DEF Depth
  <2>3. stack' # <<>> /\ result' => resolved'[target[Top']] = "RESOLVED"
    BY <2>1, <2>2, <1>3, <1>4 DEF Top
  <2> QED
    BY <2>1, <2>3, <1>3 DEF StackOK
<1>12. OffsetOK'
  <2>1. ASSUME NEW x \in Entry
        PROVE  /\ resolved'[x] \in Unresolved => offset'[x] = 0
               /\ resolved'[x] = "RESOLVING" => offset'[x] = 1
    <3>1. CASE x = t
      BY <3>1, <1>4 DEF Unresolved, Settled, Broken
    <3>2. CASE x # t
      BY <3>2, <1>1, <1>4 DEF OffsetOK, t
    <3> QED
      BY <3>1, <3>2
  <2> QED
    BY <2>1, <1>3 DEF OffsetOK
<1>13. LinksOK'
  <2>1. ASSUME NEW x \in Entry
        PROVE  symlink'[x] # NoEntry <=> kind[x] = "symlink" /\ resolved'[x] = "RESOLVED"
    <3>1. CASE x = t
      BY <3>1, <1>4 DEF t
    <3>2. CASE x # t
      BY <3>2, <1>1, <1>4 DEF LinksOK, t
    <3> QED
      BY <3>1, <3>2
  <2> QED
    BY <2>1 DEF LinksOK
<1>14. CursorOK'
  BY <1>1, <1>3 DEF CursorOK, StackOK
<1> QED
  BY <1>7, <1>8, <1>9, <1>10, <1>11, <1>12, <1>13, <1>14 DEF IInv

\* The check of the local header keeps the invariant.
LEMMA ParseLocalKeeps == IInv /\ ParseLocal => IInv'
<1> SUFFICES ASSUME IInv, ParseLocal PROVE IInv'
  OBVIOUS
<1> USE DEF NoEntry
<1>1. TypeOK /\ RunsOnce /\ OffsetAtData /\ FinalIsNoLink /\ StackOK /\ OffsetOK
      /\ LinksOK /\ CursorOK
  BY DEF IInv
<1>2. /\ phase = "parse" /\ stack # <<>> /\ Top \in Entry
      /\ UNCHANGED <<archive, symlink, linkdest, caller, outer>>
  BY <1>1, PopFacts DEF ParseLocal, StackOK, TypeOK, Top
<1>3. resolved[Top] = "RESOLVING"
  BY <1>1, <1>2, PopFacts DEF RunsOnce, TypeOK, Top
<1>4. offset[Top] = 0 /\ symlink[Top] = NoEntry
  BY <1>1, <1>2, <1>3 DEF OffsetOK, LinksOK
<1>5. CASE /\ Top \in intact /\ faulted' = faulted
           /\ offset' = [offset EXCEPT ![Top] = @ + 1]
           /\ kind[Top] # "symlink" /\ Finish(Top, TRUE)
  <2>1. /\ offset' \in [Entry -> {0, 1}] /\ offset'[Top] = 1
        /\ \A x \in Entry : x # Top => offset'[x] = offset[x]
    BY <1>1, <1>2, <1>4, <1>5 DEF TypeOK
  <2> QED
    BY <1>1, <1>2, <1>4, <1>5, <2>1, FinishKeeps DEF TypeOK
<1>6. CASE /\ Top \in intact /\ faulted' = faulted
           /\ offset' = [offset EXCEPT ![Top] = @ + 1]
           /\ kind[Top] = "symlink" /\ phase' = "link"
           /\ UNCHANGED <<resolved, stack, result>>
  <2>1. /\ offset' \in [Entry -> {0, 1}] /\ offset'[Top] = 1
        /\ \A x \in Entry : x # Top => offset'[x] = offset[x]
    BY <1>1, <1>2, <1>4, <1>6 DEF TypeOK
  <2>2. TypeOK'
    BY <1>1, <1>2, <1>6, <2>1 DEF TypeOK, archive, outer
  <2>3. RunsOnce' /\ OffsetAtData' /\ FinalIsNoLink' /\ LinksOK' /\ CursorOK'
    BY <1>1, <1>2, <1>3, <1>6, <2>1
    DEF RunsOnce, OffsetAtData, FinalIsNoLink, LinksOK, CursorOK, archive, outer
  <2>4. StackOK'
    BY <1>1, <1>2, <1>6 DEF StackOK, Depth, Top, archive
  <2>5. OffsetOK'
    BY <1>1, <1>2, <1>3, <1>6, <2>1 DEF OffsetOK, Unresolved, Top
  <2> QED
    BY <2>2, <2>3, <2>4, <2>5 DEF IInv
<1>7. CASE Finish(Top, FALSE) /\ UNCHANGED offset /\ faulted' \in BOOLEAN
  BY <1>1, <1>2, <1>4, <1>7, FinishKeeps DEF TypeOK
<1> QED
  BY <1>1, <1>5, <1>6, <1>7 DEF ParseLocal, TypeOK

\* So does the reading of a link,
LEMMA ReadLinkKeeps == IInv /\ ReadLink => IInv'
<1> SUFFICES ASSUME IInv, ReadLink PROVE IInv'
  OBVIOUS
<1> USE DEF NoEntry
<1>1. TypeOK /\ RunsOnce /\ StackOK /\ OffsetOK /\ LinksOK
  BY DEF IInv
<1>2. /\ phase = "link" /\ stack # <<>> /\ Top \in Entry /\ kind[Top] = "symlink"
      /\ UNCHANGED <<archive, symlink, offset, caller, outer>>
  BY <1>1, PopFacts DEF ReadLink, StackOK, TypeOK, Top
<1>3. resolved[Top] = "RESOLVING"
  BY <1>1, <1>2, PopFacts DEF RunsOnce, TypeOK, Top
<1>4. symlink[Top] = NoEntry
  BY <1>1, <1>2, <1>3 DEF LinksOK
<1>5. linkdest' \in [Entry -> BOOLEAN] /\ faulted' \in BOOLEAN
  BY <1>1, <1>2 DEF ReadLink, TypeOK
<1>6. CASE Finish(Top, FALSE)
  BY <1>1, <1>2, <1>4, <1>5, <1>6, FinishKeeps DEF TypeOK
<1>7. CASE target[Top] # NoEntry /\ Resolve(target[Top]) /\ faulted' = faulted
  <2>1. target[Top] \in Entry
    BY <1>1, <1>2, <1>7 DEF TypeOK
  <2>2. /\ caller' = caller /\ caller \in {"enumNext", "openRead"}
        /\ caller = "enumNext" => enumIndex < N
        /\ caller = "openRead" => enumIndex \in Entry \/ handle # NoEntry
    BY <1>1, <1>2 DEF TypeOK, IInv, CursorOK
  <2> QED
    BY <1>2, <1>5, <1>7, <2>1, <2>2, ResolveKeeps
<1> QED
  BY <1>6, <1>7 DEF ReadLink

\* and its end once the entry it links to is settled,
LEMMA ResumeKeeps == IInv /\ Resume => IInv'
<1> SUFFICES ASSUME IInv, Resume PROVE IInv'
  OBVIOUS
<1> USE DEF NoEntry
<1>1. TypeOK /\ RunsOnce /\ FinalIsNoLink /\ StackOK /\ OffsetOK /\ LinksOK
  BY DEF IInv
<1>2. /\ phase = "return" /\ stack # <<>> /\ Finish(Top, result)
      /\ UNCHANGED <<archive, linkdest, offset, caller, outer, faulted>>
      /\ Len(stack) \in Depth /\ Top \in Entry
  BY <1>1, PopFacts DEF Resume, TypeOK, Top, Depth
<1>3. kind[Top] = "symlink" /\ target[Top] \in Entry
  BY <1>1, <1>2 DEF StackOK, Top
<1>4. resolved[Top] = "RESOLVING"
  BY <1>1, <1>2, PopFacts DEF RunsOnce, TypeOK, Top
<1>5. offset[Top] = 1
  BY <1>1, <1>2, <1>4 DEF OffsetOK
<1>6. result => /\ FollowSymlink(Top) \in Entry
                /\ kind[FollowSymlink(Top)] # "symlink"
                /\ resolved[FollowSymlink(Top)] = "RESOLVED"
  <2>1. result => resolved[target[Top]] = "RESOLVED"
    BY <1>1, <1>2 DEF StackOK
  <2>2. CASE symlink[target[Top]] = NoEntry
    BY <2>1, <2>2, <1>1, <1>3 DEF FollowSymlink, LinksOK
  <2>3. CASE symlink[target[Top]] # NoEntry
    BY <2>3, <1>1, <1>3 DEF FollowSymlink, FinalIsNoLink, TypeOK
  <2> QED
    BY <2>2, <2>3
<1>7. symlink' = [symlink EXCEPT ![Top] = IF result THEN FollowSymlink(Top) ELSE NoEntry]
  BY DEF Resume
<1>8. /\ symlink' \in [Entry -> Entry \cup {NoEntry}]
      /\ \A x \in Entry : x # Top => symlink'[x] = symlink[x]
      /\ symlink'[Top] = IF result THEN FollowSymlink(Top) ELSE NoEntry
  BY <1>1, <1>2, <1>6, <1>7 DEF TypeOK
<1>9. symlink'[Top] # NoEntry <=> result
  BY <1>6, <1>8 DEF Entry
<1> QED
  BY <1>1, <1>2, <1>3, <1>5, <1>6, <1>8, <1>9, FinishKeeps DEF TypeOK

\* and the return to the archive's operation.
LEMMA ReturnKeeps == IInv /\ Return => IInv'
<1> SUFFICES ASSUME IInv, Return PROVE IInv'
  OBVIOUS
<1> USE ZipAssumption DEF NoEntry, archive, table
<1>1. TypeOK /\ RunsOnce /\ OffsetAtData /\ FinalIsNoLink /\ StackOK /\ OffsetOK
      /\ LinksOK /\ CursorOK
  BY DEF IInv
<1>2. /\ phase = "return" /\ phase' \in {"idle", "crashed"} /\ stack = <<>>
      /\ UNCHANGED <<archive, table, stack, result, caller, faulted>>
  BY DEF Return, Answer
<1>3. CASE caller = "enumNext"
  <2>1. /\ enumIndex < N /\ handle' = handle
        /\ \/ enumIndex' = enumIndex /\ prevEnum' = prevEnum
           \/ enumIndex' = enumIndex + 1 /\ prevEnum' \in {"symlink", "file"}
    BY <1>1, <1>2, <1>3 DEF Return, Answer, CursorOK
  <2>2. enumIndex' \in 0 .. N /\ (enumIndex' # enumIndex => enumIndex' \in Entry)
    BY <2>1, <1>1 DEF TypeOK, Entry
  <2>3. TypeOK' /\ CursorOK'
    BY <1>1, <1>2, <2>1, <2>2 DEF TypeOK, CursorOK, Entry
  <2> QED
    BY <1>1, <1>2, <2>3
    DEF IInv, RunsOnce, OffsetAtData, FinalIsNoLink, StackOK, Depth, OffsetOK, LinksOK
<1>4. CASE caller # "enumNext"
  <2>1. /\ enumIndex' = enumIndex /\ prevEnum' = prevEnum
        /\ caller = "openRead"
    BY <1>1, <1>4 DEF Return, TypeOK
  <2>2. handle' \in Entry \cup {NoEntry}
    BY <1>1, <1>2, <1>4, <2>1 DEF Return, TypeOK, CursorOK
  <2>3. TypeOK' /\ CursorOK'
    BY <1>1, <1>2, <2>1, <2>2 DEF TypeOK, CursorOK
  <2> QED
    BY <1>1, <1>2, <2>3
    DEF IInv, RunsOnce, OffsetAtData, FinalIsNoLink, StackOK, Depth, OffsetOK, LinksOK
<1> QED
  BY <1>3, <1>4

\* Every step keeps the invariant.
LEMMA NextInv == IInv /\ [Next]_vars => IInv'
<1> SUFFICES ASSUME IInv, [Next]_vars PROVE IInv'
  OBVIOUS
<1> USE ZipAssumption DEF NoEntry
<1>1. TypeOK /\ RunsOnce /\ OffsetAtData /\ FinalIsNoLink /\ StackOK /\ OffsetOK
      /\ LinksOK /\ CursorOK
  BY DEF IInv
<1>2. ASSUME UNCHANGED <<archive, table, calls, faulted>>, TypeOK', CursorOK'
      PROVE  IInv'
  BY <1>1, <1>2
  DEF IInv, RunsOnce, OffsetAtData, FinalIsNoLink, StackOK, Depth, Top, OffsetOK,
      LinksOK, archive, table, calls
<1>3. CASE Enumerate
  BY <1>1, <1>2, <1>3
  DEF Enumerate, TypeOK, CursorOK, archive, table, calls
<1>4. CASE EnumNext
  <2>1. phase = "idle" /\ handle = NoEntry /\ UNCHANGED <<archive, handle>>
    BY <1>4 DEF EnumNext
  <2>2. CASE enumIndex = N
    BY <1>1, <1>2, <1>4, <2>1, <2>2 DEF EnumNext, TypeOK, CursorOK, archive, table, calls
  <2>3. CASE enumIndex # N
    <3>1. enumIndex + 1 \in Entry /\ enumIndex < N
      BY <2>3, <1>1 DEF TypeOK, Entry
    <3>2. CASE kind[enumIndex + 1] # "dir" /\ resolved[enumIndex + 1] = "UNRESOLVED_SYMLINK"
      <4>1. /\ Resolve(enumIndex + 1) /\ caller' = "enumNext"
            /\ UNCHANGED <<symlink, linkdest, offset, enumIndex, prevEnum, faulted>>
        BY <1>4, <2>3, <3>2 DEF EnumNext
      <4>2. linkdest' \in [Entry -> BOOLEAN]
        BY <4>1, <1>1 DEF TypeOK
      <4> QED
        BY <2>1, <3>1, <4>1, <4>2, ResolveKeeps DEF outer
    <3>3. CASE ~(kind[enumIndex + 1] # "dir" /\ resolved[enumIndex + 1] = "UNRESOLVED_SYMLINK")
      <4>1. /\ \/ prevEnum' \in {"dir", "symlink", "file"} /\ enumIndex' = enumIndex + 1
               \/ prevEnum' = prevEnum /\ enumIndex' = enumIndex
            /\ phase' \in {"idle", "crashed"}
            /\ UNCHANGED <<table, stack, result, caller, faulted>>
        BY <1>4, <2>1, <2>3, <3>3 DEF EnumNext, Answer, calls
      <4>2. TypeOK'
        BY <1>1, <2>1, <3>1, <4>1 DEF TypeOK, archive, table, Entry
      <4>3. CursorOK'
        BY <1>1, <2>1, <3>1, <4>1 DEF CursorOK, TypeOK
      <4>4. stack = <<>>
        BY <1>1, <2>1 DEF StackOK
      <4> QED
        BY <1>1, <2>1, <4>1, <4>2, <4>3, <4>4
        DEF IInv, archive, table, RunsOnce, OffsetAtData, FinalIsNoLink, StackOK, Depth,
            OffsetOK, LinksOK
    <3> QED
      BY <3>2, <3>3
  <2> QED
    BY <2>2, <2>3
<1>5. CASE OpenCurrentEntry
  <2>1. /\ phase = "idle" /\ enumIndex \in Entry /\ Resolve(enumIndex)
        /\ caller' = "openRead"
        /\ UNCHANGED <<archive, symlink, linkdest, offset, outer, faulted>>
    BY <1>1, <1>5 DEF OpenCurrentEntry, CursorOK
  <2>2. linkdest' \in [Entry -> BOOLEAN]
    BY <2>1, <1>1 DEF TypeOK
  <2> QED
    BY <2>1, <2>2, ResolveKeeps
<1>6. CASE Duplicate
  <2>1. /\ phase = "idle" /\ handle \in Entry /\ handle # NoEntry /\ Resolve(handle)
        /\ caller' = "openRead"
        /\ UNCHANGED <<archive, symlink, linkdest, offset, outer, faulted>>
    BY <1>1, <1>6 DEF Duplicate, TypeOK
  <2>2. linkdest' \in [Entry -> BOOLEAN]
    BY <2>1, <1>1 DEF TypeOK
  <2> QED
    BY <2>1, <2>2, ResolveKeeps
<1>7. CASE Close
  BY <1>1, <1>2, <1>7
  DEF Close, TypeOK, CursorOK, archive, table, calls
<1>8. CASE ParseLocal
  BY <1>8, ParseLocalKeeps
<1>9. CASE ReadLink
  BY <1>9, ReadLinkKeeps
<1>10. CASE Resume
  BY <1>10, ResumeKeeps
<1>11. CASE Return
  BY <1>11, ReturnKeeps
<1>12. CASE UNCHANGED vars
  BY <1>1, <1>2, <1>12
  DEF vars, outer, TypeOK, CursorOK, archive, table, calls
<1> QED
  BY <1>3, <1>4, <1>5, <1>6, <1>7, <1>8, <1>9, <1>10, <1>11, <1>12 DEF Next, Ending

\* zip_resolve() and zip_follow_symlink(), calling each other, keep IInv.
LEMMA Invariance == Spec => []IInv
  BY InitInv, NextInv, PTL DEF Spec

-----------------------------------------------------------------------------
(* The theorems.                                                           *)

\* The fields of the entries and of the cursor stay in their ranges; an offset,
\* in particular, is moved to the data at most once.
THEOREM TypeInvariant == Spec => []TypeOK
  BY Invariance, PTL DEF IInv

\* No entry is in two running calls: the recursion is never deeper than the
\* archive has entries, and an entry's RESOLVING mark goes with its call.
THEOREM NoSecondCall == Spec => []RunsOnce
  BY Invariance, PTL DEF IInv

\* What is read from a resolved entry starts at the entry's own data.
THEOREM ReadsFromData == Spec => []OffsetAtData
  BY Invariance, PTL DEF IInv

\* No step touches what is settled.
LEMMA SettledStep == IInv /\ [Next]_vars => [KeepsSettled]_vars
<1> SUFFICES ASSUME IInv, [Next]_vars, NEW e \in Entry, resolved[e] \in Settled
             PROVE  /\ resolved'[e] = resolved[e]
                    /\ symlink'[e] = symlink[e] /\ offset'[e] = offset[e]
  BY DEF KeepsSettled
<1>1. TypeOK /\ RunsOnce /\ StackOK
  BY DEF IInv
<1>2. resolved[e] # "RESOLVING" /\ resolved[e] \notin Unresolved
  BY DEF Settled, Broken, Unresolved
<1>3. ASSUME stack # <<>> PROVE e # Top
  BY <1>1, <1>2, <1>3, PopFacts DEF RunsOnce, TypeOK, Top
<1>4. ASSUME NEW x \in Entry, Resolve(x) PROVE resolved'[e] = resolved[e]
  BY <1>1, <1>2, <1>4 DEF Resolve, Enter, Refuse, TypeOK
<1>5. ASSUME stack # <<>>, NEW ok, Finish(Top, ok) PROVE resolved'[e] = resolved[e]
  BY <1>1, <1>3, <1>5 DEF Finish, TypeOK
<1>6. CASE Enumerate \/ Close \/ Return \/ UNCHANGED vars
  BY <1>6 DEF Enumerate, Close, Return, Answer, vars, table
<1>7. CASE EnumNext
  <2>1. ASSUME enumIndex # N PROVE enumIndex + 1 \in Entry
    BY <1>1, <2>1, ZipAssumption DEF TypeOK, Entry
  <2> QED
    BY <1>4, <1>7, <2>1 DEF EnumNext, Answer, table
<1>8. CASE OpenCurrentEntry
  <2>1. enumIndex \in Entry
    BY <1>8 DEF OpenCurrentEntry, IInv, CursorOK
  <2> QED
    BY <1>4, <1>8, <2>1 DEF OpenCurrentEntry
<1>9. CASE Duplicate
  <2>1. handle \in Entry
    BY <1>1, <1>9 DEF Duplicate, TypeOK
  <2> QED
    BY <1>4, <1>9, <2>1 DEF Duplicate
<1>10. CASE ParseLocal
  <2>1. stack # <<>>
    BY <1>1, <1>10 DEF ParseLocal, StackOK
  <2> QED
    BY <1>1, <1>3, <1>5, <1>10, <2>1 DEF ParseLocal, TypeOK
<1>11. CASE ReadLink
  <2>1. stack # <<>> /\ Top \in Entry
    BY <1>1, <1>11, PopFacts DEF ReadLink, StackOK, TypeOK, Top
  <2>2. target[Top] # NoEntry => target[Top] \in Entry
    BY <1>1, <2>1 DEF TypeOK
  <2> QED
    BY <1>4, <1>5, <1>11, <2>1, <2>2 DEF ReadLink
<1>12. CASE Resume
  BY <1>1, <1>3, <1>5, <1>12 DEF Resume, TypeOK
<1> QED
  BY <1>6, <1>7, <1>8, <1>9, <1>10, <1>11, <1>12 DEF Next, Ending

\* No step touches what is settled about an entry, whatever is opened, followed
\* or read afterwards.
THEOREM SettledStays == Spec => SettledForGood
  BY Invariance, SettledStep, PTL DEF Spec, SettledForGood

\* However long a chain of links is, the entry that stands for it is no link.
THEOREM LinksEndAtData == Spec => []FinalIsNoLink
  BY Invariance, PTL DEF IInv

\* The recursion marks the entries it is in, and no others, and ends in a circle
\* of links.
THEOREM CallsAreMarked == Spec => []CallsInProgress
  BY TypeInvariant, NoSecondCall, PTL DEF CallsInProgress

\* What is read from a resolved entry, or through a link, is a file's data.
THEOREM DataIsRead == Spec => []ReadsTheData
  BY ReadsFromData, LinksEndAtData, PTL DEF ReadsTheData

-----------------------------------------------------------------------------
(* Chains of links.  What is recursive is proved by a least counterexample. *)

\* A set of numbers that is not empty has a least one.
LEMMA Least ==
  ASSUME NEW S \in SUBSET Nat, S # {}
  PROVE  \E n \in S : \A m \in S : n <= m
<1>1. \E x \in S : \A y \in S : ~ (<<y, x>> \in OpToRel(<, Nat))
  BY NatLessThanWellFounded, WFMin, Zenon
<1>2. \A x, y \in Nat : x < y => <<x, y>> \in OpToRel(<, Nat)
  BY Zenon DEF OpToRel
<1>3. \E x \in S : \A y \in S : ~ (y < x)
  BY <1>1, <1>2, Zenon
<1> QED
  BY <1>3

\* Induction up to m, over a set instead of a predicate.
LEMMA UpTo ==
  ASSUME NEW S, NEW m \in Nat, 0 \in S, \A n \in 0 .. m - 1 : n \in S => n + 1 \in S
  PROVE  \A n \in 0 .. m : n \in S
<1> DEFINE Bad == {n \in 0 .. m : n \notin S}
<1> SUFFICES ASSUME Bad # {} PROVE FALSE
  OBVIOUS
<1>1. PICK n \in Bad : \A k \in Bad : n <= k
  BY Least, Bad \in SUBSET Nat
<1>2. n - 1 \in 0 .. m - 1 /\ n - 1 \notin Bad
  BY <1>1
<1> QED
  BY <1>1, <1>2

Link(x) == IF x = NoEntry THEN NoEntry ELSE target[x]
Follows(f, n) == [e \in Entry |-> IF n = 0 THEN e ELSE Link(f[n - 1][e])]
Somewhere == [Entry -> Entry \cup {NoEntry}]

\* Following a link leads to an entry or nowhere.
LEMMA FollowsOne ==
  ASSUME TypeOK, NEW n \in Nat, NEW f, n # 0 => f[n - 1] \in Somewhere
  PROVE  Follows(f, n) \in Somewhere
<1>1. target \in [Entry -> Entry \cup {NoEntry}]
  BY DEF TypeOK
<1>2. \A x \in Entry \cup {NoEntry} : Link(x) \in Entry \cup {NoEntry}
  BY <1>1 DEF Link
<1>3. CASE n = 0
  BY <1>3 DEF Follows, Somewhere
<1>4. CASE n # 0
  <2>1. \A e \in Entry : Link(f[n - 1][e]) \in Entry \cup {NoEntry}
    BY <1>2, <1>4 DEF Somewhere
  <2> QED BY <1>4, <2>1 DEF Follows, Somewhere
<1> QED
  BY <1>3, <1>4

\* There is a function that satisfies the recursion of Chain.
LEMMA ChainExists ==
  ASSUME TypeOK
  PROVE  \E f \in [0 .. N -> Somewhere] : \A n \in 0 .. N : f[n] = Follows(f, n)
<1> DEFINE Good(m) == \E f \in [0 .. m -> Somewhere] : \A n \in 0 .. m : f[n] = Follows(f, n)
           G == {m \in Nat : Good(m)}
<1>1. Good(0)
  <2> DEFINE f == [n \in 0 .. 0 |-> Follows(<<>>, 0)]
  <2>1. f \in [0 .. 0 -> Somewhere]
    BY FollowsOne
  <2>2. \A n \in 0 .. 0 : f[n] = Follows(f, n)
    <3>1. f[0] = Follows(<<>>, 0)
      OBVIOUS
    <3> HIDE DEF f
    <3>2. Follows(<<>>, 0) = Follows(f, 0)
      BY DEF Follows
    <3>3. \A n \in 0 .. 0 : n = 0
      OBVIOUS
    <3> QED BY <3>1, <3>2, <3>3
  <2> QED BY <2>1, <2>2
<1>2. ASSUME NEW k \in 0 .. N - 1, Good(k) PROVE Good(k + 1)
  <2>1. PICK f \in [0 .. k -> Somewhere] : \A n \in 0 .. k : f[n] = Follows(f, n)
    BY <1>2
  <2> DEFINE m == k + 1
             g == [n \in 0 .. m |-> IF n < m THEN f[n] ELSE Follows(f, m)]
  <2>2. m \in Nat /\ m - 1 = k /\ m - 1 \in 0 .. k /\ m # 0 /\ m \in 0 .. m
    BY ZipAssumption
  <2> HIDE DEF m
  <2>3. Follows(f, m) \in Somewhere
    BY <2>1, <2>2, FollowsOne
  <2>4. g \in [0 .. m -> Somewhere]
    BY <2>1, <2>2, <2>3
  <2>5. ASSUME NEW n \in 0 .. m PROVE g[n] = Follows(g, n)
    <3>1. n # 0 => g[n - 1] = f[n - 1]
      BY <2>2
    <3>2. g[n] = Follows(f, n)
      <4>1. CASE n < m
        BY <4>1, <2>1, <2>2
      <4>2. CASE n = m
        BY <4>2, <2>2
      <4> QED BY <4>1, <4>2, <2>2
    <3> HIDE DEF g
    <3>3. Follows(g, n) = Follows(f, n)
      <4>1. CASE n = 0
        BY <4>1, Zenon DEF Follows
      <4>2. CASE n # 0
        BY <4>2, <3>1, Zenon DEF Follows
      <4> QED BY <4>1, <4>2
    <3> QED BY <3>2, <3>3
  <2> HIDE DEF g
  <2>6. Good(m)
    BY <2>4, <2>5
  <2> QED BY <2>6 DEF m
<1> HIDE DEF Good
<1>3. 0 \in G /\ \A k \in 0 .. N - 1 : k \in G => k + 1 \in G
  BY <1>1, <1>2, ZipAssumption
<1>4. \A k \in 0 .. N : k \in G
  <2> HIDE DEF G
  <2> QED BY <1>3, UpTo, ZipAssumption
<1>5. Good(N)
  BY <1>4, ZipAssumption
<1> QED
  BY <1>5 DEF Good

\* The links that are followed, one after the other.
LEMMA ChainIs ==
  ASSUME TypeOK
  PROVE  /\ \A n \in 0 .. N : \A e \in Entry : Chain[n][e] \in Entry \cup {NoEntry}
         /\ \A e \in Entry : Chain[0][e] = e
         /\ \A n \in 1 .. N : \A e \in Entry : Chain[n][e] = Link(Chain[n - 1][e])
<1>1. PICK f \in [0 .. N -> Somewhere] : \A n \in 0 .. N : f[n] = Follows(f, n)
  BY ChainExists
<1>2. f = [n \in 0 .. N |->
             [e \in Entry |->
                IF n = 0 THEN e
                ELSE IF f[n - 1][e] = NoEntry THEN NoEntry ELSE target[f[n - 1][e]]]]
  BY <1>1 DEF Follows, Link
<1>3. Chain = [n \in 0 .. N |->
                 [e \in Entry |->
                    IF n = 0 THEN e
                    ELSE IF Chain[n - 1][e] = NoEntry THEN NoEntry
                         ELSE target[Chain[n - 1][e]]]]
  BY <1>2, Zenon DEF Chain
<1>4. \A n \in 0 .. N : Chain[n] = Follows(Chain, n)
  BY <1>3 DEF Follows, Link
<1> DEFINE G == {n \in Nat : Chain[n] \in Somewhere}
<1>5. \A n \in 0 .. N : n \in G
  <2>1. 0 \in G
    BY <1>4, FollowsOne, ZipAssumption
  <2>2. ASSUME NEW n \in 0 .. N - 1, n \in G PROVE n + 1 \in G
    <3>1. n + 1 \in 0 .. N /\ n + 1 \in Nat /\ n + 1 - 1 = n
      BY ZipAssumption
    <3>2. Follows(Chain, n + 1) \in Somewhere
      BY <2>2, <3>1, FollowsOne
    <3> QED BY <1>4, <3>1, <3>2
  <2> HIDE DEF G
  <2> QED BY <2>1, <2>2, UpTo, ZipAssumption
<1>6. \A n \in 0 .. N : \A e \in Entry : Chain[n][e] \in Entry \cup {NoEntry}
  BY <1>5 DEF Somewhere
<1>7. \A e \in Entry : Chain[0][e] = e
  <2>1. 0 \in 0 .. N
    BY ZipAssumption
  <2>2. Chain[0] = Follows(Chain, 0)
    BY <1>4, <2>1
  <2>3. Follows(Chain, 0) = [e \in Entry |-> e]
    BY DEF Follows
  <2> QED BY <2>2, <2>3
<1>8. ASSUME NEW n \in 1 .. N, NEW e \in Entry PROVE Chain[n][e] = Link(Chain[n - 1][e])
  <2>1. n \in 0 .. N /\ n # 0
    BY ZipAssumption
  <2>2. Chain[n] = Follows(Chain, n)
    BY <1>4, <2>1
  <2> QED BY <2>1, <2>2, Zenon DEF Follows
<1> QED
  BY <1>6, <1>7, <1>8

\* The chain of a link is that of what it links to, one link later.
LEMMA ChainShift ==
  ASSUME TypeOK, NEW e \in Entry, target[e] \in Entry
  PROVE  \A n \in 0 .. N - 1 : Chain[n][target[e]] = Chain[n + 1][e]
<1> DEFINE t == target[e]
           G == {n \in Nat : n \in 0 .. N - 1 => Chain[n][t] = Chain[n + 1][e]}
<1>1. /\ \A x \in Entry : Chain[0][x] = x
      /\ \A n \in 1 .. N : \A x \in Entry : Chain[n][x] = Link(Chain[n - 1][x])
  BY ChainIs
<1>2. 0 \in G
  <2>1. SUFFICES ASSUME 0 \in 0 .. N - 1 PROVE Chain[0][t] = Chain[1][e]
    OBVIOUS
  <2>2. 1 \in 1 .. N /\ 1 - 1 = 0
    BY <2>1, ZipAssumption
  <2>3. Chain[1][e] = Link(Chain[0][e])
    BY <1>1, <2>2
  <2>4. Link(e) = t
    BY DEF Link, Entry, NoEntry
  <2> QED BY <1>1, <2>3, <2>4
<1>3. ASSUME NEW n \in 0 .. N - 1, n \in G PROVE n + 1 \in G
  <2>1. SUFFICES ASSUME n + 1 \in 0 .. N - 1 PROVE Chain[n + 1][t] = Chain[n + 2][e]
    BY <1>3, ZipAssumption
  <2>2. n + 1 \in 1 .. N /\ n + 2 \in 1 .. N /\ n + 1 - 1 = n /\ n + 2 - 1 = n + 1
    BY <2>1, ZipAssumption
  <2>3. Chain[n][t] = Chain[n + 1][e]
    BY <1>3
  <2>4. Chain[n + 1][t] = Link(Chain[n][t])
    BY <1>1, <2>2
  <2>5. Chain[n + 2][e] = Link(Chain[n + 1][e])
    BY <1>1, <2>2
  <2> QED BY <2>3, <2>4, <2>5
<1>4. \A n \in 0 .. N : n \in G
  <2> HIDE DEF G
  <2> QED BY <1>2, <1>3, UpTo, ZipAssumption
<1> QED
  BY <1>4, ZipAssumption

\* A link leads where its target leads; all else is known of the entry itself.
LEMMA LeadsOn ==
  ASSUME TypeOK, NEW e \in Entry, LeadsToData(e)
  PROVE  e \in intact /\ (kind[e] = "symlink" => target[e] \in Entry /\ LeadsToData(target[e]))
<1>1. PICK n \in 0 .. N : /\ \A k \in 0 .. n : Chain[k][e] \in intact
                          /\ kind[Chain[n][e]] # "symlink"
  BY DEF LeadsToData
<1>2. Chain[0][e] = e /\ intact \subseteq Entry
  BY ChainIs DEF TypeOK
<1>3. e \in intact
  BY <1>1, <1>2
<1>4. ASSUME kind[e] = "symlink" PROVE target[e] \in Entry /\ LeadsToData(target[e])
  <2>1. n # 0
    BY <1>1, <1>2, <1>4
  <2>2. n - 1 \in 0 .. N - 1 /\ n - 1 \in 0 .. N /\ 1 \in 0 .. n /\ 1 \in 1 .. N /\ 1 - 1 = 0
        /\ \A k \in 0 .. n - 1 : k \in 0 .. N - 1 /\ k + 1 \in 0 .. n
        /\ n - 1 + 1 = n
    BY <2>1, ZipAssumption
  <2>3. Chain[1][e] = Link(e)
    BY <1>2, <2>2, ChainIs
  <2>4. target[e] \in Entry
    <3>1. Chain[1][e] \in Entry
      BY <1>1, <1>2, <2>2
    <3>2. e # NoEntry
      BY DEF Entry, NoEntry
    <3>3. Link(e) = target[e]
      BY <3>2 DEF Link
    <3> QED BY <1>2, <2>3, <3>1, <3>3
  <2>5. \A k \in 0 .. n - 1 : Chain[k][target[e]] \in intact
    BY <1>1, <2>2, <2>4, ChainShift
  <2>6. kind[Chain[n - 1][target[e]]] # "symlink"
    <3>1. Chain[n - 1][target[e]] = Chain[n][e]
      BY <2>2, <2>4, ChainShift
    <3> QED BY <1>1, <3>1
  <2> QED BY <2>2, <2>4, <2>5, <2>6 DEF LeadsToData
<1> QED
  BY <1>3, <1>4

\* An intact entry that is no link is data.
LEMMA DataLeads ==
  ASSUME TypeOK, NEW e \in Entry, e \in intact, kind[e] # "symlink"
  PROVE  LeadsToData(e)
<1>1. Chain[0][e] = e /\ 0 \in 0 .. N /\ \A k \in 0 .. 0 : k = 0
  BY ChainIs, ZipAssumption
<1> QED
  BY <1>1 DEF LeadsToData

\* Where a chain comes back to an entry it goes the same way again.
LEMMA ChainRepeats ==
  ASSUME TypeOK, NEW e \in Entry, NEW a \in 0 .. N, NEW b \in 0 .. N, Chain[a][e] = Chain[b][e]
  PROVE  \A d \in 0 .. N : a + d <= N /\ b + d <= N => Chain[a + d][e] = Chain[b + d][e]
<1> DEFINE G == {d \in Nat : a + d <= N /\ b + d <= N => Chain[a + d][e] = Chain[b + d][e]}
<1>1. 0 \in G
  BY ZipAssumption
<1>2. ASSUME NEW d \in 0 .. N - 1, d \in G PROVE d + 1 \in G
  <2>1. SUFFICES ASSUME a + (d + 1) <= N, b + (d + 1) <= N
                 PROVE  Chain[a + (d + 1)][e] = Chain[b + (d + 1)][e]
    BY ZipAssumption
  <2>2. /\ a + (d + 1) \in 1 .. N /\ a + (d + 1) - 1 = a + d
        /\ b + (d + 1) \in 1 .. N /\ b + (d + 1) - 1 = b + d
        /\ a + d <= N /\ b + d <= N
    BY <2>1, ZipAssumption
  <2>3. Chain[a + d][e] = Chain[b + d][e]
    BY <1>2, <2>2
  <2>4. Chain[a + (d + 1)][e] = Link(Chain[a + d][e])
    BY <2>2, ChainIs
  <2>5. Chain[b + (d + 1)][e] = Link(Chain[b + d][e])
    BY <2>2, ChainIs
  <2> QED BY <2>3, <2>4, <2>5
<1>3. \A d \in 0 .. N : d \in G
  <2> HIDE DEF G
  <2> QED BY <1>1, <1>2, UpTo, ZipAssumption
<1> QED
  BY <1>3

\* There are less entries than steps from 0 to N.
LEMMA MeetAgain ==
  ASSUME NEW f \in [0 .. N -> Entry]
  PROVE  \E a, b \in 0 .. N : a # b /\ f[a] = f[b]
<1> DEFINE S == 0 .. N
           T == Entry
<1>1. IsFiniteSet(S) /\ Cardinality(S) = IF 0 > N THEN 0 ELSE N - 0 + 1
  BY FS_Interval, ZipAssumption
<1>2. IsFiniteSet(T) /\ Cardinality(T) = IF 1 > N THEN 0 ELSE N - 1 + 1
  BY FS_Interval, ZipAssumption DEF Entry
<1>3. Cardinality(T) < Cardinality(S)
  BY <1>1, <1>2, ZipAssumption
<1>4. f \in [S -> T]
  OBVIOUS
<1> HIDE DEF S, T
<1>5. \E a, b \in S : a # b /\ f[a] = f[b]
  BY <1>1, <1>2, <1>3, <1>4, FS_PigeonHole
<1> QED
  BY <1>5 DEF S

\* What leads to data does so in less than N steps: the links are different ones.
LEMMA LeadsSoon ==
  ASSUME TypeOK, NEW e \in Entry, LeadsToData(e)
  PROVE  \E n \in 0 .. N - 1 : /\ \A k \in 0 .. n : Chain[k][e] \in intact
                               /\ kind[Chain[n][e]] # "symlink"
<1> DEFINE Ends(n) == /\ \A k \in 0 .. n : Chain[k][e] \in intact
                      /\ kind[Chain[n][e]] # "symlink"
           E == {n \in 0 .. N : Ends(n)}
<1>1. E # {} /\ E \in SUBSET Nat
  BY ZipAssumption DEF LeadsToData
<1>2. PICK n \in E : \A m \in E : n <= m
  <2> HIDE DEF E
  <2> QED BY <1>1, Least
<1>3. n \in 0 .. N /\ Ends(n)
  BY <1>2
<1>4. CASE n < N
  <2>1. n \in 0 .. N - 1
    BY <1>3, <1>4, ZipAssumption
  <2> QED BY <1>3, <2>1
<1>5. CASE n = N
  <2> DEFINE f == [k \in 0 .. N |-> Chain[k][e]]
  <2>1. f \in [0 .. N -> Entry]
    BY <1>3, <1>5 DEF TypeOK
  <2>3. \E a, b \in 0 .. N : a # b /\ f[a] = f[b]
    <3> HIDE DEF f
    <3> QED BY <2>1, MeetAgain
  <2>4. \E a, b \in 0 .. N : a < b /\ Chain[a][e] = Chain[b][e]
    <3>1. PICK a \in 0 .. N, b \in 0 .. N : a # b /\ f[a] = f[b]
      BY <2>3
    <3>2. Chain[a][e] = Chain[b][e] /\ (a < b \/ b < a)
      BY <3>1, ZipAssumption
    <3> QED BY <3>2
  <2>5. PICK a \in 0 .. N, b \in 0 .. N : a < b /\ Chain[a][e] = Chain[b][e]
    BY <2>4
  <2> DEFINE d == N - b
             m == a + d
  <2>6. d \in 0 .. N /\ m <= N /\ b + d <= N /\ b + d = N /\ m < N /\ m \in 0 .. N
    BY <2>5, ZipAssumption
  <2>7. Chain[m][e] = Chain[N][e]
    <3>1. Chain[a + d][e] = Chain[b + d][e]
      <4> HIDE DEF d
      <4> QED BY <2>5, <2>6, ChainRepeats
    <3> QED BY <2>6, <3>1
  <2> HIDE DEF m
  <2>8. Ends(m)
    <3>1. \A k \in 0 .. m : k \in 0 .. N
      BY <2>6, ZipAssumption
    <3> QED BY <1>3, <1>5, <2>7, <3>1
  <2>9. n <= m
    BY <1>2, <2>6, <2>8
  <2> QED BY <1>5, <2>6, <2>9, ZipAssumption
<1> QED
  BY <1>3, <1>4, <1>5, ZipAssumption

\* An intact link to what leads to data leads there itself.
LEMMA LinkLeads ==
  ASSUME TypeOK, NEW e \in Entry, e \in intact, target[e] \in Entry, LeadsToData(target[e])
  PROVE  LeadsToData(e)
<1> DEFINE t == target[e]
<1>1. PICK n \in 0 .. N - 1 : /\ \A k \in 0 .. n : Chain[k][t] \in intact
                              /\ kind[Chain[n][t]] # "symlink"
  BY LeadsSoon
<1>2. n + 1 \in 0 .. N
  BY ZipAssumption
<1>3. Chain[n + 1][e] = Chain[n][t]
  BY ChainShift
<1>4. ASSUME NEW k \in 0 .. n + 1 PROVE Chain[k][e] \in intact
  <2>1. CASE k = 0
    <3>1. Chain[0][e] = e
      BY ChainIs
    <3> QED BY <2>1, <3>1
  <2>2. CASE k # 0
    <3>1. k - 1 \in 0 .. n /\ k - 1 \in 0 .. N - 1 /\ k - 1 + 1 = k
      BY <2>2, ZipAssumption
    <3>2. Chain[k - 1][t] = Chain[k - 1 + 1][e]
      BY <3>1, ChainShift
    <3> QED BY <1>1, <3>1, <3>2
  <2> QED BY <2>1, <2>2
<1> QED
  BY <1>1, <1>2, <1>3, <1>4 DEF LeadsToData

\* Links that link to each other lead nowhere.
LEMMA CircleLeadsNowhere ==
  ASSUME TypeOK, NEW C \in SUBSET Entry,
         \A x \in C : kind[x] = "symlink" /\ target[x] \in C
  PROVE  \A x \in C : ~LeadsToData(x)
<1> SUFFICES ASSUME NEW x \in C PROVE ~LeadsToData(x)
  OBVIOUS
<1> DEFINE G == {n \in Nat : n \in 0 .. N => Chain[n][x] \in C}
<1>1. 0 \in G
  BY ChainIs
<1>2. ASSUME NEW n \in 0 .. N - 1, n \in G PROVE n + 1 \in G
  <2>1. n + 1 \in 1 .. N /\ n + 1 - 1 = n /\ n \in 0 .. N /\ n + 1 \in Nat
    BY ZipAssumption
  <2>2. Chain[n][x] \in C
    BY <1>2, <2>1
  <2>3. Chain[n + 1][x] = Link(Chain[n][x])
    BY <2>1, ChainIs
  <2>4. Chain[n][x] # NoEntry
    BY <2>2 DEF Entry, NoEntry
  <2>5. Chain[n + 1][x] \in C
    BY <2>2, <2>3, <2>4 DEF Link
  <2> QED BY <2>1, <2>5
<1>3. \A n \in 0 .. N : n \in G
  <2> HIDE DEF G
  <2> QED BY <1>1, <1>2, UpTo, ZipAssumption
<1> QED
  BY <1>3 DEF LeadsToData

-----------------------------------------------------------------------------
(* The verdict about an entry.                                             *)

\* The local header of every entry whose call is past zip_parse_local() is good.
Checked ==
  \A i \in Depth : i < Len(stack) \/ phase \in {"link", "return"} => stack[i] \in intact

\* A link that is told of a failure links to what leads nowhere.
Told ==
  phase = "return" /\ stack # <<>> /\ ~result /\ ~faulted => ~LeadsToData(target[Top])

VInv == Checked /\ Told /\ VerdictIsTheArchives

\* What links lead to depends on the archive only.
LEMMA SameLeads ==
  ASSUME UNCHANGED archive
  PROVE  \A e \in Entry : LeadsToData(e)' <=> LeadsToData(e)
<1>1. target' = target /\ intact' = intact /\ kind' = kind
  BY DEF archive
<1>2. Chain' = Chain
  BY <1>1 DEF Chain
<1> HIDE DEF Chain
<1> QED
  BY <1>1, <1>2 DEF LeadsToData

\* What waits for an entry that is being resolved is a link of a circle.
LEMMA CircleFound ==
  ASSUME IInv, phase = "link", target[Top] \in Entry, resolved[target[Top]] = "RESOLVING"
  PROVE  ~LeadsToData(target[Top])
<1> DEFINE C == {stack[i] : i \in Depth}
<1>1. TypeOK /\ RunsOnce /\ StackOK
  BY DEF IInv
<1>2. stack \in Seq(Entry) /\ Len(stack) \in Nat \ {0} /\ stack # <<>>
  BY <1>1, PopFacts DEF TypeOK, StackOK
<1>3. C \in SUBSET Entry
  BY <1>2, ElementOfSeq DEF Depth
<1>4. target[Top] \in C
  BY <1>1 DEF RunsOnce, Depth
<1>5. ASSUME NEW i \in Depth PROVE kind[stack[i]] = "symlink" /\ target[stack[i]] \in C
  <2>1. CASE i < Len(stack)
    <3>1. i + 1 \in Depth
      BY <2>1, <1>2 DEF Depth
    <3> QED BY <2>1, <3>1, <1>1 DEF StackOK
  <2>2. CASE i = Len(stack)
    BY <2>2, <1>1, <1>4 DEF StackOK, Top
  <2> QED BY <2>1, <2>2, <1>2 DEF Depth
<1>6. \A x \in C : kind[x] = "symlink" /\ target[x] \in C
  BY <1>5
<1> HIDE DEF C
<1> QED
  BY <1>1, <1>3, <1>4, <1>6, CircleLeadsNowhere

\* One entry's verdict is recorded.
LEMMA Recorded ==
  ASSUME TypeOK, VerdictIsTheArchives, UNCHANGED archive, faulted => faulted',
         NEW t \in Entry, \A x \in Entry : x # t => resolved'[x] = resolved[x],
         ~faulted' => /\ resolved'[t] = "RESOLVED" => LeadsToData(t)
                      /\ resolved'[t] \in Broken => ~LeadsToData(t)
  PROVE  VerdictIsTheArchives'
<1> SUFFICES ASSUME ~faulted', NEW e \in Entry
             PROVE  /\ resolved'[e] = "RESOLVED" => LeadsToData(e)'
                    /\ resolved'[e] \in Broken => ~LeadsToData(e)'
  BY DEF VerdictIsTheArchives
<1>1. LeadsToData(e)' <=> LeadsToData(e)
  BY SameLeads
<1>2. /\ resolved'[e] = "RESOLVED" => LeadsToData(e)
      /\ resolved'[e] \in Broken => ~LeadsToData(e)
  <2>1. CASE e = t
    BY <2>1
  <2>2. CASE e # t
    BY <2>2 DEF VerdictIsTheArchives
  <2> QED BY <2>1, <2>2
<1> QED
  BY <1>1, <1>2

\* A call of zip_resolve() tells a link that waits for it the truth.
LEMMA ResolveTells ==
  ASSUME IInv, VInv, NEW e \in Entry, Resolve(e),
         phase = "idle" \/ (phase = "link" /\ target[Top] = e),
         UNCHANGED <<archive, faulted>>
  PROVE  VInv'
<1>1. TypeOK /\ RunsOnce /\ StackOK
  BY DEF IInv
<1>2. stack \in Seq(Entry) /\ Len(stack) \in Nat /\ intact' = intact
  BY <1>1 DEF TypeOK, archive
<1>3. phase = "idle" => stack = <<>> /\ Len(stack) = 0
  BY <1>1 DEF StackOK
<1>4. \A i \in 1 .. Len(stack) : stack[i] \in intact
  BY <1>2, <1>3 DEF VInv, Checked, Depth
<1>5. CASE Enter(e)
  <2>1. /\ resolved[e] \in Unresolved /\ resolved' = [resolved EXCEPT ![e] = "RESOLVING"]
        /\ stack' = Append(stack, e) /\ phase' = "parse"
    BY <1>5 DEF Enter
  <2>2. /\ Len(stack') = Len(stack) + 1
        /\ \A i \in 1 .. Len(stack) : stack'[i] = stack[i]
    BY <2>1, <1>2, PushFacts
  <2>3. Checked' /\ Told'
    BY <2>1, <2>2, <1>2, <1>4 DEF Checked, Told, Depth
  <2>4. VerdictIsTheArchives'
    <3>1. /\ \A x \in Entry : x # e => resolved'[x] = resolved[x]
          /\ resolved'[e] = "RESOLVING"
      BY <2>1, <1>1 DEF TypeOK
    <3>2. resolved'[e] # "RESOLVED" /\ resolved'[e] \notin Broken
      BY <3>1 DEF Broken
    <3> QED BY <3>1, <3>2, <1>1, Recorded DEF VInv
  <2> QED BY <2>3, <2>4 DEF VInv
<1>6. CASE Refuse(e)
  <2>1. /\ resolved[e] \notin Unresolved /\ phase' = "return" /\ resolved' = resolved
        /\ stack' = stack /\ result' = (resolved[e] = "RESOLVED")
    BY <1>6 DEF Refuse
  <2>2. Checked'
    BY <2>1, <1>2, <1>4 DEF Checked, Depth
  <2>3. Told'
    <3>1. SUFFICES ASSUME stack # <<>>, resolved[e] # "RESOLVED", ~faulted
                   PROVE  ~LeadsToData(target[Top])'
      BY <2>1 DEF Told
    <3>2. phase = "link" /\ target[Top] = e /\ target'[Top'] = e
      BY <3>1, <1>3, <2>1 DEF Top, archive
    <3>3. resolved[e] \in Broken \/ resolved[e] = "RESOLVING"
      BY <3>1, <2>1, <1>1 DEF TypeOK, Unresolved, Settled
    <3>4. ~LeadsToData(e)
      BY <3>1, <3>2, <3>3, CircleFound DEF VInv, VerdictIsTheArchives
    <3>5. ~LeadsToData(e)'
      BY <3>4, SameLeads
    <3>6. (target[Top])' = e
      BY <3>2
    <3> QED BY <3>5, <3>6 DEF LeadsToData
  <2>4. VerdictIsTheArchives'
    BY <2>1, <1>1, Recorded DEF VInv, VerdictIsTheArchives
  <2> QED BY <2>2, <2>3, <2>4 DEF VInv
<1> QED
  BY <1>5, <1>6 DEF Resolve

\* A call that returns has recorded, and tells the link that waits, the truth.
LEMMA FinishTells ==
  ASSUME IInv, VInv, phase # "idle", stack # <<>>, NEW ok \in BOOLEAN, Finish(Top, ok),
         UNCHANGED archive, faulted => faulted',
         ~faulted' => (ok <=> LeadsToData(Top))
  PROVE  VInv'
<1> DEFINE t == Top
<1>1. TypeOK /\ RunsOnce /\ StackOK
  BY DEF IInv
<1>2. /\ stack \in Seq(Entry) /\ Len(stack) \in Nat \ {0} /\ t \in Entry
      /\ stack' \in Seq(Entry) /\ Len(stack') = Len(stack) - 1
      /\ \A i \in 1 .. Len(stack) - 1 : stack'[i] = stack[i]
      /\ stack' = <<>> <=> Len(stack) = 1
  BY <1>1, PopFacts DEF TypeOK, Finish, Popped, Top
<1>3. /\ resolved' = [resolved EXCEPT ![t] =
             IF ok THEN "RESOLVED"
             ELSE IF kind[t] = "symlink" THEN "BROKEN_SYMLINK" ELSE "BROKEN_FILE"]
      /\ phase' = "return" /\ result' = ok
  BY DEF Finish
<1>4. /\ \A x \in Entry : x # t => resolved'[x] = resolved[x]
      /\ resolved'[t] = "RESOLVED" => ok
      /\ resolved'[t] \in Broken => ~ok
  BY <1>1, <1>2, <1>3 DEF TypeOK, Broken
<1>5. VerdictIsTheArchives'
  BY <1>1, <1>2, <1>4, Recorded DEF VInv
<1>6. Checked'
  BY <1>2 DEF VInv, Checked, Depth, archive
<1>7. Told'
  <2>1. SUFFICES ASSUME stack' # <<>>, ~ok, ~faulted' PROVE ~LeadsToData(target[Top])'
    BY <1>3 DEF Told
  <2>2. Len(stack) - 1 \in Depth /\ Len(stack) - 1 < Len(stack) /\ Len(stack) - 1 + 1 = Len(stack)
    BY <2>1, <1>2 DEF Depth
  <2>3. target[stack[Len(stack) - 1]] = t
    BY <2>2, <1>1 DEF StackOK, Top
  <2>4. (target[Top])' = t
    <3>1. stack'[Len(stack')] = stack[Len(stack) - 1]
      BY <2>2, <1>2 DEF Depth
    <3> QED BY <2>3, <3>1 DEF Top, archive
  <2>5. PICK u \in Entry : u = t
    BY <1>2
  <2>6. ~LeadsToData(u)
    BY <2>1, <2>5
  <2>7. ~LeadsToData(u)' /\ (target[Top])' = u
    BY <2>4, <2>5, <2>6, SameLeads
  <2> HIDE DEF t
  <2> QED BY <2>7 DEF LeadsToData
<1> QED
  BY <1>5, <1>6, <1>7 DEF VInv

\* zip_parse_local() is right about what it settles.
LEMMA ParseLocalTells == IInv /\ VInv /\ ParseLocal => VInv'
<1> SUFFICES ASSUME IInv, VInv, ParseLocal PROVE VInv'
  OBVIOUS
<1>1. TypeOK /\ StackOK
  BY DEF IInv
<1>2. /\ phase = "parse" /\ stack # <<>> /\ Top \in Entry /\ Len(stack) \in Nat \ {0}
      /\ UNCHANGED archive
  BY <1>1, PopFacts DEF ParseLocal, StackOK, TypeOK, Top
<1>3. CASE Top \in intact /\ kind[Top] # "symlink" /\ Finish(Top, TRUE) /\ faulted' = faulted
  BY <1>1, <1>2, <1>3, DataLeads, FinishTells
<1>4. CASE /\ Top \in intact /\ phase' = "link" /\ UNCHANGED <<resolved, stack, faulted>>
  <2>1. Checked' /\ Told'
    BY <1>2, <1>4 DEF VInv, Checked, Told, Depth, Top, archive
  <2>2. VerdictIsTheArchives'
    BY <1>1, <1>2, <1>4, Recorded DEF VInv, VerdictIsTheArchives
  <2> QED BY <2>1, <2>2 DEF VInv
<1>5. CASE Top \notin intact /\ Finish(Top, FALSE) /\ faulted' = faulted
  BY <1>1, <1>2, <1>5, LeadsOn, FinishTells
<1>6. CASE Finish(Top, FALSE) /\ faulted' = TRUE
  BY <1>2, <1>6, FinishTells
<1> QED
  BY <1>3, <1>4, <1>5, <1>6 DEF ParseLocal

\* So is zip_resolve_symlink() about a link that leads nowhere.
LEMMA ReadLinkTells == IInv /\ VInv /\ ReadLink => VInv'
<1> SUFFICES ASSUME IInv, VInv, ReadLink PROVE VInv'
  OBVIOUS
<1>1. TypeOK /\ StackOK
  BY DEF IInv
<1>2. /\ phase = "link" /\ stack # <<>> /\ Top \in Entry /\ kind[Top] = "symlink"
      /\ UNCHANGED archive
  BY <1>1, PopFacts DEF ReadLink, StackOK, TypeOK, Top
<1>3. CASE target[Top] = NoEntry /\ Finish(Top, FALSE) /\ faulted' = faulted
  <2>1. ~LeadsToData(Top)
    BY <1>1, <1>2, <1>3, LeadsOn DEF Entry, NoEntry
  <2> QED BY <1>2, <1>3, <2>1, FinishTells
<1>4. CASE target[Top] # NoEntry /\ Resolve(target[Top]) /\ faulted' = faulted
  <2>1. target[Top] \in Entry
    BY <1>1, <1>2, <1>4 DEF TypeOK
  <2> QED BY <1>2, <1>4, <2>1, ResolveTells
<1>5. CASE Finish(Top, FALSE) /\ faulted' = TRUE
  BY <1>2, <1>5, FinishTells
<1> QED
  BY <1>3, <1>4, <1>5 DEF ReadLink

\* And zip_follow_symlink() about a link whose target is settled.
LEMMA ResumeTells == IInv /\ VInv /\ Resume => VInv'
<1> SUFFICES ASSUME IInv, VInv, Resume PROVE VInv'
  OBVIOUS
<1>1. TypeOK /\ StackOK
  BY DEF IInv
<1>2. /\ phase = "return" /\ stack # <<>> /\ Finish(Top, result) /\ UNCHANGED <<archive, faulted>>
      /\ Len(stack) \in Depth /\ Top \in Entry /\ result \in BOOLEAN
  BY <1>1, PopFacts DEF Resume, TypeOK, Top, Depth
<1>3. kind[Top] = "symlink" /\ target[Top] \in Entry
  BY <1>1, <1>2 DEF StackOK, Top
<1>4. Top \in intact
  BY <1>2 DEF VInv, Checked, Top
<1>5. ASSUME ~faulted PROVE result <=> LeadsToData(Top)
  <2>1. CASE result
    <3>1. resolved[target[Top]] = "RESOLVED"
      BY <2>1, <1>1, <1>2 DEF StackOK
    <3>2. LeadsToData(target[Top])
      BY <3>1, <1>3, <1>5 DEF VInv, VerdictIsTheArchives
    <3> QED BY <2>1, <3>2, <1>1, <1>2, <1>3, <1>4, LinkLeads
  <2>2. CASE ~result
    <3>1. ~LeadsToData(target[Top])
      BY <2>2, <1>2, <1>5 DEF VInv, Told
    <3> QED BY <2>2, <3>1, <1>1, <1>2, <1>3, LeadsOn
  <2> QED BY <2>1, <2>2
<1> QED
  BY <1>2, <1>5, FinishTells

\* Nothing is settled when the archive is opened.
LEMMA InitVerdict == Init => VInv
<1> SUFFICES ASSUME Init PROVE VInv
  OBVIOUS
<1>1. \A e \in Entry : resolved[e] \in Unresolved
  BY DEF Init, LoadEntry, Unresolved
<1>2. stack = <<>>
  BY DEF Init
<1> QED
  BY <1>1, <1>2 DEF VInv, Checked, Told, Depth, VerdictIsTheArchives, Unresolved, Broken

\* What does not touch the calls and the entries leaves the verdicts.
LEMMA RestTells ==
  ASSUME IInv, VInv, UNCHANGED <<archive, resolved, stack, result, faulted>>,
         phase' = phase \/ stack = <<>>
  PROVE  VInv'
<1>1. TypeOK
  BY DEF IInv
<1>2. Checked'
  BY DEF VInv, Checked, Depth, archive
<1>3. Told'
  <2>1. SUFFICES ASSUME phase = "return", stack # <<>>, ~result, ~faulted
                 PROVE  ~LeadsToData(target[Top])'
    BY DEF Told
  <2>2. ~LeadsToData(target[Top])
    BY <2>1 DEF VInv, Told
  <2>3. Chain' = Chain /\ intact' = intact /\ kind' = kind /\ (target[Top])' = target[Top]
    BY DEF Chain, Top, archive
  <2> QED BY <2>2, <2>3 DEF LeadsToData
<1>4. VerdictIsTheArchives'
  <2>1. \A e \in Entry : LeadsToData(e)' <=> LeadsToData(e)
    BY SameLeads
  <2> QED BY <2>1 DEF VInv, VerdictIsTheArchives
<1> QED
  BY <1>2, <1>3, <1>4 DEF VInv

\* A call of zip_resolve() when none is running.
LEMMA FirstCallTells ==
  ASSUME IInv, VInv, NEW e \in Entry, Resolve(e), phase = "idle", archive' = archive,
         faulted' = faulted
  PROVE  VInv'
BY ResolveTells

\* Every step keeps the verdicts right.
LEMMA NextVerdict == IInv /\ VInv /\ [Next]_vars => VInv'
<1> SUFFICES ASSUME IInv, VInv, [Next]_vars PROVE VInv'
  OBVIOUS
<1>1. TypeOK /\ StackOK /\ CursorOK
  BY DEF IInv
<1>2. CASE Enumerate \/ Close \/ Return \/ UNCHANGED vars
  BY <1>2, RestTells DEF Enumerate, Close, Return, vars, table, calls
<1>3. CASE EnumNext
  <2>1. CASE UNCHANGED <<archive, table, stack, result, faulted>> /\ phase = "idle"
    BY <1>1, <2>1, RestTells DEF StackOK, table
  <2>2. CASE /\ enumIndex # N /\ phase = "idle" /\ Resolve(enumIndex + 1)
             /\ UNCHANGED <<archive, faulted>>
    <3>1. enumIndex + 1 \in Entry
      BY <2>2, <1>1, ZipAssumption DEF TypeOK, Entry
    <3> QED BY <2>2, <3>1, FirstCallTells, Zenon
  <2> QED BY <1>3, <2>1, <2>2 DEF EnumNext, Answer, calls
<1>4. CASE OpenCurrentEntry
  <2>1. enumIndex \in Entry
    BY <1>1, <1>4 DEF OpenCurrentEntry, CursorOK
  <2>2. /\ phase = "idle" /\ Resolve(enumIndex)
        /\ archive' = archive /\ faulted' = faulted
    BY <1>4 DEF OpenCurrentEntry
  <2> QED BY <2>1, <2>2, FirstCallTells, Zenon
<1>5. CASE Duplicate
  <2>1. handle \in Entry
    BY <1>1, <1>5 DEF Duplicate, TypeOK
  <2>2. /\ phase = "idle" /\ Resolve(handle)
        /\ archive' = archive /\ faulted' = faulted
    BY <1>5 DEF Duplicate
  <2> QED BY <2>1, <2>2, FirstCallTells, Zenon
<1> QED
  BY <1>2, <1>3, <1>4, <1>5, ParseLocalTells, ReadLinkTells, ResumeTells
  DEF Next, Ending

\* Unless an I/O error came between, an entry that counts as resolved leads to
\* data and one that counts as broken leads nowhere, whatever was asked for
\* before: zip_resolve() never takes a link of a chain for one of a circle.
THEOREM VerdictsAreRight == Spec => []VerdictIsTheArchives
<1>1. Init => IInv /\ VInv
  BY InitInv, InitVerdict
<1>2. IInv /\ VInv /\ [Next]_vars => (IInv /\ VInv)'
  BY NextInv, NextVerdict
<1>3. IInv /\ VInv => VerdictIsTheArchives
  BY DEF VInv
<1> QED
  BY <1>1, <1>2, <1>3, PTL DEF Spec
=============================================================================

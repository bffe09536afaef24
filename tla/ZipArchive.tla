----------------------------- MODULE ZipArchive -----------------------------
(***************************************************************************)
(* The entries of a zip archive as MojoSetup enumerates and opens them     *)
(* (src/archive_zip.c).  The central directory is read when the archive is *)
(* opened; an entry is resolved later, the first time it is needed: its    *)
(* local header is checked, its offset moved to its data, and a symbolic   *)
(* link is followed to the entry it stands for, which resolves that entry. *)
(* zip_resolve() and zip_follow_symlink() call each other: stack holds the *)
(* entries whose zip_resolve() has not returned, the latest last.          *)
(*                                                                         *)
(* The archive is any archive of N entries; entries are numbered in the    *)
(* order of the sorted table.                                              *)
(***************************************************************************)
EXTENDS Integers, Sequences

CONSTANTS
  N,          \* the number of entries
  ReadsFail   \* whether an I/O error may happen

ASSUME ZipAssumption == N \in Nat /\ ReadsFail \in BOOLEAN

Entry == 1 .. N
NoEntry == 0

VARIABLES
  kind,      \* of each entry: "file", "dir" or "symlink"
  target,    \* the entry a link's text names once zip_expand_symlink_path()
             \* has seen it, NoEntry when zip_find_entry() finds none
  intact,    \* the entries whose local header agrees with the directory
  resolved,  \* ZIPentry.resolved, symlink and linkdest (whether it is set)
  symlink,
  linkdest,
  offset,    \* 0: ZIPentry.offset is that of the local header, 1: of the data
  stack,
  phase,     \* "idle", or what the top of the stack does: "parse", "link",
             \* "return" (a zip_resolve() has just returned); "crashed" when the
             \* process has read through a null pointer
  result,    \* what it returned
  caller,    \* who called the first one: "enumNext", "openRead"
  enumIndex, \* ZIPinfo.enumIndex
  prevEnum,  \* the type of the entry last enumerated, "none" after a reset
  handle,    \* the entry a ZIPfileinfo is open on, or NoEntry
  faulted    \* whether an I/O error has happened

archive == <<kind, target, intact>>
table == <<resolved, symlink, linkdest, offset>>
calls == <<stack, phase, result, caller>>
outer == <<enumIndex, prevEnum, handle>>
vars == <<archive, table, calls, outer, faulted>>

Unresolved == {"UNRESOLVED_FILE", "UNRESOLVED_SYMLINK"}
Broken == {"BROKEN_FILE", "BROKEN_SYMLINK"}
Settled == Broken \cup {"RESOLVED"}

\* zip_load_entry() and zip_has_symlink_attr().
LoadEntry(e) ==
  IF kind[e] = "symlink" THEN "UNRESOLVED_SYMLINK" ELSE "UNRESOLVED_FILE"

Init ==
  /\ kind \in [Entry -> {"file", "dir", "symlink"}]
  /\ target \in [Entry -> Entry \cup {NoEntry}]
  /\ \A e \in Entry : kind[e] # "symlink" => target[e] = NoEntry
  /\ intact \in SUBSET Entry
  /\ resolved = [e \in Entry |-> LoadEntry(e)]
  /\ symlink = [e \in Entry |-> NoEntry]
  /\ linkdest = [e \in Entry |-> FALSE]
  /\ offset = [e \in Entry |-> 0]
  /\ stack = <<>> /\ phase = "idle" /\ result = FALSE /\ caller = "enumNext"
  /\ enumIndex = 0 /\ prevEnum = "none" /\ handle = NoEntry
  /\ faulted = FALSE

-----------------------------------------------------------------------------
(* zip_resolve().                                                          *)

Top == stack[Len(stack)]
Popped == SubSeq(stack, 1, Len(stack) - 1)

\* Mutant: a broken entry is tried again.
EnterBroken(e) ==
  /\ resolved[e] \in Unresolved \cup Broken
  /\ resolved' = [resolved EXCEPT ![e] = "RESOLVING"]
  /\ stack' = Append(stack, e)
  /\ phase' = "parse"
  /\ UNCHANGED result

\* The first call for an entry.
Enter(e) ==
  /\ resolved[e] \in Unresolved
  /\ resolved' = [resolved EXCEPT ![e] = "RESOLVING"]
  /\ stack' = Append(stack, e)
  /\ phase' = "parse"
  /\ UNCHANGED result

\* Mutant: an entry that is being resolved counts as good.
RefuseCircleLate(e) ==
  /\ resolved[e] \notin Unresolved
  /\ phase' = "return"
  /\ result' = (resolved[e] \notin Broken)
  /\ UNCHANGED <<resolved, stack>>

\* Mutant: a circle is waited for.
RefuseWaiting(e) ==
  /\ resolved[e] \notin Unresolved
  /\ phase' = IF resolved[e] = "RESOLVING" THEN phase ELSE "return"
  /\ result' = (resolved[e] = "RESOLVED")
  /\ UNCHANGED <<resolved, stack>>

\* Any other: the answer is known, or the links run in a circle.
Refuse(e) ==
  /\ resolved[e] \notin Unresolved
  /\ phase' = "return"
  /\ result' = (resolved[e] = "RESOLVED")
  /\ UNCHANGED <<resolved, stack>>

Resolve(e) == Enter(e) \/ Refuse(e)

\* Mutant: a broken link keeps the mark of a running call.
FinishLoose(e, ok) ==
  /\ resolved' = [resolved EXCEPT ![e] =
                    IF ok THEN "RESOLVED"
                    ELSE IF kind[e] = "symlink" THEN "RESOLVING" ELSE "BROKEN_FILE"]
  /\ stack' = Popped
  /\ phase' = "return"
  /\ result' = ok

\* The end of zip_resolve().
Finish(e, ok) ==
  /\ resolved' = [resolved EXCEPT ![e] =
                    IF ok THEN "RESOLVED"
                    ELSE IF kind[e] = "symlink" THEN "BROKEN_SYMLINK" ELSE "BROKEN_FILE"]
  /\ stack' = Popped
  /\ phase' = "return"
  /\ result' = ok

\* zip_parse_local(), and for a file the return.
ParseLocal ==
  /\ phase = "parse"
  /\ \/ /\ Top \in intact
        /\ offset' = [offset EXCEPT ![Top] = @ + 1]
        /\ IF kind[Top] = "symlink"
           THEN phase' = "link" /\ UNCHANGED <<resolved, stack, result>>
           ELSE Finish(Top, TRUE)
        /\ UNCHANGED faulted
     \/ /\ Top \notin intact
        /\ Finish(Top, FALSE) /\ UNCHANGED <<offset, faulted>>
     \/ /\ ReadsFail
        /\ Finish(Top, FALSE) /\ faulted' = TRUE /\ UNCHANGED offset
  /\ UNCHANGED <<archive, symlink, linkdest, caller, outer>>

\* zip_resolve_symlink() up to the recursive call of zip_follow_symlink().
ReadLink ==
  /\ phase = "link"
  /\ \/ /\ linkdest' = [linkdest EXCEPT ![Top] = TRUE]
        /\ IF target[Top] = NoEntry THEN Finish(Top, FALSE) ELSE Resolve(target[Top])
        /\ UNCHANGED faulted
     \/ /\ ReadsFail
        /\ Finish(Top, FALSE) /\ faulted' = TRUE /\ UNCHANGED linkdest
  /\ UNCHANGED <<archive, symlink, offset, caller, outer>>

\* Mutant: what a link links to may be a link.
FollowOneLink(e) == target[e]

\* The entry a link stands for: never another link.
FollowSymlink(e) ==
  IF symlink[target[e]] # NoEntry THEN symlink[target[e]] ELSE target[e]

\* The recursive call has returned to zip_follow_symlink(): Top is the link.
Resume ==
  /\ phase = "return" /\ stack # <<>>
  /\ symlink' = [symlink EXCEPT ![Top] =
                   IF result THEN FollowSymlink(Top) ELSE NoEntry]
  /\ Finish(Top, result)
  /\ UNCHANGED <<archive, linkdest, offset, caller, outer, faulted>>

-----------------------------------------------------------------------------
(* The archive's operations.                                               *)

IsSymlink(e) ==
  resolved[e] \in {"UNRESOLVED_SYMLINK", "BROKEN_SYMLINK"} \/ symlink[e] # NoEntry

\* zip_enumNext() has what it asks of entry e and copies it to prevEnum.  A link
\* that broke before its text was read has no linkdest: xstrdup(NULL) crashes,
\* and the index stays where it is.
Answer(e) ==
  IF IsSymlink(e) /\ ~linkdest[e]
  THEN phase' = "crashed" /\ UNCHANGED <<enumIndex, prevEnum>>
  ELSE /\ phase' = "idle" /\ enumIndex' = e
       /\ prevEnum' = IF IsSymlink(e) THEN "symlink" ELSE "file"

Enumerate ==
  /\ phase = "idle" /\ handle = NoEntry
  /\ enumIndex' = 0 /\ prevEnum' = "none"
  /\ UNCHANGED <<archive, table, calls, handle, faulted>>

\* MojoArchive_zip_enumNext(): at the end it keeps the index.  The archive's
\* user has closed what it had open.
EnumNext ==
  /\ phase = "idle" /\ handle = NoEntry
  /\ LET e == enumIndex + 1 IN
     IF enumIndex = N
     THEN prevEnum' = "none" /\ UNCHANGED <<table, calls, enumIndex, faulted>>
     ELSE IF kind[e] # "dir" /\ resolved[e] = "UNRESOLVED_SYMLINK"
     THEN Resolve(e) /\ caller' = "enumNext"
          /\ UNCHANGED <<symlink, linkdest, offset, enumIndex, prevEnum, faulted>>
     ELSE IF kind[e] = "dir"
     THEN prevEnum' = "dir" /\ enumIndex' = e /\ UNCHANGED <<table, calls, faulted>>
     ELSE Answer(e) /\ UNCHANGED <<table, stack, result, caller, faulted>>
  /\ UNCHANGED <<archive, handle>>

\* MojoArchive_zip_openCurrentEntry(): ZIP_openRead() finds the entry by its
\* name and zip_get_file_handle() resolves it.
OpenCurrentEntry ==
  /\ phase = "idle" /\ handle = NoEntry /\ prevEnum = "file"
  /\ Resolve(enumIndex) /\ caller' = "openRead"
  /\ UNCHANGED <<archive, symlink, linkdest, offset, outer, faulted>>

\* MojoInput_zip_duplicate(): open by the name of the entry that is open.
Duplicate ==
  /\ phase = "idle" /\ handle # NoEntry
  /\ Resolve(handle) /\ caller' = "openRead"
  /\ UNCHANGED <<archive, symlink, linkdest, offset, outer, faulted>>

Close ==
  /\ phase = "idle" /\ handle # NoEntry
  /\ handle' = NoEntry
  /\ UNCHANGED <<archive, table, calls, enumIndex, prevEnum, faulted>>

\* The first zip_resolve() has returned to its caller.
Return ==
  /\ phase = "return" /\ stack = <<>>
  /\ IF caller = "enumNext"
     THEN Answer(enumIndex + 1) /\ UNCHANGED handle
     ELSE LET e == IF handle # NoEntry THEN handle ELSE enumIndex IN
          /\ handle' = IF ~result THEN handle
                       ELSE IF symlink[e] # NoEntry THEN symlink[e] ELSE e
          /\ phase' = "idle" /\ UNCHANGED <<enumIndex, prevEnum>>
  /\ UNCHANGED <<archive, table, stack, result, caller, faulted>>

Ending == phase = "crashed" /\ UNCHANGED vars

Work == ParseLocal \/ ReadLink \/ Resume \/ Return

Next ==
  \/ Enumerate \/ EnumNext \/ OpenCurrentEntry \/ Duplicate \/ Close
  \/ ParseLocal \/ ReadLink \/ Resume \/ Return
  \/ Ending

Spec == Init /\ [][Next]_vars

\* One thread runs the installer, and a call that has begun goes on; no I/O
\* error need come to its help.
FairSpec == Spec /\ WF_vars(Work /\ faulted' = faulted)

-----------------------------------------------------------------------------
(* Properties.                                                             *)

\* The variables hold what the code's fields may hold.
TypeOK ==
  /\ kind \in [Entry -> {"file", "dir", "symlink"}]
  /\ target \in [Entry -> Entry \cup {NoEntry}]
  /\ intact \in SUBSET Entry
  /\ resolved \in [Entry -> Unresolved \cup Settled \cup {"RESOLVING"}]
  /\ symlink \in [Entry -> Entry \cup {NoEntry}]
  /\ linkdest \in [Entry -> BOOLEAN]
  /\ offset \in [Entry -> {0, 1}]
  /\ stack \in Seq(Entry)
  /\ phase \in {"idle", "parse", "link", "return", "crashed"}
  /\ result \in BOOLEAN /\ caller \in {"enumNext", "openRead"}
  /\ enumIndex \in 0 .. N /\ prevEnum \in {"none", "file", "dir", "symlink"}
  /\ handle \in Entry \cup {NoEntry}
  /\ faulted \in BOOLEAN

\* zip_resolve() never runs twice for one entry, so that links in a circle end
\* the recursion; it leaves the mark of a running call on the entries it runs
\* for and on no other, so that a later call is not taken for a circle.
RunsOnce ==
  /\ \A i, j \in 1 .. Len(stack) : stack[i] = stack[j] => i = j
  /\ \A e \in Entry :
       resolved[e] = "RESOLVING" <=> \E i \in 1 .. Len(stack) : stack[i] = e

\* The offset of an entry is moved to its data once, and is there whenever the
\* entry counts as resolved: what is read from it are the file's own bytes.
OffsetAtData ==
  \A e \in Entry : resolved[e] = "RESOLVED" => offset[e] = 1

\* ZIPentry.symlink is the final entry of a chain of links: a resolved entry
\* that is no link itself, however long the chain was and whichever of its links
\* was resolved first.
FinalIsNoLink ==
  \A e \in Entry : symlink[e] # NoEntry =>
    /\ kind[e] = "symlink" /\ kind[symlink[e]] # "symlink"
    /\ resolved[symlink[e]] = "RESOLVED"

\* The calls that run, and what they have marked, fit together.
CallsInProgress == TypeOK /\ RunsOnce

\* Whoever reads a resolved entry, or what it links to, reads a file's data.
ReadsTheData == OffsetAtData /\ FinalIsNoLink

\* Following n links from each entry, what is there.
Chain[n \in 0 .. N] ==
  [e \in Entry |->
     IF n = 0 THEN e
     ELSE IF Chain[n - 1][e] = NoEntry THEN NoEntry ELSE target[Chain[n - 1][e]]]

\* e, and all that it links to, is intact and ends at something that is no link.
LeadsToData(e) ==
  \E n \in 0 .. N :
    /\ \A k \in 0 .. n : Chain[k][e] \in intact
    /\ kind[Chain[n][e]] # "symlink"

\* Without I/O errors what is recorded of an entry depends on the archive only,
\* and not on the order in which entries were asked for: it is resolved when its
\* links lead to data, and broken when they lead nowhere, to a corrupt entry or
\* in a circle.
VerdictIsTheArchives ==
  ~faulted => \A e \in Entry :
    /\ resolved[e] = "RESOLVED" => LeadsToData(e)
    /\ resolved[e] \in Broken => ~LeadsToData(e)

KeepsSettled ==
  \A e \in Entry : resolved[e] \in Settled =>
    /\ resolved'[e] = resolved[e]
    /\ symlink'[e] = symlink[e] /\ offset'[e] = offset[e]

\* What is once settled about an entry stays, and so do its offset and the entry
\* it stands for: whoever has it open keeps reading the same bytes.
SettledForGood == [][KeepsSettled]_vars

\* The process went down enumerating a link whose local header is corrupt, or
\* after an I/O error.
Crashed ==
  /\ phase = "crashed" /\ stack = <<>>
  /\ kind[enumIndex + 1] = "symlink"
  /\ enumIndex + 1 \notin intact \/ faulted

\* Every call of the archive returns, the one that enumerates such a link
\* excepted: circles of links, chains and corrupt files hold up no call, and take
\* no other down.
CallsReturn == phase # "idle" ~> phase = "idle" \/ Crashed
=============================================================================

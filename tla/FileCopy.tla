------------------------------ MODULE FileCopy ------------------------------
(***************************************************************************)
(* How a file gets to the disk: MojoInput_toPhysicalFile() (fileio.c),     *)
(* which copies a stream, and the calls from Lua that it is made for       *)
(* (lua_glue.c): download() copies a URL, copyfile(), stringtofile() and   *)
(* writefile() something that is there already, and movefile() a file that *)
(* cannot be renamed.                                                      *)
(*                                                                         *)
(* One step is one call to the platform or to the stream.  The progress    *)
(* callback, in which the user may cancel, belongs to the step before it.  *)
(***************************************************************************)
EXTENDS Download

CONSTANTS
  Calls,  \* the calls: [op |-> "url" | "copy" | "move", max |-> bytes or Unknown]
  Chunk   \* scratchbuf_128k

Absent == <<-1>>          \* no file: not a sequence of bytes
Old    == <<0>>            \* what was at the destination before

ASSUME CopyAssumption ==
  /\ Chunk \in Nat \ {0}
  /\ Calls \subseteq [op : {"url", "copy", "move"}, max : Nat \cup {Unknown}]
  /\ \A c \in Calls : c.op = "move" => c.max = Unknown

VARIABLES
  pc,      \* the next thing to do: "rename", "wait", "create", "copy", "flush",
           \* "release", "join", "unlink", "undo", "return"
  call,    \* the call
  orig,    \* what the source of a move holds
  dst,     \* what the destination holds
  pos,     \* the place in a stream that is no download
  flen,    \* the number of bytes to copy, or Unknown
  sums,    \* the bytes the checksums have seen; bw is their number
  failed,  \* iofailure
  ok       \* the result

copyVars == <<pc, call, orig, dst, pos, flen, sums, failed, ok>>
vars == <<copyVars, netVars>>

Remote      == call.op = "url"
HasCallback == call.op # "move"
bw          == Len(sums)

-----------------------------------------------------------------------------
(* The stream: a download, or one that holds all of Source.                *)

Ready  == Remote => BlockingReady
StreamLength == IF Remote THEN length ELSE Len(Source)

\* A read of n bytes: what it gets and what it returns.
ReadBytes(n) == IF Remote THEN BlockingBytes(n)
                ELSE SubSeq(Source, pos + 1, SmallerOf(pos + n, Len(Source)))

ReadCount(n) == IF Remote THEN BlockingCount(n) ELSE Len(ReadBytes(n))

ReadStream(n) ==
  IF Remote THEN BlockingRead(n) /\ UNCHANGED pos
  ELSE pos' = pos + ReadCount(n) /\ UNCHANGED netVars

\* A file may be unreadable.
ReadFails == ~Remote /\ "read" \in Faults

\* Whether the callback goes on.
KeepGoing == {TRUE} \cup IF HasCallback /\ "cancel" \in Faults THEN {FALSE} ELSE {}

-----------------------------------------------------------------------------
InitCopy ==
  /\ call \in Calls
  /\ pc = IF call.op = "move" THEN "rename" ELSE "wait"
  /\ orig = IF call.op = "move" THEN Source ELSE Absent
  /\ dst \in {Absent, Old} /\ pos = 0 /\ flen = 0 /\ sums = <<>>
  /\ failed = FALSE /\ ok = FALSE
  /\ IF call.op = "url" THEN InitDownload
     ELSE /\ thread = "ended" /\ batch = <<>> /\ sent = 0 /\ ring = EmptyRing
          /\ length = Unknown /\ error = FALSE /\ stop = FALSE

Goto(next) == pc' = next

\* luahook_movefile() tries to rename; the source may not be readable either.
Rename ==
  /\ pc = "rename"
  /\ \/ dst' = orig /\ orig' = Absent /\ ok' = TRUE /\ Goto("return")
     \/ "rename" \in Faults /\ Goto("wait") /\ UNCHANGED <<orig, dst, ok>>
     \/ {"rename", "open"} \subseteq Faults /\ Goto("return") /\ UNCHANGED <<orig, dst, ok>>
  /\ UNCHANGED <<call, pos, flen, sums, failed, netVars>>

\* Mutant: the copy does not wait.
WaitNever ==
  /\ pc = "wait"
  /\ Goto("create") /\ UNCHANGED failed
  /\ UNCHANGED <<call, orig, dst, pos, flen, sums, ok, netVars>>

\* Wait until the stream knows its length.
Wait ==
  /\ pc = "wait"
  /\ IF Ready \/ failed THEN Goto("create") /\ UNCHANGED failed
     ELSE \E go \in KeepGoing : failed' = ~go /\ Goto("wait")
  /\ UNCHANGED <<call, orig, dst, pos, flen, sums, ok, netVars>>

\* The number of bytes to copy, as far as it is known.
ToCopy == IF call.max # Unknown /\ StreamLength > call.max THEN call.max
          ELSE StreamLength

\* What was there is unlinked even if nothing will be written.
Create ==
  /\ pc = "create"
  /\ flen' = ToCopy
  /\ \/ ~failed /\ dst' = <<>> /\ Goto("copy")
     \/ (failed \/ "open" \in Faults) /\ dst' = Absent /\ Goto("release")
  /\ UNCHANGED <<call, orig, pos, sums, failed, ok, netVars>>

\* Mutant: a failure does not end the loop.
LeaveLoopAtLength ==
  /\ pc = "copy"
  /\ bw = flen
  /\ Goto("flush")
  /\ UNCHANGED <<call, orig, dst, pos, flen, sums, failed, ok, netVars>>

\* The loop is left when the copy has failed or reached the length.
LeaveLoop ==
  /\ pc = "copy"
  /\ failed \/ bw = flen
  /\ Goto("flush")
  /\ UNCHANGED <<call, orig, dst, pos, flen, sums, failed, ok, netVars>>

\* With a callback the loop polls: nothing is there yet.
Poll ==
  /\ pc = "copy" /\ ~failed /\ bw # flen
  /\ HasCallback /\ ~Ready
  /\ \E go \in KeepGoing : failed' = ~go
  /\ UNCHANGED <<pc, call, orig, dst, pos, flen, sums, ok, netVars>>

\* How much is read at once: no more than is missing, if that is known.
MaxRead == IF flen # Unknown THEN SmallerOf(Chunk, flen - bw) ELSE Chunk

\* A read that gets something, its write, and the callback.
CopyChunk ==
  /\ pc = "copy" /\ ~failed /\ bw # flen
  /\ ReadCount(MaxRead) > 0
  /\ \/ dst' = dst \o ReadBytes(MaxRead) /\ sums' = sums \o ReadBytes(MaxRead)
        /\ \E go \in KeepGoing : failed' = ~go
     \/ /\ "write" \in Faults
        /\ \E n \in 0 .. ReadCount(MaxRead) - 1 : dst' = dst \o Upto(ReadBytes(MaxRead), n)
        /\ failed' = TRUE /\ UNCHANGED sums
  /\ ReadStream(MaxRead)
  /\ UNCHANGED <<pc, call, orig, flen, ok>>

\* A read that gets nothing is the end; one that fails ends the loop too.
EndOfStream ==
  /\ pc = "copy" /\ ~failed /\ bw # flen
  /\ Remote => BlockingReady
  /\ \/ ReadCount(MaxRead) = 0 /\ UNCHANGED failed
     \/ (ReadCount(MaxRead) < 0 \/ ReadFails) /\ failed' = TRUE
  /\ Goto("flush")
  /\ UNCHANGED <<call, orig, dst, pos, flen, sums, ok, netVars>>

\* Mutant: a copy that came out short counts as one.
CloseOutUncounted ==
  /\ pc = "flush"
  /\ ok' = ~failed
  /\ dst' = IF failed THEN Absent ELSE dst
  /\ Goto("release")
  /\ UNCHANGED <<call, orig, pos, flen, sums, failed, netVars>>

\* MojoPlatform_close() is false whether it succeeds or not, and false is taken
\* for success: what a delayed write has lost is not noticed.
CloseOut ==
  /\ pc = "flush"
  /\ LET good == ~failed /\ bw = flen IN
     \/ good /\ ok' = TRUE
        /\ dst' \in {dst} \cup
             IF "close" \in Faults THEN {Upto(dst, n) : n \in 0 .. Len(dst) - 1} ELSE {}
     \/ ~good /\ ok' = FALSE
        /\ dst' \in {Absent} \cup IF "remove" \in Faults THEN {dst} ELSE {}
  /\ Goto("release")
  /\ UNCHANGED <<call, orig, pos, flen, sums, failed, netVars>>

\* Mutant: the source of a move goes although the copy failed.
JoinUnlinkAlways ==
  /\ pc = "join"
  /\ BlockingJoined
  /\ Goto(IF call.op = "move" THEN "unlink" ELSE "return")
  /\ UNCHANGED <<call, orig, dst, pos, flen, sums, failed, ok, netVars>>

\* in->close(in)
CloseIn ==
  /\ pc = "release"
  /\ IF Remote THEN BlockingClose ELSE UNCHANGED netVars
  /\ Goto("join")
  /\ UNCHANGED <<call, orig, dst, pos, flen, sums, failed, ok>>

Join ==
  /\ pc = "join"
  /\ BlockingJoined
  /\ Goto(IF call.op = "move" /\ ok THEN "unlink" ELSE "return")
  /\ UNCHANGED <<call, orig, dst, pos, flen, sums, failed, ok, netVars>>

\* After the copy movefile() unlinks the source or else the copy.
UnlinkSource ==
  /\ pc = "unlink"
  /\ \/ orig' = Absent /\ Goto("return") /\ UNCHANGED ok
     \/ "unlink" \in Faults /\ ok' = FALSE /\ Goto("undo") /\ UNCHANGED orig
  /\ UNCHANGED <<call, dst, pos, flen, sums, failed, netVars>>

UnlinkCopy ==
  /\ pc = "undo"
  /\ dst' \in {Absent, dst}
  /\ Goto("return")
  /\ UNCHANGED <<call, orig, pos, flen, sums, failed, ok, netVars>>

Copy == \/ Rename \/ Wait \/ Create \/ LeaveLoop \/ Poll \/ CopyChunk
        \/ EndOfStream \/ CloseOut \/ CloseIn \/ Join \/ UnlinkSource \/ UnlinkCopy

Transfer == Thread /\ UNCHANGED copyVars

Init == InitCopy
Next == Copy \/ Transfer

Spec == Init /\ [][Next]_vars

\* Both threads are scheduled, the network answers in the end (or times out),
\* and a user who is asked again and again goes on or gives up.
FairSpec == Spec /\ WF_vars(Copy) /\ WF_vars(Transfer)

-----------------------------------------------------------------------------
TypeOK ==
  /\ thread \in {"connect", "length", "receive", "put", "ended"}
  /\ batch \in Seq(Nat) /\ Len(batch) <= NetChunk /\ sent \in 0 .. Len(Source)
  /\ ring.read \in 0 .. RingSize /\ ring.write \in 0 .. RingSize
  /\ ring.used \in 0 .. RingSize
  /\ length \in {Unknown, Len(Source)} /\ error \in BOOLEAN /\ stop \in BOOLEAN
  /\ pc \in {"rename", "wait", "create", "copy", "flush", "release", "join",
             "unlink", "undo", "return"}
  /\ flen \in {Unknown} \cup 0 .. Len(Source) /\ Len(sums) <= Len(Source)

Whole == IF call.max = Unknown \/ call.max > Len(Source) THEN Source
         ELSE Upto(Source, call.max)

\* The ring is a queue: what the disk has, what is in the ring, and what the
\* thread holds are the bytes the network has delivered, in order.
InTransit ==
  Remote /\ ~failed => sums \o RingPeek(ring, ring.used) \o batch = Upto(Source, sent)

\* Whoever is told that a file was written finds all of it there, and the
\* checksum is that of what is there; whoever is told that it failed finds
\* nothing (toPhysicalFile).  Without the faults "close" and "remove".
CompleteOrAbsent ==
  pc = "return" /\ call.op # "move" =>
    IF ok THEN dst = Whole /\ sums = dst ELSE dst = Absent

\* A file that is being moved is complete in one place at least, whatever fails
\* and wherever the process dies (movefile).
OneCopyLeft == call.op = "move" => Source \in {orig, dst}

\* A move that succeeds has moved, one that fails has left the source alone.
MovedOrNot ==
  pc = "return" /\ call.op = "move" =>
    IF ok THEN orig = Absent /\ dst = Source ELSE orig = Source

\* The length is settled when the copy asks for it: the thread has set it before
\* it lets anyone see a byte (ready).
LengthIsSettled ==
  pc \in {"copy", "flush"} => flen = ToCopy

\* A move never costs the file.
MoveIsSafe == OneCopyLeft /\ MovedOrNot

\* The streams and the copy are in step.
InStep == TypeOK /\ LengthIsSettled

\* A copy ends.  The one way not to is a download that is given up while the
\* ring is full.
Stuck == pc = "join" /\ thread = "put" /\ ring.used = RingSize
EndsOrStuck == <>[](pc = "return" \/ Stuck)
=============================================================================

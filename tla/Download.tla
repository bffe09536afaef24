------------------------------ MODULE Download ------------------------------
(***************************************************************************)
(* A download as a stream (src/libfetch/common.c): a thread reads from the *)
(* network and puts what it gets into a ring buffer, from which the        *)
(* MojoInput that MojoInput_newFromURL() returned is read.  One mutex      *)
(* guards the ring; length, error and stop are shared without it.          *)
(*                                                                         *)
(* A critical section is one step.  The server sends the bytes of Source,  *)
(* each named by its place.                                                *)
(***************************************************************************)
EXTENDS Integers, Sequences

CONSTANTS
  Source,    \* the bytes of the file
  RingSize,  \* 512 kilobytes in the code
  NetChunk,  \* what the thread reads at once, 512 bytes
  Faults     \* what may go wrong, of FaultKind

FaultKind == {"connect", "read", "truncated", "nolength", "open", "write",
              "cancel", "close", "remove", "rename", "unlink"}

ASSUME DownloadAssumption ==
  /\ RingSize \in Nat \ {0} /\ NetChunk \in Nat \ {0}
  /\ Source \in Seq(Nat) /\ Faults \subseteq FaultKind

Unknown == -1

VARIABLES
  thread,  \* where blocking_thread() is: "connect", "length", "receive", "put",
           \* "ended"
  batch,   \* what it has read and not yet put
  sent,    \* how many bytes the network has delivered
  ring,    \* the MojoRing: buffer, read, write, used
  length,  \* BlockingInfo.length, error and stop
  error,
  stop

netVars == <<thread, batch, sent, ring, length, error, stop>>

SmallerOf(a, b) == IF a < b THEN a ELSE b
From(s, n) == SubSeq(s, n + 1, Len(s))
Upto(s, n) == SubSeq(s, 1, n)

-----------------------------------------------------------------------------
(* The ring.  An index is wrapped when it is beyond the size, not at it.   *)

EmptyRing ==
  [buffer |-> [i \in 0 .. RingSize - 1 |-> 0], read |-> 0, write |-> 0, used |-> 0]

AvailableForPut(r) == RingSize - r.used

Wrapped(n) == IF n > RingSize THEN n - RingSize ELSE n

\* data is never longer than AvailableForPut: the branches of MojoRing_put()
\* that overwrite are not taken.
RingPut(r, data) ==
  LET size == Len(data)
      cpy  == SmallerOf(RingSize - r.write, size) IN
  [buffer |-> [i \in 0 .. RingSize - 1 |->
                 IF i \in r.write .. r.write + cpy - 1 THEN data[i - r.write + 1]
                 ELSE IF i < size - cpy THEN data[cpy + i + 1]
                 ELSE r.buffer[i]],
   read |-> r.read, write |-> Wrapped(r.write + size),
   used |-> SmallerOf(r.used + size, RingSize)]

\* The next size bytes, and the ring without them.
RingPeek(r, size) ==
  LET cpy == SmallerOf(RingSize - r.read, size) IN
  [i \in 1 .. size |-> r.buffer[IF i <= cpy THEN r.read + i - 1 ELSE i - cpy - 1]]

RingGet(r, size) ==
  [r EXCEPT !.read = Wrapped(r.read + size), !.used = r.used - size]

-----------------------------------------------------------------------------
(* The thread.                                                             *)

InitDownload ==
  /\ thread = "connect" /\ batch = <<>> /\ sent = 0 /\ ring = EmptyRing
  /\ length = Unknown /\ error = FALSE /\ stop = FALSE

\* fetchXGetURL()
Connect ==
  /\ thread = "connect"
  /\ \/ thread' = "length" /\ UNCHANGED <<error, stop>>
     \/ "connect" \in Faults /\ thread' = "ended" /\ error' = TRUE /\ stop' = TRUE
  /\ UNCHANGED <<batch, sent, ring, length>>

\* The server may not say how long the file is.
LearnLength ==
  /\ thread = "length"
  /\ length' \in IF stop THEN {length}
                 ELSE {Len(Source)} \cup IF "nolength" \in Faults THEN {Unknown} ELSE {}
  /\ thread' = "receive"
  /\ UNCHANGED <<batch, sent, ring, error, stop>>

\* Where the download may break off.
Break ==
  \/ sent = Len(Source) /\ error' = error
  \/ "truncated" \in Faults /\ sent < Len(Source) /\ error' = error
  \/ "read" \in Faults /\ error' = TRUE

\* One round of the loop: the test of stop and the read from the network.
Receive ==
  /\ thread = "receive" /\ ~stop
  /\ \/ /\ \E n \in 1 .. SmallerOf(NetChunk, Len(Source) - sent) :
             batch' = SubSeq(Source, sent + 1, sent + n) /\ sent' = sent + n
        /\ thread' = "put" /\ UNCHANGED <<error, stop>>
     \/ Break /\ stop' = TRUE /\ UNCHANGED <<thread, batch, sent>>
  /\ UNCHANGED <<ring, length>>

\* Mutant: what does not fit into the ring is lost.
PutDropping ==
  /\ thread = "put"
  /\ LET n == SmallerOf(AvailableForPut(ring), Len(batch)) IN
     ring' = RingPut(ring, Upto(batch, n))
  /\ batch' = <<>>
  /\ thread' = "receive"
  /\ UNCHANGED <<sent, length, error, stop>>

\* The inner loop puts what fits and sleeps until all of the batch is in; it
\* does not look at stop.
Put ==
  /\ thread = "put"
  /\ LET n == SmallerOf(AvailableForPut(ring), Len(batch)) IN
     /\ ring'  = RingPut(ring, Upto(batch, n))
     /\ batch' = From(batch, n)
  /\ thread' = IF batch' = <<>> THEN "receive" ELSE "put"
  /\ UNCHANGED <<sent, length, error, stop>>

EndThread ==
  /\ thread = "receive" /\ stop
  /\ thread' = "ended"
  /\ UNCHANGED <<batch, sent, ring, length, error, stop>>

Thread == Connect \/ LearnLength \/ Receive \/ Put \/ EndThread

-----------------------------------------------------------------------------
(* The stream.                                                             *)

BlockingReady == stop \/ error \/ ring.used > 0

\* MojoInput_blocking_read(), once it is ready, gets what there is, up to n
\* bytes: these, and what it returns.
BlockingBytes(n) == RingPeek(ring, SmallerOf(ring.used, n))

BlockingCount(n) ==
  IF ring.used > 0 THEN SmallerOf(ring.used, n) ELSE IF error THEN -1 ELSE 0

BlockingRead(n) ==
  /\ BlockingReady
  /\ ring' = RingGet(ring, SmallerOf(ring.used, n))
  /\ UNCHANGED <<thread, batch, sent, length, error, stop>>

\* MojoInput_blocking_close() asks the thread to stop, and then waits for it.
BlockingClose == stop' = TRUE /\ UNCHANGED <<thread, batch, sent, ring, length, error>>

BlockingJoined == thread = "ended"
=============================================================================

--------------------------- MODULE FileCopyProofs ---------------------------
(***************************************************************************)
(* Theorems about the copying of files, for any file, any size of the ring *)
(* and of the chunks, any calls, and any faults but those whose loss the   *)
(* code does not notice.  The invariant says that the ring is a queue:     *)
(* what the disk has, what the ring holds and what the thread has in its   *)
(* hands continue each other, byte by byte, up to what was delivered.      *)
(***************************************************************************)
EXTENDS FileCopy, SequenceTheorems, TLAPS

-----------------------------------------------------------------------------
(* The ring.                                                               *)

\* Where the i-th byte of the ring is.
Place(r, i) == IF r.read + i > RingSize THEN r.read + i - RingSize - 1 ELSE r.read + i - 1

Held(r, i) == r.buffer[Place(r, i)]

Rings ==
  {r \in [buffer : [0 .. RingSize - 1 -> Nat], read : 0 .. RingSize,
          write : 0 .. RingSize, used : 0 .. RingSize] :
     r.write = r.read + r.used \/ r.write = r.read + r.used - RingSize}

LEMMA RingFields ==
  ASSUME NEW r \in Rings
  PROVE  /\ RingSize \in Nat \ {0}
         /\ r.read \in 0 .. RingSize /\ r.write \in 0 .. RingSize /\ r.used \in 0 .. RingSize
         /\ r.write = r.read + r.used \/ r.write = r.read + r.used - RingSize
BY DownloadAssumption DEF Rings

LEMMA RingBytes == ASSUME NEW r \in Rings PROVE r.buffer \in [0 .. RingSize - 1 -> Nat]
BY DEF Rings

\* Where size more bytes go: behind what is held, in one piece or, past the end of
\* the buffer, in two.
LEMMA PutPlaces ==
  ASSUME NEW r \in Rings, NEW size \in Nat, r.used + size <= RingSize,
         NEW cpy, cpy = SmallerOf(RingSize - r.write, size),
         NEW new, new.read = r.read
  PROVE  /\ cpy \in 0 .. size /\ r.write + cpy <= RingSize
         /\ \A i \in 1 .. r.used :
              /\ Place(new, i) = Place(r, i) /\ Place(r, i) \in 0 .. RingSize - 1
              /\ Place(r, i) \notin r.write .. r.write + cpy - 1
              /\ ~(Place(r, i) < size - cpy)
         /\ \A i \in 1 .. size :
              /\ Place(new, r.used + i) \in 0 .. RingSize - 1
              /\ i <= cpy => Place(new, r.used + i) = r.write + i - 1
              /\ i > cpy => /\ Place(new, r.used + i) = i - cpy - 1
                            /\ i - cpy - 1 \notin r.write .. r.write + cpy - 1
                            /\ i - cpy - 1 < size - cpy
<1>0. /\ RingSize \in Nat \ {0}
      /\ r.read \in 0 .. RingSize /\ r.write \in 0 .. RingSize /\ r.used \in 0 .. RingSize
      /\ r.write = r.read + r.used \/ r.write = r.read + r.used - RingSize
  BY RingFields
<1>1. cpy \in 0 .. size /\ r.write + cpy <= RingSize
      /\ (cpy = RingSize - r.write \/ cpy = size)
  BY <1>0 DEF SmallerOf
<1>2. ASSUME NEW i \in 1 .. r.used
      PROVE  /\ Place(new, i) = Place(r, i) /\ Place(r, i) \in 0 .. RingSize - 1
             /\ Place(r, i) \notin r.write .. r.write + cpy - 1
             /\ ~(Place(r, i) < size - cpy)
  BY <1>0, <1>1 DEF Place
<1>3. ASSUME NEW i \in 1 .. size
      PROVE  /\ Place(new, r.used + i) \in 0 .. RingSize - 1
             /\ i <= cpy => Place(new, r.used + i) = r.write + i - 1
             /\ i > cpy => /\ Place(new, r.used + i) = i - cpy - 1
                           /\ i - cpy - 1 \notin r.write .. r.write + cpy - 1
                           /\ i - cpy - 1 < size - cpy
  BY <1>0, <1>1 DEF Place
<1> QED BY <1>1, <1>2, <1>3

LEMMA PutFields ==
  ASSUME NEW r \in Rings, NEW size \in Nat, r.used + size <= RingSize
  PROVE  /\ Wrapped(r.write + size) \in 0 .. RingSize /\ r.used + size \in 0 .. RingSize
         /\ \/ Wrapped(r.write + size) = r.read + (r.used + size)
            \/ Wrapped(r.write + size) = r.read + (r.used + size) - RingSize
         /\ SmallerOf(r.used + size, RingSize) = r.used + size
<1>0. /\ RingSize \in Nat \ {0}
      /\ r.read \in 0 .. RingSize /\ r.write \in 0 .. RingSize /\ r.used \in 0 .. RingSize
      /\ r.write = r.read + r.used \/ r.write = r.read + r.used - RingSize
  BY RingFields
<1> QED BY <1>0 DEF Wrapped, SmallerOf

\* What is put into the ring comes after what is in it, and overwrites nothing.
LEMMA PutAppends ==
  ASSUME NEW r \in Rings, NEW data \in Seq(Nat), Len(data) <= AvailableForPut(r)
  PROVE  /\ RingPut(r, data) \in Rings
         /\ RingPut(r, data).used = r.used + Len(data)
         /\ \A i \in 1 .. r.used : Held(RingPut(r, data), i) = Held(r, i)
         /\ \A i \in 1 .. Len(data) : Held(RingPut(r, data), r.used + i) = data[i]
<1> DEFINE size == Len(data)
           cpy  == SmallerOf(RingSize - r.write, size)
           new  == RingPut(r, data)
<1>1. size \in Nat /\ r.used + size <= RingSize
  BY RingFields DEF AvailableForPut
<1>2. new.used = r.used + size /\ new.read = r.read /\ new.write = Wrapped(r.write + size)
  BY <1>1, PutFields DEF RingPut
<1>3. new.buffer = [i \in 0 .. RingSize - 1 |->
        IF i \in r.write .. r.write + cpy - 1 THEN data[i - r.write + 1]
        ELSE IF i < size - cpy THEN data[cpy + i + 1]
        ELSE r.buffer[i]]
  BY DEF RingPut
<1>4. new = [buffer |-> new.buffer, read |-> new.read, write |-> new.write, used |-> new.used]
  BY DEF RingPut
<1>5. \A i \in 1 .. size : data[i] \in Nat
  OBVIOUS
<1> HIDE DEF new, size
<1>6. new.buffer \in [0 .. RingSize - 1 -> Nat]
  <2>1. SUFFICES ASSUME NEW i \in 0 .. RingSize - 1 PROVE new.buffer[i] \in Nat
    BY <1>3
  <2>2. CASE i \in r.write .. r.write + cpy - 1
    <3>1. i - r.write + 1 \in 1 .. size
      BY <1>1, <2>2, RingFields DEF SmallerOf
    <3> QED BY <1>3, <1>5, <2>2, <3>1
  <2>3. CASE i \notin r.write .. r.write + cpy - 1 /\ i < size - cpy
    <3>1. cpy + i + 1 \in 1 .. size
      BY <1>1, <2>3, RingFields DEF SmallerOf
    <3> QED BY <1>3, <1>5, <2>3, <3>1
  <2>4. CASE i \notin r.write .. r.write + cpy - 1 /\ ~(i < size - cpy)
    BY <1>3, <2>4, RingBytes
  <2> QED BY <2>2, <2>3, <2>4
<1>7. new \in Rings
  <2>1. /\ new.write \in 0 .. RingSize /\ new.used \in 0 .. RingSize
        /\ new.write = new.read + new.used \/ new.write = new.read + new.used - RingSize
    BY <1>1, <1>2, PutFields
  <2>2. new.read \in 0 .. RingSize
    BY <1>2, RingFields
  <2> QED BY <1>4, <1>6, <2>1, <2>2 DEF Rings
<1> HIDE DEF cpy
<1>8. /\ cpy \in 0 .. size
      /\ \A i \in 1 .. r.used :
           /\ Place(new, i) = Place(r, i) /\ Place(r, i) \in 0 .. RingSize - 1
           /\ Place(r, i) \notin r.write .. r.write + cpy - 1
           /\ ~(Place(r, i) < size - cpy)
      /\ \A i \in 1 .. size :
           /\ Place(new, r.used + i) \in 0 .. RingSize - 1
           /\ i <= cpy => Place(new, r.used + i) = r.write + i - 1
           /\ i > cpy => /\ Place(new, r.used + i) = i - cpy - 1
                         /\ i - cpy - 1 \notin r.write .. r.write + cpy - 1
                         /\ i - cpy - 1 < size - cpy
  BY <1>1, <1>2, PutPlaces DEF cpy
<1>9. \A i \in 1 .. r.used : Held(new, i) = Held(r, i)
  BY <1>3, <1>8 DEF Held
<1>10. ASSUME NEW i \in 1 .. size PROVE Held(new, r.used + i) = data[i]
  <2>0. r.write \in Nat /\ i \in Nat \ {0} /\ cpy \in Nat
    BY <1>1, <1>8, RingFields
  <2>1. CASE i <= cpy
    <3>1. r.write + i - 1 \in r.write .. r.write + cpy - 1
      BY <2>0, <2>1
    <3>2. (r.write + i - 1) - r.write + 1 = i
      BY <2>0
    <3> QED BY <1>3, <1>8, <2>1, <3>1, <3>2 DEF Held
  <2>2. CASE i > cpy
    <3>1. cpy + (i - cpy - 1) + 1 = i
      BY <2>0, <2>2
    <3> QED BY <1>3, <1>8, <2>2, <3>1 DEF Held
  <2> QED BY <2>0, <2>1, <2>2
<1> QED BY <1>2, <1>7, <1>9, <1>10 DEF new, size

\* What is got from the ring are its first bytes; the others move up.
LEMMA GetTakes ==
  ASSUME NEW r \in Rings, NEW n \in 0 .. r.used
  PROVE  /\ RingGet(r, n) \in Rings /\ RingGet(r, n).used = r.used - n
         /\ RingPeek(r, n) \in Seq(Nat) /\ Len(RingPeek(r, n)) = n
         /\ \A i \in 1 .. n : RingPeek(r, n)[i] = Held(r, i)
         /\ \A i \in 1 .. r.used - n : Held(RingGet(r, n), i) = Held(r, n + i)
<1> DEFINE cpy == SmallerOf(RingSize - r.read, n)
           new == RingGet(r, n)
<1>0. /\ RingSize \in Nat \ {0}
      /\ r.read \in 0 .. RingSize /\ r.write \in 0 .. RingSize /\ r.used \in 0 .. RingSize
      /\ r.write = r.read + r.used \/ r.write = r.read + r.used - RingSize
  BY RingFields
<1>1. new = [r EXCEPT !.read = Wrapped(r.read + n), !.used = r.used - n]
  BY DEF RingGet
<1>2. r \in [buffer : [0 .. RingSize - 1 -> Nat], read : 0 .. RingSize,
             write : 0 .. RingSize, used : 0 .. RingSize]
  BY DEF Rings
<1>3. /\ new.buffer = r.buffer /\ new.read = Wrapped(r.read + n) /\ new.write = r.write
      /\ new.used = r.used - n
  BY <1>1, <1>2
<1>4. Wrapped(r.read + n) \in 0 .. RingSize /\ r.used - n \in 0 .. RingSize
      /\ (r.write = Wrapped(r.read + n) + (r.used - n)
          \/ r.write = Wrapped(r.read + n) + (r.used - n) - RingSize)
  BY <1>0 DEF Wrapped
<1>5. new \in Rings
  BY <1>1, <1>2, <1>3, <1>4 DEF Rings
<1> HIDE DEF new
<1>6. \A i \in 1 .. n : Place(r, i) = (IF i <= cpy THEN r.read + i - 1 ELSE i - cpy - 1)
                        /\ Place(r, i) \in 0 .. RingSize - 1
  BY <1>0 DEF Place, SmallerOf
<1>7. RingPeek(r, n) = [i \in 1 .. n |-> Held(r, i)]
  BY <1>6 DEF RingPeek, Held
<1>8. \A i \in 1 .. n : Held(r, i) \in Nat
  BY <1>6, RingBytes DEF Held
<1>9. n \in Nat
  BY <1>0
<1>10. RingPeek(r, n) \in Seq(Nat) /\ Len(RingPeek(r, n)) = n
  BY <1>7, <1>8, <1>9
<1>11. ASSUME NEW i \in 1 .. r.used - n PROVE Held(new, i) = Held(r, n + i)
  <2>1. Place(new, i) = Place(r, n + i)
    BY <1>3, <1>0 DEF Place, Wrapped
  <2> QED BY <1>3, <2>1 DEF Held
<1> QED BY <1>3, <1>5, <1>7, <1>10, <1>11 DEF new

-----------------------------------------------------------------------------
(* The inductive invariant.                                                *)

NetTypes ==
  /\ thread \in {"connect", "length", "receive", "put", "ended"}
  /\ batch \in Seq(Nat) /\ Len(batch) <= NetChunk /\ sent \in 0 .. Len(Source)
  /\ ring \in Rings
  /\ length \in {Unknown, Len(Source)} /\ error \in BOOLEAN /\ stop \in BOOLEAN

CopyTypes ==
  /\ call \in Calls
  /\ pc \in {"rename", "wait", "create", "copy", "flush", "release", "join",
             "unlink", "undo", "return"}
  /\ pos \in 0 .. Len(Source)
  /\ flen \in {Unknown} \cup 0 .. Len(Source) /\ sums \in Seq(Nat)
  /\ failed \in BOOLEAN /\ ok \in BOOLEAN

\* What the checksum has seen is the beginning of the file.
Delivered ==
  Len(sums) <= Len(Source) /\ \A i \in 1 .. Len(sums) : sums[i] = Source[i]

\* What is in the ring continues it, and what the thread holds continues that.
Flow ==
  /\ thread # "put" => batch = <<>>
  /\ Remote /\ ~failed =>
       /\ Len(sums) + ring.used + Len(batch) = sent
       /\ \A i \in 1 .. ring.used : Held(ring, i) = Source[Len(sums) + i]
       /\ \A i \in 1 .. Len(batch) : batch[i] = Source[Len(sums) + ring.used + i]
  /\ ~Remote => thread = "ended" /\ (~failed => pos = Len(sums))

\* Nobody sees a byte, an error or the end before the length is settled.
Settled ==
  /\ thread \in {"connect", "length"} =>
       /\ ring.used = 0 /\ ~error
       /\ stop => pc \in {"join", "unlink", "undo", "return"}
       /\ pc \notin {"copy", "flush"} /\ (pc = "create" => failed)
  /\ pc \in {"copy", "flush"} =>
       flen = ToCopy /\ (flen # Unknown => Len(sums) <= flen)
  /\ pc \in {"rename", "wait", "create"} => sums = <<>>

\* What the destination holds, as far as the code notices what goes wrong.
Written ==
  /\ pc \in {"rename", "wait", "create", "copy", "flush"} => ~ok
  /\ pc \in {"copy", "flush"} /\ ~failed => dst = sums
  /\ pc \in {"release", "join", "unlink"} \/ (pc = "return" /\ call.op # "move") =>
       /\ ok /\ "close" \notin Faults => dst = Whole /\ sums = dst
       /\ ~ok /\ "remove" \notin Faults => dst = Absent

\* Where a file that is moved is.
Moving ==
  /\ pc \in {"rename", "unlink", "undo"} => call.op = "move"
  /\ (pc = "unlink" => ok) /\ (pc = "undo" => ~ok)
  /\ call.op = "move" =>
       IF pc = "return" /\ ok
       THEN orig = Absent /\ ("close" \notin Faults => dst = Source)
       ELSE orig = Source

IInv == NetTypes /\ CopyTypes /\ Delivered /\ Flow /\ Settled /\ Written /\ Moving

-----------------------------------------------------------------------------
(* Facts about sequences.                                                  *)

LEMMA Append2 ==
  ASSUME NEW s \in Seq(Nat), NEW t \in Seq(Nat)
  PROVE  /\ s \o t \in Seq(Nat) /\ Len(s \o t) = Len(s) + Len(t)
         /\ \A i \in 1 .. Len(s) : (s \o t)[i] = s[i]
         /\ \A i \in 1 .. Len(t) : (s \o t)[Len(s) + i] = t[i]
OBVIOUS

LEMMA Prefix ==
  ASSUME NEW s \in Seq(Nat), NEW n \in 0 .. Len(s)
  PROVE  /\ Upto(s, n) \in Seq(Nat) /\ Len(Upto(s, n)) = n
         /\ \A i \in 1 .. n : Upto(s, n)[i] = s[i]
BY DEF Upto

LEMMA Rest ==
  ASSUME NEW s \in Seq(Nat), NEW n \in 0 .. Len(s)
  PROVE  /\ From(s, n) \in Seq(Nat) /\ Len(From(s, n)) = Len(s) - n
         /\ \A i \in 1 .. Len(s) - n : From(s, n)[i] = s[n + i]
BY DEF From

LEMMA Piece ==
  ASSUME NEW s \in Seq(Nat), NEW m \in Nat, NEW n \in Nat, m + n <= Len(s)
  PROVE  /\ SubSeq(s, m + 1, m + n) \in Seq(Nat) /\ Len(SubSeq(s, m + 1, m + n)) = n
         /\ \A i \in 1 .. n : SubSeq(s, m + 1, m + n)[i] = s[m + i]
OBVIOUS

\* A sequence is the beginning of the file when it is so byte by byte.
LEMMA IsPrefix ==
  ASSUME NEW s \in Seq(Nat), Len(s) <= Len(Source),
         \A i \in 1 .. Len(s) : s[i] = Source[i]
  PROVE  s = Upto(Source, Len(s))
<1>1. Source \in Seq(Nat) /\ Len(s) \in 0 .. Len(Source)
  BY DownloadAssumption
<1>2. /\ Upto(Source, Len(s)) \in Seq(Nat) /\ Len(Upto(Source, Len(s))) = Len(s)
      /\ \A i \in 1 .. Len(s) : Upto(Source, Len(s))[i] = s[i]
  BY <1>1, Prefix
<1> QED BY <1>2, SeqEqual

\* What continues the beginning of the file byte by byte makes a longer one.
LEMMA Continued ==
  ASSUME NEW s \in Seq(Nat), NEW t \in Seq(Nat),
         \A i \in 1 .. Len(s) : s[i] = Source[i],
         \A i \in 1 .. Len(t) : t[i] = Source[Len(s) + i]
  PROVE  /\ s \o t \in Seq(Nat) /\ Len(s \o t) = Len(s) + Len(t)
         /\ \A i \in 1 .. Len(s) + Len(t) : (s \o t)[i] = Source[i]
<1>1. /\ Len(s) \in Nat /\ Len(t) \in Nat
      /\ s \o t \in Seq(Nat) /\ Len(s \o t) = Len(s) + Len(t)
      /\ \A i \in 1 .. Len(s) : (s \o t)[i] = s[i]
      /\ \A i \in 1 .. Len(t) : (s \o t)[Len(s) + i] = t[i]
  BY Append2
<1>2. ASSUME NEW i \in 1 .. Len(s) + Len(t) PROVE (s \o t)[i] = Source[i]
  <2>1. CASE i <= Len(s)
    <3>1. i \in 1 .. Len(s)
      BY <1>1, <2>1
    <3> QED BY <1>1, <3>1
  <2>2. CASE i > Len(s)
    <3>1. i - Len(s) \in 1 .. Len(t) /\ Len(s) + (i - Len(s)) = i
      BY <1>1, <2>2
    <3>2. (s \o t)[Len(s) + (i - Len(s))] = Source[Len(s) + (i - Len(s))]
      BY <1>1, <3>1
    <3> QED BY <3>1, <3>2
  <2> QED BY <1>1, <2>1, <2>2
<1> QED BY <1>1, <1>2

-----------------------------------------------------------------------------
(* The invariant holds.                                                    *)

LEMMA CallFields ==
  ASSUME CopyTypes
  PROVE  /\ call.op \in {"url", "copy", "move"} /\ call.max \in Nat \cup {Unknown}
         /\ call.op = "move" => call.max = Unknown
BY CopyAssumption DEF CopyTypes

LEMMA EmptyRingIsRing == EmptyRing \in Rings /\ EmptyRing.used = 0
BY DownloadAssumption DEF EmptyRing, Rings

LEMMA InitInv == Init => IInv
<1> SUFFICES ASSUME Init PROVE IInv
  OBVIOUS
<1> USE DEF Init, InitCopy, InitDownload
<1>0. Source \in Seq(Nat) /\ call \in Calls /\ Len(Source) \in Nat
      /\ call.op \in {"url", "copy", "move"}
  BY DownloadAssumption, CopyAssumption
<1>b. <<>> \in Seq(Nat) /\ Len(<<>>) = 0
  OBVIOUS
<1>c. /\ thread \in {"connect", "ended"} /\ batch = <<>> /\ sent = 0 /\ ring = EmptyRing
      /\ length = Unknown /\ error = FALSE /\ stop = FALSE
  OBVIOUS
<1>d. /\ pc \in {"rename", "wait"} /\ pos = 0 /\ flen = 0 /\ sums = <<>>
      /\ failed = FALSE /\ ok = FALSE
  OBVIOUS
<1>1. NetTypes
  <2> HIDE DEF Init, InitCopy, InitDownload
  <2>1. batch \in Seq(Nat) /\ Len(batch) <= NetChunk
    BY <1>b, <1>c, DownloadAssumption
  <2>2. ring \in Rings
    BY <1>c, EmptyRingIsRing
  <2>3. sent \in 0 .. Len(Source)
    BY <1>0, <1>c
  <2>4. error \in BOOLEAN /\ stop \in BOOLEAN
    BY <1>c
  <2> QED BY <1>c, <2>1, <2>2, <2>3, <2>4 DEF NetTypes
<1>2. CopyTypes
  <2> HIDE DEF Init, InitCopy, InitDownload
  <2>1. pos \in 0 .. Len(Source) /\ flen \in 0 .. Len(Source) /\ sums \in Seq(Nat)
    BY <1>0, <1>b, <1>d
  <2>2. failed \in BOOLEAN /\ ok \in BOOLEAN
    BY <1>d
  <2> QED BY <1>0, <1>d, <2>1, <2>2 DEF CopyTypes
<1>3. Delivered
  BY <1>0 DEF Delivered
<1>4. Flow
  BY <1>0, EmptyRingIsRing DEF Flow, Remote
<1>5. Settled
  BY <1>0, EmptyRingIsRing DEF Settled
<1>6. Written
  BY <1>0 DEF Written
<1>7. Moving
  BY <1>0 DEF Moving
<1> QED BY <1>1, <1>2, <1>3, <1>4, <1>5, <1>6, <1>7 DEF IInv

\* The steps of the copy that read nothing and leave the network alone.
LEMMA QuietSteps ==
  ASSUME IInv, Rename \/ Wait \/ Create \/ LeaveLoop \/ Poll \/ EndOfStream \/ Join
               \/ UnlinkSource \/ UnlinkCopy
  PROVE  IInv'
<1> USE DEF IInv, netVars, Goto, HasCallback, KeepGoing, bw
<1>0. Source \in Seq(Nat) /\ Len(Source) \in Nat /\ call' = call /\ UNCHANGED netVars
  <2>1. call' = call /\ UNCHANGED netVars
    BY DEF Rename, Wait, Create, LeaveLoop, Poll, EndOfStream, Join, UnlinkSource, UnlinkCopy
  <2> QED BY <2>1, DownloadAssumption
<1>a. call.op \in {"url", "copy", "move"} /\ call.max \in Nat \cup {Unknown}
  BY CallFields
<1>1. NetTypes'
  BY <1>0 DEF NetTypes
<1>2. pos' = pos /\ sums' = sums /\ (failed => failed') /\ Remote' = Remote /\ ToCopy' = ToCopy
  BY <1>0 DEF Rename, Wait, Create, LeaveLoop, Poll, EndOfStream, Join, UnlinkSource,
     UnlinkCopy, Remote, ToCopy, StreamLength, CopyTypes
<1>3. Delivered' /\ Flow'
  BY <1>0, <1>2 DEF Delivered, Flow, CopyTypes
<1>4. ToCopy \in {Unknown} \cup 0 .. Len(Source)
  BY <1>0, <1>a DEF ToCopy, StreamLength, NetTypes, Unknown
<1>5. CASE Rename
  <2>1. CopyTypes'
    BY <1>0, <1>4, <1>5 DEF CopyTypes, Rename
  <2>2. Settled'
    BY <1>0, <1>2, <1>5 DEF Settled, CopyTypes, NetTypes, Flow, Remote, Rename
  <2>3. Written'
    BY <1>0, <1>2, <1>5 DEF Written, Whole, Moving, CopyTypes, Rename
  <2>4. Moving'
    BY <1>0, <1>a, <1>5, CallFields DEF Moving, Written, Whole, CopyTypes, Rename
  <2> QED BY <1>1, <1>3, <2>1, <2>2, <2>3, <2>4
<1>6. CASE Wait
  <2>1. CopyTypes'
    BY <1>0, <1>4, <1>6 DEF CopyTypes, Wait
  <2>2. Settled'
    <3>1. ~failed /\ pc' = "create" => thread \notin {"connect", "length"}
      BY <1>6 DEF Wait, Ready, BlockingReady, Settled, Flow, NetTypes, Rings
    <3>2. pc = "wait" /\ pc' \in {"wait", "create"} /\ sums = <<>> /\ (pc' = "create" => failed' = failed)
      BY <1>6 DEF Wait, Settled
    <3> QED BY <1>0, <1>2, <3>1, <3>2 DEF Settled
  <2>3. Written'
    BY <1>0, <1>2, <1>6 DEF Written, Whole, Moving, CopyTypes, Wait
  <2>4. Moving'
    BY <1>0, <1>a, <1>6, CallFields DEF Moving, Written, Whole, CopyTypes, Wait
  <2> QED BY <1>1, <1>3, <2>1, <2>2, <2>3, <2>4
<1>7. CASE Create
  <2>1. CopyTypes'
    BY <1>0, <1>4, <1>7 DEF CopyTypes, Create
  <2>2. Settled'
    <3>1. /\ pc = "create" /\ sums = <<>> /\ flen' = ToCopy /\ failed' = failed
          /\ pc' \in {"copy", "release"} /\ (pc' = "copy" => ~failed)
      BY <1>7 DEF Create, Settled
    <3>2. flen' # Unknown => Len(sums) <= flen'
      BY <1>0, <1>4, <3>1
    <3> QED BY <1>0, <1>2, <3>1, <3>2 DEF Settled
  <2>3. Written'
    BY <1>0, <1>2, <1>7 DEF Written, Whole, Moving, CopyTypes, Create, Settled
  <2>4. Moving'
    BY <1>0, <1>a, <1>7, CallFields DEF Moving, Written, Whole, CopyTypes, Create
  <2> QED BY <1>1, <1>3, <2>1, <2>2, <2>3, <2>4
<1>8. CASE LeaveLoop
  <2>1. CopyTypes'
    BY <1>0, <1>4, <1>8 DEF CopyTypes, LeaveLoop
  <2>2. Settled'
    BY <1>0, <1>2, <1>8 DEF Settled, CopyTypes, NetTypes, Flow, Remote, LeaveLoop
  <2>3. Written'
    BY <1>0, <1>2, <1>8 DEF Written, Whole, Moving, CopyTypes, LeaveLoop
  <2>4. Moving'
    BY <1>0, <1>a, <1>8, CallFields DEF Moving, Written, Whole, CopyTypes, LeaveLoop
  <2> QED BY <1>1, <1>3, <2>1, <2>2, <2>3, <2>4
<1>9. CASE Poll
  <2>1. CopyTypes'
    BY <1>0, <1>4, <1>9 DEF CopyTypes, Poll
  <2>2. Settled'
    BY <1>0, <1>2, <1>9 DEF Settled, CopyTypes, NetTypes, Flow, Remote, Poll
  <2>3. Written'
    BY <1>0, <1>2, <1>9 DEF Written, Whole, Moving, CopyTypes, Poll
  <2>4. Moving'
    BY <1>0, <1>a, <1>9, CallFields DEF Moving, Written, Whole, CopyTypes, Poll
  <2> QED BY <1>1, <1>3, <2>1, <2>2, <2>3, <2>4
<1>10. CASE EndOfStream
  <2>1. CopyTypes'
    BY <1>0, <1>4, <1>10 DEF CopyTypes, EndOfStream
  <2>2. Settled'
    BY <1>0, <1>2, <1>10 DEF Settled, CopyTypes, NetTypes, Flow, Remote, EndOfStream, Ready, BlockingReady
  <2>3. Written'
    BY <1>0, <1>2, <1>10 DEF Written, Whole, Moving, CopyTypes, EndOfStream
  <2>4. Moving'
    BY <1>0, <1>a, <1>10, CallFields DEF Moving, Written, Whole, CopyTypes, EndOfStream
  <2> QED BY <1>1, <1>3, <2>1, <2>2, <2>3, <2>4
<1>11. CASE Join
  <2>1. CopyTypes'
    BY <1>0, <1>4, <1>11 DEF CopyTypes, Join
  <2>2. Settled'
    BY <1>0, <1>2, <1>11 DEF Settled, CopyTypes, NetTypes, Flow, Remote, Join
  <2>3. Written'
    BY <1>0, <1>2, <1>11 DEF Written, Whole, Moving, CopyTypes, Join
  <2>4. Moving'
    BY <1>0, <1>a, <1>11, CallFields DEF Moving, Written, Whole, CopyTypes, Join
  <2> QED BY <1>1, <1>3, <2>1, <2>2, <2>3, <2>4
<1>12. CASE UnlinkSource
  <2>1. CopyTypes'
    BY <1>0, <1>4, <1>12 DEF CopyTypes, UnlinkSource
  <2>2. Settled'
    BY <1>0, <1>2, <1>12 DEF Settled, CopyTypes, NetTypes, Flow, Remote, UnlinkSource
  <2>3. Written'
    BY <1>0, <1>2, <1>12 DEF Written, Whole, Moving, CopyTypes, UnlinkSource
  <2>4. Moving'
    BY <1>0, <1>a, <1>12, CallFields DEF Moving, Written, Whole, CopyTypes, UnlinkSource
  <2> QED BY <1>1, <1>3, <2>1, <2>2, <2>3, <2>4
<1>13. CASE UnlinkCopy
  <2>1. CopyTypes'
    BY <1>0, <1>4, <1>13 DEF CopyTypes, UnlinkCopy
  <2>2. Settled'
    BY <1>0, <1>2, <1>13 DEF Settled, CopyTypes, NetTypes, Flow, Remote, UnlinkCopy
  <2>3. Written'
    BY <1>0, <1>2, <1>13 DEF Written, Whole, Moving, CopyTypes, UnlinkCopy
  <2>4. Moving'
    BY <1>0, <1>a, <1>13, CallFields DEF Moving, Written, Whole, CopyTypes, UnlinkCopy
  <2> QED BY <1>1, <1>3, <2>1, <2>2, <2>3, <2>4
<1> QED BY <1>5, <1>6, <1>7, <1>8, <1>9, <1>10, <1>11, <1>12, <1>13

\* A read that gets something gets the bytes that come next.
LEMMA ReadIsNext ==
  ASSUME IInv, pc = "copy", ~failed, bw # flen, ReadCount(MaxRead) > 0
  PROVE  /\ ReadBytes(MaxRead) \in Seq(Nat)
         /\ Len(ReadBytes(MaxRead)) = ReadCount(MaxRead)
         /\ Len(sums) + ReadCount(MaxRead) <= Len(Source)
         /\ flen # Unknown => Len(sums) + ReadCount(MaxRead) <= flen
         /\ \A i \in 1 .. ReadCount(MaxRead) :
              ReadBytes(MaxRead)[i] = Source[Len(sums) + i]
         /\ Remote => ReadCount(MaxRead) = SmallerOf(ring.used, MaxRead)
                      /\ ReadCount(MaxRead) \in 1 .. ring.used
<1> DEFINE n == MaxRead
<1>0. /\ Source \in Seq(Nat) /\ Len(Source) \in Nat /\ sums \in Seq(Nat) /\ Len(sums) \in Nat
      /\ Len(sums) <= Len(Source) /\ Chunk \in Nat \ {0}
  BY DownloadAssumption, CopyAssumption DEF IInv, CopyTypes, Delivered
<1>1. n \in Nat \ {0} /\ (flen # Unknown => Len(sums) + n <= flen)
  <2>1. flen \in {Unknown} \cup Nat /\ (flen # Unknown => Len(sums) < flen)
    BY <1>0 DEF IInv, Settled, CopyTypes, bw
  <2> QED BY <1>0, <2>1 DEF MaxRead, SmallerOf, bw, Unknown
<1> HIDE DEF n
<1>2. CASE Remote
  <2>1. ring \in Rings /\ ring.used \in Nat
    BY RingFields DEF IInv, NetTypes, Rings
  <2>2. ring.used > 0 /\ ReadCount(n) = SmallerOf(ring.used, n)
    BY <1>2, <2>1 DEF ReadCount, BlockingCount, n
  <2>3. ReadCount(n) \in 1 .. ring.used /\ ReadCount(n) <= n
    BY <1>1, <2>1, <2>2 DEF SmallerOf
  <2>4. ReadBytes(n) = RingPeek(ring, ReadCount(n))
    BY <1>2, <2>2 DEF ReadBytes, BlockingBytes
  <2>5. /\ ReadBytes(n) \in Seq(Nat) /\ Len(ReadBytes(n)) = ReadCount(n)
        /\ \A i \in 1 .. ReadCount(n) : ReadBytes(n)[i] = Held(ring, i)
    BY <2>1, <2>3, <2>4, GetTakes
  <2>6. Len(sums) + ring.used + Len(batch) = sent
        /\ \A i \in 1 .. ring.used : Held(ring, i) = Source[Len(sums) + i]
    BY <1>2 DEF IInv, Flow
  <2>7. Len(batch) \in Nat /\ sent \in 0 .. Len(Source)
    BY DEF IInv, NetTypes
  <2>8. Len(sums) + ReadCount(n) <= Len(Source)
        /\ (flen # Unknown => Len(sums) + ReadCount(n) <= flen)
    <3>1. flen \in {Unknown} \cup Nat
      BY <1>0 DEF IInv, CopyTypes
    <3> QED BY <1>0, <1>1, <2>1, <2>3, <2>6, <2>7, <3>1
  <2>9. \A i \in 1 .. ReadCount(n) : ReadBytes(n)[i] = Source[Len(sums) + i]
    BY <2>1, <2>3, <2>5, <2>6
  <2> QED BY <2>2, <2>3, <2>5, <2>8, <2>9 DEF n
<1>3. CASE ~Remote
  <2> DEFINE m == SmallerOf(pos + n, Len(Source)) - pos
  <2>1. pos = Len(sums)
    BY <1>3 DEF IInv, Flow
  <2>2. /\ m \in Nat /\ pos + m = SmallerOf(pos + n, Len(Source)) /\ m <= n
        /\ pos + m <= Len(Source)
    BY <1>0, <1>1, <2>1 DEF SmallerOf
  <2>3. ReadBytes(n) = SubSeq(Source, pos + 1, pos + m)
    BY <1>3, <2>2 DEF ReadBytes
  <2> HIDE DEF m
  <2>4. /\ ReadBytes(n) \in Seq(Nat) /\ Len(ReadBytes(n)) = m
        /\ \A i \in 1 .. m : ReadBytes(n)[i] = Source[pos + i]
    <3>1. Source \in Seq(Nat) /\ pos \in Nat /\ m \in Nat /\ pos + m <= Len(Source)
      BY <1>0, <2>1, <2>2
    <3>2. /\ SubSeq(Source, pos + 1, pos + m) \in Seq(Nat)
          /\ Len(SubSeq(Source, pos + 1, pos + m)) = m
          /\ \A i \in 1 .. m : SubSeq(Source, pos + 1, pos + m)[i] = Source[pos + i]
      BY <3>1, Piece
    <3> QED BY <2>3, <3>2
  <2>5. ReadCount(n) = m
    BY <1>3, <2>4 DEF ReadCount
  <2>6. flen # Unknown => Len(sums) + m <= flen
    <3>1. flen \in {Unknown} \cup Nat
      BY <1>0 DEF IInv, CopyTypes
    <3> QED BY <1>0, <1>1, <2>2, <3>1
  <2> QED BY <1>3, <2>1, <2>2, <2>4, <2>5, <2>6 DEF n
<1> QED BY <1>2, <1>3

\* What is read goes to the disk and into the checksum, or the copy has failed.
LEMMA ChunkStep ==
  ASSUME IInv, CopyChunk
  PROVE  IInv'
<1> DEFINE b == ReadBytes(MaxRead)
<1>0. /\ pc = "copy" /\ ~failed /\ bw # flen /\ ReadCount(MaxRead) > 0
      /\ pc' = pc /\ call' = call /\ orig' = orig /\ flen' = flen /\ ok' = ok
      /\ \/ dst' = dst \o b /\ sums' = sums \o b /\ failed' \in BOOLEAN
         \/ failed' = TRUE /\ sums' = sums
      /\ ReadStream(MaxRead)
  BY DEF CopyChunk, KeepGoing
<1>1. /\ b \in Seq(Nat) /\ Len(b) = ReadCount(MaxRead)
      /\ Len(sums) + Len(b) <= Len(Source)
      /\ flen # Unknown => Len(sums) + Len(b) <= flen
      /\ \A i \in 1 .. Len(b) : b[i] = Source[Len(sums) + i]
      /\ Remote => Len(b) = SmallerOf(ring.used, MaxRead) /\ Len(b) \in 1 .. ring.used
  BY <1>0, ReadIsNext
<1>2. /\ Source \in Seq(Nat) /\ Len(Source) \in Nat /\ sums \in Seq(Nat) /\ Len(sums) \in Nat
      /\ Len(sums) <= Len(Source) /\ \A i \in 1 .. Len(sums) : sums[i] = Source[i]
  BY DownloadAssumption DEF IInv, CopyTypes, Delivered
<1>3. /\ thread' = thread /\ batch' = batch /\ sent' = sent /\ length' = length
      /\ error' = error /\ stop' = stop
      /\ Remote => ring' = RingGet(ring, Len(b)) /\ pos' = pos
      /\ ~Remote => ring' = ring /\ pos' = pos + Len(b)
  BY <1>0, <1>1 DEF ReadStream, BlockingRead, netVars
<1> HIDE DEF b
<1>4. /\ sums \o b \in Seq(Nat) /\ Len(sums \o b) = Len(sums) + Len(b) /\ Len(b) \in Nat
      /\ \A i \in 1 .. Len(sums) + Len(b) : (sums \o b)[i] = Source[i]
  <2>1. /\ sums \in Seq(Nat) /\ \A i \in 1 .. Len(sums) : sums[i] = Source[i]
        /\ b \in Seq(Nat) /\ \A i \in 1 .. Len(b) : b[i] = Source[Len(sums) + i]
    BY <1>1, <1>2
  <2>2. /\ sums \o b \in Seq(Nat) /\ Len(sums \o b) = Len(sums) + Len(b)
        /\ \A i \in 1 .. Len(sums) + Len(b) : (sums \o b)[i] = Source[i]
    BY <2>1, Continued
  <2>3. Len(b) \in Nat
    BY <2>1
  <2> QED BY <2>2, <2>3
<1>5. /\ ring \in Rings /\ ring.used \in Nat
      /\ Remote => /\ ring' \in Rings /\ ring'.used = ring.used - Len(b)
                   /\ \A i \in 1 .. ring.used - Len(b) : Held(ring', i) = Held(ring, Len(b) + i)
  <2>1. ring \in Rings /\ ring.used \in Nat
    BY RingFields DEF IInv, NetTypes, Rings
  <2>2. Remote => Len(b) \in 0 .. ring.used
    BY <1>1, <2>1
  <2> QED BY <1>3, <2>1, <2>2, GetTakes
<1>6. Remote' = Remote /\ ToCopy' = ToCopy
  BY <1>0, <1>3 DEF Remote, ToCopy, StreamLength
<1>7. NetTypes'
  BY <1>3, <1>5 DEF IInv, NetTypes
<1>8. CopyTypes'
  <2>1. pos' \in 0 .. Len(Source)
    <3>1. CASE Remote
      BY <1>3, <3>1 DEF IInv, CopyTypes
    <3>2. CASE ~Remote
      <4>1. pos = Len(sums)
        BY <1>0, <3>2 DEF IInv, Flow
      <4> QED BY <1>1, <1>2, <1>3, <1>4, <3>2, <4>1
    <3> QED BY <3>1, <3>2
  <2>2. sums' \in Seq(Nat) /\ failed' \in BOOLEAN
    BY <1>0, <1>2, <1>4
  <2> QED BY <1>0, <2>1, <2>2 DEF IInv, CopyTypes
<1>9. Delivered'
  <2>1. CASE sums' = sums
    BY <1>2, <2>1 DEF Delivered
  <2>2. CASE sums' = sums \o b
    BY <1>1, <1>2, <1>4, <2>2 DEF Delivered
  <2> QED BY <1>0, <2>1, <2>2
<1>10. Flow'
  <2>1. thread' # "put" => batch' = <<>>
    BY <1>3 DEF IInv, Flow
  <2>2. ASSUME Remote, sums' = sums \o b
        PROVE  /\ Len(sums') + ring'.used + Len(batch') = sent'
               /\ \A i \in 1 .. ring'.used : Held(ring', i) = Source[Len(sums') + i]
               /\ \A i \in 1 .. Len(batch') : batch'[i] = Source[Len(sums') + ring'.used + i]
    <3>1. /\ Len(sums) + ring.used + Len(batch) = sent
          /\ \A i \in 1 .. ring.used : Held(ring, i) = Source[Len(sums) + i]
          /\ \A i \in 1 .. Len(batch) : batch[i] = Source[Len(sums) + ring.used + i]
      BY <1>0, <2>2 DEF IInv, Flow
    <3>2. Len(batch) \in Nat /\ batch' = batch /\ sent' = sent
      BY <1>3 DEF IInv, NetTypes
    <3>3. Len(sums') = Len(sums) + Len(b) /\ ring'.used = ring.used - Len(b) /\ Len(b) <= ring.used
      BY <1>1, <1>4, <1>5, <2>2
    <3>4. Len(sums') + ring'.used = Len(sums) + ring.used
      BY <1>2, <1>4, <1>5, <3>3
    <3>5. ASSUME NEW i \in 1 .. ring'.used PROVE Held(ring', i) = Source[Len(sums') + i]
      <4>1. i \in 1 .. ring.used - Len(b) /\ Len(b) + i \in 1 .. ring.used
            /\ Len(sums) + (Len(b) + i) = Len(sums') + i
        BY <1>2, <1>4, <1>5, <3>3
      <4>2. Held(ring', i) = Held(ring, Len(b) + i)
        BY <1>5, <2>2, <4>1
      <4> QED BY <3>1, <4>1, <4>2
    <3> QED BY <3>1, <3>2, <3>4, <3>5
  <2>3. ~Remote => thread' = "ended" /\ (~failed' => pos' = Len(sums'))
    BY <1>0, <1>3, <1>4 DEF IInv, Flow
  <2> QED BY <1>0, <1>6, <2>1, <2>2, <2>3 DEF Flow
<1>11. Settled'
  <2>1. thread' \notin {"connect", "length"}
    BY <1>0, <1>3 DEF IInv, Settled
  <2>2. flen' # Unknown => Len(sums') <= flen'
    BY <1>0, <1>1, <1>4 DEF IInv, Settled
  <2> QED BY <1>0, <1>6, <2>1, <2>2 DEF IInv, Settled
<1>12. Written'
  BY <1>0 DEF IInv, Written
<1>13. Moving'
  BY <1>0 DEF IInv, Moving
<1> QED BY <1>7, <1>8, <1>9, <1>10, <1>11, <1>12, <1>13 DEF IInv

\* A file that was copied to the length it should have is the whole file.
LEMMA WholeCopied ==
  ASSUME IInv, pc = "flush", bw = flen
  PROVE  sums = Whole
<1>1. /\ Source \in Seq(Nat) /\ Len(Source) \in Nat /\ sums \in Seq(Nat) /\ Len(sums) \in Nat
      /\ Len(sums) <= Len(Source) /\ \A i \in 1 .. Len(sums) : sums[i] = Source[i]
  BY DownloadAssumption DEF IInv, CopyTypes, Delivered
<1>2. sums = Upto(Source, Len(sums))
  BY <1>1, IsPrefix
<1>3. call.max \in Nat \cup {Unknown}
  BY CallFields DEF IInv
<1>4. Len(sums) = ToCopy /\ length \in {Unknown, Len(Source)}
  BY DEF IInv, Settled, NetTypes, bw
<1>5. StreamLength \in {Unknown, Len(Source)}
  BY <1>4 DEF StreamLength
<1>6. IF call.max = Unknown \/ call.max > Len(Source) THEN Len(sums) = Len(Source)
      ELSE Len(sums) = call.max
  <2>1. StreamLength = Len(Source)
    BY <1>1, <1>3, <1>4, <1>5 DEF ToCopy, Unknown
  <2> QED BY <1>1, <1>3, <1>4, <2>1 DEF ToCopy, Unknown
<1>7. Len(sums) = Len(Source) => sums = Source
  BY <1>1, SeqEqual
<1> QED BY <1>2, <1>6, <1>7 DEF Whole

\* The end of a copy: the file is closed, and what came out short is removed.
LEMMA CloseOutStep ==
  ASSUME IInv, CloseOut
  PROVE  IInv'
<1>0. /\ pc = "flush" /\ pc' = "release" /\ call' = call /\ orig' = orig /\ pos' = pos
      /\ flen' = flen /\ sums' = sums /\ failed' = failed /\ UNCHANGED netVars
      /\ \/ /\ ~failed /\ bw = flen /\ ok' = TRUE
            /\ "close" \notin Faults => dst' = dst
         \/ /\ ok' = FALSE
            /\ "remove" \notin Faults => dst' = Absent
  BY DEF CloseOut, Goto
<1>1. NetTypes'
  BY <1>0 DEF IInv, NetTypes, netVars
<1>2. CopyTypes'
  BY <1>0 DEF IInv, CopyTypes
<1>3. Delivered' /\ Flow'
  BY <1>0 DEF IInv, Delivered, Flow, Remote, netVars
<1>4. Settled'
  BY <1>0 DEF IInv, Settled, netVars
<1>5. Written'
  <2>1. Whole' = Whole
    BY <1>0 DEF Whole
  <2>2. CASE ok'
    <3>1. dst = sums /\ sums = Whole
      BY <1>0, <2>2, WholeCopied DEF IInv, Written
    <3> QED BY <1>0, <2>1, <2>2, <3>1 DEF Written
  <2>3. CASE ~ok'
    BY <1>0, <2>3 DEF Written
  <2> QED BY <2>2, <2>3
<1>6. Moving'
  BY <1>0 DEF IInv, Moving
<1> QED BY <1>1, <1>2, <1>3, <1>4, <1>5, <1>6 DEF IInv

\* The stream is told to stop.
LEMMA CloseInStep ==
  ASSUME IInv, CloseIn
  PROVE  IInv'
<1>0. /\ pc = "release" /\ pc' = "join" /\ stop' \in {TRUE, stop}
      /\ UNCHANGED <<call, orig, dst, pos, flen, sums, failed, ok>>
      /\ UNCHANGED <<thread, batch, sent, ring, length, error>>
  BY DEF CloseIn, Goto, BlockingClose, netVars
<1>1. NetTypes'
  BY <1>0 DEF IInv, NetTypes
<1>2. CopyTypes'
  BY <1>0 DEF IInv, CopyTypes
<1>3. Delivered' /\ Flow'
  BY <1>0 DEF IInv, Delivered, Flow, Remote
<1>4. Settled'
  BY <1>0 DEF IInv, Settled
<1>5. Written'
  BY <1>0 DEF IInv, Written, Whole
<1>6. Moving'
  BY <1>0 DEF IInv, Moving
<1> QED BY <1>1, <1>2, <1>3, <1>4, <1>5, <1>6 DEF IInv

\* A step of the thread: what it does not touch, and when the length is still open.
LEMMA TransferParts ==
  ASSUME IInv, Transfer, NetTypes', Flow',
         /\ thread' \in {"connect", "length"} => ring'.used = 0 /\ ~error' /\ stop' = stop
         /\ thread \in {"connect", "length"} \/ length' = length,
         thread' \in {"connect", "length"} => thread \in {"connect", "length"}
  PROVE  IInv'
<1>0. UNCHANGED <<pc, call, orig, dst, pos, flen, sums, failed, ok>>
  BY DEF Transfer, copyVars
<1>1. CopyTypes' /\ Delivered'
  BY <1>0 DEF IInv, CopyTypes, Delivered
<1>2. Settled'
  <2>1. pc' \in {"copy", "flush"} =>
          flen' = ToCopy' /\ (flen' # Unknown => Len(sums') <= flen')
    BY <1>0 DEF IInv, Settled, ToCopy, StreamLength, Remote
  <2> QED BY <1>0, <2>1 DEF IInv, Settled
<1>3. Written' /\ Moving'
  BY <1>0 DEF IInv, Written, Moving, Whole
<1> QED BY <1>1, <1>2, <1>3 DEF IInv

\* The thread reads from the network, and puts what it has read into the ring.
LEMMA TransferStep ==
  ASSUME IInv, Transfer
  PROVE  IInv'
<1>0. /\ UNCHANGED <<pc, call, orig, dst, pos, flen, sums, failed, ok>>
      /\ Connect \/ LearnLength \/ Receive \/ Put \/ EndThread
      /\ Remote /\ Remote' = Remote
  BY DEF Transfer, copyVars, Thread, Connect, LearnLength, Receive, Put, EndThread,
     Remote, IInv, Flow
<1>1. /\ Source \in Seq(Nat) /\ Len(Source) \in Nat /\ sums \in Seq(Nat) /\ Len(sums) \in Nat
      /\ NetChunk \in Nat \ {0}
  BY DownloadAssumption DEF IInv, CopyTypes
<1>2. /\ ring \in Rings /\ ring.used \in 0 .. RingSize /\ batch \in Seq(Nat)
      /\ Len(batch) <= NetChunk /\ Len(batch) \in Nat /\ sent \in 0 .. Len(Source)
  BY RingFields DEF IInv, NetTypes
<1>3. CASE Connect
  <2>1. NetTypes'
    BY <1>3 DEF IInv, NetTypes, Connect
  <2>2. Flow'
    BY <1>0, <1>3 DEF IInv, Flow, Connect
  <2>3. thread' = "length" => ring'.used = 0 /\ ~error' /\ stop' = stop
    BY <1>3 DEF IInv, Settled, Connect
  <2> QED BY <1>3, <2>1, <2>2, <2>3, TransferParts DEF Connect
<1>4. CASE LearnLength
  <2>1. NetTypes'
    BY <1>4 DEF IInv, NetTypes, LearnLength
  <2>2. Flow'
    BY <1>0, <1>4 DEF IInv, Flow, LearnLength
  <2> QED BY <1>4, <2>1, <2>2, TransferParts DEF LearnLength
<1>5. CASE EndThread
  <2>1. NetTypes'
    BY <1>5 DEF IInv, NetTypes, EndThread
  <2>2. Flow'
    BY <1>0, <1>5 DEF IInv, Flow, EndThread
  <2> QED BY <1>5, <2>1, <2>2, TransferParts DEF EndThread
<1>6. CASE Receive
  <2>0. /\ thread = "receive" /\ batch = <<>> /\ ring' = ring /\ length' = length
        /\ thread' \in {"receive", "put"} /\ error' \in BOOLEAN /\ stop' \in BOOLEAN
    BY <1>6 DEF IInv, NetTypes, Flow, Receive, Break
  <2>1. CASE thread' = "put"
    <3>1. PICK n \in 1 .. SmallerOf(NetChunk, Len(Source) - sent) :
            batch' = SubSeq(Source, sent + 1, sent + n) /\ sent' = sent + n
      BY <1>6, <2>0, <2>1 DEF Receive
    <3>2. n \in Nat /\ n <= NetChunk /\ sent \in Nat /\ sent + n <= Len(Source)
      BY <1>1, <1>2 DEF SmallerOf
    <3>3. /\ batch' \in Seq(Nat) /\ Len(batch') = n
          /\ \A i \in 1 .. n : batch'[i] = Source[sent + i]
      BY <1>1, <3>1, <3>2, Piece
    <3>4. NetTypes'
      <4>1. sent' \in 0 .. Len(Source)
        BY <1>1, <3>1, <3>2
      <4> QED BY <2>0, <3>2, <3>3, <4>1 DEF IInv, NetTypes
    <3>5. ASSUME ~failed
          PROVE  /\ Len(sums) + ring.used + Len(batch') = sent'
                 /\ \A i \in 1 .. Len(batch') : batch'[i] = Source[Len(sums) + ring.used + i]
      <4>1. Len(sums) + ring.used + Len(batch) = sent
        BY <1>0, <3>5 DEF IInv, Flow
      <4>2. Len(sums) + ring.used = sent
        BY <1>1, <1>2, <2>0, <4>1
      <4> QED BY <3>1, <3>3, <4>2
    <3>6. Flow'
      BY <1>0, <2>0, <2>1, <3>5 DEF IInv, Flow
    <3> QED BY <2>0, <3>4, <3>6, TransferParts
  <2>2. CASE thread' = "receive"
    <3>1. batch' = batch /\ sent' = sent
      BY <1>6, <2>0, <2>2 DEF Receive
    <3>2. NetTypes'
      BY <2>0, <3>1 DEF IInv, NetTypes
    <3>3. Flow'
      BY <1>0, <2>0, <2>2, <3>1 DEF IInv, Flow
    <3> QED BY <2>0, <3>2, <3>3, TransferParts
  <2> QED BY <2>0, <2>1, <2>2
<1>7. CASE Put
  <2> DEFINE n == SmallerOf(AvailableForPut(ring), Len(batch))
             data == Upto(batch, n)
  <2>0. /\ thread = "put" /\ ring' = RingPut(ring, data) /\ batch' = From(batch, n)
        /\ thread' = (IF batch' = <<>> THEN "receive" ELSE "put")
        /\ UNCHANGED <<sent, length, error, stop>>
    BY <1>7 DEF Put
  <2>1. n \in 0 .. Len(batch) /\ n <= AvailableForPut(ring) /\ n \in Nat
    BY <1>2, RingFields DEF SmallerOf, AvailableForPut
  <2> HIDE DEF n
  <2>2. data \in Seq(Nat) /\ Len(data) = n /\ \A i \in 1 .. n : data[i] = batch[i]
    BY <1>2, <2>1, Prefix
  <2>3. /\ batch' \in Seq(Nat) /\ Len(batch') = Len(batch) - n
        /\ \A i \in 1 .. Len(batch) - n : batch'[i] = batch[n + i]
    BY <1>2, <2>0, <2>1, Rest
  <2> HIDE DEF data
  <2>4. /\ ring' \in Rings /\ ring'.used = ring.used + n
        /\ \A i \in 1 .. ring.used : Held(ring', i) = Held(ring, i)
        /\ \A i \in 1 .. n : Held(ring', ring.used + i) = data[i]
    BY <1>2, <2>0, <2>1, <2>2, PutAppends
  <2>5. NetTypes'
    <3>1. Len(batch') <= NetChunk
      BY <1>1, <1>2, <2>1, <2>3
    <3> QED BY <2>0, <2>3, <2>4, <3>1 DEF IInv, NetTypes
  <2>6. ASSUME ~failed
        PROVE  /\ Len(sums) + ring'.used + Len(batch') = sent'
               /\ \A i \in 1 .. ring'.used : Held(ring', i) = Source[Len(sums) + i]
               /\ \A i \in 1 .. Len(batch') : batch'[i] = Source[Len(sums) + ring'.used + i]
    <3>1. /\ Len(sums) + ring.used + Len(batch) = sent
          /\ \A i \in 1 .. ring.used : Held(ring, i) = Source[Len(sums) + i]
          /\ \A i \in 1 .. Len(batch) : batch[i] = Source[Len(sums) + ring.used + i]
      BY <1>0, <2>6 DEF IInv, Flow
    <3>2. /\ ring.used \in Nat /\ Len(sums) \in Nat /\ Len(batch) \in Nat
          /\ n \in 0 .. Len(batch)
          /\ ring'.used = ring.used + n /\ Len(batch') = Len(batch) - n
      BY <1>1, <1>2, <2>1, <2>3, <2>4, RingFields
    <3>3. Len(sums) + ring'.used + Len(batch') = sent'
      BY <2>0, <3>1, <3>2
    <3>4. ASSUME NEW i \in 1 .. ring'.used PROVE Held(ring', i) = Source[Len(sums) + i]
      <4>1. CASE i <= ring.used
        <5>1. i \in 1 .. ring.used
          BY <3>2, <4>1
        <5> QED BY <2>4, <3>1, <5>1
      <4>2. CASE i > ring.used
        <5>1. /\ i - ring.used \in 1 .. n /\ i - ring.used \in 1 .. Len(batch)
              /\ ring.used + (i - ring.used) = i
              /\ Len(sums) + ring.used + (i - ring.used) = Len(sums) + i
          BY <3>2, <4>2
        <5>2. Held(ring', ring.used + (i - ring.used)) = data[i - ring.used]
          BY <2>4, <5>1
        <5>3. data[i - ring.used] = Source[Len(sums) + ring.used + (i - ring.used)]
          BY <2>2, <3>1, <5>1
        <5> QED BY <5>1, <5>2, <5>3
      <4> QED BY <3>2, <4>1, <4>2
    <3>5. ASSUME NEW i \in 1 .. Len(batch')
          PROVE  batch'[i] = Source[Len(sums) + ring'.used + i]
      <4>1. /\ i \in 1 .. Len(batch) - n /\ n + i \in 1 .. Len(batch)
            /\ Len(sums) + ring.used + (n + i) = Len(sums) + ring'.used + i
        BY <3>2
      <4>2. batch'[i] = batch[n + i]
        BY <2>3, <4>1
      <4> QED BY <3>1, <4>1, <4>2
    <3> QED BY <3>3, <3>4, <3>5
  <2>7. Flow'
    BY <1>0, <2>0, <2>6 DEF IInv, Flow
  <2> QED BY <2>0, <2>5, <2>7, TransferParts
<1> QED BY <1>0, <1>3, <1>4, <1>5, <1>6, <1>7

LEMMA StepInv == IInv /\ [Next]_vars => IInv'
<1> SUFFICES ASSUME IInv, [Next]_vars PROVE IInv'
  OBVIOUS
<1>1. CASE Copy
  BY <1>1, QuietSteps, ChunkStep, CloseOutStep, CloseInStep DEF Copy
<1>2. CASE Transfer
  BY <1>2, TransferStep
<1>3. CASE UNCHANGED vars
  <2>1. /\ UNCHANGED <<pc, call, orig, dst, pos, flen, sums, failed, ok>>
        /\ UNCHANGED <<thread, batch, sent, ring, length, error, stop>>
    BY <1>3 DEF vars, copyVars, netVars
  <2>2. NetTypes' /\ CopyTypes' /\ Delivered'
    BY <2>1 DEF IInv, NetTypes, CopyTypes, Delivered
  <2>3. Flow' /\ Settled'
    BY <2>1 DEF IInv, Flow, Settled, Remote, ToCopy, StreamLength
  <2>4. Written' /\ Moving'
    BY <2>1 DEF IInv, Written, Moving, Whole
  <2> QED BY <2>2, <2>3, <2>4 DEF IInv
<1> QED BY <1>1, <1>2, <1>3 DEF Next

LEMMA SpecInv == Spec => []IInv
<1> QED BY InitInv, StepInv, PTL DEF Spec

-----------------------------------------------------------------------------
(* The theorems.                                                           *)

\* The two threads stay in step: whatever the network does, the copy never asks
\* for the length before the thread has set it, so that the number of bytes it
\* decides to copy stays the right one (MojoInput_toPhysicalFile() and
\* blocking_thread()).
THEOREM SpecInStep == Spec => []InStep
<1>1. IInv => InStep
  <2>1. SUFFICES ASSUME IInv PROVE TypeOK /\ LengthIsSettled
    BY DEF InStep
  <2>2. ring.read \in 0 .. RingSize /\ ring.write \in 0 .. RingSize /\ ring.used \in 0 .. RingSize
    BY <2>1, RingFields DEF IInv, NetTypes
  <2>3. TypeOK
    BY <2>1, <2>2 DEF IInv, NetTypes, CopyTypes, Delivered, TypeOK
  <2>4. LengthIsSettled
    BY <2>1 DEF IInv, Settled, LengthIsSettled
  <2> QED BY <2>3, <2>4
<1> QED BY <1>1, SpecInv, PTL

\* No byte is lost, doubled or overtaken between the network and the disk, for any
\* size of the ring, wherever it wraps: MojoRing_put() and MojoRing_get().
THEOREM SpecInTransit == Spec => []InTransit
<1>1. IInv => InTransit
  <2>1. SUFFICES ASSUME IInv, Remote, ~failed
                 PROVE sums \o RingPeek(ring, ring.used) \o batch = Upto(Source, sent)
    BY DEF InTransit
  <2> DEFINE held == RingPeek(ring, ring.used)
  <2>2. /\ sums \in Seq(Nat) /\ Len(sums) \in Nat
        /\ \A i \in 1 .. Len(sums) : sums[i] = Source[i]
        /\ batch \in Seq(Nat) /\ sent \in 0 .. Len(Source)
    BY <2>1 DEF IInv, NetTypes, CopyTypes, Delivered
  <2>3. /\ Len(sums) + ring.used + Len(batch) = sent
        /\ \A i \in 1 .. ring.used : Held(ring, i) = Source[Len(sums) + i]
        /\ \A i \in 1 .. Len(batch) : batch[i] = Source[Len(sums) + ring.used + i]
    BY <2>1 DEF IInv, Flow
  <2>4. ring \in Rings /\ ring.used \in Nat /\ ring.used \in 0 .. ring.used
    BY <2>1, RingFields DEF IInv, NetTypes
  <2>5. held \in Seq(Nat) /\ Len(held) = ring.used
        /\ \A i \in 1 .. Len(held) : held[i] = Source[Len(sums) + i]
    BY <2>3, <2>4, GetTakes
  <2> HIDE DEF held
  <2>6. /\ sums \o held \in Seq(Nat) /\ Len(sums \o held) = Len(sums) + ring.used
        /\ \A i \in 1 .. Len(sums \o held) : (sums \o held)[i] = Source[i]
    <3>1. /\ sums \o held \in Seq(Nat) /\ Len(sums \o held) = Len(sums) + Len(held)
          /\ \A i \in 1 .. Len(sums) + Len(held) : (sums \o held)[i] = Source[i]
      BY <2>2, <2>5, Continued
    <3> QED BY <2>5, <3>1
  <2> DEFINE got == sums \o held
             all == got \o batch
  <2>7. /\ got \in Seq(Nat) /\ \A i \in 1 .. Len(got) : got[i] = Source[i]
        /\ \A i \in 1 .. Len(batch) : batch[i] = Source[Len(got) + i]
    BY <2>3, <2>6
  <2>8. Len(got) + Len(batch) = sent
    BY <2>3, <2>6
  <2> HIDE DEF got
  <2>9. /\ all \in Seq(Nat) /\ Len(all) = sent
        /\ \A i \in 1 .. Len(all) : all[i] = Source[i]
    BY <2>2, <2>7, <2>8, Continued
  <2> HIDE DEF all
  <2>10. Len(all) <= Len(Source)
    BY <2>2, <2>9, DownloadAssumption
  <2>11. all = Upto(Source, Len(all))
    BY <2>9, <2>10, IsPrefix
  <2> QED BY <2>9, <2>11 DEF all, got, held
<1> QED BY <1>1, SpecInv, PTL

\* A file that is moved is never lost, whatever else fails and wherever the process
\* dies, if only the close tells of a write that failed late (luahook_movefile()).
THEOREM SpecMoveIsSafe ==
  ASSUME "close" \notin Faults
  PROVE  Spec => []MoveIsSafe
<1>1. IInv => MoveIsSafe
  BY DEF IInv, Moving, MoveIsSafe, OneCopyLeft, MovedOrNot
<1> QED BY <1>1, SpecInv, PTL

\* Whoever asked for a copy has all of it with the checksum of all of it, or nothing,
\* whatever the network, the disk and the user do, as long as the close tells of
\* what was lost and what was written can be removed (MojoInput_toPhysicalFile()).
THEOREM SpecCompleteOrAbsent ==
  ASSUME "close" \notin Faults, "remove" \notin Faults
  PROVE  Spec => []CompleteOrAbsent
<1>1. IInv => CompleteOrAbsent
  BY DEF IInv, Written, CopyTypes, CompleteOrAbsent
<1> QED BY <1>1, SpecInv, PTL
=============================================================================

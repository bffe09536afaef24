------------------------------ MODULE WebProofs ------------------------------
(***************************************************************************)
(* Theorems about the web interface, for any sequence of pages, any number *)
(* of tabs and connections, any backlog, and any oddities of the browser.  *)
(***************************************************************************)
EXTENDS Web, SequenceTheorems, TLAPS

-----------------------------------------------------------------------------
(* The inductive invariant.                                                *)

\* What a browser sends: a press is on a page.
Sent == {r \in Request : r.kind = "press" => r.on \in Page}

Carries == [req : Sent, tab : Tabs \cup {None}, shut : {"open", "fin", "reset"},
            reply : Page \cup {None, Closed, Bye}]

Shows == [shows : Page \cup {None, Bye}, seen : SUBSET Page, waits : Conn \cup {None}]

Types ==
  /\ page \in Page \cup {None} /\ output \in Page \cup {None, Bye}
  /\ listening \in BOOLEAN /\ careful \in BOOLEAN /\ opened \in 0 .. Connections
  /\ client \in 0 .. opened /\ reading \in 0 .. opened
  /\ request \in Sent /\ taken \in Seq(Page)
  /\ conn \in [Conn -> Carries] /\ tab \in [Tabs -> Shows]

\* The server talks to one connection at a time.
Talk ==
  /\ pc \in {"app", "serve", "accept", "read", "spin", "judge", "over"}
  /\ (reading # None) = (pc \in {"read", "spin"})
  /\ pc \in {"accept", "read", "spin"} => listening /\ client = None
  /\ ~listening => client = None /\ queue = <<>>
  /\ pc = "over" => ~listening
  /\ client # None => conn[client].req # NoRequest
  /\ request # NoRequest => client # None /\ request = conn[client].req

\* The questions are put one after the other, and each is answered before the next.
Turns ==
  /\ pc = "app" => output = page /\ Len(taken) = page
  /\ pc # "app" /\ output # Bye => output = page /\ page \in Page /\ Len(taken) = page - 1
  /\ output = Bye => pc # "app" /\ Len(taken) = page
  /\ pc = "over" => output = Bye

In(s, c) == \E i \in 1 .. Len(s) : s[i] = c
Distinct(s) == \A i, j \in 1 .. Len(s) : s[i] = s[j] => i = j

\* A connection waits in the queue once, and nowhere else.
Queued ==
  /\ queue \in Seq(Nat) /\ Len(queue) <= Backlog
  /\ \A c : In(queue, c) => c \in 1 .. opened
  /\ Distinct(queue)
  /\ ~In(queue, reading) /\ ~In(queue, client)

Kept ==
  \A c \in Conn :
    conn[c].reply = None <=> c > opened \/ In(queue, c) \/ c \in {reading, client}

\* A careful user waits for what he has asked for.
Waiting ==
  careful =>
    /\ \A t \in Tabs : t # 1 => tab[t].shows = None /\ tab[t].waits = None
    /\ \A t \in Tabs : tab[t].waits # None =>
         /\ tab[t].waits <= opened /\ conn[tab[t].waits].tab = 1
         /\ conn[tab[t].waits].reply = None
    /\ \A c \in Conn : conn[c].req.kind = "press" /\ conn[c].reply = None =>
         1 \in Tabs /\ tab[1].waits = c

\* What he presses is on the page that is put, and the page he sees is that one.
Current ==
  careful /\ ~Leaving =>
    /\ \A t \in Tabs : tab[t].waits = None /\ tab[t].shows \in Page =>
         tab[t].shows = page /\ pc # "app"
    /\ \A c \in Conn : conn[c].req.kind = "press" /\ conn[c].reply = None =>
         \/ c = client /\ pc \in {"app", "serve"}
         \/ conn[c].req.on = page /\ pc # "app"

IInv == Types /\ Talk /\ Turns /\ Queued /\ Kept /\ Waiting /\ Current /\ OneClickOneAnswer

-----------------------------------------------------------------------------
(* The queue.                                                              *)

LEMMA Appended ==
  ASSUME NEW s \in Seq(Nat), NEW x \in Nat, Distinct(s), ~In(s, x)
  PROVE  /\ Append(s, x) \in Seq(Nat) /\ Len(Append(s, x)) = Len(s) + 1
         /\ Distinct(Append(s, x))
         /\ \A c : In(Append(s, x), c) <=> In(s, c) \/ c = x
<1> DEFINE a == Append(s, x)
<1>1. /\ a \in Seq(Nat) /\ Len(a) = Len(s) + 1 /\ Len(s) \in Nat
      /\ \A i \in 1 .. Len(s) : a[i] = s[i]
      /\ a[Len(s) + 1] = x
  BY AppendProperties
<1> HIDE DEF a
<1>2. Distinct(a)
  <2>1. SUFFICES ASSUME NEW i \in 1 .. Len(s) + 1, NEW j \in 1 .. Len(s) + 1, a[i] = a[j]
                 PROVE  i = j
    BY <1>1 DEF Distinct
  <2>2. CASE i \in 1 .. Len(s) /\ j \in 1 .. Len(s)
    BY <1>1, <2>1, <2>2 DEF Distinct
  <2>3. CASE i = Len(s) + 1 /\ j \in 1 .. Len(s)
    BY <1>1, <2>1, <2>3 DEF In
  <2>4. CASE j = Len(s) + 1 /\ i \in 1 .. Len(s)
    BY <1>1, <2>1, <2>4 DEF In
  <2> QED BY <1>1, <2>2, <2>3, <2>4
<1>3. ASSUME NEW c PROVE In(a, c) <=> In(s, c) \/ c = x
  <2>1. ASSUME NEW i \in 1 .. Len(s) + 1, a[i] = c PROVE In(s, c) \/ c = x
    <3>1. i \in 1 .. Len(s) \/ i = Len(s) + 1
      BY <1>1
    <3> QED BY <1>1, <2>1, <3>1 DEF In
  <2>2. In(s, c) => In(a, c)
    <3>1. SUFFICES ASSUME NEW i \in 1 .. Len(s), s[i] = c PROVE In(a, c)
      BY DEF In
    <3>2. i \in 1 .. Len(a) /\ a[i] = c
      BY <1>1, <3>1
    <3> QED BY <3>2 DEF In
  <2>3. c = x => In(a, c)
    <3>1. Len(s) + 1 \in 1 .. Len(a)
      BY <1>1
    <3> QED BY <1>1, <3>1 DEF In
  <2> QED BY <1>1, <2>1, <2>2, <2>3 DEF In
<1> QED BY <1>1, <1>2, <1>3 DEF a

LEMMA Taken ==
  ASSUME NEW s \in Seq(Nat), s # <<>>, Distinct(s)
  PROVE  /\ Tail(s) \in Seq(Nat) /\ Len(Tail(s)) = Len(s) - 1 /\ Distinct(Tail(s))
         /\ In(s, Head(s)) /\ Head(s) \in Nat
         /\ \A c : In(Tail(s), c) <=> In(s, c) /\ c # Head(s)
<1> DEFINE r == Tail(s)
<1>1. /\ r \in Seq(Nat) /\ Len(r) = Len(s) - 1 /\ Len(s) \in Nat \ {0} /\ Head(s) \in Nat
      /\ \A i \in 1 .. Len(r) : r[i] = s[i + 1]
      /\ Head(s) = s[1]
  BY HeadTailProperties
<1> HIDE DEF r
<1>2. ASSUME NEW i \in 1 .. Len(r)
      PROVE  i + 1 \in 1 .. Len(s) /\ i + 1 # 1 /\ r[i] = s[i + 1]
  BY <1>1
<1>3. 1 \in 1 .. Len(s)
  BY <1>1
<1>4. Distinct(r)
  <2>1. SUFFICES ASSUME NEW i \in 1 .. Len(r), NEW j \in 1 .. Len(r), r[i] = r[j]
                 PROVE  i = j
    BY DEF Distinct
  <2>2. i + 1 = j + 1
    BY <1>2, <2>1 DEF Distinct
  <2> QED BY <2>2
<1>5. In(s, Head(s))
  BY <1>1, <1>3 DEF In
<1>6. ASSUME NEW c, In(r, c) PROVE In(s, c) /\ c # Head(s)
  <2>1. PICK i \in 1 .. Len(r) : r[i] = c
    BY <1>6 DEF In
  <2> QED BY <1>1, <1>2, <1>3, <2>1 DEF In, Distinct
<1>7. ASSUME NEW c, In(s, c), c # Head(s) PROVE In(r, c)
  <2>1. PICK i \in 1 .. Len(s) : s[i] = c
    BY <1>7 DEF In
  <2>2. i - 1 \in 1 .. Len(r) /\ (i - 1) + 1 = i
    BY <1>1, <1>7, <2>1
  <2> QED BY <1>2, <2>1, <2>2 DEF In
<1> QED BY <1>1, <1>4, <1>5, <1>6, <1>7 DEF r

-----------------------------------------------------------------------------
(* What the steps do to the connections and the tabs.                      *)

LEMMA Constants ==
  /\ Len(Name) \in Nat /\ Connections \in Nat /\ Backlog \in Nat
  /\ None \notin Conn /\ None \notin Page /\ Bye \notin Page \cup {None} /\ Closed \notin Page
  /\ Closed # Bye /\ Closed # None
BY WebAssumption DEF None, Conn, Page, Bye, Closed

LEMMA Dropped ==
  ASSUME conn \in [Conn -> Carries], tab \in [Tabs -> Shows],
         NEW c \in Conn, NEW answer \in Page \cup {Closed, Bye}, Drop(c, answer)
  PROVE  /\ conn' \in [Conn -> Carries] /\ tab' \in [Tabs -> Shows]
         /\ \A d \in Conn :
              /\ conn'[d].req = conn[d].req /\ conn'[d].tab = conn[d].tab
              /\ conn'[d].reply = IF d = c THEN answer ELSE conn[d].reply
         /\ \A t \in Tabs :
              IF tab[t].waits = c
              THEN tab'[t].waits = None
                   /\ tab'[t].shows = IF answer = Closed THEN None ELSE answer
              ELSE tab'[t] = tab[t]
<1>1. /\ conn' = [conn EXCEPT ![c].reply = answer]
      /\ tab' = [t \in Tabs |->
           IF tab[t].waits # c THEN tab[t]
           ELSE [shows |-> IF answer = Closed THEN None ELSE answer,
                 seen  |-> tab[t].seen \cup ({answer} \cap Page), waits |-> None]]
  BY DEF Drop
<1>2. \A d \in Conn : conn[d] \in Carries
  OBVIOUS
<1>3. \A d \in Conn : conn'[d] = IF d = c THEN [conn[c] EXCEPT !.reply = answer] ELSE conn[d]
  BY <1>1
<1>4. ASSUME NEW d \in Conn
      PROVE  /\ conn'[d] \in Carries
             /\ conn'[d].req = conn[d].req /\ conn'[d].tab = conn[d].tab
             /\ conn'[d].reply = IF d = c THEN answer ELSE conn[d].reply
  BY <1>2, <1>3 DEF Carries
<1>5. conn' \in [Conn -> Carries]
  BY <1>1, <1>4
<1>6. ASSUME NEW t \in Tabs PROVE tab'[t] \in Shows
  <2>1. tab[t] \in Shows
    OBVIOUS
  <2> QED BY <1>1, <2>1 DEF Shows
<1>7. tab' \in [Tabs -> Shows]
  BY <1>1, <1>6
<1>8. ASSUME NEW t \in Tabs
      PROVE  IF tab[t].waits = c
             THEN tab'[t].waits = None
                  /\ tab'[t].shows = IF answer = Closed THEN None ELSE answer
             ELSE tab'[t] = tab[t]
  BY <1>1
<1> QED BY <1>4, <1>5, <1>7, <1>8

LEMMA TurnedAway ==
  ASSUME conn \in [Conn -> Carries], tab \in [Tabs -> Shows], queue \in Seq(Nat),
         client \in Nat, StopListening
  PROVE  /\ listening' = FALSE /\ queue' = <<>>
         /\ conn' \in [Conn -> Carries] /\ tab' \in [Tabs -> Shows]
         /\ \A d \in Conn :
              /\ conn'[d].req = conn[d].req /\ conn'[d].tab = conn[d].tab
              /\ conn'[d].reply = IF In(queue, d) \/ d = client THEN Closed ELSE conn[d].reply
         /\ \A t \in Tabs :
              IF tab[t].waits # None /\ (In(queue, tab[t].waits) \/ tab[t].waits = client)
              THEN tab'[t].waits = None /\ tab'[t].shows = None
              ELSE tab'[t] = tab[t]
<1> DEFINE away == {queue[n] : n \in DOMAIN queue}
<1>1. /\ listening' = FALSE /\ queue' = <<>>
      /\ conn' = [c \in Conn |-> IF c \in away \cup {client}
                                 THEN [conn[c] EXCEPT !.reply = Closed] ELSE conn[c]]
      /\ tab' = [t \in Tabs |-> IF tab[t].waits \in (away \cup {client}) \ {None}
                                THEN [tab[t] EXCEPT !.shows = None, !.waits = None] ELSE tab[t]]
  BY DEF StopListening
<1>2. \A c : c \in away <=> In(queue, c)
  <2>1. DOMAIN queue = 1 .. Len(queue)
    OBVIOUS
  <2> QED BY <2>1 DEF In
<1> HIDE DEF away
<1>3. ASSUME NEW d \in Conn
      PROVE  /\ conn'[d] \in Carries
             /\ conn'[d].req = conn[d].req /\ conn'[d].tab = conn[d].tab
             /\ conn'[d].reply = IF In(queue, d) \/ d = client THEN Closed ELSE conn[d].reply
  <2>1. conn[d] \in Carries
    OBVIOUS
  <2>2. conn'[d] = IF In(queue, d) \/ d = client
                   THEN [conn[d] EXCEPT !.reply = Closed] ELSE conn[d]
    BY <1>1, <1>2
  <2> QED BY <2>1, <2>2 DEF Carries
<1>4. conn' \in [Conn -> Carries]
  BY <1>1, <1>3
<1>5. ASSUME NEW t \in Tabs
      PROVE  /\ tab'[t] \in Shows
             /\ IF tab[t].waits # None /\ (In(queue, tab[t].waits) \/ tab[t].waits = client)
                THEN tab'[t].waits = None /\ tab'[t].shows = None
                ELSE tab'[t] = tab[t]
  <2>1. tab[t] \in Shows
    OBVIOUS
  <2>2. tab'[t] = IF tab[t].waits # None /\ (In(queue, tab[t].waits) \/ tab[t].waits = client)
                  THEN [tab[t] EXCEPT !.shows = None, !.waits = None] ELSE tab[t]
    BY <1>1, <1>2
  <2> QED BY <2>1, <2>2 DEF Shows
<1>6. tab' \in [Tabs -> Shows]
  BY <1>1, <1>5
<1> QED BY <1>1, <1>3, <1>4, <1>5, <1>6

LEMMA Turned ==
  ASSUME conn \in [Conn -> Carries], tab \in [Tabs -> Shows],
         NEW t \in Tabs, NEW c \in Conn, NEW req \in Sent, TurnTo(t, c, req)
  PROVE  /\ conn' \in [Conn -> Carries] /\ tab' \in [Tabs -> Shows]
         /\ \A d \in Conn :
              /\ conn'[d].req = IF d = c THEN req ELSE conn[d].req
              /\ conn'[d].tab = IF d = c THEN t ELSE conn[d].tab
              /\ conn'[d].reply = conn[d].reply
         /\ \A u \in Tabs :
              /\ tab'[u].shows = tab[u].shows
              /\ tab'[u].waits = IF u = t THEN c ELSE tab[u].waits
<1>1. ASSUME NEW d \in Conn
      PROVE  /\ conn'[d] \in Carries
             /\ conn'[d].req = IF d = c THEN req ELSE conn[d].req
             /\ conn'[d].tab = IF d = c THEN t ELSE conn[d].tab
             /\ conn'[d].reply = conn[d].reply
  <2>1. conn[d] \in Carries
    OBVIOUS
  <2>2. conn'[d] = IF d = c THEN [conn[d] EXCEPT !.req = req, !.tab = t]
                   ELSE IF d = tab[t].waits THEN [conn[d] EXCEPT !.shut = "fin"]
                   ELSE conn[d]
    BY DEF TurnTo
  <2>3. CASE d = c
    BY <2>1, <2>2, <2>3 DEF Carries
  <2>4. CASE d # c
    BY <2>1, <2>2, <2>4 DEF Carries
  <2> QED BY <2>3, <2>4
<1>2. conn' \in [Conn -> Carries]
  <2>1. conn' = [d \in Conn |-> conn'[d]]
    BY DEF TurnTo
  <2> QED BY <1>1, <2>1
<1>3. tab' = [tab EXCEPT ![t].waits = c]
  BY DEF TurnTo
<1>4. ASSUME NEW u \in Tabs
      PROVE  /\ tab'[u] \in Shows /\ tab'[u].shows = tab[u].shows
             /\ tab'[u].waits = IF u = t THEN c ELSE tab[u].waits
  <2>1. tab[u] \in Shows
    OBVIOUS
  <2>2. tab'[u] = IF u = t THEN [tab[u] EXCEPT !.waits = c] ELSE tab[u]
    BY <1>3
  <2> QED BY <2>1, <2>2 DEF Shows
<1>5. tab' \in [Tabs -> Shows]
  BY <1>3, <1>4
<1> QED BY <1>1, <1>2, <1>4, <1>5

\* A new connection joins the end of the queue.
LEMMA Joined ==
  ASSUME Types, Talk, Queued, Connect, UNCHANGED <<reading, client>>
  PROVE  /\ opened' = opened + 1 /\ opened' \in 1 .. Connections /\ opened + 1 \in Conn
         /\ Queued'
         /\ \A c : In(queue', c) <=> In(queue, c) \/ c = opened + 1
<1>1. /\ opened' = opened + 1 /\ queue' = Append(queue, opened + 1)
      /\ opened < Connections /\ Len(queue) < Backlog
  BY DEF Connect
<1>2. opened \in Nat /\ client \in 0 .. opened /\ reading \in 0 .. opened
      /\ Connections \in Nat /\ Backlog \in Nat
  BY Constants DEF Types
<1>3. /\ queue \in Seq(Nat) /\ Distinct(queue) /\ opened + 1 \in Nat
      /\ \A c : In(queue, c) => c \in 1 .. opened
      /\ ~In(queue, opened + 1)
      /\ ~In(queue, reading) /\ ~In(queue, client)
  BY <1>2 DEF Queued
<1>4. /\ queue' \in Seq(Nat) /\ Len(queue') = Len(queue) + 1 /\ Distinct(queue')
      /\ \A c : In(queue', c) <=> In(queue, c) \/ c = opened + 1
  BY <1>1, <1>3, Appended
<1>5. Len(queue') <= Backlog
  BY <1>1, <1>2, <1>3, <1>4
<1>6. \A c : In(queue', c) => c \in 1 .. opened'
  BY <1>1, <1>2, <1>3, <1>4
<1>7. ~In(queue', reading') /\ ~In(queue', client')
  BY <1>2, <1>3, <1>4
<1>8. opened' \in 1 .. Connections /\ opened + 1 \in Conn
  BY <1>1, <1>2 DEF Conn
<1> QED BY <1>1, <1>4, <1>5, <1>6, <1>7, <1>8 DEF Queued

-----------------------------------------------------------------------------
(* The invariant holds.                                                    *)

LEMMA NoneSent == NoRequest \in Sent /\ NoRequest.kind = "none"
BY DEF NoRequest, Req, Request, Sent

LEMMA InitInv == Init => IInv
<1> SUFFICES ASSUME Init PROVE IInv
  OBVIOUS
<1>1. /\ pc = "app" /\ page = None /\ output = None /\ listening = TRUE
      /\ queue = <<>> /\ reading = None /\ client = None /\ request = NoRequest
      /\ taken = <<>> /\ opened = 0 /\ careful \in BOOLEAN
  BY DEF Init
<1>2. conn \in [Conn -> Carries]
      /\ \A c \in Conn : conn[c].req = NoRequest /\ conn[c].reply = None
  BY DEF Init, Carries, Sent, NoRequest, Req, Request
<1>3. tab \in [Tabs -> Shows] /\ \A t \in Tabs : tab[t].shows = None /\ tab[t].waits = None
  BY DEF Init, Shows
<1>4. NoRequest \in Sent /\ NoRequest.kind = "none"
  BY NoneSent
<1>5. queue \in Seq(Nat) /\ Len(queue) = 0 /\ taken \in Seq(Page) /\ Len(taken) = 0
  BY <1>1
<1>6. Types
  <2>1. 0 \in 0 .. Connections
    BY Constants
  <2> QED BY <1>1, <1>2, <1>3, <1>4, <1>5, <2>1 DEF Types, None
<1>7. Talk
  BY <1>1 DEF Talk
<1>8. Turns
  BY <1>1, <1>5, Constants DEF Turns, None
<1>9. Queued
  BY <1>5, Constants DEF Queued, Distinct, In
<1>10. Kept
  <2>1. \A c \in Conn : c > opened
    BY <1>1 DEF Conn
  <2> QED BY <1>2, <2>1 DEF Kept
<1>11. Waiting
  BY <1>2, <1>3, <1>4 DEF Waiting
<1>12. Current
  BY <1>2, <1>3, <1>4, Constants DEF Current
<1>13. OneClickOneAnswer
  <2>1. DOMAIN taken = {}
    BY <1>1
  <2> QED BY <2>1 DEF OneClickOneAnswer
<1> QED BY <1>6, <1>7, <1>8, <1>9, <1>10, <1>11, <1>12, <1>13 DEF IInv

\* A tab sends a request: it has not sent another, if the user is careful.
LEMMA AskStep ==
  ASSUME IInv, NEW t \in Tabs, NEW req \in Sent, Ask(t, req),
         req # NoRequest,
         careful /\ req.kind = "press" => tab[t].shows = req.on
  PROVE  IInv'
<1> USE DEF IInv
<1>0. /\ UNCHANGED <<pc, page, output, listening, reading, client, request, taken, careful>>
      /\ MayAct(t)
  BY DEF Ask, serverVars
<1>1. /\ Types /\ opened \in Nat /\ Connections \in Nat /\ opened <= Connections
      /\ client \in 0 .. opened /\ client \in Nat
  BY Constants DEF Types
<1>2. PICK c \in Conn :
        /\ TurnTo(t, c, req) /\ conn[c].reply = None /\ c # client
        /\ \/ c = opened + 1 /\ Connect
           \/ c \in 1 .. opened /\ UNCHANGED <<opened, queue>>
  <2>1. CASE Connect /\ TurnTo(t, opened + 1, req)
    <3>1. opened + 1 \in Conn
      BY <1>0, <2>1, Joined
    <3>2. conn[opened + 1].reply = None
      BY <1>1, <3>1 DEF Kept
    <3> QED BY <1>1, <2>1, <3>1, <3>2
  <2>2. ASSUME NEW c \in 1 .. opened,
               /\ conn[c].req = NoRequest /\ conn[c].shut = "open" /\ conn[c].reply = None
               /\ TurnTo(t, c, req) /\ UNCHANGED <<opened, queue>>
        PROVE  c \in Conn /\ c # client
    <3>1. c \in Conn /\ c # None
      BY <1>1 DEF Conn, None
    <3> QED BY <2>2, <3>1 DEF Talk
  <2> QED BY <2>1, <2>2 DEF Ask
<1>3. /\ conn' \in [Conn -> Carries] /\ tab' \in [Tabs -> Shows]
      /\ \A d \in Conn :
           /\ conn'[d].req = IF d = c THEN req ELSE conn[d].req
           /\ conn'[d].tab = IF d = c THEN t ELSE conn[d].tab
           /\ conn'[d].reply = conn[d].reply
      /\ \A u \in Tabs :
           /\ tab'[u].shows = tab[u].shows
           /\ tab'[u].waits = IF u = t THEN c ELSE tab[u].waits
  BY <1>1, <1>2, Turned DEF Types
<1>4. /\ opened' \in 0 .. Connections /\ opened <= opened' /\ c <= opened'
      /\ Queued'
      /\ \A d \in Conn : d > opened' \/ In(queue', d) <=> d > opened \/ In(queue, d)
  <2>1. CASE c = opened + 1 /\ Connect
    <3>1. /\ opened' = opened + 1 /\ opened' \in 1 .. Connections /\ Queued'
          /\ \A d : In(queue', d) <=> In(queue, d) \/ d = opened + 1
      BY <1>0, <2>1, Joined
    <3>2. ASSUME NEW d \in Conn
          PROVE  d > opened' \/ In(queue', d) <=> d > opened \/ In(queue, d)
      BY <1>1, <3>1 DEF Conn
    <3> QED BY <1>1, <2>1, <3>1, <3>2
  <2>2. CASE c \in 1 .. opened /\ UNCHANGED <<opened, queue>>
    <3>1. Queued'
      BY <1>0, <2>2 DEF Queued
    <3> QED BY <1>1, <2>2, <3>1
  <2> QED BY <1>2, <2>1, <2>2
<1>5. Types'
  <2>1. client' \in 0 .. opened' /\ reading' \in 0 .. opened'
    BY <1>0, <1>1, <1>4 DEF Types
  <2> QED BY <1>0, <1>3, <1>4, <2>1 DEF Types
<1>6. Talk'
  <2>1. client # None => client \in Conn /\ conn'[client].req = conn[client].req
    <3>1. client # None => client \in Conn
      BY <1>1 DEF None, Conn
    <3> QED BY <1>2, <1>3, <3>1
  <2>2. ~listening' => queue' = <<>>
    BY <1>0, <1>2 DEF Talk, Connect
  <2> QED BY <1>0, <2>1, <2>2 DEF Talk
<1>7. Turns'
  BY <1>0 DEF Turns
<1>8. Kept'
  BY <1>0, <1>3, <1>4 DEF Kept
<1>9. ASSUME careful
      PROVE  /\ t = 1 /\ tab[t].waits = None
             /\ \A d \in Conn : conn[d].req.kind = "press" => conn[d].reply # None
  <2>1. t = 1 /\ tab[t].waits = None
    BY <1>0, <1>9 DEF MayAct
  <2> QED BY <1>9, <2>1, Constants DEF Waiting
<1>10. Waiting'
  <2> SUFFICES ASSUME careful PROVE Waiting'
    BY <1>0 DEF Waiting
  <2>1. \A u \in Tabs : u # 1 => tab'[u].shows = None /\ tab'[u].waits = None
    BY <1>3, <1>9 DEF Waiting
  <2>2. ASSUME NEW u \in Tabs, tab'[u].waits # None
        PROVE  /\ tab'[u].waits <= opened' /\ conn'[tab'[u].waits].tab = 1
               /\ conn'[tab'[u].waits].reply = None
    <3>1. u = t
      BY <1>9, <2>1, <2>2
    <3> QED BY <1>2, <1>3, <1>4, <1>9, <3>1
  <2>3. \A d \in Conn : conn'[d].req.kind = "press" /\ conn'[d].reply = None =>
          1 \in Tabs /\ tab'[1].waits = d
    BY <1>3, <1>9
  <2> QED BY <2>1, <2>2, <2>3 DEF Waiting
<1>11. Current'
  <2> SUFFICES ASSUME careful, ~Leaving PROVE Current'
    BY <1>0 DEF Current, Leaving
  <2>1. \A u \in Tabs : tab'[u].waits = None /\ tab'[u].shows \in Page =>
          tab'[u].shows = page /\ pc # "app"
    <3>1. c # None
      BY Constants
    <3> QED BY <1>3, <3>1 DEF Current
  <2>2. req.kind = "press" => req.on = page /\ pc # "app"
    BY <1>9 DEF Current, Sent
  <2>3. \A d \in Conn : conn'[d].req.kind = "press" /\ conn'[d].reply = None =>
          conn'[d].req.on = page /\ pc # "app"
    BY <1>3, <1>9, <2>2
  <2> QED BY <1>0, <2>1, <2>3 DEF Current
<1>12. OneClickOneAnswer'
  BY <1>0 DEF OneClickOneAnswer
<1> QED BY <1>4, <1>5, <1>6, <1>7, <1>8, <1>10, <1>11, <1>12

LEMMA OtherStep ==
  ASSUME IInv, NEW kind \in {"bogus", "bare", "silent"}, Other(kind)
  PROVE  IInv'
<1> USE DEF IInv
<1>0. /\ UNCHANGED <<pc, page, output, listening, reading, client, request, taken, careful,
                     tab>>
      /\ Connect
      /\ conn' = IF kind = "silent" THEN conn
                 ELSE [conn EXCEPT ![opened + 1].req = Req(kind, None)]
  BY DEF Other, serverVars
<1>1. /\ opened' = opened + 1 /\ opened' \in 1 .. Connections /\ opened + 1 \in Conn /\ Queued'
      /\ \A d : In(queue', d) <=> In(queue, d) \/ d = opened + 1
  BY <1>0, Joined
<1>2. /\ conn \in [Conn -> Carries] /\ opened \in Nat /\ client \in 0 .. opened
      /\ reading \in 0 .. opened
  BY <1>0, Constants DEF Types
<1>3. /\ kind # "silent" => Req(kind, None) \in Sent
      /\ Req(kind, None).kind # "press"
  BY DEF Req, Sent, Request
<1>4. /\ conn' \in [Conn -> Carries]
      /\ \A d \in Conn :
           /\ conn'[d].tab = conn[d].tab /\ conn'[d].reply = conn[d].reply
           /\ conn'[d].req = conn[d].req \/ (d = opened + 1 /\ conn'[d].req = Req(kind, None))
  <2>1. CASE kind = "silent"
    BY <1>0, <1>2, <2>1
  <2>2. CASE kind # "silent"
    <3>1. conn' = [conn EXCEPT ![opened + 1].req = Req(kind, None)]
      BY <1>0, <2>2
    <3>2. ASSUME NEW d \in Conn
          PROVE  /\ conn'[d] \in Carries
                 /\ conn'[d].tab = conn[d].tab /\ conn'[d].reply = conn[d].reply
                 /\ \/ conn'[d].req = conn[d].req
                    \/ d = opened + 1 /\ conn'[d].req = Req(kind, None)
      <4>1. conn[d] \in Carries
        BY <1>2
      <4>2. conn'[d] = IF d = opened + 1 THEN [conn[d] EXCEPT !.req = Req(kind, None)]
                       ELSE conn[d]
        BY <1>1, <1>2, <3>1
      <4> QED BY <1>3, <2>2, <4>1, <4>2 DEF Carries
    <3> QED BY <1>2, <3>1, <3>2
  <2> QED BY <2>1, <2>2
<1>5. Types'
  <2>1. client' \in 0 .. opened' /\ reading' \in 0 .. opened' /\ opened' \in 0 .. Connections
    BY <1>0, <1>1, <1>2
  <2> QED BY <1>0, <1>4, <2>1 DEF Types
<1>6. Talk'
  <2>1. client # None => client \in Conn /\ client # opened + 1
    <3>1. client # None => client \in 1 .. opened
      BY <1>2 DEF None
    <3>2. 1 .. opened \subseteq Conn
      BY <1>2, Constants DEF Conn, Types
    <3>3. opened + 1 \notin 1 .. opened
      BY <1>2
    <3> QED BY <3>1, <3>2, <3>3
  <2>2. client # None => conn'[client].req = conn[client].req
    BY <1>4, <2>1
  <2>3. listening
    BY <1>0 DEF Connect
  <2> QED BY <1>0, <2>2, <2>3 DEF Talk
<1>7. Turns'
  BY <1>0 DEF Turns
<1>8. Kept'
  <2>1. ASSUME NEW d \in Conn
        PROVE  d > opened' \/ In(queue', d) <=> d > opened \/ In(queue, d)
    BY <1>1, <1>2 DEF Conn
  <2> QED BY <1>0, <1>4, <2>1 DEF Kept
<1>9. \A d \in Conn : conn'[d].req.kind = "press" => conn'[d].req = conn[d].req
  BY <1>3, <1>4
<1>10. Waiting'
  <2> SUFFICES ASSUME careful PROVE Waiting'
    BY <1>0 DEF Waiting
  <2>1. ASSUME NEW u \in Tabs, tab[u].waits # None
        PROVE  /\ tab[u].waits <= opened' /\ conn'[tab[u].waits].tab = 1
               /\ conn'[tab[u].waits].reply = None
    <3>1. tab[u].waits \in Conn
      <4>1. tab[u] \in Shows
        BY DEF Types
      <4> QED BY <2>1, <4>1 DEF Shows
    <3>2. /\ tab[u].waits <= opened /\ conn[tab[u].waits].tab = 1
          /\ conn[tab[u].waits].reply = None
      BY <2>1 DEF Waiting
    <3>3. tab[u].waits <= opened'
      BY <1>1, <1>2, <3>1, <3>2, Constants DEF Conn
    <3> QED BY <1>4, <3>1, <3>2, <3>3
  <2>2. \A d \in Conn : conn'[d].req.kind = "press" /\ conn'[d].reply = None =>
          1 \in Tabs /\ tab[1].waits = d
    BY <1>4, <1>9 DEF Waiting
  <2> QED BY <1>0, <2>1, <2>2 DEF Waiting
<1>11. Current'
  BY <1>0, <1>4, <1>9 DEF Current, Leaving
<1>12. OneClickOneAnswer'
  BY <1>0 DEF OneClickOneAnswer
<1> QED BY <1>1, <1>5, <1>6, <1>7, <1>8, <1>10, <1>11, <1>12

LEMMA HangUpStep ==
  ASSUME IInv, NEW c \in Conn, HangUp(c)
  PROVE  IInv'
<1> USE DEF IInv
<1>0. /\ UNCHANGED <<pc, page, output, listening, reading, client, request, taken, careful,
                     queue, opened>>
      /\ careful => conn[c].tab = None
      /\ tab' = [t \in Tabs |-> IF tab[t].waits = c THEN [tab[t] EXCEPT !.waits = None]
                                ELSE tab[t]]
  BY DEF HangUp, serverVars
<1>1. conn \in [Conn -> Carries] /\ tab \in [Tabs -> Shows]
  BY DEF Types
<1>2. PICK how \in {"fin", "reset"} : conn' = [conn EXCEPT ![c].shut = how]
  BY DEF HangUp
<1>3. ASSUME NEW d \in Conn
      PROVE  /\ conn'[d] \in Carries
             /\ conn'[d].req = conn[d].req /\ conn'[d].tab = conn[d].tab
             /\ conn'[d].reply = conn[d].reply
  <2>1. conn[d] \in Carries
    BY <1>1
  <2>2. conn'[d] = IF d = c THEN [conn[d] EXCEPT !.shut = how] ELSE conn[d]
    BY <1>1, <1>2
  <2> QED BY <2>1, <2>2 DEF Carries
<1>4. conn' \in [Conn -> Carries]
  BY <1>1, <1>2, <1>3
<1>5. tab' \in [Tabs -> Shows]
  <2>1. ASSUME NEW t \in Tabs PROVE tab'[t] \in Shows
    <3>1. tab[t] \in Shows
      BY <1>1
    <3> QED BY <1>0, <3>1 DEF Shows
  <2> QED BY <1>0, <2>1
<1>6. Types'
  BY <1>0, <1>4, <1>5 DEF Types
<1>7. Talk'
  <2>1. client # None => client \in Conn
    BY Constants DEF Types, None, Conn
  <2> QED BY <1>0, <1>3, <2>1 DEF Talk
<1>8. Turns' /\ Queued' /\ OneClickOneAnswer'
  BY <1>0 DEF Turns, Queued, OneClickOneAnswer
<1>9. Kept'
  BY <1>0, <1>3 DEF Kept
<1>10. ASSUME careful
       PROVE  \A t \in Tabs :
                tab'[t] = tab[t] /\ (tab[t].waits # None => tab[t].waits \in Conn)
  <2>1. ASSUME NEW t \in Tabs
        PROVE  tab[t].waits # c /\ (tab[t].waits # None => tab[t].waits \in Conn)
    <3>1. tab[t] \in Shows
      BY <1>1
    <3>2. tab[t].waits # c
      BY <1>0, <1>10, Constants DEF Waiting, None
    <3> QED BY <3>1, <3>2 DEF Shows
  <2> QED BY <1>0, <2>1
<1>11. Waiting'
  <2> SUFFICES ASSUME careful PROVE Waiting'
    BY <1>0 DEF Waiting
  <2>1. ASSUME NEW t \in Tabs
        PROVE  /\ t # 1 => tab'[t].shows = None /\ tab'[t].waits = None
               /\ tab'[t].waits # None =>
                    /\ tab'[t].waits <= opened' /\ conn'[tab'[t].waits].tab = 1
                    /\ conn'[tab'[t].waits].reply = None
    <3>1. /\ tab'[t] = tab[t] /\ opened' = opened
          /\ tab[t].waits # None => tab[t].waits \in Conn
      BY <1>0, <1>10
    <3>2. /\ t # 1 => tab[t].shows = None /\ tab[t].waits = None
          /\ tab[t].waits # None =>
               /\ tab[t].waits <= opened /\ conn[tab[t].waits].tab = 1
               /\ conn[tab[t].waits].reply = None
      BY DEF Waiting
    <3>3. tab[t].waits # None =>
            /\ conn'[tab[t].waits].tab = conn[tab[t].waits].tab
            /\ conn'[tab[t].waits].reply = conn[tab[t].waits].reply
      BY <1>3, <3>1
    <3> QED BY <3>1, <3>2, <3>3
  <2>2. ASSUME NEW d \in Conn, conn'[d].req.kind = "press", conn'[d].reply = None
        PROVE  1 \in Tabs /\ tab'[1].waits = d
    <3>1. 1 \in Tabs /\ tab[1].waits = d
      BY <1>3, <2>2 DEF Waiting
    <3> QED BY <1>10, <3>1
  <2> QED BY <2>1, <2>2 DEF Waiting
<1>12. Current'
  BY <1>0, <1>3, <1>10 DEF Current, Leaving
<1> QED BY <1>6, <1>7, <1>8, <1>9, <1>11, <1>12

\* The browser's steps.
LEMMA BrowserStep ==
  ASSUME IInv, Browser
  PROVE  IInv'
<1>1. ASSUME NEW t \in Tabs, Visit(t) PROVE IInv'
  <2>1. Req("visit", None) \in Sent /\ Req("visit", None) # NoRequest
        /\ Req("visit", None).kind # "press"
    BY DEF Req, Sent, Request, NoRequest
  <2> QED BY <1>1, <2>1, AskStep DEF Visit
<1>2. ASSUME NEW t \in Tabs, Press(t) PROVE IInv'
  <2>1. PICK p \in Page : Ask(t, Req("press", p)) /\ (careful => tab[t].shows = p)
    BY <1>2 DEF Press
  <2>2. Req("press", p) \in Sent /\ Req("press", p) # NoRequest /\ Req("press", p).on = p
    BY DEF Req, Sent, Request, NoRequest
  <2> QED BY <2>1, <2>2, AskStep
<1> QED BY <1>1, <1>2, OtherStep, HangUpStep DEF Browser

\* The steps that touch no connection: a question is put, or its answer taken.
LEMMA AppStep ==
  ASSUME IInv, ShowPage \/ StartDeinit
  PROVE  IInv'
<1> USE DEF IInv
<1>0. /\ UNCHANGED <<listening, queue, reading, client, request, taken, conn, opened, tab,
                     careful>>
      /\ pc = "app" /\ pc' = "serve" /\ page \in Page \cup {None} /\ Len(Name) \in Nat
      /\ \/ page < Len(Name) /\ page' = page + 1 /\ output' = page'
         \/ page' = page /\ output' = Bye
  BY Constants DEF ShowPage, StartDeinit, Types
<1>1. /\ page' \in Page \cup {None} /\ output' \in Page \cup {Bye}
      /\ page' = page + 1 => page' \in Page
  BY <1>0 DEF Page, None
<1>2. Types'
  BY <1>0, <1>1 DEF Types
<1>3. Talk'
  BY <1>0 DEF Talk
<1>4. Turns'
  <2>1. Len(taken) = page
    BY <1>0 DEF Turns
  <2>2. CASE page' = page + 1 /\ output' = page'
    <3>1. page' \in Page /\ output' # Bye /\ Len(taken) = page' - 1
      BY <1>0, <1>1, <2>1, <2>2, Constants DEF Page, None
    <3> QED BY <1>0, <2>2, <3>1 DEF Turns
  <2>3. CASE page' = page /\ output' = Bye
    BY <1>0, <2>1, <2>3 DEF Turns
  <2> QED BY <1>0, <2>2, <2>3
<1>5. Queued' /\ Kept' /\ OneClickOneAnswer'
  BY <1>0 DEF Queued, Kept, OneClickOneAnswer
<1>6. Waiting'
  BY <1>0 DEF Waiting
<1>7. ~Leaving
  BY <1>0, Constants DEF Turns, Leaving
<1>8. Current'
  BY <1>0, <1>7 DEF Current
<1> QED BY <1>2, <1>3, <1>4, <1>5, <1>6, <1>8

LEMMA JudgeStep ==
  ASSUME IInv, Judge
  PROVE  IInv'
<1> USE DEF IInv
<1>0. /\ UNCHANGED <<page, output, listening, queue, reading, client, request, conn, opened, tab,
                     careful>>
      /\ pc = "judge" /\ ~Leaving
      /\ \/ request.kind = "press" /\ taken' = Append(taken, request.on) /\ pc' = "app"
         \/ taken' = taken /\ pc' = "serve"
  BY DEF Judge
<1>1. /\ output = page /\ page \in Page /\ Len(taken) = page - 1 /\ output # Bye
  BY <1>0 DEF Turns, Leaving
<1>2. Talk' /\ Queued' /\ Kept' /\ Waiting'
  BY <1>0 DEF Talk, Queued, Kept, Waiting
<1>3. CASE request.kind = "press" /\ taken' = Append(taken, request.on) /\ pc' = "app"
  <2>1. /\ client \in Conn /\ conn[client].req = request /\ conn[client].reply = None
        /\ request.on \in Page
    <3>1. request # NoRequest
      BY <1>3, NoneSent
    <3>2. client # None /\ request = conn[client].req
      BY <3>1 DEF Talk
    <3>3. client \in Conn
      BY <3>2, Constants DEF Types, Conn, None
    <3> QED BY <1>3, <3>2, <3>3 DEF Kept, Types, Sent
  <2>2. /\ taken \in Seq(Page) /\ taken' \in Seq(Page) /\ Len(taken') = page
        /\ taken'[page] = request.on /\ \A i \in 1 .. page - 1 : taken'[i] = taken[i]
    <3>1. taken \in Seq(Page)
      BY DEF Types
    <3>2. /\ taken' \in Seq(Page) /\ Len(taken') = Len(taken) + 1
          /\ taken'[Len(taken) + 1] = request.on
          /\ \A i \in 1 .. Len(taken) : taken'[i] = taken[i]
      BY <1>3, <2>1, <3>1, AppendProperties
    <3>3. (page - 1) + 1 = page
      BY <1>1 DEF Page
    <3> QED BY <1>1, <3>1, <3>2, <3>3
  <2>3. Types'
    BY <1>0, <2>2 DEF Types
  <2>4. Turns'
    BY <1>0, <1>1, <1>3, <2>2 DEF Turns
  <2>5. ASSUME careful
        PROVE  /\ request.on = page /\ 1 \in Tabs /\ tab[1].waits = client
               /\ \A t \in Tabs : t # 1 => tab[t].shows = None
    BY <1>0, <1>3, <2>1, <2>5 DEF Waiting, Current
  <2>6. Current'
    <3> SUFFICES ASSUME careful PROVE Current'
      BY <1>0 DEF Current
    <3>1. \A t \in Tabs : ~(tab[t].waits = None /\ tab[t].shows \in Page)
      BY <2>1, <2>5, Constants
    <3>2. \A c \in Conn : conn[c].req.kind = "press" /\ conn[c].reply = None => c = client
      BY <2>5 DEF Waiting
    <3> QED BY <1>0, <1>3, <3>1, <3>2 DEF Current
  <2>7. OneClickOneAnswer'
    <3> SUFFICES ASSUME careful, NEW i \in DOMAIN taken' PROVE taken'[i] = i
      BY <1>0 DEF OneClickOneAnswer
    <3>1. i \in 1 .. page /\ DOMAIN taken = 1 .. page - 1
      BY <1>1, <2>2
    <3>2. i = page \/ i \in 1 .. page - 1
      BY <1>1, <3>1 DEF Page
    <3> QED BY <2>2, <2>5, <3>1, <3>2 DEF OneClickOneAnswer
  <2> QED BY <1>2, <2>3, <2>4, <2>6, <2>7
<1>4. CASE taken' = taken /\ pc' = "serve"
  <2>1. Types' /\ Turns' /\ OneClickOneAnswer'
    BY <1>0, <1>1, <1>4 DEF Types, Turns, OneClickOneAnswer
  <2>2. Current'
    BY <1>0, <1>4 DEF Current, Leaving
  <2> QED BY <1>2, <2>1, <2>2
<1> QED BY <1>0, <1>3, <1>4

\* A reply goes out, on the connection that was kept or on the one that was read.
LEMMA DropStep ==
  ASSUME IInv, NEW c \in {client, reading} \ {None},
         NEW answer \in Page \cup {Closed, Bye}, Drop(c, answer),
         reading = None \/ client = None, answer \in Page => answer = page,
         pc' \in {"accept", "judge"} /\ pc \notin {"app", "over"},
         pc' = "accept" => listening,
         client' = None /\ reading' = None /\ request' = NoRequest,
         UNCHANGED <<page, output, listening, queue, taken, opened, careful>>
  PROVE  IInv'
<1> USE DEF IInv
<1>1. c \in Conn
  BY Constants DEF Types, Conn, None
<1>2. /\ conn' \in [Conn -> Carries] /\ tab' \in [Tabs -> Shows]
      /\ \A d \in Conn :
           /\ conn'[d].req = conn[d].req /\ conn'[d].tab = conn[d].tab
           /\ conn'[d].reply = IF d = c THEN answer ELSE conn[d].reply
      /\ \A t \in Tabs :
           IF tab[t].waits = c
           THEN tab'[t].waits = None /\ tab'[t].shows = IF answer = Closed THEN None ELSE answer
           ELSE tab'[t] = tab[t]
  BY <1>1, Dropped DEF Types
<1>3. Types'
  BY <1>2, NoneSent, Constants DEF Types, None
<1>4. Talk' /\ Turns' /\ OneClickOneAnswer'
  <2>1. Talk'
    BY DEF Talk
  <2> QED BY <2>1 DEF Turns, OneClickOneAnswer
<1>5. Queued' /\ ~In(queue, c)
  <2>1. \A d : In(queue, d) => d # None
    BY DEF Queued, None
  <2> QED BY <2>1 DEF Queued
<1>6. Kept'
  <2>1. c <= opened /\ opened \in Nat
    BY Constants DEF Types
  <2>2. ASSUME NEW d \in Conn
        PROVE  conn'[d].reply = None <=> d > opened \/ In(queue, d)
    <3>1. CASE d = c
      <4>1. ~(c > opened) /\ answer # None
        BY <1>1, <2>1, Constants DEF Conn
      <4> QED BY <1>2, <1>5, <3>1, <4>1
    <3>2. CASE d # c
      <4>1. d \notin {reading, client}
        BY <3>2, Constants
      <4> QED BY <1>2, <3>2, <4>1 DEF Kept
    <3> QED BY <3>1, <3>2
  <2> QED BY <2>2, Constants DEF Kept
<1>7. Waiting'
  <2> SUFFICES ASSUME careful PROVE Waiting'
    BY DEF Waiting
  <2>1. \A t \in Tabs : t # 1 => tab'[t].shows = None /\ tab'[t].waits = None
    BY <1>1, <1>2, Constants DEF Waiting
  <2>2. ASSUME NEW t \in Tabs, tab'[t].waits # None
        PROVE  /\ tab'[t].waits <= opened /\ conn'[tab'[t].waits].tab = 1
               /\ conn'[tab'[t].waits].reply = None
    <3>1. tab'[t] = tab[t] /\ tab[t].waits # c
      BY <1>2, <2>2
    <3>2. tab[t] \in Shows
      BY DEF Types
    <3>3. tab[t].waits \in Conn
      BY <2>2, <3>1, <3>2 DEF Shows
    <3> QED BY <1>2, <2>2, <3>1, <3>3 DEF Waiting
  <2>3. ASSUME NEW d \in Conn, conn'[d].req.kind = "press", conn'[d].reply = None
        PROVE  1 \in Tabs /\ tab'[1].waits = d
    <3>1. d # c
      BY <1>2, <2>3, Constants
    <3>2. 1 \in Tabs /\ tab[1].waits = d
      BY <1>2, <2>3, <3>1 DEF Waiting
    <3> QED BY <1>2, <3>1, <3>2
  <2> QED BY <2>1, <2>2, <2>3 DEF Waiting
<1>8. Current'
  <2> SUFFICES ASSUME careful, ~Leaving PROVE Current'
    BY DEF Current, Leaving
  <2>1. ASSUME NEW t \in Tabs, tab'[t].waits = None, tab'[t].shows \in Page
        PROVE  tab'[t].shows = page
    BY <1>2, <2>1, Constants DEF Current
  <2>2. ASSUME NEW d \in Conn, conn'[d].req.kind = "press", conn'[d].reply = None
        PROVE  conn'[d].req.on = page
    <3>1. d # c
      BY <1>2, <2>2, Constants
    <3>2. conn[d].req.kind = "press" /\ conn[d].reply = None
      BY <1>2, <2>2, <3>1
    <3>3. ~(d = client /\ pc \in {"app", "serve"})
      BY <3>1, Constants
    <3> QED BY <1>2, <3>2, <3>3 DEF Current
  <2> QED BY <2>1, <2>2 DEF Current
<1> QED BY <1>3, <1>4, <1>5, <1>6, <1>7, <1>8

\* The listening socket is closed, and everyone who waits with it.
LEMMA StopStep ==
  ASSUME IInv, StopListening, reading = None,
         /\ client' = None /\ reading' = None /\ request' = NoRequest
         /\ UNCHANGED <<page, output, taken, opened, careful>>,
         pc \notin {"app", "serve"},
         pc' = "judge" \/ (pc' = "over" /\ output = Bye)
  PROVE  IInv'
<1> USE DEF IInv
<1>1. /\ listening' = FALSE /\ queue' = <<>>
      /\ conn' \in [Conn -> Carries] /\ tab' \in [Tabs -> Shows]
      /\ \A d \in Conn :
           /\ conn'[d].req = conn[d].req /\ conn'[d].tab = conn[d].tab
           /\ conn'[d].reply = IF In(queue, d) \/ d = client THEN Closed ELSE conn[d].reply
      /\ \A t \in Tabs :
           IF tab[t].waits # None /\ (In(queue, tab[t].waits) \/ tab[t].waits = client)
           THEN tab'[t].waits = None /\ tab'[t].shows = None
           ELSE tab'[t] = tab[t]
  <2>1. client \in Nat
    BY Constants DEF Types
  <2> QED BY <2>1, TurnedAway DEF Types, Queued
<1>2. Types'
  BY <1>1, NoneSent, Constants DEF Types, None
<1>3. Talk' /\ Turns' /\ OneClickOneAnswer'
  <2>1. Talk'
    BY <1>1 DEF Talk
  <2>2. Turns'
    BY DEF Turns
  <2> QED BY <2>1, <2>2 DEF OneClickOneAnswer
<1>4. Queued' /\ \A d : ~In(queue', d)
  <2>1. queue' \in Seq(Nat) /\ Len(queue') = 0
    BY <1>1
  <2> QED BY <2>1, Constants DEF Queued, Distinct, In
<1>5. Kept'
  <2>1. ASSUME NEW d \in Conn
        PROVE  conn'[d].reply = None <=> d > opened
    <3>1. d # None /\ opened \in Nat /\ d \in Nat
      BY Constants DEF Conn, Types
    <3>2. In(queue, d) \/ d = client => ~(d > opened)
      BY <3>1, Constants DEF Queued, Types
    <3> QED BY <1>1, <3>1, <3>2, Constants DEF Kept
  <2> QED BY <1>4, <2>1, Constants DEF Kept
<1>6. \A d \in Conn : conn'[d].reply = None =>
        /\ conn[d].reply = None /\ conn'[d].req = conn[d].req /\ conn'[d].tab = conn[d].tab
        /\ ~In(queue, d) /\ d # client
  BY <1>1, Constants
<1>7. Waiting'
  <2> SUFFICES ASSUME careful PROVE Waiting'
    BY DEF Waiting
  <2>1. \A t \in Tabs : t # 1 => tab'[t].shows = None /\ tab'[t].waits = None
    BY <1>1 DEF Waiting
  <2>2. ASSUME NEW t \in Tabs, tab'[t].waits # None
        PROVE  /\ tab'[t].waits <= opened /\ conn'[tab'[t].waits].tab = 1
               /\ conn'[tab'[t].waits].reply = None
    <3>1. tab'[t] = tab[t] /\ ~In(queue, tab[t].waits) /\ tab[t].waits # client
      BY <1>1, <2>2
    <3>2. tab[t] \in Shows
      BY DEF Types
    <3>3. tab[t].waits \in Conn
      BY <2>2, <3>1, <3>2 DEF Shows
    <3> QED BY <1>1, <2>2, <3>1, <3>3 DEF Waiting
  <2>3. ASSUME NEW d \in Conn, conn'[d].req.kind = "press", conn'[d].reply = None
        PROVE  1 \in Tabs /\ tab'[1].waits = d
    <3>1. 1 \in Tabs /\ tab[1].waits = d
      BY <1>6, <2>3 DEF Waiting
    <3> QED BY <1>1, <1>6, <2>3, <3>1
  <2> QED BY <2>1, <2>2, <2>3 DEF Waiting
<1>8. Current'
  <2> SUFFICES ASSUME careful, ~Leaving PROVE Current'
    BY DEF Current, Leaving
  <2>1. ASSUME NEW t \in Tabs, tab'[t].waits = None, tab'[t].shows \in Page
        PROVE  tab'[t].shows = page
    BY <1>1, <2>1, Constants DEF Current
  <2>2. ASSUME NEW d \in Conn, conn'[d].req.kind = "press", conn'[d].reply = None
        PROVE  conn'[d].req.on = page
    BY <1>6, <2>2 DEF Current
  <2>3. pc' # "app"
    OBVIOUS
  <2> QED BY <2>1, <2>2, <2>3 DEF Current
<1> QED BY <1>2, <1>3, <1>4, <1>5, <1>7, <1>8

LEMMA ServeStep ==
  ASSUME IInv, Serve
  PROVE  IInv'
<1> USE DEF IInv
<1>0. /\ UNCHANGED <<page, output, listening, queue, reading, taken, opened, careful>>
      /\ pc = "serve" /\ request' = NoRequest /\ reading = None
      /\ pc' \in {"judge", "accept"} /\ (pc' = "accept" => listening)
      /\ \/ client = None /\ UNCHANGED <<client, conn, tab>>
         \/ client # None /\ Drop(client, output) /\ client' = None /\ pc' = "accept"
  BY DEF Serve, Talk
<1>1. CASE client = None /\ UNCHANGED <<client, conn, tab>>
  <2>1. Types' /\ Talk' /\ Turns' /\ OneClickOneAnswer'
    BY <1>0, <1>1, NoneSent DEF Types, Talk, Turns, OneClickOneAnswer
  <2>2. Queued' /\ Kept' /\ Waiting'
    BY <1>0, <1>1 DEF Queued, Kept, Waiting
  <2>3. Current'
    BY <1>0, <1>1, Constants DEF Current, Leaving
  <2> QED BY <2>1, <2>2, <2>3
<1>2. CASE client # None /\ Drop(client, output) /\ client' = None /\ pc' = "accept"
  <2>1. output \in Page \cup {Bye} /\ (output \in Page => output = page)
    BY <1>0, Constants DEF Turns
  <2> QED BY <1>0, <1>2, <2>1, DropStep
<1> QED BY <1>0, <1>1, <1>2

LEMMA AcceptStep ==
  ASSUME IInv, Accept
  PROVE  IInv'
<1> USE DEF IInv
<1>0. /\ UNCHANGED <<page, output, client, request, taken, opened, careful>>
      /\ pc = "accept" /\ listening /\ client = None /\ reading = None /\ request = NoRequest
  BY DEF Accept, Talk
<1>1. CASE /\ queue # <<>>
           /\ reading' = Head(queue) /\ queue' = Tail(queue) /\ pc' = "read"
           /\ UNCHANGED <<listening, conn, tab>>
  <2>1. /\ queue' \in Seq(Nat) /\ Len(queue') = Len(queue) - 1 /\ Distinct(queue')
        /\ In(queue, reading')
        /\ \A d : In(queue', d) <=> In(queue, d) /\ d # reading'
    BY <1>1, Taken DEF Queued
  <2>2. reading' \in 1 .. opened /\ opened \in Nat /\ Len(queue) \in Nat
    BY <2>1, Constants DEF Queued, Types
  <2>3. Types'
    BY <1>0, <1>1, <2>2 DEF Types
  <2>4. Talk' /\ Turns' /\ OneClickOneAnswer'
    <3>1. reading' # None
      BY <2>2 DEF None
    <3> QED BY <1>0, <1>1, <3>1 DEF Talk, Turns, OneClickOneAnswer
  <2>5. Queued'
    <3>1. Len(queue') <= Backlog
      BY <2>1, <2>2, Constants DEF Queued
    <3> QED BY <1>0, <2>1, <3>1 DEF Queued
  <2>6. Kept'
    <3>1. ASSUME NEW d \in Conn
          PROVE  In(queue, d) \/ d \in {reading, client}
                   <=> In(queue', d) \/ d \in {reading', client'}
      BY <1>0, <2>1, Constants
    <3> QED BY <1>0, <1>1, <3>1 DEF Kept
  <2>7. Waiting'
    BY <1>0, <1>1 DEF Waiting
  <2>8. Current'
    BY <1>0, <1>1, Constants DEF Current, Leaving
  <2> QED BY <2>3, <2>4, <2>5, <2>6, <2>7, <2>8
<1>2. CASE pc' = "judge" /\ UNCHANGED <<reading, queue, listening, conn, tab>>
  <2>1. Types' /\ Talk' /\ Turns' /\ OneClickOneAnswer'
    BY <1>0, <1>2 DEF Types, Talk, Turns, OneClickOneAnswer
  <2>2. Queued' /\ Kept' /\ Waiting'
    BY <1>0, <1>2 DEF Queued, Kept, Waiting
  <2>3. Current'
    BY <1>0, <1>2, Constants DEF Current, Leaving
  <2> QED BY <2>1, <2>2, <2>3
<1>3. CASE StopListening /\ pc' = "judge" /\ UNCHANGED reading
  BY <1>0, <1>3, StopStep
<1> QED BY <1>1, <1>2, <1>3 DEF Accept

LEMMA ReadStep ==
  ASSUME IInv, Read
  PROVE  IInv'
<1> USE DEF IInv
<1>0. /\ UNCHANGED <<page, output, listening, queue, taken, opened, careful>>
      /\ pc = "read" /\ client = None /\ listening /\ request = NoRequest
      /\ reading # None /\ reading \in Conn
  <2>1. reading # None
    BY DEF Read, Talk
  <2>2. reading \in Conn
    BY <2>1, Constants DEF Types, Conn, None
  <2> QED BY <2>1, <2>2 DEF Read, Talk
<1>1. CASE /\ Drop(reading, Closed)
           /\ client' = None /\ request' = NoRequest /\ pc' = "judge" /\ reading' = None
  BY <1>0, <1>1, Constants, DropStep
<1>2. CASE /\ conn[reading].req # NoRequest
           /\ client' = reading /\ UNCHANGED <<conn, tab>>
           /\ request' \in {NoRequest, conn[reading].req} /\ pc' = "judge" /\ reading' = None
  <2>1. Types'
    <3>1. conn[reading] \in Carries
      BY <1>0 DEF Types
    <3>2. request' \in Sent
      BY <1>2, <3>1, NoneSent DEF Carries
    <3>3. client' \in 0 .. opened /\ reading' \in 0 .. opened
      BY <1>0, <1>2, Constants DEF Types, None
    <3> QED BY <1>0, <1>2, <3>2, <3>3 DEF Types
  <2>2. Talk' /\ Turns' /\ OneClickOneAnswer'
    BY <1>0, <1>2 DEF Talk, Turns, OneClickOneAnswer
  <2>3. Queued' /\ Kept' /\ Waiting'
    <3>1. {reading', client'} = {reading, client}
      BY <1>0, <1>2
    <3>2. Queued'
      BY <1>0, <1>2, <3>1 DEF Queued
    <3>3. Kept'
      BY <1>0, <1>2, <3>1 DEF Kept
    <3> QED BY <1>0, <1>2, <3>2, <3>3 DEF Waiting
  <2>4. Current'
    BY <1>0, <1>2, Constants DEF Current, Leaving
  <2> QED BY <2>1, <2>2, <2>3, <2>4
<1>3. CASE pc' = "spin" /\ UNCHANGED <<reading, client, request, conn, tab>>
  <2>1. Types' /\ Talk' /\ Turns' /\ OneClickOneAnswer'
    BY <1>0, <1>3 DEF Types, Talk, Turns, OneClickOneAnswer
  <2>2. Queued' /\ Kept' /\ Waiting'
    BY <1>0, <1>3 DEF Queued, Kept, Waiting
  <2>3. Current'
    BY <1>0, <1>3, Constants DEF Current, Leaving
  <2> QED BY <2>1, <2>2, <2>3
<1> QED BY <1>1, <1>2, <1>3 DEF Read, Parse

LEMMA FinishStep ==
  ASSUME IInv, FinishDeinit
  PROVE  IInv'
<1> USE DEF IInv
<1>0. /\ UNCHANGED <<page, output, reading, taken, opened, careful>>
      /\ pc = "judge" /\ Leaving /\ reading = None
  BY DEF FinishDeinit, Talk
<1>1. CASE pc' = "serve" /\ UNCHANGED <<listening, queue, client, request, conn, tab>>
  <2>1. Types' /\ Talk' /\ Turns' /\ OneClickOneAnswer'
    BY <1>0, <1>1 DEF Types, Talk, Turns, OneClickOneAnswer
  <2>2. Queued' /\ Kept' /\ Waiting'
    BY <1>0, <1>1 DEF Queued, Kept, Waiting
  <2>3. Current'
    BY <1>0 DEF Current, Leaving
  <2> QED BY <2>1, <2>2, <2>3
<1>2. CASE pc' = "over" /\ client' = None /\ request' = NoRequest /\ StopListening
  BY <1>0, <1>2, StopStep DEF Leaving
<1> QED BY <1>1, <1>2 DEF FinishDeinit

LEMMA StepInv == IInv /\ [Next]_vars => IInv'
<1> SUFFICES ASSUME IInv, [Next]_vars PROVE IInv'
  OBVIOUS
<1>1. CASE UNCHANGED vars
  <2>1. UNCHANGED <<pc, page, output, listening, reading, client, request, taken,
                    queue, conn, opened, tab, careful>>
    BY <1>1 DEF vars, serverVars
  <2>2. Types' /\ Talk' /\ Turns' /\ OneClickOneAnswer'
    BY <2>1 DEF IInv, Types, Talk, Turns, OneClickOneAnswer
  <2>3. Queued' /\ Kept' /\ Waiting' /\ Current'
    BY <2>1 DEF IInv, Queued, Kept, Waiting, Current, Leaving
  <2> QED BY <2>2, <2>3 DEF IInv
<1> QED BY <1>1, BrowserStep, AppStep, ServeStep, AcceptStep, ReadStep, JudgeStep, FinishStep
    DEF Next, Server, App

LEMMA SpecInv == Spec => []IInv
<1> QED BY InitInv, StepInv, PTL DEF Spec

-----------------------------------------------------------------------------
(* The theorems.                                                           *)

\* Whatever browsers send, leave out and break off, for any number of connections,
\* the server never loses one: each that has had no answer is waiting in the queue,
\* being read, or kept for the next page, and at the end none is left open
\* (servePage(), MojoGui_www_deinit()).
THEOREM SpecNobodyForgotten == Spec => []NobodyForgotten
<1>1. IInv => NobodyForgotten
  <2> SUFFICES ASSUME IInv PROVE NobodyForgotten
    OBVIOUS
  <2> USE DEF IInv
  <2>1. \A c : InQueue(c) <=> In(queue, c)
    <3>1. DOMAIN queue = 1 .. Len(queue)
      BY DEF Queued
    <3> QED BY <3>1 DEF InQueue, In
  <2>2. opened \in Nat /\ Connections \in Nat /\ opened <= Connections
    BY Constants DEF Types
  <2>3. ASSUME NEW c \in 1 .. opened
        PROVE  c \in Conn /\ (conn[c].reply = None <=> InQueue(c) \/ c \in {reading, client})
    <3>1. c \in Conn /\ ~(c > opened)
      BY <2>2 DEF Conn
    <3> QED BY <2>1, <3>1 DEF Kept
  <2>4. pc = "over" => \A c \in 1 .. opened : conn[c].reply # None
    <3> SUFFICES ASSUME pc = "over", NEW c \in 1 .. opened PROVE conn[c].reply # None
      OBVIOUS
    <3>1. queue = <<>> /\ reading = None /\ client = None
      BY DEF Talk
    <3>2. ~InQueue(c)
      BY <3>1 DEF InQueue
    <3> QED BY <2>3, <3>1, <3>2, Constants
  <2>5. TypeOK
    <3>1. Len(taken) \in {page - 1, page}
      BY DEF Turns
    <3>2. Len(queue) <= Backlog /\ (~listening => queue = <<>>) /\ (listening => pc # "over")
      BY DEF Queued, Talk
    <3>3. client \in Conn \cup {None}
      BY <2>2 DEF Types, Conn, None
    <3>4. ASSUME NEW c \in Conn
          PROVE  conn[c].req \in Request /\ conn[c].reply \in Page \cup {None, Closed, Bye}
      <4>1. conn[c] \in Carries
        BY DEF Types
      <4> QED BY <4>1 DEF Carries, Sent
    <3>5. ASSUME NEW t \in Tabs PROVE tab[t].waits \in Conn \cup {None}
      <4>1. tab[t] \in Shows
        BY DEF Types
      <4> QED BY <4>1 DEF Shows
    <3>6. request \in Request /\ taken \in Seq(Page)
      BY DEF Types, Sent
    <3> QED BY <3>1, <3>2, <3>3, <3>4, <3>5, <3>6 DEF Types, Talk, TypeOK
  <2> QED BY <2>3, <2>4, <2>5 DEF NobodyForgotten
<1> QED BY <1>1, SpecInv, PTL

\* A user with one tab who clicks once on what he sees never answers a question
\* with the page of another, however many pages there are and whatever their
\* names, and whatever else is connected (doPromptPage()).
THEOREM SpecOneClickOneAnswer == Spec => []OneClickOneAnswer
<1>1. IInv => OneClickOneAnswer
  BY DEF IInv
<1> QED BY <1>1, SpecInv, PTL
=============================================================================

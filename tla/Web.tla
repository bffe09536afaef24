-------------------------------- MODULE Web --------------------------------
(***************************************************************************)
(* The GUI that is a web server (src/gui_www.c) and the browser in front   *)
(* of it.  The server has one thread, which talks to one connection at a   *)
(* time and only while the installer asks a question (doPromptPage) or     *)
(* leaves (deinit).  The browser has Tabs, opens connections as it likes,  *)
(* and hangs up on some.                                                   *)
(*                                                                         *)
(* One step of the server is what it does between two calls in which it    *)
(* may wait: send and close, accept(), and the recv()s of one request.     *)
(***************************************************************************)
EXTENDS Integers, Sequences

CONSTANTS
  Name,         \* the names of the pages that are put, in order
  Tabs,
  Connections,  \* the bound on the connections of a run
  Backlog,      \* 5, in create_listen_socket()
  Oddities      \* of "bogus", "bare", "silent", "reset", "accept"

ASSUME WebAssumption ==
  /\ Name \in Seq(STRING) /\ Connections \in Nat /\ Backlog \in Nat \ {0}
  /\ Oddities \subseteq {"bogus", "bare", "silent", "reset", "accept"}

Page   == 1 .. Len(Name)
Bye    == Len(Name) + 1     \* the page that deinit() leaves
None   == 0
Closed == -1                \* for a reply: a 404, or nothing
Conn   == 1 .. Connections

VARIABLES
  pc,         \* "app", "serve", "accept", "read", "spin", "judge", "over"
  page,       \* the question doPromptPage() is called for, or was last
  output,     \* the page of the static variable
  listening,  \* listenSocket is open
  queue,      \* the connections it has not accepted
  reading,    \* the connection that is being read, or None
  client,     \* clientSocket
  request,    \* webRequest
  taken,      \* for each question, the page the answer was given on
  conn,       \* what the connections carry
  opened,     \* the number of connections so far
  tab,        \* what each tab shows and waits for
  careful     \* the user has one tab and clicks once on what it shows

serverVars  == <<pc, page, output, listening, reading, client, request, taken>>
vars == <<serverVars, queue, conn, opened, tab, careful>>

\* A request: a button of a page, the bare URL, something that is not for the
\* server (a favicon), or a request without headers or arguments.
Request == [kind : {"press", "visit", "bogus", "bare", "none"}, on : Page \cup {None}]
Req(kind, p) == [kind |-> kind, on |-> p]
NoRequest == Req("none", None)

Init ==
  /\ pc = "app" /\ page = None /\ output = None /\ listening = TRUE
  /\ queue = <<>> /\ reading = None /\ client = None /\ request = NoRequest
  /\ taken = <<>> /\ opened = 0 /\ careful \in BOOLEAN
  /\ conn = [c \in Conn |-> [req |-> NoRequest, tab |-> None, shut |-> "open", reply |-> None]]
  /\ tab = [t \in Tabs |-> [shows |-> None, seen |-> {}, waits |-> None]]

-----------------------------------------------------------------------------
(* The browser.                                                            *)

MayAct(t) == careful => t = 1 /\ tab[t].waits = None

\* A new connection.
Connect ==
  /\ listening /\ opened < Connections /\ Len(queue) < Backlog
  /\ opened' = opened + 1 /\ queue' = Append(queue, opened')

\* The tab turns to connection c, and hangs up on the one it was waiting for.
TurnTo(t, c, req) ==
  /\ conn' = [d \in Conn |->
       IF d = c THEN [conn[d] EXCEPT !.req = req, !.tab = t]
       ELSE IF d = tab[t].waits THEN [conn[d] EXCEPT !.shut = "fin"]
       ELSE conn[d]]
  /\ tab' = [tab EXCEPT ![t].waits = c]

\* A request goes out on a new connection or on one that was opened ahead.
Ask(t, req) ==
  /\ MayAct(t)
  /\ \/ Connect /\ TurnTo(t, opened + 1, req)
     \/ \E c \in 1 .. opened :
          /\ conn[c].req = NoRequest /\ conn[c].shut = "open" /\ conn[c].reply = None
          /\ TurnTo(t, c, req) /\ UNCHANGED <<opened, queue>>
  /\ UNCHANGED <<serverVars, careful>>

Visit(t) == Ask(t, Req("visit", None))

\* A click, or two; or one after going back to an earlier page.
Press(t) ==
  \E p \in IF careful THEN {tab[t].shows} \cap Page ELSE tab[t].seen \cap Page :
    Ask(t, Req("press", p))

\* What else a browser or a tool sends: no tab waits for it.
Other(kind) ==
  /\ kind \in Oddities \cap {"bogus", "bare", "silent"}
  /\ Connect
  /\ conn' = IF kind = "silent" THEN conn ELSE [conn EXCEPT ![opened + 1].req = Req(kind, None)]
  /\ UNCHANGED <<serverVars, tab, careful>>

\* The tab is closed or stopped, or an idle connection given up.
HangUp(c) ==
  /\ c <= opened /\ conn[c].shut = "open" /\ conn[c].reply = None
  /\ careful => conn[c].tab = None
  /\ \E how \in {"fin"} \cup ({"reset"} \cap Oddities) :
       conn' = [conn EXCEPT ![c].shut = how]
  /\ tab' = [t \in Tabs |-> IF tab[t].waits = c THEN [tab[t] EXCEPT !.waits = None] ELSE tab[t]]
  /\ UNCHANGED <<serverVars, queue, opened, careful>>

Browser ==
  \/ \E t \in Tabs : Visit(t) \/ Press(t)
  \/ \E kind \in {"bogus", "bare", "silent"} : Other(kind)
  \/ \E c \in Conn : HangUp(c)

-----------------------------------------------------------------------------
(* The server.                                                             *)

\* The socket is closed after answer went out on it; the tab shows what it got.
Drop(c, answer) ==
  /\ conn' = [conn EXCEPT ![c].reply = answer]
  /\ tab'  = [t \in Tabs |->
       IF tab[t].waits # c THEN tab[t]
       ELSE [shows |-> IF answer = Closed THEN None ELSE answer,
             seen  |-> tab[t].seen \cup ({answer} \cap Page), waits |-> None]]

\* closesocket(listenSocket): whoever is in the queue is turned away.
StopListening ==
  LET away == {queue[i] : i \in DOMAIN queue} IN
  /\ listening' = FALSE /\ queue' = <<>>
  /\ conn' = [c \in Conn |-> IF c \in away \cup {client} THEN [conn[c] EXCEPT !.reply = Closed]
                             ELSE conn[c]]
  /\ tab' = [t \in Tabs |-> IF tab[t].waits \in (away \cup {client}) \ {None}
                            THEN [tab[t] EXCEPT !.shows = None, !.waits = None] ELSE tab[t]]

\* Mutant: the page that is shown stays.
ShowPageUnset ==
  /\ pc = "app" /\ page < Len(Name)
  /\ page' = page + 1 /\ pc' = "serve"
  /\ output' = IF output = None THEN page' ELSE output
  /\ UNCHANGED <<listening, queue, reading, client, request, taken, conn, opened, tab, careful>>

\* doPromptPage() sets the page and enters its loop.
ShowPage ==
  /\ pc = "app" /\ page < Len(Name)
  /\ page' = page + 1 /\ output' = page' /\ pc' = "serve"
  /\ UNCHANGED <<listening, queue, reading, client, request, taken, conn, opened, tab, careful>>

\* MojoGui_www_deinit(), after any question or before the first.
StartDeinit ==
  /\ pc = "app" /\ output' = Bye /\ pc' = "serve"
  /\ UNCHANGED <<page, listening, queue, reading, client, request, taken, conn, opened, tab, careful>>

Leaving == output = Bye

\* Mutant: only a request for the page is responded to.
ServeOnlyAnswers ==
  /\ pc = "serve" /\ request' = NoRequest
  /\ IF ~listening THEN pc' = "judge" /\ UNCHANGED <<client, conn, tab>>
     ELSE /\ pc' = "accept"
          /\ IF client = None \/ request.kind = "visit" THEN UNCHANGED <<client, conn, tab>>
             ELSE Drop(client, output) /\ client' = None
  /\ UNCHANGED <<page, output, listening, queue, reading, taken, opened, careful>>

\* servePage(): the response to the last request, now that there is one.
Serve ==
  /\ pc = "serve" /\ request' = NoRequest
  /\ IF ~listening THEN pc' = "judge" /\ UNCHANGED <<client, conn, tab>>
     ELSE /\ pc' = "accept"
          /\ IF client = None THEN UNCHANGED <<client, conn, tab>>
             ELSE Drop(client, output) /\ client' = None
  /\ UNCHANGED <<page, output, listening, queue, reading, taken, opened, careful>>

\* accept(), which waits for a connection unless the server is leaving.
Accept ==
  /\ pc = "accept"
  /\ \/ /\ queue # <<>>
        /\ reading' = Head(queue) /\ queue' = Tail(queue) /\ pc' = "read"
        /\ UNCHANGED <<listening, conn, tab>>
     \/ /\ queue = <<>> /\ Leaving
        /\ pc' = "judge" /\ UNCHANGED <<reading, queue, listening, conn, tab>>
     \/ /\ "accept" \in Oddities
        /\ StopListening /\ pc' = "judge" /\ UNCHANGED reading
  /\ UNCHANGED <<page, output, client, request, taken, opened, careful>>

\* Mutant: the connection is not closed after a 404.
ParseLeaking(c) ==
  /\ client' = IF conn[c].req.kind = "bogus" THEN None ELSE c
  /\ request' = IF conn[c].req.kind \in {"bogus", "bare"} THEN NoRequest ELSE conn[c].req
  /\ UNCHANGED <<conn, tab>>

\* parseGet() and parseRequest(): arguments and headers make the list.
Parse(c) ==
  IF conn[c].req.kind = "bogus"
  THEN Drop(c, Closed) /\ client' = None /\ request' = NoRequest
  ELSE /\ client' = c /\ UNCHANGED <<conn, tab>>
       /\ request' = IF conn[c].req.kind = "bare" THEN NoRequest ELSE conn[c].req

\* The recv()s.  When the browser has hung up before the end of its request they
\* return 0 and leave the byte as it was, which is added to the request again and
\* again until the memory is used up ("spin").  After the end of a line that byte
\* is a second newline: what has come so far is taken for a request, and counts as
\* one that was sent.
Read ==
  /\ pc = "read"
  /\ \/ /\ conn[reading].shut = "reset"
        /\ Drop(reading, Closed)
        /\ client' = None /\ request' = NoRequest /\ pc' = "judge" /\ reading' = None
     \/ /\ conn[reading].shut # "reset" /\ conn[reading].req # NoRequest
        /\ Parse(reading) /\ pc' = "judge" /\ reading' = None
     \/ /\ conn[reading].shut = "fin" /\ conn[reading].req = NoRequest
        /\ pc' = "spin" /\ UNCHANGED <<reading, client, request, conn, tab>>
  /\ UNCHANGED <<page, output, listening, queue, taken, opened, careful>>

\* doPromptPage(): the answer is a button of a page of this name.
Judge ==
  /\ pc = "judge" /\ ~Leaving
  /\ IF request.kind = "press" /\ Name[request.on] = Name[page]
     THEN taken' = Append(taken, request.on) /\ pc' = "app"
     ELSE taken' = taken /\ pc' = "serve"
  /\ UNCHANGED <<page, output, listening, queue, reading, client, request, conn, opened, tab, careful>>

\* deinit() serves until there is no request, and closes what is open.
FinishDeinit ==
  /\ pc = "judge" /\ Leaving
  /\ IF request # NoRequest
     THEN pc' = "serve" /\ UNCHANGED <<listening, queue, client, request, conn, tab>>
     ELSE pc' = "over" /\ client' = None /\ request' = NoRequest /\ StopListening
  /\ UNCHANGED <<page, output, reading, taken, opened, careful>>

Server == Serve \/ Accept \/ Read \/ Judge \/ FinishDeinit
App    == ShowPage \/ StartDeinit

Next == Browser \/ Server \/ App

Spec == Init /\ [][Next]_vars

\* The server runs, and the installer comes to its next question or to its end.
\* The browser owes nobody anything.
FairSpec == Spec /\ WF_vars(Server) /\ WF_vars(App)
-----------------------------------------------------------------------------
TypeOK ==
  /\ pc \in {"app", "serve", "accept", "read", "spin", "judge", "over"}
  /\ page \in Page \cup {None} /\ output \in Page \cup {None, Bye}
  /\ listening \in BOOLEAN /\ (listening => pc # "over") /\ careful \in BOOLEAN /\ opened \in 0 .. Connections
  /\ Len(queue) <= Backlog /\ (~listening => queue = <<>>)
  /\ (reading # None) = (pc \in {"read", "spin"})
  /\ client \in Conn \cup {None} /\ request \in Request
  /\ taken \in Seq(Page) /\ Len(taken) \in {page - 1, page}
  /\ \A c \in Conn : conn[c].req \in Request /\ conn[c].reply \in Page \cup {None, Closed, Bye}
  /\ \A t \in Tabs : tab[t].waits \in Conn \cup {None}

InQueue(c) == \E i \in DOMAIN queue : queue[i] = c

\* A connection the browser has opened and has had no answer on is in the queue,
\* is being read, or is the one kept for the response: none is lost, and none is
\* left open when the GUI is closed (servePage, deinit).
NobodyForgotten ==
  /\ TypeOK
  /\ \A c \in 1 .. opened : conn[c].reply = None <=> InQueue(c) \/ c \in {reading, client}
  /\ pc = "over" => \A c \in 1 .. opened : conn[c].reply # None

\* When the user has one tab and clicks once on each page that it shows, what is
\* taken for the answer to a question was given to that question, though pages
\* are told apart by their names only and two in a row may have the same
\* (doPromptPage).
OneClickOneAnswer == careful => \A i \in DOMAIN taken : taken[i] = i

\* The server waits for a request that does not come, or for its end.
HeldUp == \/ pc = "spin"
          \/ pc = "read" /\ conn[reading].req = NoRequest /\ conn[reading].shut = "open"

\* Every connection that carries a request comes to an answer or is closed,
\* unless the server is held up for good by one that carries none.
EveryoneIsServed ==
  \/ <>[]HeldUp
  \/ \A c \in Conn : [](conn[c].req # NoRequest => <>(conn[c].reply # None))
=============================================================================

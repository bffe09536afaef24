------------------------------ MODULE Shutdown ------------------------------
(***************************************************************************)
(* How a process of the installer starts, fails and ends: MojoSetup_main() *)
(* with initEverything() and deinitEverything(), fatal(), panic(), the     *)
(* out-of-memory handler and the signal handlers of the Unix port.         *)
(*                                                                         *)
(* None of fatal(), panic() and the handlers returns, so the control stack *)
(* is one program point: the caller of each is never resumed.  A signal is *)
(* blocked while its own handler runs (the BSD semantics of signal()), and *)
(* as that handler never returns it stays blocked: each signal is taken    *)
(* once, in any order and on top of any other.                             *)
(***************************************************************************)
EXTENDS Naturals, FiniteSets

CONSTANTS CrashSignals,   \* SIGSEGV, SIGABRT, ...: handled by crash_catcher()
          TermSignals     \* SIGINT, SIGTERM, ...: handled by termination_catcher()

ASSUME SignalsAreTwoKinds == CrashSignals \cap TermSignals = {}

VARIABLES
  at,          \* the program point about to be executed
  by,          \* who called deinitEverything(): "main" or "fatal"
  inFatal,     \* the static in_fatal of fatal()
  panicRuns,   \* the static panic_runs of panic()
  fmt,         \* the message fatal() was called with
  ggui,        \* GGui # NULL
  guiUp,       \* the plugin is between its init() and its deinit()
  lua,         \* luaState: "null", "open", or "closed" but not yet NULL
  ptr,         \* ptr[m]: the global m points to its message
  mem,         \* mem[m]: the message of m is allocated
  work,        \* what of an unfinished installation is on disk, see Onward
  left,        \* the value of work when revertinstall returned, or "untried"
  reverts,     \* how often MojoSetup.revertinstall was entered
  faults,      \* how many things went wrong, memory exhaustion apart
  oom,         \* memory was exhausted
  blocked,     \* the signals whose handler was entered
  exit         \* the exit status

app  == <<ggui, guiUp, lua, ptr, mem>>
hist == <<reverts, faults, oom, blocked, exit>>
vars == <<at, by, inFatal, panicRuns, fmt, app, work, left, hist>>

Message == {"crashedmsg", "termedmsg"}
Signal  == CrashSignals \cup TermSignals

Startup == {"archive", "gui", "lua", "crashedmsg", "termedmsg"}
Ending  == {"close_lua", "null_lua", "null_gui", "down_gui", "null_crashedmsg",
            "free_crashedmsg", "null_termedmsg", "free_termedmsg", "exit"}
Failing == {"fatal", "fatal_box", "fatal_check", "revert", "panic", "panic_log",
            "panic_box", "panic_down", "panic_stderr"}

\* The points whose code allocates memory.
Allocates == Startup \cup {"mainline", "fatal_box", "revert", "panic_log",
                           "panic_box"}

\* What the mainline leaves on disk from step to step: nothing ("clean"), what
\* the manifest and the rollbacks list ("half"), besides it a directory or a link
\* that is made but not yet listed ("loose"), or an installation whose rollbacks
\* are deleted while its manifest is still there ("late").
Onward == [clean |-> {"half", "loose"}, half |-> {"loose", "late", "clean"},
           loose |-> {"half"}, late |-> {"clean"}]

-----------------------------------------------------------------------------
(* Starting: initEverything().                                             *)

Goto(p) == at' = p

\* A step of the program from point p that leaves the error state alone.
From(p) == at = p /\ UNCHANGED <<inFatal, panicRuns, fmt, reverts, oom, blocked>>

\* MojoArchive_initBaseArchive(), then trySwitchBinaries(), which may replace
\* the process.
InitArchive ==
  /\ From("archive")
  /\ \/ Goto("gui") /\ UNCHANGED exit
     \/ Goto("panic") /\ UNCHANGED exit
     \/ Goto("end") /\ exit' = "replaced"
  /\ UNCHANGED <<by, app, work, left, faults>>

\* Without a plugin a terminal may be spawned to run the installer in, which
\* replaces the process too.
InitGui ==
  /\ From("gui")
  /\ \/ Goto("lua") /\ ggui' = TRUE /\ guiUp' = TRUE /\ UNCHANGED exit
     \/ Goto("panic") /\ UNCHANGED <<ggui, guiUp, exit>>
     \/ Goto("end") /\ exit' = "replaced" /\ UNCHANGED <<ggui, guiUp>>
  /\ UNCHANGED <<by, lua, ptr, mem, work, left, faults>>

\* lua_newstate() opens the state; the scripts it runs may be missing.
InitLua ==
  /\ From("lua")
  /\ \/ lua = "null" /\ lua' = "open" /\ Goto("lua")
     \/ lua = "open" /\ Goto("crashedmsg") /\ UNCHANGED lua
     \/ lua = "open" /\ Goto("panic") /\ UNCHANGED lua
  /\ UNCHANGED <<by, ggui, guiUp, ptr, mem, work, left, faults, exit>>

InitMessage(m, next) ==
  /\ From(m)
  /\ ptr' = [ptr EXCEPT ![m] = TRUE]
  /\ mem' = [mem EXCEPT ![m] = TRUE]
  /\ Goto(next)
  /\ UNCHANGED <<by, ggui, guiUp, lua, work, left, faults, exit>>

-----------------------------------------------------------------------------
(* Running: the Lua mainline, which installs any number of packages.       *)

Mainline ==
  /\ From("mainline")
  /\ \/ work' \in Onward[work] /\ UNCHANGED <<at, by>>
     \/ work = "clean" /\ Goto("close_lua") /\ by' = "main" /\ UNCHANGED work
  /\ UNCHANGED <<app, left, faults, exit>>

\* MojoSetup.fatal(), with or without a message, or an error no Lua code
\* caught: lua_atpanic() is luahook_fatal() too, already while Lua starts.  Between
\* the mkdir() or symlink() and the manifest_add() nothing fails.
LuaFatal ==
  /\ (at = "mainline" /\ work # "loose") \/ (at = "lua" /\ lua = "open")
  /\ fmt' \in {"none", "text"}
  /\ Goto("fatal")
  /\ faults' = faults + 1
  /\ UNCHANGED <<by, inFatal, panicRuns, app, work, left, reverts, oom, blocked, exit>>

-----------------------------------------------------------------------------
(* fatal()                                                                 *)

\* Without the static in_fatal.
EnterFatalAgain ==
  /\ at = "fatal"
  /\ Goto(IF fmt # "none" /\ ggui THEN "fatal_box" ELSE "fatal_check")
  /\ UNCHANGED <<by, inFatal, panicRuns, fmt, app, work, left, hist>>

EnterFatal ==
  /\ at = "fatal"
  /\ inFatal' = TRUE
  /\ Goto(IF inFatal THEN "panic"
          ELSE IF fmt # "none" /\ ggui THEN "fatal_box" ELSE "fatal_check")
  /\ UNCHANGED <<by, panicRuns, fmt, app, work, left, hist>>

FatalBox == /\ From("fatal_box")
            /\ Goto("fatal_check")
            /\ UNCHANGED <<by, app, work, left, faults, exit>>

FatalCheck ==
  /\ at = "fatal_check"
  /\ IF ~ggui \/ lua = "null"
     THEN Goto("panic") /\ UNCHANGED reverts
     ELSE Goto("revert") /\ reverts' = reverts + 1
  /\ UNCHANGED <<by, inFatal, panicRuns, fmt, app, work, left, faults, oom, blocked,
                 exit>>

\* real_revertinstall() returns: every deletion and every restore was done, or
\* it went on without those that failed.  Nobody undoes what is not on its lists
\* or whose rollback is gone.
Returned ==
  /\ \/ work \in {"clean", "half"} /\ work' = "clean"
     \/ work # "clean" /\ work' = work
  /\ left' = work'
  /\ Goto("close_lua") /\ by' = "fatal" /\ UNCHANGED faults

\* With lua_pcall() in MojoLua_callProcedure().
RevertTolerant ==
  /\ From("revert")
  /\ \/ Returned
     \/ Goto("close_lua") /\ by' = "fatal" /\ UNCHANGED <<work, left, faults>>
  /\ UNCHANGED <<app, exit>>

\* MojoLua_callProcedure("revertinstall"), which may fail: a fatal() of its own
\* is a second one, and so is the lua_atpanic() of an uncaught error.
Revert ==
  /\ From("revert")
  /\ \/ Returned
     \/ Goto("fatal") /\ faults' = faults + 1 /\ UNCHANGED <<by, work, left>>
  /\ UNCHANGED <<app, exit>>

-----------------------------------------------------------------------------
(* deinitEverything(), and the exit() of its caller.                       *)

\* MojoLua_deinitLua(): lua_close(), then luaState = NULL.
DeinitLua ==
  /\ \/ From("close_lua") /\ Goto("null_lua")
        /\ lua' = IF lua = "null" THEN "null" ELSE "closed"
     \/ From("null_lua") /\ Goto("null_gui") /\ lua' = "null"
  /\ UNCHANGED <<by, ggui, guiUp, ptr, mem, work, left, faults, exit>>

\* MojoGui_deinitGuiPlugin(): GGui = NULL, then the deinit() of the plugin.
DeinitGui ==
  /\ \/ From("null_gui") /\ Goto("down_gui") /\ ggui' = FALSE /\ UNCHANGED guiUp
     \/ From("down_gui") /\ Goto("null_crashedmsg") /\ guiUp' = FALSE
        /\ UNCHANGED ggui
  /\ UNCHANGED <<by, lua, ptr, mem, work, left, faults, exit>>

\* free() before the pointer is NULL.
DropFreeFirst(m, null, free, next) ==
  /\ \/ From(null) /\ Goto(free) /\ mem' = [mem EXCEPT ![m] = FALSE]
        /\ UNCHANGED ptr
     \/ From(free) /\ Goto(next) /\ ptr' = [ptr EXCEPT ![m] = FALSE]
        /\ UNCHANGED mem
  /\ UNCHANGED <<by, ggui, guiUp, lua, work, left, faults, exit>>

\* tmp = m; m = NULL; free(tmp).
Drop(m, null, free, next) ==
  /\ \/ From(null) /\ Goto(free) /\ ptr' = [ptr EXCEPT ![m] = FALSE]
        /\ UNCHANGED mem
     \/ From(free) /\ Goto(next) /\ mem' = [mem EXCEPT ![m] = FALSE]
        /\ UNCHANGED ptr
  /\ UNCHANGED <<by, ggui, guiUp, lua, work, left, faults, exit>>

\* Without the exit() at the end of fatal().
ExitMainOnly == /\ From("exit") /\ by = "main"
                /\ Goto("end")
                /\ exit' = "0"
                /\ UNCHANGED <<by, app, work, left, faults>>

Exit == /\ From("exit")
        /\ Goto("end")
        /\ exit' = IF by = "main" THEN "0" ELSE "23"
        /\ UNCHANGED <<by, app, work, left, faults>>

-----------------------------------------------------------------------------
(* panic()                                                                 *)

\* Without MojoPlatform_die().
PanicTurnNoDie(n) == CASE n = 1 -> "panic_log"
                       [] n = 2 -> IF ggui THEN "panic_box" ELSE "panic"
                       [] OTHER -> "panic_stderr"

\* Where the n-th call of panic() goes: the second one shows a box if there is a
\* GUI and panics once more if not, the fourth is MojoPlatform_die().
PanicTurn(n) == CASE n = 1 -> "panic_log"
                  [] n = 2 -> IF ggui THEN "panic_box" ELSE "panic"
                  [] n = 3 -> "panic_stderr"
                  [] OTHER -> "end"

\* Each call counts itself before it looks at the count.
EnterPanic ==
  /\ at = "panic"
  /\ panicRuns' = panicRuns + 1
  /\ Goto(PanicTurn(panicRuns'))
  /\ exit' = IF PanicTurn(panicRuns') = "end" THEN "86" ELSE exit
  /\ UNCHANGED <<by, inFatal, fmt, app, work, left, reverts, faults, oom, blocked>>

PanicLog == /\ From("panic_log")
            /\ Goto("panic")
            /\ UNCHANGED <<by, app, work, left, faults, exit>>

PanicBox == /\ From("panic_box")
            /\ Goto("panic_down")
            /\ UNCHANGED <<by, app, work, left, faults, exit>>

\* GGui->deinit(), unless it was shut down before, then exit(22); GGui stays as
\* it was.
PanicDown == /\ From("panic_down")
             /\ IF guiUp THEN guiUp' = FALSE /\ UNCHANGED <<at, exit>>
                ELSE Goto("end") /\ exit' = "22" /\ UNCHANGED guiUp
             /\ UNCHANGED <<by, ggui, lua, ptr, mem, work, left, faults>>

PanicStderr == /\ From("panic_stderr")
               /\ Goto("end")
               /\ exit' = "22"
               /\ UNCHANGED <<by, app, work, left, faults>>

-----------------------------------------------------------------------------
(* What may happen at any point.                                           *)

\* xmalloc(), xrealloc(): outOfMemory() calls panic().
OutOfMemory ==
  /\ at \in Allocates
  /\ oom' = TRUE
  /\ Goto("panic")
  /\ UNCHANGED <<by, inFatal, panicRuns, fmt, app, work, left, reverts, faults,
                 blocked, exit>>

\* Panicking whenever a signal comes.
CaughtPanicking(m) == "panic"

\* crash_catcher() or termination_catcher(), with MojoSetup_crashed() or
\* MojoSetup_terminated().
Caught(m) == IF ptr[m] THEN "fatal" ELSE "panic"

TakeSignal(s, m) ==
  /\ at # "end"
  /\ s \notin blocked
  /\ blocked' = blocked \cup {s}
  /\ faults' = faults + 1
  /\ Goto(Caught(m))
  /\ fmt' = IF ptr[m] THEN m ELSE fmt
  /\ UNCHANGED <<by, inFatal, panicRuns, app, work, left, reverts, oom, exit>>

\* SIGKILL, or a crash in the handler of the same crash.
Killed == /\ at # "end"
          /\ Goto("end")
          /\ exit' = "killed"
          /\ UNCHANGED <<by, inFatal, panicRuns, fmt, app, work, left, reverts, faults,
                         oom, blocked>>

-----------------------------------------------------------------------------
Init ==
  /\ at = "archive" /\ by = "main" /\ fmt = "none"
  /\ inFatal = FALSE /\ panicRuns = 0
  /\ ggui = FALSE /\ guiUp = FALSE /\ lua = "null"
  /\ ptr = [m \in Message |-> FALSE] /\ mem = ptr
  /\ work = "clean" /\ left = "untried"
  /\ reverts = 0 /\ faults = 0 /\ oom = FALSE /\ blocked = {}
  /\ exit = "none"

Start == \/ InitArchive \/ InitGui \/ InitLua
         \/ InitMessage("crashedmsg", "termedmsg")
         \/ InitMessage("termedmsg", "mainline")

FatalSteps == EnterFatal \/ FatalBox \/ FatalCheck \/ Revert

Deinit == \/ DeinitLua \/ DeinitGui
          \/ Drop("crashedmsg", "null_crashedmsg", "free_crashedmsg",
                  "null_termedmsg")
          \/ Drop("termedmsg", "null_termedmsg", "free_termedmsg", "exit")
          \/ Exit

PanicSteps == EnterPanic \/ PanicLog \/ PanicBox \/ PanicDown \/ PanicStderr

SignalSteps == \/ \E s \in CrashSignals : TakeSignal(s, "crashedmsg")
               \/ \E s \in TermSignals : TakeSignal(s, "termedmsg")

Next == \/ Start \/ Mainline \/ LuaFatal
        \/ FatalSteps \/ Deinit \/ PanicSteps
        \/ OutOfMemory \/ SignalSteps \/ Killed

Spec == Init /\ [][Next]_vars

\* What fatal(), deinitEverything() and panic() do is not held up by anyone
\* but the user, who closes the boxes they show.
FairSpec == Spec /\ WF_vars(FatalSteps \/ Deinit \/ PanicSteps)

-----------------------------------------------------------------------------
(* Properties                                                              *)

\* Types; panic() counts to four at most and no signal is taken twice.
TypeOK ==
  /\ at \in Startup \cup Failing \cup Ending \cup {"mainline", "end"}
  /\ by \in {"main", "fatal"} /\ inFatal \in BOOLEAN /\ panicRuns \in 0..4
  /\ fmt \in {"none", "text"} \cup Message
  /\ ggui \in BOOLEAN /\ guiUp \in BOOLEAN /\ lua \in {"null", "open", "closed"}
  /\ ptr \in [Message -> BOOLEAN] /\ mem \in [Message -> BOOLEAN]
  /\ work \in DOMAIN Onward /\ left \in DOMAIN Onward \cup {"untried"}
  /\ reverts \in Nat /\ faults \in Nat
  /\ oom \in BOOLEAN /\ blocked \subseteq Signal
  /\ exit \in {"none", "replaced", "0", "22", "23", "86", "killed"}

\* However many signals and errors come together, a half-finished installation
\* is reverted at most once: real_revertinstall() is never run on top of itself.
RevertedOnce == reverts <= 1

\* Status 0 is only given by a process that leaves no unfinished installation
\* behind, and status 23 only after real_revertinstall() has run through to its
\* end, however many errors and signals met on the way.
HonestExit ==
  /\ exit = "0" => work = "clean"
  /\ exit = "23" => left = work

\* A single failure, be it an error of the mainline or a signal at any point, is
\* enough to have real_revertinstall() run through to its end: unless a second
\* failure meets the first, memory runs out or the process is killed, what stays
\* behind is what it could not undo, and something that is on none of its lists
\* only after a signal.
OneFaultIsReverted ==
  at = "end" /\ faults <= 1 /\ ~oom /\ exit # "killed" =>
    \/ work = "clean"
    \/ left = work /\ (work = "loose" => blocked # {})

\* The box of panic() is never shown through a plugin that was shut down, though
\* panic() itself and deinitEverything() shut it down and may be interrupted.
PanicBoxNeedsGui == at = "panic_box" => guiUp

\* A handler that interrupts initEverything() or deinitEverything() never prints
\* a message that is not allocated.
MessagesAreAlive ==
  at \in {"fatal", "fatal_box"} /\ fmt \in Message => mem[fmt]

\* What a failing process prints and shows is still there.
NothingDeadIsUsed == PanicBoxNeedsGui /\ MessagesAreAlive

\* Once the process has begun to fail or to shut down, it ends: fatal() and
\* panic() calling each other, and signals between any two steps, are no loop.
WindsUp == at \in Failing \cup Ending ~> at = "end"
=============================================================================

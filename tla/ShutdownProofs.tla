--------------------------- MODULE ShutdownProofs ---------------------------
(***************************************************************************)
(* The safety properties of Shutdown, for any number of signals.           *)
(*                                                                         *)
(* None of them is inductive.  The strengthening says, for each program    *)
(* point, which of the two guards (in_fatal, panic_runs) has been passed   *)
(* there and what has been taken down, one part for each property.         *)
(***************************************************************************)
EXTENDS Shutdown, TLAPS

InFatal == {"fatal", "fatal_box", "fatal_check", "revert"}

\* Before the first failure nothing has failed.
Untroubled ==
  at \in Startup \cup {"mainline"} =>
    /\ ~inFatal /\ panicRuns = 0 /\ faults = 0 /\ ~oom

\* The fourth panic() ends the process.
PanicsLeft == at # "end" => panicRuns <= 3

\* The call of revertinstall is behind the static in_fatal.
FirstFatal ==
  /\ ~inFatal => reverts = 0
  /\ at \in {"fatal_box", "fatal_check"} => inFatal /\ reverts = 0
  /\ reverts <= 1

\* Whoever shuts down in good order has finished, or has reverted all it could.
CleanEnding ==
  /\ at # "end" => exit = "none"
  /\ at \in Ending => IF by = "main" THEN work = "clean" ELSE left = work
  /\ exit = "0" => at = "end" /\ work = "clean"
  /\ exit = "23" => at = "end" /\ left = work

\* A pointer is NULL before its message is freed, and fatal() keeps the
\* message it was given.
MessagesHeld ==
  /\ \A m \in Message : ptr[m] => mem[m]
  /\ at = "free_crashedmsg" => ~ptr["crashedmsg"]
  /\ at = "free_termedmsg" => ~ptr["termedmsg"]
  /\ at \in InFatal /\ fmt \in Message => mem[fmt]

\* Until panic() has run twice, GGui points to a plugin that is up.
GuiHeld ==
  /\ panicRuns < 2 /\ ggui => guiUp
  /\ at = "panic_box" => guiUp
  /\ at \in {"panic_box", "panic_down"} => panicRuns >= 2
  /\ at = "down_gui" => ~ggui

\* Where the first failure finds the installer, all that revertinstall needs is
\* there; a failure inside fatal() is a second one.
FaultsCounted ==
  /\ at \in {"fatal", "fatal_box", "fatal_check", "revert"} \/ inFatal => faults >= 1
  /\ at = "fatal" /\ inFatal => faults >= 2
  /\ at = "mainline" => ggui /\ lua = "open" /\ \A m \in Message : ptr[m]
  /\ at = "termedmsg" => ptr["crashedmsg"]
  /\ at \in {"crashedmsg", "termedmsg"} => ggui /\ lua = "open"
  /\ at = "lua" => ggui
  /\ at \in Startup => work = "clean"
  /\ work # "clean" /\ faults <= 1 /\ ~oom /\ exit # "killed" =>
       \/ at \in InFatal \cup {"mainline"} /\ ggui /\ lua = "open"
       \/ left = work
  /\ work = "loose" /\ ~oom /\ exit # "killed" => at = "mainline" \/ blocked # {}

IInv == /\ TypeOK /\ Untroubled /\ PanicsLeft /\ FirstFatal /\ CleanEnding
        /\ MessagesHeld /\ GuiHeld /\ FaultsCounted

Amounts == {"clean", "half", "loose", "late"}

Points == Startup \cup Failing \cup Ending \cup {"mainline", "end"}

-----------------------------------------------------------------------------
(* Initially.                                                              *)

\* The parts of TypeOK.
Counters == panicRuns \in 0..4 /\ reverts \in Nat /\ faults \in Nat

Messages == ptr \in [Message -> BOOLEAN] /\ mem \in [Message -> BOOLEAN]

Flags == /\ inFatal \in BOOLEAN /\ ggui \in BOOLEAN
         /\ guiUp \in BOOLEAN /\ oom \in BOOLEAN

Shapes ==
  /\ at \in Points /\ by \in {"main", "fatal"}
  /\ fmt \in {"none", "text"} \cup Message
  /\ lua \in {"null", "open", "closed"}
  /\ work \in Amounts /\ left \in Amounts \cup {"untried"}
  /\ blocked \subseteq Signal
  /\ exit \in {"none", "replaced", "0", "22", "23", "86", "killed"}

LEMMA Amount == DOMAIN Onward = Amounts
  BY DEF Onward, Amounts

LEMMA Types == TypeOK <=> Counters /\ Messages /\ Flags /\ Shapes
  BY Amount DEF TypeOK, Counters, Messages, Flags, Shapes, Points

LEMMA InitIInv == Init => IInv
  <1> SUFFICES ASSUME Init PROVE IInv
    OBVIOUS
  <1>1. TypeOK
    <2>1. Counters
      BY DEF Init, Counters
    <2>2. Messages
      BY DEF Init, Messages
    <2>3. Shapes
      BY DEF Init, Shapes, Amounts, Points, Startup, Signal
    <2>4. Flags
      BY DEF Init, Flags
    <2>5. QED
      BY <2>1, <2>2, <2>3, <2>4, Types
  <1>2. Untroubled /\ PanicsLeft /\ FirstFatal /\ CleanEnding
    BY DEF Init, Untroubled, PanicsLeft, FirstFatal, CleanEnding, Ending
  <1>3. MessagesHeld /\ GuiHeld /\ FaultsCounted
    BY DEF Init, MessagesHeld, GuiHeld, FaultsCounted, InFatal, Message, Startup
  <1>4. QED
    BY <1>1, <1>2, <1>3 DEF IInv

-----------------------------------------------------------------------------
\* What panic() does at each of its calls.
LEMMA PanicCall ==
  ASSUME Counters, PanicsLeft, EnterPanic
  PROVE  /\ at = "panic"
         /\ \/ panicRuns' = 1 /\ at' = "panic_log" /\ exit' = exit
            \/ panicRuns' = 2 /\ ggui /\ at' = "panic_box" /\ exit' = exit
            \/ panicRuns' = 2 /\ ~ggui /\ at' = "panic" /\ exit' = exit
            \/ panicRuns' = 3 /\ at' = "panic_stderr" /\ exit' = exit
            \/ panicRuns' = 4 /\ at' = "end" /\ exit' = "86"
         /\ panicRuns' = panicRuns + 1
         /\ UNCHANGED <<by, inFatal, fmt, ggui, guiUp, lua, ptr, mem, work, left,
                        reverts, faults, oom, blocked>>
  <1>1. at = "panic" /\ panicRuns \in 0..3 /\ panicRuns' = panicRuns + 1
    BY DEF Counters, PanicsLeft, EnterPanic
  <1>2. UNCHANGED <<by, inFatal, fmt, ggui, guiUp, lua, ptr, mem, work, left,
                    reverts, faults, oom, blocked>>
    BY DEF EnterPanic, app
  <1>3. CASE panicRuns = 0
    BY <1>1, <1>2, <1>3 DEF EnterPanic, PanicTurn, Goto
  <1>4. CASE panicRuns = 1
    BY <1>1, <1>2, <1>4 DEF EnterPanic, PanicTurn, Goto
  <1>5. CASE panicRuns = 2
    BY <1>1, <1>2, <1>5 DEF EnterPanic, PanicTurn, Goto
  <1>6. CASE panicRuns = 3
    BY <1>1, <1>2, <1>6 DEF EnterPanic, PanicTurn, Goto
  <1>7. QED
    BY <1>1, <1>3, <1>4, <1>5, <1>6

(* One lemma for each part of the invariant, with a case for each group of *)
(* steps.                                                                  *)

LEMMA NextCounters == Counters /\ PanicsLeft /\ [Next]_vars => Counters'
  <1> SUFFICES ASSUME Counters, PanicsLeft, [Next]_vars PROVE Counters'
    OBVIOUS
  <1> USE DEF Counters, PanicsLeft, Allocates
  <1>1. CASE Start
    BY <1>1 DEF Start, InitArchive, InitGui, InitLua, InitMessage, From, Goto,
       app
  <1>2. CASE Mainline \/ LuaFatal
    BY <1>2 DEF Mainline, LuaFatal, Onward, From, Goto, app
  <1>3. CASE FatalSteps
    BY <1>3 DEF FatalSteps, EnterFatal, FatalBox, FatalCheck, Revert, Returned, From,
       Goto, app, hist
  <1>4. CASE Deinit
    BY <1>4 DEF Deinit, DeinitLua, DeinitGui, Drop, Exit, From, Goto, app
  <1>5. CASE PanicSteps
    BY <1>5, PanicCall DEF PanicSteps, PanicLog, PanicBox, PanicDown,
       PanicStderr, From, Goto, app
  <1>6. CASE OutOfMemory
    BY <1>6 DEF OutOfMemory, Goto, app
  <1>7. CASE SignalSteps
    BY <1>7 DEF SignalSteps, TakeSignal, Caught, Goto, app, Signal
  <1>8. CASE Killed \/ UNCHANGED vars
    BY <1>8 DEF Killed, Goto, app, hist, vars
  <1>9. QED
    BY <1>1, <1>2, <1>3, <1>4, <1>5, <1>6, <1>7, <1>8 DEF Next

LEMMA NextMessages == Messages /\ Counters /\ PanicsLeft /\ [Next]_vars => Messages'
  <1> SUFFICES ASSUME Messages, Counters, PanicsLeft, [Next]_vars PROVE Messages'
    OBVIOUS
  <1> USE DEF Messages, Message
  <1>1. CASE Start
    BY <1>1 DEF Start, InitArchive, InitGui, InitLua, InitMessage, From, Goto,
       app
  <1>2. CASE Mainline \/ LuaFatal
    BY <1>2 DEF Mainline, LuaFatal, Onward, From, Goto, app
  <1>3. CASE FatalSteps
    BY <1>3 DEF FatalSteps, EnterFatal, FatalBox, FatalCheck, Revert, Returned, From,
       Goto, app, hist
  <1>4. CASE Deinit
    BY <1>4 DEF Deinit, DeinitLua, DeinitGui, Drop, Exit, From, Goto, app
  <1>5. CASE PanicSteps
    BY <1>5, PanicCall DEF PanicSteps, PanicLog, PanicBox, PanicDown,
       PanicStderr, From, Goto, app
  <1>6. CASE OutOfMemory
    BY <1>6 DEF OutOfMemory, Goto, app
  <1>7. CASE SignalSteps
    BY <1>7 DEF SignalSteps, TakeSignal, Caught, Goto, app, Signal
  <1>8. CASE Killed \/ UNCHANGED vars
    BY <1>8 DEF Killed, Goto, app, hist, vars
  <1>9. QED
    BY <1>1, <1>2, <1>3, <1>4, <1>5, <1>6, <1>7, <1>8 DEF Next

LEMMA NextFlags == Flags /\ Counters /\ PanicsLeft /\ [Next]_vars => Flags'
  <1> SUFFICES ASSUME Flags, Counters, PanicsLeft, [Next]_vars PROVE Flags'
    OBVIOUS
  <1> USE DEF Flags, Allocates
  <1>1. CASE Start
    BY <1>1 DEF Start, InitArchive, InitGui, InitLua, InitMessage, From, Goto,
       app
  <1>2. CASE Mainline \/ LuaFatal
    BY <1>2 DEF Mainline, LuaFatal, Onward, From, Goto, app
  <1>3. CASE FatalSteps
    BY <1>3 DEF FatalSteps, EnterFatal, FatalBox, FatalCheck, Revert, Returned, From,
       Goto, app, hist
  <1>4. CASE Deinit
    BY <1>4 DEF Deinit, DeinitLua, DeinitGui, Drop, Exit, From, Goto, app
  <1>5. CASE PanicSteps
    BY <1>5, PanicCall DEF PanicSteps, PanicLog, PanicBox, PanicDown,
       PanicStderr, From, Goto, app
  <1>6. CASE OutOfMemory
    BY <1>6 DEF OutOfMemory, Goto, app
  <1>7. CASE SignalSteps
    BY <1>7 DEF SignalSteps, TakeSignal, Caught, Goto, app, Signal
  <1>8. CASE Killed \/ UNCHANGED vars
    BY <1>8 DEF Killed, Goto, app, hist, vars
  <1>9. QED
    BY <1>1, <1>2, <1>3, <1>4, <1>5, <1>6, <1>7, <1>8 DEF Next

LEMMA NextShapes == Shapes /\ Messages /\ Counters /\ PanicsLeft /\ [Next]_vars => Shapes'
  <1> SUFFICES ASSUME Shapes, Messages, Counters, PanicsLeft, [Next]_vars PROVE Shapes'
    OBVIOUS
  <1> USE DEF Shapes, Amounts, Messages, Counters, PanicsLeft, Points, Message, Signal,
              Startup, Failing, Ending, Allocates
  <1>1. CASE Start
    <2>1. CASE InitArchive
      BY <2>1 DEF InitArchive, From, Goto, app, hist
    <2>2. CASE InitGui
      BY <2>2 DEF InitGui, From, Goto, app, hist
    <2>3. CASE InitLua
      BY <2>3 DEF InitLua, From, Goto, app, hist
    <2>4. CASE InitMessage("crashedmsg", "termedmsg")
      BY <2>4 DEF InitMessage, From, Goto, app, hist
    <2>5. CASE InitMessage("termedmsg", "mainline")
      BY <2>5 DEF InitMessage, From, Goto, app, hist
    <2>9. QED
      BY <1>1, <2>1, <2>2, <2>3, <2>4, <2>5 DEF Start
  <1>2. CASE Mainline \/ LuaFatal
    BY <1>2 DEF Mainline, LuaFatal, Onward, From, Goto, app
  <1>3. CASE FatalSteps
    <2>1. CASE EnterFatal
      BY <2>1 DEF EnterFatal, From, Goto, app, hist
    <2>2. CASE FatalBox
      BY <2>2 DEF FatalBox, From, Goto, app, hist
    <2>3. CASE FatalCheck
      BY <2>3 DEF FatalCheck, From, Goto, app, hist
    <2>4. CASE Revert
      BY <2>4 DEF Revert, Returned, From, Goto, app, hist
    <2>9. QED
      BY <1>3, <2>1, <2>2, <2>3, <2>4 DEF FatalSteps
  <1>4. CASE Deinit
    <2>1. CASE DeinitLua
      BY <2>1 DEF DeinitLua, From, Goto, app, hist
    <2>2. CASE DeinitGui
      BY <2>2 DEF DeinitGui, From, Goto, app, hist
    <2>3. CASE Drop("crashedmsg", "null_crashedmsg", "free_crashedmsg",
                    "null_termedmsg")
      BY <2>3 DEF Drop, From, Goto, app, hist
    <2>4. CASE Drop("termedmsg", "null_termedmsg", "free_termedmsg", "exit")
      BY <2>4 DEF Drop, From, Goto, app, hist
    <2>5. CASE Exit
      BY <2>5 DEF Exit, From, Goto, app, hist
    <2>9. QED
      BY <1>4, <2>1, <2>2, <2>3, <2>4, <2>5 DEF Deinit
  <1>5. CASE PanicSteps
    <2>1. CASE EnterPanic
      BY <2>1, PanicCall
    <2>2. CASE PanicLog
      BY <2>2 DEF PanicLog, From, Goto, app, hist
    <2>3. CASE PanicBox
      BY <2>3 DEF PanicBox, From, Goto, app, hist
    <2>4. CASE PanicDown
      BY <2>4 DEF PanicDown, From, Goto, app, hist
    <2>5. CASE PanicStderr
      BY <2>5 DEF PanicStderr, From, Goto, app, hist
    <2>9. QED
      BY <1>5, <2>1, <2>2, <2>3, <2>4, <2>5 DEF PanicSteps
  <1>6. CASE OutOfMemory
    BY <1>6 DEF OutOfMemory, Goto, app
  <1>7. CASE SignalSteps
    BY <1>7 DEF SignalSteps, TakeSignal, Caught, Goto, app, Signal
  <1>8. CASE Killed \/ UNCHANGED vars
    BY <1>8 DEF Killed, Goto, app, hist, vars
  <1>9. QED
    BY <1>1, <1>2, <1>3, <1>4, <1>5, <1>6, <1>7, <1>8 DEF Next

LEMMA NextUntroubled == TypeOK /\ Untroubled /\ PanicsLeft /\ [Next]_vars => Untroubled'
  <1> SUFFICES ASSUME TypeOK, Untroubled, PanicsLeft, [Next]_vars PROVE Untroubled'
    OBVIOUS
  <1> USE DEF TypeOK, Untroubled, Startup, Failing, Ending, Allocates
  <1>1. CASE Start
    BY <1>1 DEF Start, InitArchive, InitGui, InitLua, InitMessage, From, Goto,
       app
  <1>2. CASE Mainline \/ LuaFatal
    BY <1>2 DEF Mainline, LuaFatal, Onward, From, Goto, app
  <1>3. CASE FatalSteps
    BY <1>3 DEF FatalSteps, EnterFatal, FatalBox, FatalCheck, Revert, Returned, From,
       Goto, app, hist
  <1>4. CASE Deinit
    BY <1>4 DEF Deinit, DeinitLua, DeinitGui, Drop, Exit, From, Goto, app
  <1>5. CASE PanicSteps
    BY <1>5, PanicCall, Types DEF PanicSteps, PanicLog, PanicBox, PanicDown,
       PanicStderr, From, Goto, app
  <1>6. CASE OutOfMemory
    BY <1>6 DEF OutOfMemory, Goto, app
  <1>7. CASE SignalSteps
    BY <1>7 DEF SignalSteps, TakeSignal, Caught, Goto, app, Signal
  <1>8. CASE Killed \/ UNCHANGED vars
    BY <1>8 DEF Killed, Goto, app, hist, vars
  <1>9. QED
    BY <1>1, <1>2, <1>3, <1>4, <1>5, <1>6, <1>7, <1>8 DEF Next

LEMMA NextPanicsLeft == TypeOK /\ PanicsLeft /\ Untroubled /\ [Next]_vars => PanicsLeft'
  <1> SUFFICES ASSUME TypeOK, PanicsLeft, Untroubled, [Next]_vars PROVE PanicsLeft'
    OBVIOUS
  <1> USE DEF TypeOK, PanicsLeft, Untroubled, Startup, Failing, Ending,
              Allocates
  <1>1. CASE Start
    BY <1>1 DEF Start, InitArchive, InitGui, InitLua, InitMessage, From, Goto,
       app
  <1>2. CASE Mainline \/ LuaFatal
    BY <1>2 DEF Mainline, LuaFatal, Onward, From, Goto, app
  <1>3. CASE FatalSteps
    BY <1>3 DEF FatalSteps, EnterFatal, FatalBox, FatalCheck, Revert, Returned, From,
       Goto, app, hist
  <1>4. CASE Deinit
    BY <1>4 DEF Deinit, DeinitLua, DeinitGui, Drop, Exit, From, Goto, app
  <1>5. CASE PanicSteps
    BY <1>5, PanicCall, Types DEF PanicSteps, PanicLog, PanicBox, PanicDown,
       PanicStderr, From, Goto, app
  <1>6. CASE OutOfMemory
    BY <1>6 DEF OutOfMemory, Goto, app
  <1>7. CASE SignalSteps
    BY <1>7 DEF SignalSteps, TakeSignal, Caught, Goto, app, Signal
  <1>8. CASE Killed \/ UNCHANGED vars
    BY <1>8 DEF Killed, Goto, app, hist, vars
  <1>9. QED
    BY <1>1, <1>2, <1>3, <1>4, <1>5, <1>6, <1>7, <1>8 DEF Next

LEMMA NextFirstFatal == TypeOK /\ FirstFatal /\ PanicsLeft /\ [Next]_vars => FirstFatal'
  <1> SUFFICES ASSUME TypeOK, FirstFatal, PanicsLeft, [Next]_vars PROVE FirstFatal'
    OBVIOUS
  <1> USE DEF TypeOK, FirstFatal, Startup, Failing, Ending, Allocates
  <1>1. CASE Start
    BY <1>1 DEF Start, InitArchive, InitGui, InitLua, InitMessage, From, Goto,
       app
  <1>2. CASE Mainline \/ LuaFatal
    BY <1>2 DEF Mainline, LuaFatal, Onward, From, Goto, app
  <1>3. CASE FatalSteps
    BY <1>3 DEF FatalSteps, EnterFatal, FatalBox, FatalCheck, Revert, Returned, From,
       Goto, app, hist
  <1>4. CASE Deinit
    BY <1>4 DEF Deinit, DeinitLua, DeinitGui, Drop, Exit, From, Goto, app
  <1>5. CASE PanicSteps
    BY <1>5, PanicCall, Types DEF PanicSteps, PanicLog, PanicBox, PanicDown,
       PanicStderr, From, Goto, app
  <1>6. CASE OutOfMemory
    BY <1>6 DEF OutOfMemory, Goto, app
  <1>7. CASE SignalSteps
    BY <1>7 DEF SignalSteps, TakeSignal, Caught, Goto, app, Signal
  <1>8. CASE Killed \/ UNCHANGED vars
    BY <1>8 DEF Killed, Goto, app, hist, vars
  <1>9. QED
    BY <1>1, <1>2, <1>3, <1>4, <1>5, <1>6, <1>7, <1>8 DEF Next

LEMMA NextCleanEnding == TypeOK /\ CleanEnding /\ FaultsCounted /\ PanicsLeft /\ [Next]_vars => CleanEnding'
  <1> SUFFICES ASSUME TypeOK, CleanEnding, FaultsCounted, PanicsLeft, [Next]_vars PROVE CleanEnding'
    OBVIOUS
  <1> USE DEF TypeOK, CleanEnding, FaultsCounted, Startup, Failing, Ending,
              Allocates
  <1>1. CASE Start
    BY <1>1 DEF Start, InitArchive, InitGui, InitLua, InitMessage, From, Goto,
       app
  <1>2. CASE Mainline \/ LuaFatal
    BY <1>2 DEF Mainline, LuaFatal, Onward, From, Goto, app
  <1>3. CASE FatalSteps
    BY <1>3 DEF FatalSteps, EnterFatal, FatalBox, FatalCheck, Revert, Returned, From,
       Goto, app, hist
  <1>4. CASE Deinit
    BY <1>4 DEF Deinit, DeinitLua, DeinitGui, Drop, Exit, From, Goto, app
  <1>5. CASE PanicSteps
    BY <1>5, PanicCall, Types DEF PanicSteps, PanicLog, PanicBox, PanicDown,
       PanicStderr, From, Goto, app
  <1>6. CASE OutOfMemory
    BY <1>6 DEF OutOfMemory, Goto, app
  <1>7. CASE SignalSteps
    BY <1>7 DEF SignalSteps, TakeSignal, Caught, Goto, app, Signal
  <1>8. CASE Killed \/ UNCHANGED vars
    BY <1>8 DEF Killed, Goto, app, hist, vars
  <1>9. QED
    BY <1>1, <1>2, <1>3, <1>4, <1>5, <1>6, <1>7, <1>8 DEF Next

LEMMA NextMessagesHeld == TypeOK /\ MessagesHeld /\ PanicsLeft /\ [Next]_vars => MessagesHeld'
  <1> SUFFICES ASSUME TypeOK, MessagesHeld, PanicsLeft, [Next]_vars PROVE MessagesHeld'
    OBVIOUS
  <1> USE DEF TypeOK, MessagesHeld, InFatal, Message, Startup, Failing,
              Ending, Allocates
  <1>1. CASE Start
    BY <1>1 DEF Start, InitArchive, InitGui, InitLua, InitMessage, From, Goto,
       app
  <1>2. CASE Mainline \/ LuaFatal
    BY <1>2 DEF Mainline, LuaFatal, Onward, From, Goto, app
  <1>3. CASE FatalSteps
    BY <1>3 DEF FatalSteps, EnterFatal, FatalBox, FatalCheck, Revert, Returned, From,
       Goto, app, hist
  <1>4. CASE Deinit
    BY <1>4 DEF Deinit, DeinitLua, DeinitGui, Drop, Exit, From, Goto, app
  <1>5. CASE PanicSteps
    BY <1>5, PanicCall, Types DEF PanicSteps, PanicLog, PanicBox, PanicDown,
       PanicStderr, From, Goto, app
  <1>6. CASE OutOfMemory
    BY <1>6 DEF OutOfMemory, Goto, app
  <1>7. CASE SignalSteps
    BY <1>7 DEF SignalSteps, TakeSignal, Caught, Goto, app, Signal
  <1>8. CASE Killed \/ UNCHANGED vars
    BY <1>8 DEF Killed, Goto, app, hist, vars
  <1>9. QED
    BY <1>1, <1>2, <1>3, <1>4, <1>5, <1>6, <1>7, <1>8 DEF Next

LEMMA NextGuiHeld == TypeOK /\ GuiHeld /\ Untroubled /\ PanicsLeft /\ [Next]_vars => GuiHeld'
  <1> SUFFICES ASSUME TypeOK, GuiHeld, Untroubled, PanicsLeft, [Next]_vars PROVE GuiHeld'
    OBVIOUS
  <1> USE DEF TypeOK, GuiHeld, Untroubled, Startup, Failing, Ending, Allocates
  <1>1. CASE Start
    BY <1>1 DEF Start, InitArchive, InitGui, InitLua, InitMessage, From, Goto,
       app
  <1>2. CASE Mainline \/ LuaFatal
    BY <1>2 DEF Mainline, LuaFatal, Onward, From, Goto, app
  <1>3. CASE FatalSteps
    BY <1>3 DEF FatalSteps, EnterFatal, FatalBox, FatalCheck, Revert, Returned, From,
       Goto, app, hist
  <1>4. CASE Deinit
    BY <1>4 DEF Deinit, DeinitLua, DeinitGui, Drop, Exit, From, Goto, app
  <1>5. CASE PanicSteps
    <2>1. CASE EnterPanic
      BY <2>1, PanicCall, Types
    <2>2. CASE PanicLog
      BY <2>2 DEF PanicLog, From, Goto, app, hist
    <2>3. CASE PanicBox
      BY <2>3 DEF PanicBox, From, Goto, app, hist
    <2>4. CASE PanicDown
      BY <2>4 DEF PanicDown, From, Goto, app, hist
    <2>5. CASE PanicStderr
      BY <2>5 DEF PanicStderr, From, Goto, app, hist
    <2>9. QED
      BY <1>5, <2>1, <2>2, <2>3, <2>4, <2>5 DEF PanicSteps
  <1>6. CASE OutOfMemory
    BY <1>6 DEF OutOfMemory, Goto, app
  <1>7. CASE SignalSteps
    BY <1>7 DEF SignalSteps, TakeSignal, Caught, Goto, app, Signal
  <1>8. CASE Killed \/ UNCHANGED vars
    BY <1>8 DEF Killed, Goto, app, hist, vars
  <1>9. QED
    BY <1>1, <1>2, <1>3, <1>4, <1>5, <1>6, <1>7, <1>8 DEF Next

LEMMA NextFaultsCounted == TypeOK /\ FaultsCounted /\ Untroubled /\ FirstFatal /\ CleanEnding /\ PanicsLeft /\ [Next]_vars => FaultsCounted'
  <1> SUFFICES ASSUME TypeOK, FaultsCounted, Untroubled, FirstFatal, CleanEnding, PanicsLeft, [Next]_vars PROVE FaultsCounted'
    OBVIOUS
  <1> USE DEF TypeOK, FaultsCounted, Untroubled, FirstFatal, CleanEnding,
              InFatal, Message, Startup, Failing, Ending, Allocates
  <1>1. CASE Start
    BY <1>1 DEF Start, InitArchive, InitGui, InitLua, InitMessage, From, Goto,
       app
  <1>2. CASE Mainline \/ LuaFatal
    BY <1>2 DEF Mainline, LuaFatal, Onward, From, Goto, app
  <1>3. CASE FatalSteps
    BY <1>3 DEF FatalSteps, EnterFatal, FatalBox, FatalCheck, Revert, Returned, From,
       Goto, app, hist
  <1>4. CASE Deinit
    BY <1>4 DEF Deinit, DeinitLua, DeinitGui, Drop, Exit, From, Goto, app
  <1>5. CASE PanicSteps
    <2>1. CASE EnterPanic
      BY <2>1, PanicCall, Types
    <2>2. CASE PanicLog
      BY <2>2 DEF PanicLog, From, Goto, app, hist
    <2>3. CASE PanicBox
      BY <2>3 DEF PanicBox, From, Goto, app, hist
    <2>4. CASE PanicDown
      BY <2>4 DEF PanicDown, From, Goto, app, hist
    <2>5. CASE PanicStderr
      BY <2>5 DEF PanicStderr, From, Goto, app, hist
    <2>9. QED
      BY <1>5, <2>1, <2>2, <2>3, <2>4, <2>5 DEF PanicSteps
  <1>6. CASE OutOfMemory
    BY <1>6 DEF OutOfMemory, Goto, app
  <1>7. CASE SignalSteps
    BY <1>7 DEF SignalSteps, TakeSignal, Caught, Goto, app, Signal
  <1>8. CASE Killed \/ UNCHANGED vars
    BY <1>8 DEF Killed, Goto, app, hist, vars
  <1>9. QED
    BY <1>1, <1>2, <1>3, <1>4, <1>5, <1>6, <1>7, <1>8 DEF Next

LEMMA NextIInv == IInv /\ [Next]_vars => IInv'
  <1> SUFFICES ASSUME IInv, [Next]_vars PROVE IInv'
    OBVIOUS
  <1>1. Counters /\ Messages /\ Flags /\ Shapes
    BY Types DEF IInv
  <1>2. Counters' /\ Messages' /\ Flags' /\ Shapes'
    BY <1>1, NextCounters, NextMessages, NextFlags, NextShapes DEF IInv
  <1>3. TypeOK'
    BY <1>2, Amount DEF TypeOK, Counters, Messages, Flags, Shapes, Points
  <1>4. Untroubled' /\ PanicsLeft' /\ FirstFatal' /\ CleanEnding'
    BY NextUntroubled, NextPanicsLeft, NextFirstFatal, NextCleanEnding DEF IInv
  <1>5. MessagesHeld' /\ GuiHeld' /\ FaultsCounted'
    BY NextMessagesHeld, NextGuiHeld, NextFaultsCounted DEF IInv
  <1>6. QED
    BY <1>3, <1>4, <1>5 DEF IInv

LEMMA Invariant == Spec => []IInv
  BY InitIInv, NextIInv, PTL DEF Spec

-----------------------------------------------------------------------------
(* The properties.                                                         *)

\* Every value has its type; panic() (mojosetup.c) counts to four at most.
THEOREM TypeInvariant == Spec => []TypeOK
  <1>1. IInv => TypeOK
    BY DEF IInv
  <1>2. QED
    BY <1>1, Invariant, PTL

\* Any number of signals, in any order, enter revertinstall at most once: the
\* static in_fatal of fatal() is set before anything that can be interrupted.
THEOREM RevertOnlyOnce == Spec => []RevertedOnce
  <1>1. IInv => RevertedOnce
    BY DEF IInv, FirstFatal, RevertedOnce
  <1>2. QED
    BY <1>1, Invariant, PTL

\* main() exits with status 0 only when nothing is unfinished, fatal() with 23
\* only after real_revertinstall() has run through to its end.
THEOREM ExitIsHonest == Spec => []HonestExit
  <1>1. IInv => HonestExit
    BY DEF IInv, CleanEnding, HonestExit
  <1>2. QED
    BY <1>1, Invariant, PTL

\* After one error or one signal, at any point of the program, real_revertinstall()
\* runs through to its end; what is on none of its lists stays only after a signal.
THEOREM OneFaultSuffices == Spec => []OneFaultIsReverted
  <1>1. IInv => OneFaultIsReverted
    BY DEF IInv, TypeOK, FaultsCounted, OneFaultIsReverted, InFatal
  <1>2. QED
    BY <1>1, Invariant, PTL

\* panic() shows its box through a plugin that is up, though GGui is not
\* reset when panic() shuts the plugin down.
THEOREM PanicFindsGui == Spec => []PanicBoxNeedsGui
  <1>1. IInv => PanicBoxNeedsGui
    BY DEF IInv, GuiHeld, PanicBoxNeedsGui
  <1>2. QED
    BY <1>1, Invariant, PTL

\* The handlers never print crashedmsg or termedmsg after it was freed.
THEOREM MessagesStay == Spec => []MessagesAreAlive
  <1>1. IInv => MessagesAreAlive
    BY DEF IInv, MessagesHeld, MessagesAreAlive, InFatal
  <1>2. QED
    BY <1>1, Invariant, PTL

\* Neither a plugin that was shut down nor a message that was freed is used, in
\* whatever order signals and failures come.
THEOREM NothingDead == Spec => []NothingDeadIsUsed
  BY PanicFindsGui, MessagesStay, PTL DEF NothingDeadIsUsed
=============================================================================

------------------------------ MODULE MCWizard ------------------------------
(***************************************************************************)
(* Packages for Wizard to install: one with everything in it, and the      *)
(* packages that differ from it in what the runs are about.                *)
(***************************************************************************)
EXTENDS Wizard

Order == <<"base", "pack", "maps", "gl", "sw", "old">>
Asks(options, asked) == [o \in ToSet(Order) |-> IF o \in options THEN asked ELSE <<>>]

\* A base that is required, a pack with maps of its own, one of two renderers
\* (both checked, a mistake the walk corrects), and an option no longer offered.
Game ==
  [option |-> ToSet(Order), group |-> {"render"}, order |-> Order,
   up |-> [base |-> Top, pack |-> Top, maps |-> "pack", render |-> Top,
           gl |-> "render", sw |-> "render", old |-> Top],
   checked |-> {"pack", "gl", "sw", "old"}, required |-> {"base"}, disabled |-> {"old"},
   eulas |-> <<"license">>, keys |-> <<"serial">>, readmes |-> <<"readme">>,
   optEulas |-> [Asks({"pack"}, <<"pack license", "notes">>)
                 EXCEPT !["sw"] = <<"sw license">>],
   optKeys |-> [Asks({"maps"}, <<"maps key">>) EXCEPT !["pack"] = <<"pack key">>],
   consent |-> {"license", "pack license", "sw license"},
   verified |-> {"serial"}, unwritten |-> {},
   precheck |-> TRUE, askDest |-> TRUE, checkDst |-> TRUE,
   skipEulas |-> FALSE, skipOptions |-> FALSE]

\* With a group inside an option, a required option inside another, one that is
\* required and disabled, and a disabled group.
Suite ==
  [Game EXCEPT
     !.up = [base |-> "pack", pack |-> Top, maps |-> "old", render |-> "pack",
             gl |-> "render", sw |-> "render", old |-> Top],
     !.checked = {"maps"}, !.required = {"base", "old"},
     !.eulas = <<>>, !.keys = <<>>, !.readmes = <<>>, !.askDest = FALSE]

Closed == [Game EXCEPT !.disabled = {"render"}, !.precheck = FALSE]

\* Nothing to ask before the licenses of the options: they are the first stage.
Bare ==
  [Game EXCEPT !.precheck = FALSE, !.eulas = <<>>, !.keys = <<>>, !.readmes = <<>>,
               !.askDest = FALSE, !.skipOptions = TRUE]

Packages ==
  {Game, Suite, Closed, Bare, [Suite EXCEPT !.precheck = FALSE],
   [Game EXCEPT !.skipEulas = TRUE], [Game EXCEPT !.skipOptions = TRUE],
   [Game EXCEPT !.unwritten = {"serial"}]}
=============================================================================

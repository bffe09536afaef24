------------------------------- MODULE Wizard -------------------------------
(***************************************************************************)
(* The stages of an installation, from the first page to the last file:    *)
(* the array of stage functions do_install() builds from the configuration *)
(* and the loop that steps through it, forward and back, as the user reads *)
(* licenses, enters product keys and chooses options.                      *)
(*                                                                         *)
(* A stage shows any number of pages, none included, and returns 1 (go     *)
(* on), -1 (go back) or 0 (give up).  The GUI offers Back on any stage but *)
(* the first (canGoBack() in lua_glue.c).                                  *)
(***************************************************************************)
EXTENDS Integers, Sequences, FiniteSets, SequencesExt

CONSTANTS
  Configs,    \* the configurations to install
  Patience    \* how often the user goes back, errs or changes his mind

\* A configuration, as config.lua and the command line give it, is a record of
\*   option, group, order          the options and option groups; their order
\*   up                            what each is declared in, an option, a group
\*                                 or Top: they form a tree
\*   checked, required, disabled   the attributes "value", "required" and
\*                                 "disabled"
\*   eulas, keys, readmes          what the package asks of the user, in order
\*   optEulas, optKeys             what each option asks
\*   consent, verified, unwritten  the licenses to accept, the keys that have a
\*                                 verify(), those that have no destination
\*   precheck, askDest, checkDst   whether there is a precheck hook, a page for
\*                                 the destination, a hook that checks it
\*   skipEulas, skipOptions        --i-agree-to-all-licenses and --nooptions
Top == "top"

\* A name stands for an entry of the configuration, so that no license is both
\* the package's and an option's.
Node(c) == c.option \cup c.group

Shaped(c) ==
  /\ c.order \in Seq(c.option) /\ c.option = ToSet(c.order)
  /\ Top \notin Node(c) /\ c.option \cap c.group = {}
  /\ c.up \in [Node(c) -> Node(c) \cup {Top}]
  /\ c.checked \cup c.required \subseteq c.option /\ c.disabled \subseteq Node(c)
  /\ {c.eulas, c.keys, c.readmes} \subseteq Seq(STRING)
  /\ {c.optEulas, c.optKeys} \subseteq [c.option -> Seq(STRING)]
  /\ \A o \in c.option : ToSet(c.eulas) \cap ToSet(c.optEulas[o]) = {}

\* Some node of any set of them is declared outside it.
Tree(c) ==
  \A s \in SUBSET Node(c) : s # {} => \E n \in s : c.up[n] \notin s

\* Two kinds of tree that the program accepts are left out: those with a group
\* declared in a required option, and those with a required option in a group that
\* has options of its own.  build_one_gui_option() hands the children of an option
\* it does not show over to a sibling, in the place of the parent, and what it
\* corrects then, and undoes, depends on that sibling.
Straight(c) ==
  /\ \A g \in c.group : c.up[g] \notin c.required
  /\ \A o \in c.option :
       c.up[o] \in c.required => c.up[c.up[o]] \notin c.group

\* An OptionGroup has no attribute "required" and lies in no other group (fatal).
WellFormed(c) ==
  /\ Shaped(c) /\ Tree(c) /\ Straight(c)
  /\ \A g \in c.group : c.up[g] \notin c.group

ASSUME ConfigsAssumption == \A c \in Configs : WellFormed(c)
ASSUME PatienceAssumption == Patience \in Nat

VARIABLES
  cfg,       \* the configuration
  i,         \* the stage
  inside,    \* the stage has been called
  todo,      \* the pages it has left to show
  sel,       \* the options whose value is true
  accepted,  \* the licenses accepted, and not refused since
  keys,      \* MojoSetup.productkeys: the keys entered, by description
  files,     \* the options MojoSetup.files was built from
  written,   \* the keys written to disk
  back,      \* the stage the user went back from, until the next page; or 0
  doubts,    \* how often the user went back, erred or changed his mind
  status     \* "running", "installed", "cancelled", "refused", "stopped" by a
             \* hook of the package, "error" in Lua, "bug" caught by the loop

vars == <<cfg, i, inside, todo, sel, accepted, keys, files, written, back,
          doubts, status>>

-----------------------------------------------------------------------------
(* The tree of options.                                                    *)

\* The options and groups around node n.
Around(c, n) ==
  LET up[m \in Node(c)] ==
        IF c.up[m] = Top THEN {} ELSE {c.up[m]} \cup up[c.up[m]]
  IN up[n]

\* The first option of the set s in the order of the configuration.
First(c, s) ==
  c.order[CHOOSE n \in 1..Len(c.order) :
            c.order[n] \in s /\ \A m \in 1..(n - 1) : c.order[m] \notin s]

\* The options that the walks of do_install() find when the set s is checked:
\* checked themselves, as every option around them, and in no disabled group.
Found(c, s) ==
  {o \in s : /\ Around(c, o) \cap c.option \subseteq s
             /\ Around(c, o) \cap c.group \cap c.disabled = {}}

\* build_one_gui_option() does not look inside a disabled group or an option
\* that is disabled and not required.
Visited(c) ==
  {o \in c.option : Around(c, o) \cap c.disabled \subseteq c.required}

\* The options it passes to the GUI.
Shown(c) == Visited(c) \ (c.required \cup c.disabled)

\* "disabled=true" trumps "required=true".
RequiredLast(c, s) == (s \ (Visited(c) \cap c.disabled))
                      \cup (Visited(c) \cap c.required)

Forced(c, s) == (s \cup (Visited(c) \cap c.required))
                \ (Visited(c) \cap c.disabled)

Members(c, g) == {o \in Shown(c) : c.up[o] = g}

\* The groups that offer a choice, and s with one option of each, pick[g],
\* checked; the options in no group keep their values.
Offered(c) == {g \in c.group : Members(c, g) # {}}

OneOfEach(c, s, pick) ==
  (s \ UNION {Members(c, g) : g \in c.group}) \cup {pick[g] : g \in Offered(c)}

\* Mutant: what was checked is forgotten.
AlwaysFirst(c, s) ==
  OneOfEach(c, s, [g \in Offered(c) |-> First(c, Members(c, g))])

\* cleanup_gui_option_list(): of the options of a group one is checked, the
\* first that was, or else the first.
Radio(c, s) ==
  OneOfEach(c, s, [g \in Offered(c) |->
                     IF Members(c, g) \cap s # {}
                     THEN First(c, Members(c, g) \cap s)
                     ELSE First(c, Members(c, g))])

\* What the user may make of s: any box on or off, one button of each group.
Selections(c, s) ==
  {t \in SUBSET (s \cup Shown(c)) :
     /\ s \ Shown(c) \subseteq t
     /\ \A g \in Offered(c) : Cardinality(Members(c, g) \cap t) = 1}

-----------------------------------------------------------------------------
(* The stages.                                                             *)

Page(k, names) == [n \in 1..Len(names) |-> [kind |-> k, name |-> names[n]]]

\* A stage that shows the same page whenever it is called.
Fixed(pages) == [n \in 1..Len(pages) |-> [do |-> "page", page |-> pages[n]]]

Step(d) == <<[do |-> d]>>
When(b, s) == IF b THEN s ELSE <<>>

\* The stages before the options, and those from the options on.
Preface(c) ==
  When(c.precheck, Step("precheck"))
  \o When(~c.skipEulas, Fixed(Page("eula", c.eulas)))
  \o Fixed(Page("key", c.keys))
  \o Fixed(Page("readme", c.readmes))
  \o When(c.askDest, Fixed(Page("destination", <<"destination">>)))

Course(c) ==
  When(~c.skipOptions, Step("options"))
  \o When(~c.skipEulas, Step("option eulas"))
  \o <<[do |-> "option keys"], [do |-> "sources"], [do |-> "install"]>>

Stages(c) == Preface(c) \o Course(c)

Stage == Stages(cfg)[i]

\* The licenses, or the keys, of the options that were found, in their order.
OfOptions(names, found) ==
  FlattenSeq([n \in 1..Len(cfg.order) |->
                When(cfg.order[n] \in found, names[cfg.order[n]])])

Running == status = "running"

-----------------------------------------------------------------------------
(* Calling a stage.                                                        *)

place == <<i, inside, todo>>
answers == <<sel, accepted, keys>>
outcome == <<files, written>>

Advance == i' = i + 1 /\ inside' = FALSE /\ todo' = <<>>

Enter(pages) == inside' = TRUE /\ todo' = pages /\ UNCHANGED i

\* Mutant: the options as the stages were built, not as they are now.
PagesAtBuild ==
  CASE Stage.do = "page"         -> <<Stage.page>>
    [] Stage.do = "option eulas" ->
         Page("option eula", OfOptions(cfg.optEulas, Found(cfg, cfg.checked)))
    [] Stage.do = "option keys"  ->
         Page("key", OfOptions(cfg.optKeys, Found(cfg, cfg.checked)))

\* The pages of the stage: its own, or what the options that are checked by now
\* call for.
Pages ==
  CASE Stage.do = "page"         -> <<Stage.page>>
    [] Stage.do = "option eulas" ->
         Page("option eula", OfOptions(cfg.optEulas, Found(cfg, sel)))
    [] Stage.do = "option keys"  ->
         Page("key", OfOptions(cfg.optKeys, Found(cfg, sel)))

ShowPages ==
  /\ Running /\ ~inside
  /\ Stage.do \in {"page", "option eulas", "option keys"}
  /\ Enter(Pages)
  /\ UNCHANGED <<cfg, answers, outcome, back, doubts, status>>

\* luahook_gui_options() corrects the values before it shows the options; if
\* none is the user's to choose there is no page.
ShowOptions ==
  /\ Running /\ ~inside /\ Stage.do = "options"
  /\ sel' = Radio(cfg, Forced(cfg, sel))
  /\ Enter(When(Shown(cfg) # {}, Page("options", <<"options">>)))
  /\ UNCHANGED <<cfg, accepted, keys, outcome, back, doubts, status>>

\* run_config_defined_hook(): a hook of the package may refuse to go on.
Stopped == status' = "stopped" /\ UNCHANGED <<place, outcome>>

Precheck ==
  /\ Running /\ ~inside /\ Stage.do = "precheck"
  /\ \/ Stopped
     \/ Advance /\ UNCHANGED <<status, outcome>>
  /\ UNCHANGED <<cfg, answers, back, doubts>>

Sources ==
  /\ Running /\ ~inside /\ Stage.do = "sources"
  /\ \/ Stopped
     \/ files' = Found(cfg, sel) /\ Advance /\ UNCHANGED <<written, status>>
  /\ UNCHANGED <<cfg, answers, back, doubts>>

\* The stages that download and install; install_product_keys() puts the
\* destination in front of the name of each key's file.
InstallFiles ==
  /\ Running /\ ~inside /\ Stage.do = "install"
  /\ \/ Stopped
     \/ /\ keys \cap cfg.unwritten = {}
        /\ status' = "installed" /\ written' = keys
        /\ UNCHANGED <<place, files>>
     \/ /\ keys \cap cfg.unwritten # {}
        /\ status' = "error"
        /\ UNCHANGED <<place, outcome>>
  /\ UNCHANGED <<cfg, answers, back, doubts>>

\* Mutant: the stage steps back when it has nothing to show.
LeaveIfShown ==
  /\ Running /\ inside /\ todo = <<>>
  /\ IF Stage.do \in {"option eulas", "option keys"} /\ Pages = <<>>
     THEN i' = i - 1 /\ inside' = FALSE /\ todo' = <<>>
     ELSE Advance
  /\ UNCHANGED <<cfg, answers, outcome, back, doubts, status>>

\* Its pages done, the stage returns 1.
Leave ==
  /\ Running /\ inside /\ todo = <<>>
  /\ Advance
  /\ UNCHANGED <<cfg, answers, outcome, back, doubts, status>>

-----------------------------------------------------------------------------
(* The user.                                                               *)

Showing(kinds) ==
  Running /\ inside /\ todo # <<>> /\ Head(todo).kind \in kinds

License == {"eula", "option eula"}
Name == Head(todo).name

PageDone == todo' = Tail(todo) /\ back' = 0 /\ UNCHANGED <<i, inside>>
Doubt == doubts < Patience /\ doubts' = doubts + 1

\* The stage returns -1.
StepBack ==
  IF i = 1
  THEN status' = "bug" /\ UNCHANGED <<place, back>>
  ELSE /\ i' = i - 1 /\ inside' = FALSE /\ todo' = <<>>
       /\ back' = i
       /\ UNCHANGED status

\* A readme, a destination, or a license that asks for no consent.
ReadOn ==
  /\ Showing({"readme", "destination"} \cup License)
  /\ Name \notin cfg.consent
  /\ PageDone
  /\ UNCHANGED <<cfg, answers, outcome, doubts, status>>

Accept ==
  /\ Showing(License) /\ Name \in cfg.consent
  /\ accepted' = accepted \cup {Name}
  /\ PageDone
  /\ UNCHANGED <<cfg, sel, keys, outcome, doubts, status>>

\* Mutant: the first stage is like any other.
FatalToRefuseAny == Showing({"eula"})

\* Refusing a license of the package, or any on the first stage, is fatal.
FatalToRefuse == Showing({"eula"}) \/ i = 1

\* Mutant: a license that was refused is done.
RefusedAnyway ==
  /\ Showing(License) /\ Name \in cfg.consent
  /\ Doubt
  /\ accepted' = accepted \ {Name}
  /\ \/ FatalToRefuse /\ status' = "refused" /\ UNCHANGED <<place, back>>
     \/ ~FatalToRefuse /\ PageDone /\ UNCHANGED status
  /\ UNCHANGED <<cfg, sel, keys, outcome>>

Refuse ==
  /\ Showing(License) /\ Name \in cfg.consent
  /\ Doubt
  /\ accepted' = accepted \ {Name}
  /\ \/ FatalToRefuse /\ status' = "refused" /\ UNCHANGED <<place, back>>
     \/ ~FatalToRefuse /\ StepBack
  /\ UNCHANGED <<cfg, sel, keys, outcome>>

GiveKey ==
  /\ Showing({"key"})
  /\ keys' = keys \cup {Name}
  /\ PageDone
  /\ UNCHANGED <<cfg, sel, accepted, outcome, doubts, status>>

\* A key that verify() rejects, or a destination that checkdst() does, is asked
\* for again.
AskAgain ==
  /\ \/ Showing({"key"}) /\ Name \in cfg.verified
     \/ Showing({"destination"}) /\ cfg.checkDst
  /\ Doubt
  /\ back' = 0
  /\ UNCHANGED <<cfg, place, answers, outcome, status>>

Choose ==
  /\ Showing({"options"})
  /\ \/ UNCHANGED <<sel, doubts>>
     \/ sel' \in Selections(cfg, sel) \ {sel} /\ Doubt
  /\ PageDone
  /\ UNCHANGED <<cfg, accepted, keys, outcome, status>>

\* Back, on any page of a stage but the first; what the user changed on the
\* page of the options before is kept.
GoBack ==
  /\ Running /\ inside /\ todo # <<>> /\ i > 1
  /\ Doubt
  /\ \/ Showing({"options"}) /\ sel' \in Selections(cfg, sel)
     \/ ~Showing({"options"}) /\ UNCHANGED sel
  /\ StepBack
  /\ UNCHANGED <<cfg, accepted, keys, outcome>>

Cancel ==
  /\ Running /\ inside /\ todo # <<>>
  /\ status' = "cancelled"
  /\ UNCHANGED <<cfg, place, answers, outcome, back, doubts>>

-----------------------------------------------------------------------------
Init ==
  /\ cfg \in Configs
  /\ i = 1 /\ inside = FALSE /\ todo = <<>>
  /\ sel = cfg.checked
  /\ accepted = {} /\ keys = {} /\ files = {} /\ written = {}
  /\ back = 0 /\ doubts = 0 /\ status = "running"

Driver == ShowPages \/ ShowOptions \/ Precheck \/ Sources \/ InstallFiles \/ Leave

User == ReadOn \/ Accept \/ Refuse \/ GiveKey \/ AskAgain \/ Choose \/ GoBack \/ Cancel

Next == Driver \/ User

Spec == Init /\ [][Next]_vars

\* The driver runs, and the user answers every page in the end.
FairSpec == Spec /\ WF_vars(Next)

-----------------------------------------------------------------------------
(* What the wizard promises.                                               *)

Licenses(c) == ToSet(c.eulas) \cup UNION {ToSet(c.optEulas[o]) : o \in c.option}
Keys(c) == ToSet(c.keys) \cup UNION {ToSet(c.optKeys[o]) : o \in c.option}

TypeOK ==
  /\ cfg \in Configs
  /\ i \in 1..Len(Stages(cfg))
  /\ inside \in BOOLEAN
  /\ sel \subseteq cfg.option /\ files \subseteq cfg.option
  /\ accepted \subseteq Licenses(cfg) /\ keys \subseteq Keys(cfg)
  /\ written \subseteq keys
  /\ back \in 0..Len(Stages(cfg)) /\ doubts \in 0..Patience
  /\ status \in {"running", "installed", "cancelled", "refused", "stopped",
                 "error", "bug"}

Installing ==
  \/ Running /\ Stage.do = "install"
  \/ status = "installed"

\* No file is installed before the user has accepted every license of the
\* package and of the options that are installed, whatever he went back to and
\* changed: do_install() walks the options anew each time it comes to their
\* licenses, and the way to the files leads through them.
Licensed ==
  Installing /\ ~cfg.skipEulas =>
    cfg.consent \cap (ToSet(cfg.eulas) \cup UNION {ToSet(cfg.optEulas[o]) : o \in files})
      \subseteq accepted

\* Nor before he has entered the keys of the package and of those options, and
\* when all is installed they are on the disk.
KeysReady ==
  LET needed == ToSet(cfg.keys) \cup UNION {ToSet(cfg.optKeys[o]) : o \in files} IN
  /\ Installing => needed \subseteq keys
  /\ status = "installed" => needed \subseteq written

\* The loop never sees a step back from the first stage, which it calls a bug
\* ("stepped back over start of stages").
NeverStepsOverStart == status # "bug"

\* The stages are where they can be.
StagesInOrder == TypeOK /\ NeverStepsOverStart

\* What is installed respects the attributes: of the members of a group that the
\* user is offered one is installed if any is, a required option is installed
\* with what it is declared in, and a disabled one never is, in a tree that is
\* Straight.
ChoiceIsLegal ==
  Installing /\ ~cfg.skipOptions =>
    /\ \A g \in cfg.group : Cardinality(Members(cfg, g) \cap files) <= 1
    /\ \A o \in cfg.required \ cfg.disabled :
         /\ Around(cfg, o) \cap cfg.disabled = {}
         /\ Around(cfg, o) \cap cfg.option \subseteq files
         => o \in files
    /\ cfg.disabled \cap files = {}

\* Coming back to the page of the options the user finds them as he left them:
\* correcting the values a second time changes none, in a tree that is Straight.
KeepsChoices ==
  [][Running /\ ~inside /\ Stage.do = "options" /\ back # 0 => sel' = sel]_vars

\* Every installation ends, installed or not: no way through the stages, forward
\* and back, goes round forever unless the user does.
Ends == <>~Running
=============================================================================

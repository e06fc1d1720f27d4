---------------------------- MODULE ToolCatalog ----------------------------
(***************************************************************************)
(* The tools of the desktop CLI: what a tool profile declares to the model,*)
(* what the harness registers for it, and which tool answers a call        *)
(* (cli/src/tooling.rs, tools/src/timer.rs, the selections of              *)
(* tools/src/workspace.rs and the harness's registry.rs), through the      *)
(* launches of the program and the staging and applying of profiles        *)
(* (cli/src/main.rs, cli/src/app.rs).                                      *)
(*                                                                         *)
(* A profile is the set of the tools it enables.  What connects, applies   *)
(* and sends is the subject of CliHost.                                    *)
(***************************************************************************)
EXTENDS Naturals, FiniteSets

CONSTANTS
  Unset,           \* no profile, no session, no value
  Built,           \* the desktop tools whose Cargo features are enabled
  SavedProfiles,   \* the profiles a first launch may find in the config file
  TimerArgs,       \* the durations set_timer may be asked for
  MaxU64, MaxTimer,           \* 2^64 - 1 and the longest timer, in seconds
  DaySecs, HourSecs, MinSecs, \* the units of a duration
  MaxStarts, MaxEdits, MaxCalls \* bounds of the model: launches, staged changes, calls

DesktopTools == {"microphone", "speaker", "screen_share"}
FileTools == {"list_files", "read_file", "run_command"}

ASSUME CatalogAssumption ==
  /\ Built \subseteq DesktopTools
  /\ SavedProfiles \subseteq SUBSET ({"google_search", "timer"} \cup FileTools \cup Built)
  /\ Unset \notin Nat
  /\ {MaxU64, MaxTimer, DaySecs, HourSecs, MinSecs, MaxStarts, MaxEdits, MaxCalls} \subseteq Nat
  /\ MaxTimer <= MaxU64
  /\ TimerArgs \subseteq [days : 0..MaxU64, hours : 0..MaxU64, minutes : 0..MaxU64, seconds : 0..MaxU64]

VARIABLES
  program,      \* "ended" or "running"
  savedTools,   \* the tool profile in the config file, or Unset
  desiredTools, \* App.desired_tools
  activeTools,  \* App.active_tools, the profile of the harness controller
  setupTools,   \* the profile the next session will be set up with
  sessionTools, \* the profile the session was set up with, or Unset
  answer,       \* the last call: its function, how it was answered, the seconds of a timer
  starts, edits, calls

catalogVars == <<program, savedTools, desiredTools, activeTools, setupTools, sessionTools, answer, starts, edits, calls>>

-----------------------------------------------------------------------------
(* Tools and functions.                                                    *)

Tools == {"google_search", "timer"} \cup FileTools \cup Built

\* function_name and function_names.
FunctionNames ==
  [google_search |-> {},
   timer         |-> {"set_timer"},
   list_files    |-> {"list_files"},
   read_file     |-> {"read_file"},
   run_command   |-> {"run_command"},
   microphone    |-> {"desktop_get_state", "desktop_set_microphone"},
   speaker       |-> {"desktop_get_state", "desktop_set_speaker"},
   screen_share  |-> {"desktop_get_state", "desktop_list_screen_targets", "desktop_set_screen_share"}]

Functions == UNION {FunctionNames[t] : t \in Tools}

\* Default of the selections: a desktop tool is on when its feature is.
DefaultProfile == {"timer", "list_files", "read_file"} \cup Built

\* from_function_name, which finds the first of ToolId::ALL.
Rank == [microphone |-> 1, speaker |-> 2, screen_share |-> 3]

Names(f) == {t \in Tools : f \in FunctionNames[t]}

ToolOf(f) ==
  CHOOSE t \in Names(f) : t \in Built => \A other \in Names(f) : Rank[t] <= Rank[other]

-----------------------------------------------------------------------------
(* What a profile declares, registers and answers.                         *)

\* build_live_tools: desktop_get_state is declared once for all desktop tools.
Declared(p) ==
  (UNION {FunctionNames[t] \ {"desktop_get_state"} : t \in p})
  \cup {f \in {"desktop_get_state"} : p \cap Built # {}}

\* specifications: every tool lists the functions it has.
Specifications(p) == {s \in p \X Functions : s[2] \in FunctionNames[s[1]]}

Registered(p) == {s[2] : s \in Specifications(p)}

\* Mutant: the last tool that lists a function registers it.
BuildsAnyway(p) == TRUE

\* with_host_tools: a function that is listed twice fails the registry.
Builds(p) == \A s, other \in Specifications(p) : s[2] = other[2] => s = other

Answer(f, how, secs) == [function |-> f, how |-> how, secs |-> secs]

\* execute_routed_call and execute_call: the registry, then the tool named by
\* the function, which has to be enabled, then its arguments.
Route(p, f, accepted) ==
  IF f \notin Registered(p) THEN "unsupported"
  ELSE IF ToolOf(f) \notin p THEN "disabled"
  ELSE IF accepted THEN "ran" ELSE "rejected"

-----------------------------------------------------------------------------
(* The duration of a timer.                                                *)

\* Mutant: the product is cut off at 64 bits.
MulWrapping(value, unit) == (value * unit) % (MaxU64 + 1)

\* checked_component_to_secs.
CheckedMul(value, unit) == IF value * unit > MaxU64 THEN Unset ELSE value * unit

CheckedAdd(a, b) == IF a = Unset \/ b = Unset \/ a + b > MaxU64 THEN Unset ELSE a + b

Total(args) ==
  CheckedAdd(CheckedAdd(CheckedAdd(CheckedMul(args.days, DaySecs),
                                   CheckedMul(args.hours, HourSecs)),
                        CheckedMul(args.minutes, MinSecs)),
             args.seconds)

\* from_args: the seconds of a timer, or Unset when the request is refused.
TimerSecs(args) == IF Total(args) \in 1..MaxTimer THEN Total(args) ELSE Unset

-----------------------------------------------------------------------------
(* The program.                                                            *)

SavedOrDefault == IF savedTools = Unset THEN DefaultProfile ELSE savedTools

\* resolve writes the profile back; run builds the controller before anything else.
StartCli ==
  /\ program = "ended" /\ starts < MaxStarts /\ starts' = starts + 1
  /\ savedTools' = SavedOrDefault
  /\ program' = IF Builds(savedTools') THEN "running" ELSE "ended"
  /\ desiredTools' = savedTools' /\ activeTools' = savedTools' /\ setupTools' = savedTools'
  /\ sessionTools' = Unset /\ answer' = Unset
  /\ UNCHANGED <<edits, calls>>

EndCli ==
  /\ program = "running" /\ program' = "ended"
  /\ sessionTools' = Unset
  /\ UNCHANGED <<savedTools, desiredTools, activeTools, setupTools, answer, starts, edits, calls>>

\* set_tool_profile: the loop writes a staged profile as soon as it changes.
SavedAtOnce(p) == p

\* ToolProfile::set and toggle.
StageTool(t) ==
  /\ program = "running" /\ edits < MaxEdits /\ edits' = edits + 1
  /\ desiredTools' = IF t \in desiredTools THEN desiredTools \ {t} ELSE desiredTools \cup {t}
  /\ savedTools' = SavedAtOnce(desiredTools')
  /\ UNCHANGED <<program, activeTools, setupTools, sessionTools, answer, starts, calls>>

\* /tools apply and /system apply: a controller that cannot be built ends the
\* program; a runtime that cannot reconnect keeps the session and the new setup.
Apply ==
  /\ program = "running"
  /\ \/ /\ ~Builds(desiredTools)
        /\ program' = "ended" /\ sessionTools' = Unset
        /\ UNCHANGED <<activeTools, setupTools>>
     \/ /\ Builds(desiredTools)
        /\ setupTools' = desiredTools
        /\ \/ /\ activeTools' = desiredTools
              /\ sessionTools' = IF sessionTools = Unset THEN Unset ELSE desiredTools
           \/ sessionTools # Unset /\ UNCHANGED <<activeTools, sessionTools>>
        /\ UNCHANGED program
  /\ UNCHANGED <<savedTools, desiredTools, answer, starts, edits, calls>>

\* A session is opened with the setup of the runtime; dormancy closes it.
Wake ==
  /\ program = "running" /\ sessionTools = Unset
  /\ sessionTools' = setupTools
  /\ UNCHANGED <<program, savedTools, desiredTools, activeTools, setupTools, answer, starts, edits, calls>>

Sleep ==
  /\ program = "running" /\ sessionTools # Unset
  /\ sessionTools' = Unset
  /\ UNCHANGED <<program, savedTools, desiredTools, activeTools, setupTools, answer, starts, edits, calls>>

\* A call of the model, of any function it may know, with arguments the tool
\* accepts or not.
Call(f, accepted) ==
  /\ program = "running" /\ sessionTools # Unset /\ calls < MaxCalls /\ calls' = calls + 1
  /\ f # "set_timer"
  /\ answer' = Answer(f, Route(activeTools, f, accepted), Unset)
  /\ UNCHANGED <<program, savedTools, desiredTools, activeTools, setupTools, sessionTools, starts, edits>>

CallTimer(args) ==
  /\ program = "running" /\ sessionTools # Unset /\ calls < MaxCalls /\ calls' = calls + 1
  /\ LET secs == TimerSecs(args)
         how  == Route(activeTools, "set_timer", secs # Unset)
     IN  answer' = Answer("set_timer", how, IF how = "ran" THEN secs ELSE Unset)
  /\ UNCHANGED <<program, savedTools, desiredTools, activeTools, setupTools, sessionTools, starts, edits>>

CatalogInit ==
  /\ program = "ended"
  /\ savedTools \in SavedProfiles \cup {Unset}
  /\ desiredTools = {} /\ activeTools = {} /\ setupTools = {}
  /\ sessionTools = Unset /\ answer = Unset
  /\ starts = 0 /\ edits = 0 /\ calls = 0

CatalogNext ==
  \/ StartCli \/ EndCli \/ Apply \/ Wake \/ Sleep
  \/ \E t \in Tools : StageTool(t)
  \/ \E f \in Functions, accepted \in BOOLEAN : Call(f, accepted)
  \/ \E args \in TimerArgs : CallTimer(args)

CatalogSpec == CatalogInit /\ [][CatalogNext]_catalogVars
-----------------------------------------------------------------------------
(* Properties.                                                             *)

\* Profiles are of the tools that were built; a program that has ended has no session.
CatalogTypeOK ==
  /\ program \in {"ended", "running"} /\ (program = "ended" => sessionTools = Unset)
  /\ {desiredTools, activeTools, setupTools} \subseteq SUBSET Tools
  /\ {savedTools, sessionTools} \subseteq (SUBSET Tools) \cup {Unset}
  /\ \/ answer = Unset
     \/ answer \in [function : Functions, how : {"unsupported", "disabled", "rejected", "ran"},
                    secs : 1..MaxTimer \cup {Unset}]
  /\ starts \in 0..MaxStarts /\ edits \in 0..MaxEdits /\ calls \in 0..MaxCalls

\* A program that runs has a tool of its own for every function its controller
\* has registered, which leaves room for one desktop tool (with_host_tools).
OneOwner ==
  program = "running" =>
    /\ \A f \in Registered(activeTools) : Cardinality(Names(f) \cap activeTools) = 1
    /\ Cardinality(activeTools \cap Built) <= 1

\* What a session with the active profile was told of is what the controller has:
\* every function is registered and reaches the tool it belongs to, but for
\* desktop_get_state, which reaches the first desktop tool (from_function_name).
DeclaredIsRouted ==
  (program = "running" /\ sessionTools = activeTools) =>
    /\ Declared(sessionTools) = Registered(activeTools)
    /\ \A f \in Declared(sessionTools) \ {"desktop_get_state"} : Route(activeTools, f, TRUE) = "ran"

\* A call runs only with a tool the active profile enables, whatever the session
\* was told of: by an older profile, or by one that could not be applied.
OnlyEnabledRuns ==
  [][(answer' # answer /\ answer' # Unset /\ answer'.how = "ran")
       => \E t \in activeTools : answer'.function \in FunctionNames[t]]_catalogVars

\* A timer runs for the time asked for, at most the longest one, and every such
\* request is accepted: the sum is never cut off at 64 bits (from_args).
Exact(args) == args.days * DaySecs + args.hours * HourSecs + args.minutes * MinSecs + args.seconds

TimerExact ==
  [][(calls' # calls /\ answer'.function = "set_timer") => \A args \in TimerArgs : CallTimer(args) =>
       IF answer'.how = "ran" THEN answer'.secs = Exact(args) /\ Exact(args) \in 1..MaxTimer
       ELSE "timer" \in activeTools => Exact(args) \notin 1..MaxTimer]_catalogVars

\* What is staged is what the next launch starts with, applied or not (main.rs).
StagedIsSaved == program = "running" => savedTools = desiredTools

\* Not met: the program starts with the profile it has saved, or with the default.
ProfileStarts == [][starts' # starts => program' = "running"]_catalogVars

\* Not met: a function the session was told of runs when its arguments are right.
DeclaredRuns ==
  (program = "running" /\ sessionTools = activeTools) =>
    \A f \in Declared(sessionTools) : Route(activeTools, f, TRUE) = "ran"

\* What holds of the profiles, the registry and the session's tools in every state.
CatalogInv == CatalogTypeOK /\ OneOwner /\ DeclaredIsRouted /\ StagedIsSaved

\* A call does what its tool is for: only an enabled one, and a timer exactly.
CallsRight == OnlyEnabledRuns /\ TimerExact
=============================================================================

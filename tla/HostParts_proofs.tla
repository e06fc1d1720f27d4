-------------------------- MODULE HostParts_proofs --------------------------
(***************************************************************************)
(* Theorems of seven parts of the hosts that share no state: ToolCatalog,  *)
(* WorkspaceTools, VoicePlayback, SpeakerPlayback, AudioCapture,           *)
(* DesktopDevices and TranscribeHost.                                      *)
(*                                                                         *)
(* Theorems of ToolCatalog, for every set of built desktop tools, every    *)
(* saved profile, every units of a timer and any number of launches,       *)
(* changes and calls: what the registry accepts has one owner per function,*)
(* what a session was told of is routed, what is staged is saved, and a    *)
(* call runs an enabled tool, a timer for the exact time.                  *)
(*                                                                         *)
(* CatalogInd adds to CatalogInv what makes it inductive: the registry of  *)
(* a running program could be built (Buildable).  OneOwner and             *)
(* DeclaredIsRouted are then facts about any such profile.                 *)
(*                                                                         *)
(* Theorems of WorkspaceTools, for every size of buffers, chunks and pipes,*)
(* every file and every tree of directories, with links out of it and back *)
(* into it: the output of a command is accounted for, no command is left   *)
(* running, pages cover the file, and a listing that was not cut short is  *)
(* complete.                                                               *)
(*                                                                         *)
(* One invariant for each tool.  A reader that is done has read everything *)
(* and nobody is left to write (CommandInd); a directory that was reached  *)
(* is on the stack, or its entries are listed or being listed (ListInd).   *)
(*                                                                         *)
(* A theorem of VoicePlayback, for any number of chunks and tracks: model  *)
(* audio is heard in the order it was sent and after the last              *)
(* interruption, and a bridge that is shut down keeps none.                *)
(*                                                                         *)
(* PlaybackInd adds that the queue is in order and younger than all that   *)
(* was played (QueueInOrder), and that no track is kept while one is being *)
(* started (OneStarts): a start that is not wanted any more takes back the *)
(* generation, and a handle must not outlive it.                           *)
(*                                                                         *)
(* Theorems of SpeakerPlayback, for every rate, size of a piece or of a    *)
(* device's request, and any number of samples and streams: each sample is *)
(* played once, waits or was cleared, in order, and none is heard after it *)
(* was cleared.                                                            *)
(*                                                                         *)
(* SpeakerInd says more of the buffer than the properties do: it holds     *)
(* samples younger than the last clear and than all that was heard         *)
(* (BufferIsNext), and a piece being pushed has room (PushFits).           *)
(*                                                                         *)
(* A theorem of AudioCapture, for every rate, size of a buffer, a frame or *)
(* a chunk, and any number of samples and streams, two of them running at a *)
(* switch: chunks are whole, those of a stream stay in order, and account  *)
(* for all its samples.                                                    *)
(*                                                                         *)
(* CaptureInd says of each stream how far it has been offered: what waits  *)
(* is the run of samples just made (PendingIsNext), what its callback has  *)
(* still to offer are the chunks before it (OutboxIsNext), and what comes  *)
(* before those is heard or was dropped (OfferedIsKnown).                  *)
(*                                                                         *)
(* A theorem of DesktopDevices, for every set of environments and targets, *)
(* and any number of launches, commands, requests, captures and failures   *)
(* of a save: the profile seeds later runs and follows the devices, and at *)
(* most one frame of an earlier share is still to come.                    *)
(*                                                                         *)
(* DesktopInd adds that the transport noted is one a launch can resolve    *)
(* (StoreInv), how far the autostart has come (FollowInv), and what is     *)
(* left of a capture behind every frame in the channel (FramesInv).        *)
(*                                                                         *)
(* A theorem of TranscribeHost, for every capacity of the broadcast, every *)
(* set of settings and sources, and any number of fragments, commands and  *)
(* incidents: the transcript is complete and in order, and settings and    *)
(* source are those in use.                                                *)
(*                                                                         *)
(* TranscriptInd adds to TranscriptComplete only types; the proof treats a *)
(* step by what it does to the fragments held: one is sent, one is read,   *)
(* the line is ended, or what is unread is lost.                           *)
(***************************************************************************)
EXTENDS ToolCatalog, WorkspaceTools, VoicePlayback, SpeakerPlayback, AudioCapture, DesktopDevices, TranscribeHost,
        FiniteSetTheorems, SequenceTheorems, TLAPS

-----------------------------------------------------------------------------
(* Tools and functions.                                                    *)

\* The functions of each tool; Built is a set of desktop tools.
LEMMA ToolNames ==
  /\ FunctionNames["google_search"] = {}
  /\ FunctionNames["timer"] = {"set_timer"}
  /\ FunctionNames["list_files"] = {"list_files"}
  /\ FunctionNames["read_file"] = {"read_file"}
  /\ FunctionNames["run_command"] = {"run_command"}
  /\ FunctionNames["microphone"] = {"desktop_get_state", "desktop_set_microphone"}
  /\ FunctionNames["speaker"] = {"desktop_get_state", "desktop_set_speaker"}
  /\ FunctionNames["screen_share"] = {"desktop_get_state", "desktop_list_screen_targets", "desktop_set_screen_share"}
  BY DEF FunctionNames

LEMMA ToolCases ==
  /\ Tools \subseteq {"google_search", "timer", "list_files", "read_file", "run_command",
                      "microphone", "speaker", "screen_share"}
  /\ Built \subseteq Tools /\ "timer" \in Tools
  /\ \A t \in Tools : t \in Built <=> t \in DesktopTools
  BY CatalogAssumption DEF Tools, FileTools, DesktopTools

\* The desktop tools share one function, and no two tools share another.
LEMMA SharedFunction ==
  ASSUME NEW t \in Tools, NEW f \in FunctionNames[t], NEW other \in Tools, f \in FunctionNames[other]
  PROVE  other = t \/ (f = "desktop_get_state" /\ other \in Built /\ t \in Built)
<1>1. CASE f = "set_timer"
  <2>1. t = "timer" /\ other = "timer"
    BY <1>1, ToolCases, ToolNames
  <2>2. QED
    BY <2>1
<1>2. CASE f = "list_files"
  <2>1. t = "list_files" /\ other = "list_files"
    BY <1>2, ToolCases, ToolNames
  <2>2. QED
    BY <2>1
<1>3. CASE f = "read_file"
  <2>1. t = "read_file" /\ other = "read_file"
    BY <1>3, ToolCases, ToolNames
  <2>2. QED
    BY <2>1
<1>4. CASE f = "run_command"
  <2>1. t = "run_command" /\ other = "run_command"
    BY <1>4, ToolCases, ToolNames
  <2>2. QED
    BY <2>1
<1>5. CASE f = "desktop_set_microphone"
  <2>1. t = "microphone" /\ other = "microphone"
    BY <1>5, ToolCases, ToolNames
  <2>2. QED
    BY <2>1
<1>6. CASE f = "desktop_set_speaker"
  <2>1. t = "speaker" /\ other = "speaker"
    BY <1>6, ToolCases, ToolNames
  <2>2. QED
    BY <2>1
<1>7. CASE f \in {"desktop_list_screen_targets", "desktop_set_screen_share"}
  <2>1. t = "screen_share" /\ other = "screen_share"
    BY <1>7, ToolCases, ToolNames
  <2>2. QED
    BY <2>1
<1>8. CASE f = "desktop_get_state"
  <2>1. t \in DesktopTools /\ other \in DesktopTools
    BY <1>8, ToolCases, ToolNames DEF DesktopTools
  <2>2. QED
    BY <1>8, <2>1, ToolCases
<1>9. QED
  <2>1. f \in {"set_timer", "list_files", "read_file", "run_command", "desktop_get_state", "desktop_set_microphone",
              "desktop_set_speaker", "desktop_list_screen_targets", "desktop_set_screen_share"}
    BY ToolCases, ToolNames
  <2>2. QED
    BY <1>1, <1>2, <1>3, <1>4, <1>5, <1>6, <1>7, <1>8, <2>1

\* A function that is shared is one of desktop tools only.
LEMMA SharedIsDesktop ==
  \A t \in Tools : "desktop_get_state" \in FunctionNames[t] <=> t \in Built
  BY ToolCases, ToolNames, CatalogAssumption DEF DesktopTools

\* from_function_name: a function that is not shared names the tool that has it.
LEMMA ToolOfOwn ==
  ASSUME NEW t \in Tools, NEW f \in FunctionNames[t], f # "desktop_get_state"
  PROVE  ToolOf(f) = t
<1>1. Names(f) = {t}
  BY SharedFunction DEF Names
<1>2. ToolOf(f) \in {t}
  <2>1. \E u \in Names(f) : u \in Built => \A other \in Names(f) : Rank[u] <= Rank[other]
    <3>1. CASE t \in Built
      <4>1. t \in {"microphone", "speaker", "screen_share"}
        BY <3>1, CatalogAssumption DEF DesktopTools
      <4>2. Rank[t] \in Nat
        BY <4>1 DEF Rank
      <4>3. QED
        BY <4>2, <1>1
    <3>2. CASE t \notin Built
      BY <3>2, <1>1
    <3>3. QED
      BY <3>1, <3>2
  <2>2. ToolOf(f) \in Names(f)
    BY <2>1 DEF ToolOf
  <2>3. QED
    BY <2>2, <1>1
<1>3. QED
  BY <1>2

\* The tool a function of a registered profile leads to has that function.
LEMMA ToolOfHas ==
  ASSUME NEW f, Names(f) # {}
  PROVE  ToolOf(f) \in Tools /\ f \in FunctionNames[ToolOf(f)]
<1>1. \E u \in Names(f) : u \in Built => \A other \in Names(f) : Rank[u] <= Rank[other]
  <2>1. CASE Names(f) \subseteq Built
    <3>1. Names(f) \subseteq {"microphone", "speaker", "screen_share"}
      BY <2>1, CatalogAssumption DEF DesktopTools
    <3>2. Rank["microphone"] = 1 /\ Rank["speaker"] = 2 /\ Rank["screen_share"] = 3
      BY DEF Rank
    <3>3. QED
      BY <3>1, <3>2
  <2>2. CASE \E u \in Names(f) : u \notin Built
    BY <2>2
  <2>3. QED
    BY <2>1, <2>2
<1>2. ToolOf(f) \in Names(f)
  BY <1>1 DEF ToolOf
<1>3. QED
  BY <1>2 DEF Names

-----------------------------------------------------------------------------
(* The registry.                                                           *)

\* A profile registers the functions of its tools.
LEMMA RegisteredNames ==
  ASSUME NEW p \in SUBSET Tools
  PROVE  /\ \A t \in p : \A f \in FunctionNames[t] : <<t, f>> \in Specifications(p)
         /\ \A f : f \in Registered(p) <=> \E t \in p : f \in FunctionNames[t]
<1>1. \A t \in p : \A f \in FunctionNames[t] : <<t, f>> \in Specifications(p)
  BY DEF Specifications, Functions
<1>2. \A s \in Specifications(p) : s[1] \in p /\ s[2] \in FunctionNames[s[1]]
  BY DEF Specifications
<1>3. \A f : f \in Registered(p) <=> \E s \in Specifications(p) : f = s[2]
  BY DEF Registered
<1>4. ASSUME NEW t \in p, NEW f \in FunctionNames[t] PROVE f \in Registered(p)
  <2>1. <<t, f>>[2] = f
    OBVIOUS
  <2>2. QED
    BY <1>1, <1>3, <2>1
<1>5. QED
  BY <1>1, <1>2, <1>3, <1>4

\* In a profile that can be registered a function belongs to one tool.
LEMMA OneTool ==
  ASSUME NEW p \in SUBSET Tools, Builds(p), NEW t \in p, NEW other \in p,
         NEW f \in FunctionNames[t], f \in FunctionNames[other]
  PROVE  t = other
<1>1. <<t, f>> \in Specifications(p) /\ <<other, f>> \in Specifications(p)
  BY RegisteredNames
<1>2. <<t, f>>[2] = <<other, f>>[2]
  OBVIOUS
<1>3. <<t, f>> = <<other, f>>
  BY <1>1, <1>2 DEF Builds
<1>4. QED
  BY <1>3

LEMMA Owners ==
  ASSUME NEW p \in SUBSET Tools, Builds(p)
  PROVE  /\ \A f \in Registered(p) : Cardinality(Names(f) \cap p) = 1
         /\ Cardinality(p \cap Built) <= 1
<1>1. ASSUME NEW f \in Registered(p) PROVE Cardinality(Names(f) \cap p) = 1
  <2>1. PICK t \in p : f \in FunctionNames[t]
    BY RegisteredNames
  <2>2. Names(f) \cap p = {t}
    BY <2>1, OneTool DEF Names
  <2>3. QED
    BY <2>2, FS_Singleton
<1>2. Cardinality(p \cap Built) <= 1
  <2>1. CASE p \cap Built = {}
    BY <2>1, FS_EmptySet
  <2>2. CASE \E t \in p : t \in Built
    <3>1. PICK t \in p : t \in Built
      BY <2>2
    <3>2. \A other \in p \cap Built : other = t
      BY <3>1, SharedIsDesktop, OneTool
    <3>3. p \cap Built = {t}
      BY <3>1, <3>2
    <3>4. QED
      BY <3>3, FS_Singleton
  <2>3. QED
    BY <2>1, <2>2
<1>3. QED
  BY <1>1, <1>2

\* build_live_tools and the registry agree, and a function that is not shared
\* reaches its own tool.
LEMMA Routed ==
  ASSUME NEW p \in SUBSET Tools
  PROVE  /\ Declared(p) = Registered(p)
         /\ \A f \in Declared(p) \ {"desktop_get_state"} : Route(p, f, TRUE) = "ran"
<1>1. \A f : f \in Declared(p) <=> \E t \in p : f \in FunctionNames[t]
  <2> DEFINE Own    == UNION {FunctionNames[t] \ {"desktop_get_state"} : t \in p}
             Shared == {f \in {"desktop_get_state"} : p \cap Built # {}}
  <2>1. Declared(p) = Own \cup Shared
    BY Zenon DEF Declared
  <2>2. \A f : f \in Own <=> \E t \in p : f \in FunctionNames[t] \ {"desktop_get_state"}
    OBVIOUS
  <2>3. \A f : f \in Shared <=> f = "desktop_get_state" /\ p \cap Built # {}
    OBVIOUS
  <2> HIDE DEF Own, Shared
  <2>4. p \cap Built # {} <=> \E t \in p : "desktop_get_state" \in FunctionNames[t]
    BY SharedIsDesktop
  <2>5. QED
    BY <2>1, <2>2, <2>3, <2>4
<1>2. ASSUME NEW f \in Declared(p), f # "desktop_get_state" PROVE Route(p, f, TRUE) = "ran"
  <2>1. PICK t \in p : f \in FunctionNames[t]
    BY <1>1
  <2>2. ToolOf(f) = t
    BY <2>1, <1>2, ToolOfOwn
  <2>3. f \in Registered(p)
    BY <2>1, RegisteredNames
  <2>4. QED
    BY <2>1, <2>2, <2>3 DEF Route
<1>3. QED
  BY <1>1, <1>2, RegisteredNames

-----------------------------------------------------------------------------
(* The state.                                                              *)

\* The controller of a running program was built with its profile.
Buildable == program = "running" => Builds(activeTools)

CatalogInd == CatalogTypeOK /\ Buildable /\ StagedIsSaved

LEMMA CatalogGivesInv == CatalogInd => CatalogInv
<1> SUFFICES ASSUME CatalogInd PROVE CatalogInv
  OBVIOUS
<1>1. activeTools \in SUBSET Tools
  BY DEF CatalogInd, CatalogTypeOK
<1>2. OneOwner
  BY <1>1, Owners DEF CatalogInd, Buildable, OneOwner
<1>3. DeclaredIsRouted
  BY <1>1, Routed DEF DeclaredIsRouted
<1>4. QED
  BY <1>2, <1>3 DEF CatalogInd, CatalogInv

LEMMA DefaultTools == DefaultProfile \subseteq Tools
  BY DEF DefaultProfile, Tools, FileTools

LEMMA SavedTools == SavedProfiles \subseteq SUBSET Tools
  BY CatalogAssumption DEF Tools

LEMMA CatalogStarts == CatalogInit => CatalogInd
<1> SUFFICES ASSUME CatalogInit PROVE CatalogInd
  OBVIOUS
<1>1. CatalogTypeOK
  BY SavedTools, CatalogAssumption DEF CatalogInit, CatalogTypeOK
<1>2. QED
  BY <1>1 DEF CatalogInit, CatalogInd, Buildable, StagedIsSaved

\* How a call is answered, and for how long a timer then runs.
LEMMA Answers ==
  /\ \A f \in Functions, p \in SUBSET Tools, ok \in BOOLEAN :
       Route(p, f, ok) \in {"unsupported", "disabled", "rejected", "ran"}
  /\ \A args \in TimerArgs : TimerSecs(args) \in 1..MaxTimer \cup {Unset}
  /\ "set_timer" \in Functions
<1>1. "set_timer" \in Functions
  BY ToolCases, ToolNames DEF Functions
<1>2. QED
  BY <1>1 DEF Route, TimerSecs

LEMMA CatalogStep == CatalogInd /\ [CatalogNext]_catalogVars => CatalogInd'
<1> SUFFICES ASSUME CatalogInd, [CatalogNext]_catalogVars PROVE CatalogInd'
  OBVIOUS
<1> USE CatalogAssumption DEF CatalogInd, CatalogTypeOK, Buildable, StagedIsSaved
<1>1. CASE StartCli
  <2>1. SavedOrDefault \in SUBSET Tools
    BY DefaultTools DEF SavedOrDefault
  <2>2. QED
    BY <1>1, <2>1 DEF StartCli
<1>2. CASE EndCli
  BY <1>2 DEF EndCli
<1>3. CASE Apply
  BY <1>3 DEF Apply
<1>4. CASE Wake
  BY <1>4 DEF Wake
<1>5. CASE Sleep
  BY <1>5 DEF Sleep
<1>6. ASSUME NEW t \in Tools, StageTool(t) PROVE CatalogInd'
  BY <1>6 DEF StageTool, SavedAtOnce
<1>7. ASSUME NEW f \in Functions, NEW accepted \in BOOLEAN, Call(f, accepted) PROVE CatalogInd'
  <2>1. answer' \in [function : Functions, how : {"unsupported", "disabled", "rejected", "ran"},
                     secs : 1..MaxTimer \cup {Unset}]
    BY <1>7, Answers DEF Call, Answer
  <2>2. QED
    BY <1>7, <2>1 DEF Call
<1>8. ASSUME NEW args \in TimerArgs, CallTimer(args) PROVE CatalogInd'
  <2>1. (TimerSecs(args) # Unset) \in BOOLEAN /\ TimerSecs(args) \in 1..MaxTimer \cup {Unset}
    BY Answers
  <2>2. answer' \in [function : Functions, how : {"unsupported", "disabled", "rejected", "ran"},
                     secs : 1..MaxTimer \cup {Unset}]
    BY <1>8, <2>1, Answers DEF CallTimer, Answer
  <2>3. QED
    BY <1>8, <2>2 DEF CallTimer
<1>9. CASE UNCHANGED catalogVars
  BY <1>9 DEF catalogVars
<1>10. QED
  BY <1>1, <1>2, <1>3, <1>4, <1>5, <1>6, <1>7, <1>8, <1>9 DEF CatalogNext

\* Whatever is staged, applied and restarted, the registry of a running program has
\* one owner per function, the session hears of what is registered, and what is
\* staged is saved.
THEOREM CatalogIsSound == CatalogSpec => []CatalogInv
<1>1. CatalogSpec => []CatalogInd
  BY CatalogStarts, CatalogStep, PTL DEF CatalogSpec
<1>2. QED
  BY <1>1, CatalogGivesInv, PTL

-----------------------------------------------------------------------------
(* Calls.                                                                  *)

\* A call that runs leads to an enabled tool that has its function.
LEMMA RanIsEnabled ==
  ASSUME NEW p \in SUBSET Tools, NEW f, NEW ok, Route(p, f, ok) = "ran"
  PROVE  (\E t \in p : f \in FunctionNames[t]) /\ ok
<1>1. f \in Registered(p) /\ ToolOf(f) \in p /\ ok
  BY DEF Route
<1>2. Names(f) # {}
  BY <1>1, RegisteredNames DEF Names
<1>3. QED
  BY <1>1, <1>2, ToolOfHas

\* Whatever the session was told of, a call runs only with a tool of the profile.
THEOREM CallsRunEnabledTools == CatalogSpec => OnlyEnabledRuns
<1>1. CatalogInd /\ [CatalogNext]_catalogVars =>
        ((answer' # answer /\ answer' # Unset /\ answer'.how = "ran")
          => \E t \in activeTools : answer'.function \in FunctionNames[t])
  <2> SUFFICES ASSUME CatalogInd, CatalogNext, answer' # answer, answer' # Unset, answer'.how = "ran"
               PROVE  \E t \in activeTools : answer'.function \in FunctionNames[t]
    BY DEF catalogVars
  <2>1. activeTools \in SUBSET Tools
    BY DEF CatalogInd, CatalogTypeOK
  <2>2. ASSUME NEW f \in Functions, NEW accepted \in BOOLEAN, Call(f, accepted)
        PROVE  \E t \in activeTools : answer'.function \in FunctionNames[t]
    <3>1. answer'.function = f /\ Route(activeTools, f, accepted) = "ran"
      BY <2>2 DEF Call, Answer
    <3>2. QED
      BY <3>1, <2>1, RanIsEnabled
  <2>3. ASSUME NEW args \in TimerArgs, CallTimer(args)
        PROVE  \E t \in activeTools : answer'.function \in FunctionNames[t]
    <3>1. answer'.function = "set_timer" /\ Route(activeTools, "set_timer", TimerSecs(args) # Unset) = "ran"
      BY <2>3 DEF CallTimer, Answer
    <3>2. QED
      BY <3>1, <2>1, RanIsEnabled
  <2>4. QED
    BY <2>2, <2>3 DEF CatalogNext, StartCli, EndCli, Apply, Wake, Sleep, StageTool
<1>2. CatalogSpec => []CatalogInd
  BY CatalogStarts, CatalogStep, PTL DEF CatalogSpec
<1>3. QED
  BY <1>1, <1>2, PTL DEF CatalogSpec, OnlyEnabledRuns

-----------------------------------------------------------------------------
(* The duration of a timer.                                                *)

\* A natural number as 64 bits hold it, or Unset.
Held(a) == IF a > MaxU64 THEN Unset ELSE a

LEMMA HeldSum ==
  ASSUME NEW a \in Nat, NEW b \in Nat
  PROVE  CheckedAdd(Held(a), Held(b)) = Held(a + b)
  BY CatalogAssumption DEF CheckedAdd, Held

LEMMA ProductIsNat ==
  ASSUME NEW a \in Nat, NEW b \in Nat
  PROVE  a * b \in Nat
  OBVIOUS

\* from_args: the total is the exact one, or refused as too large.
LEMMA TotalIsExact ==
  ASSUME NEW args \in TimerArgs
  PROVE  Exact(args) \in Nat /\ Total(args) = Held(Exact(args))
<1> DEFINE days == args.days * DaySecs
           hours == args.hours * HourSecs
           minutes == args.minutes * MinSecs
<1>1. {args.days, args.hours, args.minutes, args.seconds} \subseteq 0..MaxU64
  BY CatalogAssumption
<1>2. {DaySecs, HourSecs, MinSecs, MaxU64} \subseteq Nat
  BY CatalogAssumption
<1>3. days \in Nat /\ hours \in Nat /\ minutes \in Nat /\ args.seconds \in Nat
  BY <1>1, <1>2, ProductIsNat
<1>4. /\ CheckedMul(args.days, DaySecs) = Held(days)
      /\ CheckedMul(args.hours, HourSecs) = Held(hours)
      /\ CheckedMul(args.minutes, MinSecs) = Held(minutes)
      /\ args.seconds = Held(args.seconds)
  BY <1>1, <1>2 DEF CheckedMul, Held
<1>5. Total(args) = CheckedAdd(CheckedAdd(CheckedAdd(Held(days), Held(hours)), Held(minutes)), Held(args.seconds))
  BY <1>4 DEF Total
<1>6. Exact(args) = days + hours + minutes + args.seconds
  BY DEF Exact
<1> HIDE DEF days, hours, minutes
<1>7. days + hours \in Nat /\ days + hours + minutes \in Nat /\ Exact(args) \in Nat
  BY <1>3, <1>6
<1>8. CheckedAdd(Held(days), Held(hours)) = Held(days + hours)
  BY <1>3, HeldSum
<1>9. CheckedAdd(Held(days + hours), Held(minutes)) = Held(days + hours + minutes)
  BY <1>3, <1>7, HeldSum
<1>10. CheckedAdd(Held(days + hours + minutes), Held(args.seconds)) = Held(Exact(args))
  BY <1>3, <1>6, <1>7, HeldSum
<1>11. QED
  BY <1>5, <1>7, <1>8, <1>9, <1>10

LEMMA SecsAreExact ==
  ASSUME NEW args \in TimerArgs
  PROVE  /\ TimerSecs(args) # Unset => TimerSecs(args) = Exact(args) /\ Exact(args) \in 1..MaxTimer
         /\ TimerSecs(args) = Unset => Exact(args) \notin 1..MaxTimer
<1>1. Exact(args) \in Nat /\ Total(args) = Held(Exact(args))
  BY TotalIsExact
<1>2. MaxTimer \in Nat /\ MaxU64 \in Nat /\ MaxTimer <= MaxU64 /\ Unset \notin Nat
  BY CatalogAssumption
<1>3. QED
  BY <1>1, <1>2 DEF TimerSecs, Held

\* set_timer is routed to the timer, when the profile has it.
LEMMA TimerRoute ==
  ASSUME NEW p \in SUBSET Tools, "timer" \in p, NEW ok \in BOOLEAN
  PROVE  Route(p, "set_timer", ok) = IF ok THEN "ran" ELSE "rejected"
<1>1. "timer" \in Tools /\ "set_timer" \in FunctionNames["timer"]
  BY ToolCases, ToolNames
<1>2. ToolOf("set_timer") = "timer"
  BY <1>1, ToolOfOwn
<1>3. "set_timer" \in Registered(p)
  BY <1>1, RegisteredNames
<1>4. QED
  BY <1>2, <1>3 DEF Route

\* A timer runs for the sum of its parts exactly, or is refused as too long.
THEOREM TimersAreExact == CatalogSpec => TimerExact
<1>1. CatalogInd /\ [CatalogNext]_catalogVars =>
        ((calls' # calls /\ answer'.function = "set_timer") =>
          \A args \in TimerArgs : CallTimer(args) =>
            IF answer'.how = "ran" THEN answer'.secs = Exact(args) /\ Exact(args) \in 1..MaxTimer
            ELSE "timer" \in activeTools => Exact(args) \notin 1..MaxTimer)
  <2> SUFFICES ASSUME CatalogInd, NEW args \in TimerArgs, CallTimer(args)
               PROVE  IF answer'.how = "ran" THEN answer'.secs = Exact(args) /\ Exact(args) \in 1..MaxTimer
                      ELSE "timer" \in activeTools => Exact(args) \notin 1..MaxTimer
    OBVIOUS
  <2> DEFINE secs == TimerSecs(args)
             how  == Route(activeTools, "set_timer", secs # Unset)
  <2>1. answer'.how = how /\ answer'.secs = IF how = "ran" THEN secs ELSE Unset
    BY DEF CallTimer, Answer
  <2>2. activeTools \in SUBSET Tools /\ (secs # Unset) \in BOOLEAN
    BY DEF CatalogInd, CatalogTypeOK
  <2>3. CASE how = "ran"
    <3>1. secs # Unset
      BY <2>2, <2>3, RanIsEnabled
    <3>2. QED
      BY <2>1, <2>3, <3>1, SecsAreExact
  <2>4. CASE how # "ran"
    <3>1. ASSUME "timer" \in activeTools PROVE Exact(args) \notin 1..MaxTimer
      <4>1. secs = Unset
        BY <2>2, <2>4, <3>1, TimerRoute
      <4>2. QED
        BY <4>1, SecsAreExact
    <3>2. QED
      BY <2>1, <2>4, <3>1
  <2>5. QED
    BY <2>3, <2>4
<1>2. CatalogSpec => []CatalogInd
  BY CatalogStarts, CatalogStep, PTL DEF CatalogSpec
<1>3. QED
  BY <1>1, <1>2, PTL DEF CatalogSpec, TimerExact

\* A call runs only with an enabled tool, and a timer for the exact time, whatever
\* the profile, the units and the numbers given.
THEOREM EveryCallIsRight == CatalogSpec => CallsRight
  BY CallsRunEnabledTools, TimersAreExact, PTL DEF CallsRight

-----------------------------------------------------------------------------
(* run_command.                                                            *)

CommandTypes ==
  /\ stage \in {"idle", "waiting", "answered", "failed", "dropped"} \cup Streams
  /\ child \in {"none", "running", "succeeded", "broken"}
  /\ {heir, expired, timedOut} \subseteq BOOLEAN
  /\ written \in [Streams -> 0..MaxWritten] /\ taken \in [Streams -> 0..MaxWritten]
  /\ kept \in [Streams -> 0..MaxOutput] /\ truncated \in [Streams -> BOOLEAN]
  /\ reader \in [Streams -> {"none", "reading", "done"}]

\* What has been read is kept up to the limit.
ReadIsKept ==
  \A s \in Streams :
    /\ taken[s] <= written[s]
    /\ kept[s] = Least(taken[s], MaxOutput) /\ truncated[s] = (taken[s] > MaxOutput)

\* A reader that is done has read all there will be, and none is there before the call.
DoneIsAll ==
  \A s \in Streams :
    /\ reader[s] = "done" => taken[s] = written[s] /\ child # "running" /\ ~heir
    /\ reader[s] # "none" => stage # "idle"

\* Where the call is, and what it has waited for.
CallStages ==
  /\ stage \in {"idle", "failed"} => child = "none"
  /\ stage \in Streams \cup {"dropped"} => child # "running"
  /\ stage \in {"stderr", "answered"} => reader["stdout"] = "done"
  /\ stage = "answered" => reader["stderr"] = "done"

CommandInd == CommandTypes /\ ReadIsKept /\ DoneIsAll /\ CallStages

LEMMA Constants == {MaxOutput, Chunk, MaxWritten, FileLines} \subseteq Nat
  BY WorkspaceAssumption

LEMMA CommandStarts == WorkspaceInit => CommandInd
<1> SUFFICES ASSUME WorkspaceInit PROVE CommandInd
  OBVIOUS
<1>1. MaxOutput \in Nat /\ MaxOutput > 0 /\ 0 \in 0..MaxOutput /\ 0 \in 0..MaxWritten
  BY WorkspaceAssumption
<1>2. CommandTypes
  BY <1>1 DEF WorkspaceInit, CommandTypes
<1>3. \A s \in Streams : written[s] = 0 /\ taken[s] = 0 /\ kept[s] = 0 /\ truncated[s] = FALSE /\ reader[s] = "none"
  BY DEF WorkspaceInit
<1>4. ReadIsKept
  <2>1. Least(0, MaxOutput) = 0 /\ (0 > MaxOutput) = FALSE /\ 0 <= 0
    BY <1>1 DEF Least
  <2>2. QED
    BY <1>3, <2>1 DEF ReadIsKept
<1>5. DoneIsAll /\ CallStages
  BY <1>3 DEF WorkspaceInit, DoneIsAll, CallStages, Streams
<1>6. QED
  BY <1>2, <1>4, <1>5 DEF CommandInd

LEMMA ReadSomeStep ==
  ASSUME CommandInd, NEW s \in Streams, NEW read \in 1..Chunk, ReadSome(s, read)
  PROVE  CommandInd'
<1> USE DEF CommandInd
<1>1. read \in Nat /\ taken[s] \in Nat /\ written[s] \in 0..MaxWritten /\ taken[s] + read <= written[s]
      /\ MaxOutput \in Nat /\ MaxWritten \in Nat /\ reader[s] = "reading"
  BY Constants DEF CommandTypes, ReadSome
<1>2. /\ taken' = [taken EXCEPT ![s] = taken[s] + read]
      /\ kept' = [kept EXCEPT ![s] = kept[s] + Fits(s, read)]
      /\ truncated' = [truncated EXCEPT ![s] = truncated[s] \/ CutOff(s, read)]
      /\ UNCHANGED <<stage, child, heir, written, reader, expired, timedOut>>
  BY DEF ReadSome
<1>3. kept[s] = Least(taken[s], MaxOutput) /\ truncated[s] = (taken[s] > MaxOutput)
  BY DEF ReadIsKept
<1>4. /\ kept[s] + Fits(s, read) = Least(taken[s] + read, MaxOutput)
      /\ kept[s] + Fits(s, read) \in 0..MaxOutput
      /\ (truncated[s] \/ CutOff(s, read)) = (taken[s] + read > MaxOutput)
  <2>1. CASE taken[s] < MaxOutput
    <3>1. kept[s] = taken[s] /\ ~truncated[s]
      <4>1. ~(taken[s] > MaxOutput)
        BY <1>1, <2>1
      <4>2. QED
        BY <1>3, <2>1, <4>1 DEF Least
    <3>2. MaxOutput - kept[s] \in Nat /\ kept[s] \in Nat
      BY <1>1, <2>1, <3>1
    <3>3. CutOff(s, read) <=> taken[s] + read > MaxOutput
      BY <1>1, <3>1, <3>2 DEF CutOff
    <3>4. kept[s] + Fits(s, read) = Least(taken[s] + read, MaxOutput) /\ kept[s] + Fits(s, read) \in 0..MaxOutput
      <4>1. CASE read < MaxOutput - kept[s]
        BY <1>1, <3>1, <3>2, <4>1 DEF Fits, Least
      <4>2. CASE ~(read < MaxOutput - kept[s])
        BY <1>1, <3>1, <3>2, <4>2 DEF Fits, Least
      <4>3. QED
        BY <4>1, <4>2
    <3>5. (truncated[s] \/ CutOff(s, read)) = (taken[s] + read > MaxOutput)
      BY <3>1, <3>3
    <3>6. QED
      BY <3>4, <3>5
  <2>2. CASE ~(taken[s] < MaxOutput)
    <3>1. kept[s] = MaxOutput /\ Fits(s, read) = 0 /\ CutOff(s, read) /\ taken[s] + read > MaxOutput
      BY <1>1, <1>3, <2>2 DEF Fits, CutOff, Least
    <3>2. QED
      BY <1>1, <3>1 DEF Least
  <2>3. QED
    BY <2>1, <2>2
<1>5. CommandTypes'
  BY <1>1, <1>2, <1>4 DEF CommandTypes
<1>6. ReadIsKept'
  <2>1. \A other \in Streams \ {s} : /\ taken'[other] = taken[other] /\ kept'[other] = kept[other]
                                     /\ truncated'[other] = truncated[other] /\ written'[other] = written[other]
    BY <1>2 DEF CommandTypes
  <2>2. /\ taken'[s] = taken[s] + read /\ kept'[s] = Least(taken[s] + read, MaxOutput)
        /\ truncated'[s] = (taken[s] + read > MaxOutput) /\ written'[s] = written[s]
    BY <1>2, <1>4 DEF CommandTypes
  <2>3. QED
    BY <1>1, <2>1, <2>2 DEF ReadIsKept
<1>7. DoneIsAll' /\ CallStages'
  BY <1>1, <1>2 DEF DoneIsAll, CallStages, CommandTypes
<1>8. QED
  BY <1>5, <1>6, <1>7

LEMMA CommandStep == CommandInd /\ (CommandNext \/ UNCHANGED commandVars) => CommandInd'
<1> SUFFICES ASSUME CommandInd, CommandNext \/ UNCHANGED commandVars PROVE CommandInd'
  OBVIOUS
<1> USE Constants DEF CommandInd, CommandTypes, ReadIsKept, DoneIsAll, CallStages, Streams
<1>1. CASE RunCommand
  BY <1>1 DEF RunCommand
<1>2. CASE Fork
  BY <1>2 DEF Fork
<1>3. CASE Exits
  BY <1>3 DEF Exits
<1>4. CASE HeirExits
  BY <1>4 DEF HeirExits
<1>5. CASE Expire
  BY <1>5 DEF Expire
<1>6. CASE Waited
  BY <1>6 DEF Waited
<1>7. CASE TimesOut
  BY <1>7 DEF TimesOut, KilledAtLimit, Killed
<1>8. CASE JoinReader
  BY <1>8 DEF JoinReader
<1>9. CASE Drop
  BY <1>9 DEF Drop, KilledOnDrop, Killed
<1>10. ASSUME NEW s \in Streams, Write(s) PROVE CommandInd'
  BY <1>10 DEF Write
<1>11. ASSUME NEW s \in Streams, ReadEnd(s) PROVE CommandInd'
  BY <1>11 DEF ReadEnd
<1>12. ASSUME NEW s \in Streams, NEW read \in 1..Chunk, ReadSome(s, read) PROVE CommandInd'
  BY <1>12, ReadSomeStep
<1>13. CASE UNCHANGED commandVars
  BY <1>13 DEF commandVars
<1>14. QED
  BY <1>1, <1>2, <1>3, <1>4, <1>5, <1>6, <1>7, <1>8, <1>9, <1>10, <1>11, <1>12, <1>13 DEF CommandNext

-----------------------------------------------------------------------------
(* read_file.                                                              *)

PageInd ==
  /\ first \in 0..(FileLines + 1) /\ (first # 0 => first - 1 <= FileLines)
  /\ pages \in Seq(Nat) /\ PagesCover

LEMMA PageStarts == WorkspaceInit => PageInd
<1> SUFFICES ASSUME WorkspaceInit PROVE PageInd
  OBVIOUS
<1>1. first = 1 /\ pages = <<>> /\ Len(pages) = 0 /\ pages \in Seq(Nat)
  BY DEF WorkspaceInit
<1>2. QED
  BY <1>1, Constants DEF PageInd, PagesCover

LEMMA PageStep == PageInd /\ (ReadNext \/ UNCHANGED pageVars) => PageInd'
<1> SUFFICES ASSUME PageInd, ReadNext \/ UNCHANGED pageVars PROVE PageInd'
  OBVIOUS
<1>1. CASE UNCHANGED pageVars
  BY <1>1 DEF pageVars, PageInd, PagesCover
<1>2. ASSUME NEW count \in PageLines, ReadPage(count) PROVE PageInd'
  <2> DEFINE n == EndIndex(first, count) - StartIndex(first)
             page == [i \in 1..n |-> StartIndex(first) + i]
  <2>1. count \in Nat \ {0} /\ FileLines \in Nat /\ first \in Nat \ {0} /\ first - 1 <= FileLines
        /\ Len(pages) = first - 1 /\ pages \in Seq(Nat)
    BY <1>2, WorkspaceAssumption DEF ReadPage, PageInd, PagesCover
  <2>2. n \in Nat /\ EndIndex(first, count) \in 0..FileLines /\ EndIndex(first, count) = Len(pages) + n
    BY <2>1 DEF EndIndex, StartIndex, Least
  <2>3. pages' = pages \o page /\ first' = IF EndIndex(first, count) < FileLines THEN EndIndex(first, count) + 1 ELSE 0
    BY <1>2 DEF ReadPage
  <2>4. page \in Seq(Nat) /\ Len(page) = n /\ \A i \in 1..n : page[i] = Len(pages) + i
    BY <2>1, <2>2 DEF StartIndex
  <2> HIDE DEF n, page
  <2>5. pages' \in Seq(Nat) /\ Len(pages') = Len(pages) + n
        /\ \A i \in 1..(Len(pages) + n) : pages'[i] = IF i <= Len(pages) THEN pages[i] ELSE page[i - Len(pages)]
    BY <2>1, <2>3, <2>4, ConcatProperties
  <2>6. \A i \in 1..Len(pages') : pages'[i] = i
    <3>1. TAKE i \in 1..Len(pages')
    <3>2. CASE i \in 1..Len(pages)
      <4>1. pages[i] = i /\ i <= Len(pages) /\ i \in 1..(Len(pages) + n)
        BY <2>1, <2>2, <3>2 DEF PageInd, PagesCover
      <4>2. QED
        BY <2>5, <4>1
    <3>3. CASE i \notin 1..Len(pages)
      <4>1. i - Len(pages) \in 1..n /\ pages'[i] = page[i - Len(pages)]
        BY <2>1, <2>2, <2>5, <3>3
      <4>2. QED
        BY <2>1, <2>4, <4>1
    <3>4. QED
      BY <3>2, <3>3
  <2>7. QED
    BY <2>1, <2>2, <2>3, <2>5, <2>6, SMTT(30) DEF PageInd, PagesCover
<1>3. QED
  BY <1>1, <1>2 DEF ReadNext

-----------------------------------------------------------------------------
(* list_files.                                                             *)

\* The directories the walk has come upon.
Known == {Root} \cup (Dirs \cap listed)

ListInd ==
  /\ stack \in Seq(Dirs) /\ rest \subseteq Entries /\ listed \subseteq Entries
  /\ \A i \in 1..Len(stack) : stack[i] \in Known
  /\ \A e \in rest \cup listed : \E d \in Known : e \in Children[d]
  /\ listed \cap Outside = {}
  /\ \A d \in Known : (\E i \in 1..Len(stack) : stack[i] = d) \/ Children[d] \ Outside \subseteq listed \cup rest

LEMMA ChildrenAreEntries == Root \in Dirs /\ \A d \in Dirs : Children[d] \subseteq Entries
  BY WorkspaceAssumption DEF Entries

LEMMA ListStarts == WorkspaceInit => ListInd
<1> SUFFICES ASSUME WorkspaceInit PROVE ListInd
  OBVIOUS
<1>1. stack = <<Root>> /\ rest = {} /\ listed = {} /\ Known = {Root}
  BY DEF WorkspaceInit, Known
<1>2. stack \in Seq(Dirs) /\ Len(stack) = 1 /\ stack[1] = Root
  BY <1>1, ChildrenAreEntries
<1>3. QED
  BY <1>1, <1>2 DEF ListInd

\* The last directory of the stack, and the others.
LEMMA Popped ==
  ASSUME NEW S, NEW s \in Seq(S), s # <<>>
  PROVE  /\ Len(s) \in Nat \ {0} /\ s[Len(s)] \in S
         /\ SubSeq(s, 1, Len(s) - 1) \in Seq(S) /\ Len(SubSeq(s, 1, Len(s) - 1)) = Len(s) - 1
         /\ \A i \in 1..(Len(s) - 1) : SubSeq(s, 1, Len(s) - 1)[i] = s[i]
<1>1. Len(s) \in Nat \ {0}
  BY EmptySeq
<1>2. s[Len(s)] \in S /\ \A i \in 1..(Len(s) - 1) : s[i] \in S
  BY <1>1, ElementOfSeq
<1> DEFINE n == Len(s) - 1
           front == SubSeq(s, 1, n)
<1>3. n \in Nat /\ 1 \in Int /\ n \in Int
  BY <1>1
<1>4. front \in Seq(S) /\ Len(front) = (IF 1 <= n THEN n - 1 + 1 ELSE 0)
      /\ \A i \in 1..(n - 1 + 1) : front[i] = s[1 + i - 1]
  <2>1. \A i \in 1..n : s[i] \in S
    BY <1>2
  <2> HIDE DEF n
  <2>2. QED
    BY <1>3, <2>1, SubSeqProperties
<1>5. Len(front) = n /\ \A i \in 1..n : front[i] = s[i]
  <2> HIDE DEF front, n
  <2>1. n - 1 + 1 = n /\ \A i \in 1..n : 1 + i - 1 = i
    BY <1>3
  <2>2. QED
    BY <1>3, <1>4, <2>1
<1>6. QED
  BY <1>1, <1>2, <1>4, <1>5

LEMMA ListDirStep == ListInd /\ ListDir => ListInd'
<1> SUFFICES ASSUME ListInd, ListDir PROVE ListInd'
  OBVIOUS
<1> DEFINE top == stack[Len(stack)]
<1>1. stack \in Seq(Dirs) /\ stack # <<>> /\ rest = {} /\ rest' = Children[top]
      /\ stack' = SubSeq(stack, 1, Len(stack) - 1) /\ listed' = listed
  BY DEF ListInd, ListDir
<1>2. Known' = Known
  BY <1>1 DEF Known
<1>3. /\ Len(stack) \in Nat \ {0} /\ top \in Dirs /\ stack' \in Seq(Dirs) /\ Len(stack') = Len(stack) - 1
      /\ \A i \in 1..(Len(stack) - 1) : stack'[i] = stack[i]
  BY <1>1, Popped
<1>4. top \in Known /\ Len(stack) \in 1..Len(stack)
  BY <1>3 DEF ListInd
<1> HIDE DEF top
<1>5. rest' \subseteq Entries
  BY <1>1, <1>3, ChildrenAreEntries
<1>6. \A i \in 1..Len(stack') : stack'[i] \in Known'
  BY <1>2, <1>3 DEF ListInd
<1>7. \A e \in rest' \cup listed' : \E d \in Known' : e \in Children[d]
  BY <1>1, <1>2, <1>4 DEF ListInd
<1>8. ASSUME NEW d \in Known', \A i \in 1..Len(stack') : stack'[i] # d
      PROVE  Children[d] \ Outside \subseteq listed' \cup rest'
  <2>1. CASE d = top
    BY <1>1, <2>1
  <2>2. CASE d # top
    <3>1. \A i \in 1..Len(stack) : i = Len(stack) \/ i \in 1..(Len(stack) - 1)
      BY <1>3
    <3>2. \A i \in 1..Len(stack) : stack[i] # d
      BY <1>3, <1>8, <2>2, <3>1 DEF top
    <3>3. QED
      BY <1>1, <1>2, <3>2 DEF ListInd
  <2>3. QED
    BY <2>1, <2>2
<1>9. QED
  BY <1>1, <1>3, <1>5, <1>6, <1>7, <1>8 DEF ListInd

LEMMA ListEntryStep ==
  ASSUME ListInd, NEW e \in rest, ListEntry(e)
  PROVE  ListInd'
<1>1. /\ rest' = rest \ {e}
      /\ listed' = IF e \in Outside THEN listed ELSE listed \cup {e}
      /\ stack' = IF e \in Dirs \ Outside THEN Append(stack, e) ELSE stack
  BY DEF ListEntry, Pushed
<1>2. stack \in Seq(Dirs) /\ rest \subseteq Entries /\ listed \subseteq Entries /\ e \in Entries
  BY DEF ListInd
<1>3. PICK parent \in Known : e \in Children[parent]
  BY DEF ListInd
<1>4. CASE e \in Dirs \ Outside
  <2>1. stack' = Append(stack, e) /\ listed' = listed \cup {e}
    BY <1>1, <1>4
  <2>2. /\ stack' \in Seq(Dirs) /\ Len(stack') = Len(stack) + 1 /\ Len(stack) \in Nat
        /\ stack'[Len(stack) + 1] = e /\ \A i \in 1..Len(stack) : stack'[i] = stack[i]
    BY <1>2, <1>4, <2>1
  <2>3. Known' = Known \cup {e}
    BY <1>4, <2>1 DEF Known
  <2>4. \A i \in 1..Len(stack') : stack'[i] \in Known'
    <3>1. \A i \in 1..Len(stack') : i \in 1..Len(stack) \/ i = Len(stack) + 1
      BY <2>2
    <3>2. QED
      BY <2>2, <2>3, <3>1 DEF ListInd
  <2>5. \A x \in rest' \cup listed' : \E d \in Known' : x \in Children[d]
    BY <1>1, <1>3, <2>1, <2>3 DEF ListInd
  <2>6. ASSUME NEW d \in Known', \A i \in 1..Len(stack') : stack'[i] # d
        PROVE  Children[d] \ Outside \subseteq listed' \cup rest'
    <3>1. Len(stack) + 1 \in 1..Len(stack') /\ \A i \in 1..Len(stack) : i \in 1..Len(stack')
      BY <2>2
    <3>2. d # e /\ d \in Known /\ \A i \in 1..Len(stack) : stack[i] # d
      BY <2>2, <2>3, <2>6, <3>1
    <3>3. Children[d] \ Outside \subseteq listed \cup rest
      BY <3>2 DEF ListInd
    <3>4. QED
      BY <1>1, <2>1, <3>3
  <2>7. QED
    BY <1>1, <1>2, <1>4, <2>1, <2>2, <2>4, <2>5, <2>6 DEF ListInd
<1>5. CASE e \notin Dirs \ Outside
  <2>1. stack' = stack /\ Known' = Known
    BY <1>1, <1>5 DEF Known
  <2>2. \A x \in rest' \cup listed' : \E d \in Known' : x \in Children[d]
    BY <1>1, <1>3, <2>1 DEF ListInd
  <2>3. \A d \in Known : Children[d] \ Outside \subseteq listed \cup rest
                           => Children[d] \ Outside \subseteq listed' \cup rest'
    BY <1>1
  <2>4. \A d \in Known' : (\E i \in 1..Len(stack') : stack'[i] = d)
                            \/ Children[d] \ Outside \subseteq listed' \cup rest'
    BY <2>1, <2>3 DEF ListInd
  <2>5. QED
    BY <1>1, <1>2, <2>1, <2>2, <2>4 DEF ListInd
<1>6. QED
  BY <1>4, <1>5

LEMMA ListStep == ListInd /\ (ListNext \/ UNCHANGED listVars) => ListInd'
<1>1. ListInd /\ UNCHANGED listVars => ListInd'
  BY DEF ListInd, Known, listVars
<1>2. QED
  BY <1>1, ListDirStep, ListEntryStep DEF ListNext

-----------------------------------------------------------------------------
(* The three of them.                                                      *)

WorkspaceInd == CommandInd /\ PageInd /\ ListInd

LEMMA WorkspaceGivesInv == WorkspaceInd => WorkspaceInv
<1> SUFFICES ASSUME WorkspaceInd PROVE WorkspaceInv
  OBVIOUS
<1>1. WorkspaceTypeOK
  BY DEF WorkspaceInd, CommandInd, CommandTypes, PageInd, ListInd, WorkspaceTypeOK
<1>2. OutputAccounted
  BY DEF WorkspaceInd, CommandInd, ReadIsKept, DoneIsAll, CallStages, OutputAccounted, Streams
<1>3. NoCommandLeft
  BY DEF WorkspaceInd, CommandInd, DoneIsAll, CallStages, NoCommandLeft, Over, Streams
<1>4. PagesCover
  BY DEF WorkspaceInd, PageInd
<1>5. ListedWhole
  <2>1. SUFFICES ASSUME stack = <<>>, rest = {} PROVE listed = Reached
    BY DEF ListedWhole
  <2>2. listed \subseteq Reached
    BY DEF WorkspaceInd, ListInd, Reached, Known
  <2>3. \A d \in Known : Children[d] \ Outside \subseteq listed
    BY <2>1 DEF WorkspaceInd, ListInd
  <2>4. QED
    BY <2>2, <2>3 DEF Reached, Known
<1>6. QED
  BY <1>1, <1>2, <1>3, <1>4, <1>5 DEF WorkspaceInv

LEMMA WorkspaceStep == WorkspaceInd /\ [WorkspaceNext]_workspaceVars => WorkspaceInd'
<1> SUFFICES ASSUME WorkspaceInd, [WorkspaceNext]_workspaceVars PROVE WorkspaceInd'
  OBVIOUS
<1>1. CASE CommandNext
  <2>1. UNCHANGED <<pageVars, listVars>>
    BY <1>1 DEF CommandNext, RunCommand, Fork, Exits, HeirExits, Expire, Waited, TimesOut, JoinReader, Drop,
       Write, ReadEnd, ReadSome
  <2>2. QED
    BY <1>1, <2>1, CommandStep, PageStep, ListStep DEF WorkspaceInd
<1>2. CASE ReadNext
  <2>1. UNCHANGED <<commandVars, listVars>>
    BY <1>2 DEF ReadNext, ReadPage
  <2>2. QED
    BY <1>2, <2>1, CommandStep, PageStep, ListStep DEF WorkspaceInd
<1>3. CASE ListNext
  <2>1. UNCHANGED <<commandVars, pageVars>>
    BY <1>3 DEF ListNext, ListDir, ListEntry
  <2>2. QED
    BY <1>3, <2>1, CommandStep, PageStep, ListStep DEF WorkspaceInd
<1>4. CASE UNCHANGED workspaceVars
  BY <1>4, CommandStep, PageStep, ListStep DEF WorkspaceInd, workspaceVars
<1>5. QED
  BY <1>1, <1>2, <1>3, <1>4 DEF WorkspaceNext

\* The answer of a command accounts for its output and leaves nothing running, pages
\* cover the file, and a listing below its limit is complete.
THEOREM WorkspaceIsRight == WorkspaceSpec => []WorkspaceInv
<1>1. WorkspaceInit => WorkspaceInd
  BY CommandStarts, PageStarts, ListStarts DEF WorkspaceInd
<1>2. WorkspaceSpec => []WorkspaceInd
  BY <1>1, WorkspaceStep, PTL DEF WorkspaceSpec
<1>3. QED
  BY <1>2, WorkspaceGivesInv, PTL

-----------------------------------------------------------------------------
(* VoicePlayback.                                                          *)

QueueTypes ==
  /\ queued \in Seq(Chunks) /\ played \in Seq(Chunks) /\ playing \in BOOLEAN
  /\ pushed \in 0..MaxChunks /\ cleared \in 0..pushed

\* What may have become of each track.
TrackSources == [Generations -> {"none", "built", "playing", "stopping", "ended", "dropped"}]

TrackTypes ==
  /\ generation \in Generations \cup {NoTrack} /\ track \in {NoTrack, generation} /\ nextTrack \in 0..MaxTracks
  /\ startLock \in Starters \cup {NoTrack}
  /\ pc \in [Starters -> {"idle", "waiting", "starting", "settling"}]
  /\ mine \in [Starters -> Generations \cup {NoTrack}]
  /\ trackSource \in TrackSources
  /\ handler \in [Generations -> {"none", "fired", "done"}]

\* Who is starting a track holds the lock, and no track is kept before it settles.
OneStarts ==
  /\ \A p \in Starters : pc[p] \in {"starting", "settling"} => startLock = p /\ mine[p] \in Generations
  /\ startLock # NoTrack => track = NoTrack

\* What is queued is in the order it was sent, after the last clear and all that was played.
QueueInOrder ==
  /\ \A i, j \in 1..Len(queued) : i < j => queued[i] < queued[j]
  /\ \A i \in 1..Len(queued) : /\ queued[i] \in (cleared + 1)..pushed
                               /\ played # <<>> => queued[i] > Last(played)
  /\ played # <<>> => Last(played) <= pushed

PlaybackInd == QueueTypes /\ TrackTypes /\ OneStarts /\ QueueInOrder /\ ShutDownIsEmpty

LEMMA TrackNames ==
  /\ NoTrack \notin Starters /\ NoTrack \notin Generations /\ Pump \notin Generations
  /\ Generations \subseteq Starters /\ Pump \in Starters /\ Generations \subseteq Nat
  /\ MaxChunks \in Nat /\ MaxTracks \in Nat
BY PlaybackAssumption DEF Starters, Generations

LEMMA PlaybackStarts == PlaybackInit => PlaybackInd
<1>1. ASSUME PlaybackInit PROVE QueueTypes /\ QueueInOrder
  BY <1>1, TrackNames DEF PlaybackInit, QueueTypes, QueueInOrder
<1>2. ASSUME PlaybackInit PROVE TrackTypes /\ OneStarts /\ ShutDownIsEmpty
  BY <1>2, TrackNames DEF PlaybackInit, TrackTypes, TrackSources, OneStarts, ShutDownIsEmpty
<1>3. QED
  BY <1>1, <1>2 DEF PlaybackInd

\* What an empty queue leaves to show.
LEMMA EmptyIsInOrder ==
  ASSUME PlaybackInd, queued' = <<>>, UNCHANGED <<played, pushed>>, cleared' \in {cleared, pushed}
  PROVE  /\ QueueInOrder'
         /\ queued' \in Seq(Chunks) /\ played' \in Seq(Chunks) /\ pushed' \in 0..MaxChunks /\ cleared' \in 0..pushed'
<1>1. QueueInOrder'
  BY DEF PlaybackInd, QueueInOrder
<1>2. QED
  BY <1>1, TrackNames DEF PlaybackInd, QueueTypes

LEMMA StoppedIsTyped ==
  ASSUME NEW s \in TrackSources, NEW g
  PROVE  Stopped(g, s) \in TrackSources
BY DEF Stopped, TrackSources

\* stop_playback empties the queue and forgets the track.
LEMMA StopKeeps ==
  ASSUME PlaybackInd,
         NEW s \in TrackSources, StopPlayback(s),
         UNCHANGED <<nextTrack, handler, pushed, played>>, cleared' \in {cleared, pushed}, playing' \in {playing, FALSE},
         \/ UNCHANGED starterVars
         \/ \E p \in Starters : /\ pc[p] = "starting" /\ pc' = [pc EXCEPT ![p] = "idle"]
                                /\ startLock' = NoTrack /\ mine' = mine
  PROVE  PlaybackInd'
<1>1. queued' = <<>> /\ generation' = NoTrack /\ track' = NoTrack /\ trackSource' = Stopped(track, s)
  BY DEF StopPlayback, DiscardQueue, TakeTrack
<1>2. QueueTypes' /\ QueueInOrder'
  BY <1>1, EmptyIsInOrder DEF PlaybackInd, QueueTypes
<1>3. trackSource' \in TrackSources
  BY <1>1, StoppedIsTyped
<1>4. TrackTypes' /\ OneStarts'
  <2>1. CASE UNCHANGED starterVars
    BY <2>1, <1>1, <1>3 DEF PlaybackInd, TrackTypes, OneStarts, starterVars
  <2>2. ASSUME NEW p \in Starters, pc[p] = "starting", pc' = [pc EXCEPT ![p] = "idle"],
               startLock' = NoTrack, mine' = mine
        PROVE  TrackTypes' /\ OneStarts'
    <3>1. TrackTypes'
      BY <2>2, <1>1, <1>3 DEF PlaybackInd, TrackTypes
    <3>2. OneStarts'
      BY <2>2, <1>1, TrackNames DEF PlaybackInd, TrackTypes, OneStarts
    <3>3. QED
      BY <3>1, <3>2
  <2>3. QED
    BY <2>1, <2>2
<1>5. QED
  BY <1>1, <1>2, <1>4 DEF PlaybackInd, ShutDownIsEmpty

LEMMA ChunkPushed == PlaybackInd /\ Push => PlaybackInd'
<1> SUFFICES ASSUME PlaybackInd, Push PROVE PlaybackInd'
  OBVIOUS
<1>1. /\ pushed' = pushed + 1 /\ pushed' \in Chunks /\ queued' = Append(queued, pushed + 1) /\ playing
      /\ pc' = [pc EXCEPT ![Pump] = "waiting"]
      /\ UNCHANGED <<playing, generation, track, nextTrack, startLock, mine, trackSource, handler, cleared, played>>
  BY TrackNames DEF Push, AcceptsAudio, QueueAndStart, driverVars, PlaybackInd, QueueTypes, Chunks
<1>2. QueueTypes'
  BY <1>1, TrackNames DEF PlaybackInd, QueueTypes, Chunks
<1>3. QueueInOrder'
  <2>1. /\ Len(queued') = Len(queued) + 1 /\ Len(queued) \in Nat
        /\ \A i \in 1..Len(queued) : queued'[i] = queued[i]
        /\ queued'[Len(queued) + 1] = pushed + 1
    BY <1>1 DEF PlaybackInd, QueueTypes
  <2>2. \A i \in 1..Len(queued') : i \in 1..Len(queued) \/ i = Len(queued) + 1
    BY <2>1
  <2>3. pushed \in Nat /\ cleared \in Nat /\ cleared <= pushed /\ (\A i \in 1..Len(queued) : queued[i] \in Nat)
    BY TrackNames DEF PlaybackInd, QueueTypes, Chunks
  <2>4. played # <<>> => Last(played) \in Nat
    <3>1. played # <<>> => Len(played) \in 1..Len(played) /\ Last(played) = played[Len(played)]
      BY DEF PlaybackInd, QueueTypes, Last
    <3>2. QED
      BY <3>1, TrackNames DEF PlaybackInd, QueueTypes, Chunks
  <2>5. \A i, j \in 1..Len(queued') : i < j => queued'[i] < queued'[j]
    BY <2>1, <2>2, <2>3 DEF PlaybackInd, QueueInOrder
  <2>6. \A i \in 1..Len(queued') : /\ queued'[i] \in (cleared' + 1)..pushed'
                                   /\ played # <<>> => queued'[i] > Last(played)
    BY <1>1, <2>1, <2>2, <2>3, <2>4 DEF PlaybackInd, QueueInOrder
  <2>7. QED
    BY <1>1, <2>3, <2>4, <2>5, <2>6 DEF PlaybackInd, QueueInOrder
<1>4. TrackTypes' /\ OneStarts'
  BY <1>1, TrackNames DEF PlaybackInd, TrackTypes, OneStarts
<1>5. QED
  BY <1>1, <1>2, <1>3, <1>4 DEF PlaybackInd, ShutDownIsEmpty

\* A chunk that is read is younger than all read before, and older than those left.
LEMMA ChunkRead ==
  ASSUME PlaybackInd, NEW g \in Generations, ReadTrack(g)
  PROVE  PlaybackInd' /\ Last(played') > cleared /\ (played = <<>> \/ Last(played') > Last(played))
<1>1. /\ queued # <<>> /\ queued' = Tail(queued) /\ played' = Append(played, Head(queued))
      /\ UNCHANGED <<playing, generation, track, nextTrack, startLock, pc, mine, trackSource, handler, pushed, cleared>>
  BY DEF ReadTrack, starterVars, driverVars
<1>2. /\ Len(queued) \in Nat \ {0} /\ Len(queued') = Len(queued) - 1
      /\ \A i \in 1..Len(queued') : queued'[i] = queued[i + 1] /\ i + 1 \in 1..Len(queued)
      /\ Head(queued) = queued[1] /\ 1 \in 1..Len(queued) /\ queued[1] \in Chunks
      /\ queued' \in Seq(Chunks)
  BY <1>1 DEF PlaybackInd, QueueTypes
<1>3. played' \in Seq(Chunks) /\ played' # <<>> /\ Last(played') = queued[1]
  BY <1>1, <1>2 DEF PlaybackInd, QueueTypes, Last
<1>4. QueueTypes'
  BY <1>1, <1>2, <1>3 DEF PlaybackInd, QueueTypes
<1>5. \A i \in 1..Len(queued) : queued[i] \in Nat
  BY TrackNames DEF PlaybackInd, QueueTypes, Chunks
<1>6. QueueInOrder'
  <2>1. \A i, j \in 1..Len(queued') : i < j => queued'[i] < queued'[j]
    <3>1. \A i, j \in 1..Len(queued) : i < j => queued[i] < queued[j]
      BY DEF PlaybackInd, QueueInOrder
    <3>2. TAKE i, j \in 1..Len(queued')
    <3>3. /\ i + 1 \in 1..Len(queued) /\ j + 1 \in 1..Len(queued)
          /\ queued'[i] = queued[i + 1] /\ queued'[j] = queued[j + 1]
      BY <1>2
    <3>4. QED
      BY <3>1, <3>3
  <2>2. \A i \in 1..Len(queued') : queued'[i] \in (cleared + 1)..pushed /\ queued'[i] > queued[1]
    BY <1>2, <1>5 DEF PlaybackInd, QueueInOrder
  <2>3. queued[1] <= pushed
    BY <1>2 DEF PlaybackInd, QueueTypes, QueueInOrder
  <2>4. QED
    BY <1>1, <1>3, <2>1, <2>2, <2>3 DEF QueueInOrder
<1>7. TrackTypes' /\ OneStarts'
  BY <1>1 DEF PlaybackInd, TrackTypes, OneStarts
<1>8. ShutDownIsEmpty'
  BY <1>1 DEF PlaybackInd, ShutDownIsEmpty
<1>9. queued[1] > cleared /\ (played # <<>> => queued[1] > Last(played))
  BY <1>2 DEF PlaybackInd, QueueTypes, QueueInOrder
<1>10. QED
  BY <1>3, <1>4, <1>6, <1>7, <1>8, <1>9 DEF PlaybackInd

\* Steps that touch neither the queue nor what is counted of it.
LEMMA QueueKept ==
  ASSUME PlaybackInd, UNCHANGED <<queued, playing, played, pushed, cleared>>
  PROVE  QueueTypes' /\ QueueInOrder'
BY DEF PlaybackInd, QueueTypes, QueueInOrder

LEMMA TrackStarts ==
  ASSUME PlaybackInd, NEW p \in Starters, Start(p)
  PROVE  PlaybackInd' /\ played' = played
<1>1. CASE NothingToStart(p)
  <2>1. /\ pc' = [pc EXCEPT ![p] = "idle"]
        /\ UNCHANGED <<queued, playing, generation, track, nextTrack, startLock, mine, trackSource, handler>>
        /\ UNCHANGED <<pushed, cleared, played>>
    BY <1>1 DEF NothingToStart, stateVars, driverVars, historyVars
  <2>2. TrackTypes' /\ OneStarts' /\ ShutDownIsEmpty'
    BY <2>1 DEF PlaybackInd, TrackTypes, OneStarts, ShutDownIsEmpty
  <2>3. QED
    BY <2>1, <2>2, QueueKept DEF PlaybackInd
<1>2. CASE BeginStart(p)
  <2>1. /\ startLock = NoTrack /\ pc[p] = "waiting" /\ generation = NoTrack
        /\ nextTrack < MaxTracks /\ nextTrack' = nextTrack + 1 /\ generation' = nextTrack /\ startLock' = p
        /\ mine' = [mine EXCEPT ![p] = nextTrack] /\ pc' = [pc EXCEPT ![p] = "starting"]
        /\ trackSource' = [trackSource EXCEPT ![nextTrack] = "built"]
        /\ UNCHANGED <<queued, playing, track, handler, pushed, cleared, played>>
    BY <1>2 DEF BeginStart, Lock, MayStart, historyVars
  <2>2. nextTrack \in Generations /\ nextTrack' \in 0..MaxTracks /\ track = NoTrack
    BY <2>1, TrackNames DEF PlaybackInd, TrackTypes, Generations
  <2>3. TrackTypes'
    BY <2>1, <2>2 DEF PlaybackInd, TrackTypes, TrackSources
  <2>4. OneStarts'
    BY <2>1, <2>2, TrackNames DEF PlaybackInd, TrackTypes, OneStarts
  <2>5. QED
    BY <2>1, <2>3, <2>4, QueueKept DEF PlaybackInd, ShutDownIsEmpty
<1>3. CASE StartFails(p)
  <2>1. /\ pc[p] = "starting" /\ StopPlayback([trackSource EXCEPT ![mine[p]] = "dropped"])
        /\ startLock' = NoTrack /\ pc' = [pc EXCEPT ![p] = "idle"]
        /\ UNCHANGED <<playing, nextTrack, mine, handler, pushed, cleared, played>>
    BY <1>3 DEF StartFails, historyVars
  <2>2. [trackSource EXCEPT ![mine[p]] = "dropped"] \in TrackSources
    BY DEF PlaybackInd, TrackTypes, TrackSources
  <2>3. QED
    BY <2>1, <2>2, StopKeeps
<1>4. CASE PlayOnly(p)
  <2>1. /\ pc[p] = "starting" /\ trackSource' = ReplacingAll(mine[p]) /\ pc' = [pc EXCEPT ![p] = "settling"]
        /\ UNCHANGED <<queued, playing, generation, track, nextTrack, startLock, mine, handler, pushed, cleared, played>>
    BY <1>4 DEF PlayOnly, stateVars, historyVars
  <2>2. ReplacingAll(mine[p]) \in TrackSources
    BY DEF ReplacingAll, PlaybackInd, TrackTypes, TrackSources
  <2>3. TrackTypes' /\ OneStarts' /\ ShutDownIsEmpty'
    BY <2>1, <2>2 DEF PlaybackInd, TrackTypes, OneStarts, ShutDownIsEmpty
  <2>4. QED
    BY <2>1, <2>3, QueueKept DEF PlaybackInd
<1>5. CASE Settle(p)
  <2>1. /\ pc[p] = "settling" /\ startLock' = NoTrack /\ pc' = [pc EXCEPT ![p] = "idle"]
        /\ UNCHANGED <<queued, playing, nextTrack, mine, handler, pushed, cleared, played>>
    BY <1>5 DEF Settle, historyVars
  <2>2. startLock = p /\ mine[p] \in Generations /\ track = NoTrack
    BY <2>1, TrackNames DEF PlaybackInd, OneStarts
  <2>3. OneStarts'
    BY <2>1, <2>2, TrackNames DEF PlaybackInd, TrackTypes, OneStarts
  <2>4. CASE StillWanted(p)
    <3>1. track' = mine[p] /\ generation = mine[p] /\ playing /\ UNCHANGED <<generation, trackSource>>
      BY <1>5, <2>4 DEF Settle, StillWanted
    <3>2. TrackTypes' /\ ShutDownIsEmpty'
      BY <2>1, <2>2, <3>1 DEF PlaybackInd, TrackTypes, ShutDownIsEmpty
    <3>3. QED
      BY <2>1, <2>3, <3>2, QueueKept DEF PlaybackInd
  <2>5. CASE ~StillWanted(p)
    <3>1. /\ generation' \in {NoTrack, generation} /\ trackSource' = Stopped(mine[p], trackSource) /\ track' = track
      BY <1>5, <2>5 DEF Settle
    <3>2. trackSource' \in TrackSources
      BY <3>1, StoppedIsTyped DEF PlaybackInd, TrackTypes
    <3>3. TrackTypes' /\ ShutDownIsEmpty'
      BY <2>1, <2>2, <3>1, <3>2 DEF PlaybackInd, TrackTypes, ShutDownIsEmpty
    <3>4. QED
      BY <2>1, <2>3, <3>3, QueueKept DEF PlaybackInd
  <2>6. QED
    BY <2>4, <2>5
<1>6. QED
  BY <1>1, <1>2, <1>3, <1>4, <1>5 DEF Start

LEMMA TrackEnds ==
  ASSUME PlaybackInd, NEW g \in Generations, End(g) \/ DropSource(g) \/ Finish(g)
  PROVE  PlaybackInd' /\ played' = played
<1>1. CASE End(g)
  <2>1. /\ trackSource' = [trackSource EXCEPT ![g] = "ended"] /\ handler' = [handler EXCEPT ![g] = "fired"]
        /\ UNCHANGED <<queued, playing, generation, track, nextTrack, startLock, pc, mine, pushed, cleared, played>>
    BY <1>1 DEF End, stateVars, starterVars, historyVars
  <2>2. TrackTypes' /\ OneStarts' /\ ShutDownIsEmpty'
    BY <2>1 DEF PlaybackInd, TrackTypes, TrackSources, OneStarts, ShutDownIsEmpty
  <2>3. QED
    BY <2>1, <2>2, QueueKept DEF PlaybackInd
<1>2. CASE DropSource(g)
  <2>1. /\ StopPlayback([trackSource EXCEPT ![g] = "dropped"])
        /\ UNCHANGED <<playing, nextTrack, starterVars, handler, pushed, cleared, played>>
    BY <1>2 DEF DropSource, historyVars
  <2>2. [trackSource EXCEPT ![g] = "dropped"] \in TrackSources
    BY DEF PlaybackInd, TrackTypes, TrackSources
  <2>3. QED
    BY <2>1, <2>2, StopKeeps
<1>3. CASE Finish(g)
  <2>1. /\ handler' = [handler EXCEPT ![g] = "done"]
        /\ UNCHANGED <<queued, playing, nextTrack, startLock, mine, trackSource, pushed, cleared, played>>
        /\ pc' \in {pc, [pc EXCEPT ![g] = "waiting"]}
        /\ \/ generation' = NoTrack /\ track' = NoTrack
           \/ UNCHANGED <<generation, track>>
    BY <1>3 DEF Finish, historyVars
  <2>2. TrackTypes' /\ OneStarts' /\ ShutDownIsEmpty'
    BY <2>1, TrackNames DEF PlaybackInd, TrackTypes, OneStarts, ShutDownIsEmpty
  <2>3. QED
    BY <2>1, <2>2, QueueKept DEF PlaybackInd
<1>4. QED
  BY <1>1, <1>2, <1>3

LEMMA PlaybackStep ==
  ASSUME PlaybackInd, [PlaybackNext]_playbackVars
  PROVE  /\ PlaybackInd'
         /\ played' # played => Last(played') > cleared /\ (played = <<>> \/ Last(played') > Last(played))
<1>1. CASE Push
  BY <1>1, ChunkPushed DEF Push
<1>2. CASE Clear \/ Deactivate
  <2>1. /\ StopPlayback(trackSource) /\ cleared' \in {cleared, pushed} /\ playing' \in {playing, FALSE}
        /\ UNCHANGED <<nextTrack, starterVars, handler, pushed, played>>
    BY <1>2 DEF Clear, Deactivate, historyVars
  <2>2. QED
    BY <2>1, StopKeeps DEF PlaybackInd, TrackTypes
<1>3. CASE \E p \in Starters : Start(p)
  BY <1>3, TrackStarts
<1>4. CASE \E g \in Generations : ReadTrack(g)
  BY <1>4, ChunkRead
<1>5. CASE \E g \in Generations : End(g) \/ DropSource(g) \/ Finish(g)
  BY <1>5, TrackEnds
<1>6. CASE UNCHANGED playbackVars
  <2>1. /\ UNCHANGED <<queued, playing, generation, track, nextTrack, startLock, pc, mine, trackSource, handler>>
        /\ UNCHANGED <<pushed, cleared, played>>
    BY <1>6 DEF playbackVars, stateVars, starterVars, driverVars, historyVars
  <2>2. TrackTypes' /\ OneStarts' /\ ShutDownIsEmpty'
    BY <2>1 DEF PlaybackInd, TrackTypes, OneStarts, ShutDownIsEmpty
  <2>3. QED
    BY <2>1, <2>2, QueueKept DEF PlaybackInd
<1>7. QED
  BY <1>1, <1>2, <1>3, <1>4, <1>5, <1>6 DEF PlaybackNext, Driver

LEMMA PlaybackTyped == PlaybackInd => PlaybackTypeOK
BY DEF PlaybackInd, QueueTypes, TrackTypes, TrackSources, PlaybackTypeOK

\* The safety part of PlaybackContract.  However the event pump, the handlers of ended
\* tracks, the driver's threads and a shutdown interleave (voice.rs): what is heard is in
\* the order it was sent and after the last interruption, the generation, the handle and
\* the lock agree, and a bridge that is shut down keeps no audio.
THEOREM PlaybackIsSafe == PlaybackSpec => []PlaybackTypeOK /\ []ShutDownIsEmpty /\ PlayedInOrder
<1>1. PlaybackInit => PlaybackInd
  BY PlaybackStarts
<1>2. PlaybackInd /\ [PlaybackNext]_playbackVars => PlaybackInd'
  BY PlaybackStep
<1>3. PlaybackInd => PlaybackTypeOK /\ ShutDownIsEmpty
  BY PlaybackTyped DEF PlaybackInd
<1>4. PlaybackInd /\ [PlaybackNext]_playbackVars
        => [ played' # played => /\ Last(played') > cleared
                                 /\ played = <<>> \/ Last(played') > Last(played) ]_playbackVars
  BY PlaybackStep
<1>5. QED
  BY <1>1, <1>2, <1>3, <1>4, PTL DEF PlaybackSpec, PlayedInOrder

-----------------------------------------------------------------------------
(* Sequences.                                                              *)

Increasing(s) == \A i, j \in 1..Len(s) : i < j => s[i] < s[j]

Before(s, t) == \A i \in 1..Len(s), j \in 1..Len(t) : s[i] < t[j]

LEMMA Members ==
  ASSUME NEW S, NEW s \in Seq(S)
  PROVE  Len(s) \in Nat /\ \A i \in 1..Len(s) : s[i] \in S
  OBVIOUS

\* The first k samples of a sequence and the rest.
LEMMA Split ==
  ASSUME NEW S, NEW s \in Seq(S), NEW k \in 0..Len(s)
  PROVE  /\ SubSeq(s, 1, k) \in Seq(S) /\ Len(SubSeq(s, 1, k)) = k
         /\ SubSeq(s, k + 1, Len(s)) \in Seq(S) /\ Len(SubSeq(s, k + 1, Len(s))) = Len(s) - k
         /\ \A i \in 1..k : SubSeq(s, 1, k)[i] = s[i]
         /\ \A i \in 1..(Len(s) - k) : SubSeq(s, k + 1, Len(s))[i] = s[k + i]
  OBVIOUS

\* Two sequences, one after the other.
LEMMA Joined ==
  ASSUME NEW S, NEW s \in Seq(S), NEW t \in Seq(S)
  PROVE  /\ s \o t \in Seq(S) /\ Len(s \o t) = Len(s) + Len(t)
         /\ \A i \in 1..Len(s) : (s \o t)[i] = s[i]
         /\ \A i \in 1..Len(t) : (s \o t)[Len(s) + i] = t[i]
         /\ \A i \in 1..Len(s \o t) : i \in 1..Len(s) \/ (i - Len(s) \in 1..Len(t) /\ (s \o t)[i] = t[i - Len(s)])
  OBVIOUS

LEMMA JoinIncreasing ==
  ASSUME NEW S \in SUBSET Nat, NEW s \in Seq(S), NEW t \in Seq(S), Increasing(s), Increasing(t), Before(s, t)
  PROVE  Increasing(s \o t)
<1> DEFINE q == s \o t
<1>1. Len(s) \in Nat /\ Len(t) \in Nat /\ Len(q) = Len(s) + Len(t)
  BY Joined, Members
<1>2. SUFFICES ASSUME NEW i \in 1..Len(q), NEW j \in 1..Len(q), i < j PROVE q[i] < q[j]
  BY DEF Increasing
<1>3. CASE j \in 1..Len(s)
  <2>1. i \in 1..Len(s)
    BY <1>1, <1>2, <1>3
  <2>2. QED
    BY <1>2, <1>3, <2>1, Joined DEF Increasing
<1>4. CASE j \notin 1..Len(s)
  <2>1. j - Len(s) \in 1..Len(t) /\ q[j] = t[j - Len(s)]
    BY <1>2, <1>4, Joined
  <2>2. CASE i \in 1..Len(s)
    BY <2>1, <2>2, Joined DEF Before
  <2>3. CASE i \notin 1..Len(s)
    <3>1. i - Len(s) \in 1..Len(t) /\ q[i] = t[i - Len(s)]
      BY <1>2, <2>3, Joined
    <3>2. i - Len(s) < j - Len(s)
      BY <1>1, <1>2
    <3>3. QED
      BY <2>1, <3>1, <3>2 DEF Increasing
  <2>4. QED
    BY <2>2, <2>3
<1>5. QED
  BY <1>3, <1>4

-----------------------------------------------------------------------------
(* The state.                                                              *)

PushFits == job = "push" => numbered + resampled <= MaxQueued

BufferIsNext ==
  /\ stale <= numbered
  /\ Increasing(heard) /\ Increasing(buffer) /\ Before(heard, buffer)
  /\ \A i \in 1..Len(heard) : heard[i] <= numbered
  /\ \A i \in 1..Len(buffer) : stale < buffer[i] /\ buffer[i] <= numbered

Counted == numbered = Len(heard) + Len(buffer) + thrown

SpeakerInd == SpeakerTypeOK /\ PushFits /\ BufferIsNext /\ Counted

LEMMA SpeakerGivesInv == SpeakerInd => SpeakerInv
  BY DEF SpeakerInd, SpeakerInv, BufferIsNext, Counted, EachPlayedOnce, Increasing

LEMMA SpeakerStarts == SpeakerInit => SpeakerInd
<1> SUFFICES ASSUME SpeakerInit PROVE SpeakerInd
  OBVIOUS
<1>1. buffer = <<>> /\ heard = <<>> /\ Len(buffer) = 0 /\ Len(heard) = 0
  BY DEF SpeakerInit
<1>2. 0 \in SpeakerSamples /\ 0 \in 0..MaxStreams
  BY SpeakerAssumption DEF SpeakerSamples
<1>3. <<>> \in Seq(SpeakerSamples) /\ PushFits
  BY DEF SpeakerInit, PushFits
<1>4. SpeakerTypeOK
  BY <1>1, <1>2, <1>3 DEF SpeakerInit, SpeakerTypeOK
<1>5. BufferIsNext /\ Counted
  BY <1>1 DEF SpeakerInit, BufferIsNext, Counted, Increasing, Before
<1>6. QED
  BY <1>3, <1>4, <1>5 DEF SpeakerInd

\* What a piece becomes at the rate of the device.
LEMMA ResampledIsNat ==
  ASSUME NEW n \in Pieces, rate \in OutputRates
  PROVE  (IF rate = ModelRate THEN n ELSE (n * rate) \div ModelRate) \in Nat
<1>1. n \in Nat /\ rate \in Nat /\ ModelRate \in Nat \ {0}
  BY SpeakerAssumption
<1>2. n * rate \in Nat
  BY <1>1
<1>3. (n * rate) \div ModelRate \in Nat
  BY <1>1, <1>2
<1>4. QED
  BY <1>1, <1>3

LEMMA ExtendStep == SpeakerInd /\ Extend => SpeakerInd'
<1> SUFFICES ASSUME SpeakerInd, Extend PROVE SpeakerInd'
  OBVIOUS
<1> DEFINE S == SpeakerSamples
           f == FreshSamples
<1>1. S \subseteq Nat /\ buffer \in Seq(S) /\ heard \in Seq(S) /\ numbered \in S /\ resampled \in S
      /\ numbered + resampled <= MaxQueued /\ MaxQueued \in Nat
  BY SpeakerAssumption DEF SpeakerInd, SpeakerTypeOK, PushFits, Extend, SpeakerSamples
<1>2. f \in Seq(S) /\ Len(f) = resampled /\ \A i \in 1..Len(f) : f[i] = numbered + i
  BY <1>1 DEF FreshSamples, SpeakerSamples
<1>3. buffer' = buffer \o f /\ numbered' = numbered + resampled /\ job' = "none" /\ holder' = "nobody"
      /\ resampled' = 0 /\ UNCHANGED <<speaker, rate, streams, stale, heard, thrown>>
  BY DEF Extend, Unlock
<1> HIDE DEF f
<1>4. Increasing(f) /\ Before(buffer, f) /\ Before(heard, f)
  BY <1>1, <1>2, SMTT(30) DEF Increasing, Before, SpeakerInd, BufferIsNext, SpeakerSamples
<1>5. SpeakerTypeOK'
  BY <1>1, <1>2, <1>3, Joined DEF SpeakerInd, SpeakerTypeOK, SpeakerSamples
<1>6. BufferIsNext'
  <2>1. Increasing(buffer') /\ Increasing(heard') /\ stale' <= numbered'
    BY <1>1, <1>2, <1>3, <1>4, JoinIncreasing, SMTT(30) DEF SpeakerInd, BufferIsNext, SpeakerTypeOK, SpeakerSamples
  <2>2. Before(heard', buffer')
    BY <1>1, <1>2, <1>3, <1>4, Joined DEF SpeakerInd, BufferIsNext, Before
  <2>3. \A i \in 1..Len(heard') : heard'[i] <= numbered'
    <3>1. \A i \in 1..Len(heard) : heard[i] \in Nat
      BY <1>1, Members
    <3>2. QED
      BY <1>1, <1>3, <3>1 DEF SpeakerInd, BufferIsNext, SpeakerSamples
  <2>4. \A i \in 1..Len(buffer') : stale' < buffer'[i] /\ buffer'[i] <= numbered'
    <3>1. \A i \in 1..Len(buffer) : buffer[i] \in Nat
      BY <1>1, Members
    <3>2. \A i \in 1..Len(f) : f[i] > stale /\ f[i] <= numbered'
      BY <1>1, <1>2, <1>3 DEF SpeakerInd, BufferIsNext, SpeakerTypeOK, SpeakerSamples
    <3>3. \A i \in 1..Len(buffer) : stale < buffer[i] /\ buffer[i] <= numbered'
      BY <1>1, <1>3, <3>1 DEF SpeakerInd, BufferIsNext, SpeakerSamples
    <3>4. \A i \in 1..Len(buffer \o f) :
            i \in 1..Len(buffer) \/ (i - Len(buffer) \in 1..Len(f) /\ (buffer \o f)[i] = f[i - Len(buffer)])
      BY <1>1, <1>2, Joined
    <3>5. \A i \in 1..Len(buffer) : (buffer \o f)[i] = buffer[i]
      BY <1>1, <1>2, Joined
    <3>6. QED
      BY <1>3, <3>2, <3>3, <3>4, <3>5
  <2>5. QED
    BY <2>1, <2>2, <2>3, <2>4 DEF BufferIsNext
<1>7. Counted'
  <2>1. Len(buffer') = Len(buffer) + resampled /\ Len(buffer) \in Nat /\ Len(heard) \in Nat
    BY <1>1, <1>2, <1>3, Joined, Members
  <2>2. thrown \in Nat /\ numbered = Len(heard) + Len(buffer) + thrown
    BY DEF SpeakerInd, Counted, SpeakerTypeOK
  <2>3. QED
    BY <1>1, <1>3, <2>1, <2>2 DEF Counted
<1>8. QED
  BY <1>3, <1>5, <1>6, <1>7 DEF SpeakerInd, PushFits

LEMMA EmptyStep ==
  ASSUME SpeakerInd, ClearBuffer \/ StopSpeaker
  PROVE  SpeakerInd'
<1>1. buffer' = <<>> /\ thrown' = thrown + Len(buffer) /\ stale' = numbered
      /\ UNCHANGED <<heard, numbered, resampled, rate, streams>>
  BY DEF ClearBuffer, StopSpeaker, EmptyBuffer
<1>2. SpeakerTypeOK' /\ PushFits'
  <2>1. Len(buffer) \in Nat /\ thrown' \in Nat
    BY <1>1, Members DEF SpeakerInd, SpeakerTypeOK
  <2>2. /\ speaker' \in BOOLEAN /\ holder' = "nobody" /\ job' = "none"
    BY DEF SpeakerInd, SpeakerTypeOK, ClearBuffer, StopSpeaker, Unlock, HostIdle
  <2>3. QED
    BY <1>1, <2>1, <2>2 DEF SpeakerInd, SpeakerTypeOK, PushFits
<1>3. BufferIsNext'
  BY <1>1 DEF SpeakerInd, SpeakerTypeOK, BufferIsNext, Increasing, Before, SpeakerSamples
<1>4. Counted'
  BY <1>1 DEF SpeakerInd, SpeakerTypeOK, Counted, SpeakerSamples
<1>5. QED
  BY <1>2, <1>3, <1>4 DEF SpeakerInd

LEMMA FillStep ==
  ASSUME SpeakerInd, FillAndFeedAec
  PROVE  SpeakerInd' /\ \A i \in (Len(heard) + 1)..Len(heard') : heard'[i] > stale
<1>1. PICK n \in Periods :
        LET size == IF n < Len(buffer) THEN n ELSE Len(buffer)
        IN  heard' = heard \o SubSeq(buffer, 1, size) /\ buffer' = Left(size)
  BY DEF FillAndFeedAec
<1> DEFINE S == SpeakerSamples
           k == IF n < Len(buffer) THEN n ELSE Len(buffer)
           out == SubSeq(buffer, 1, k)
           in == SubSeq(buffer, k + 1, Len(buffer))
<1>2. S \in SUBSET Nat /\ buffer \in Seq(S) /\ heard \in Seq(S) /\ n \in Nat
  BY SpeakerAssumption DEF SpeakerInd, SpeakerTypeOK, SpeakerSamples
<1>3. k \in 0..Len(buffer)
  BY <1>2
<1>4. heard' = heard \o out /\ buffer' = in
  BY <1>1 DEF Left
<1>5. /\ out \in Seq(S) /\ Len(out) = k
      /\ in \in Seq(S) /\ Len(in) = Len(buffer) - k
      /\ \A i \in 1..k : out[i] = buffer[i]
      /\ \A i \in 1..(Len(buffer) - k) : in[i] = buffer[k + i]
  BY <1>2, <1>3, Split
<1>6. UNCHANGED <<speaker, rate, streams, job, resampled, numbered, stale, thrown>> /\ holder' = "nobody"
  BY DEF FillAndFeedAec
<1> HIDE DEF k, out, in
<1>7. Increasing(out) /\ Increasing(in) /\ Before(heard, out) /\ Before(heard, in) /\ Before(out, in)
  <2>1. Increasing(buffer) /\ Before(heard, buffer)
    BY DEF SpeakerInd, BufferIsNext
  <2>2. \A i \in 1..Len(out) : i \in 1..Len(buffer)
    BY <1>2, <1>3, <1>5
  <2>3. \A i \in 1..Len(in) : k + i \in 1..Len(buffer)
    BY <1>2, <1>3, <1>5
  <2>4. Increasing(out) /\ Before(heard, out)
    BY <1>5, <2>1, <2>2 DEF Increasing, Before
  <2>5. Increasing(in) /\ Before(heard, in)
    <3>1. \A i \in 1..Len(in) : in[i] = buffer[k + i] /\ i \in Int
      BY <1>5
    <3>2. \A i, j \in 1..Len(in) : i < j => k + i < k + j
      BY <1>3
    <3>3. QED
      BY <2>1, <2>3, <3>1, <3>2 DEF Increasing, Before
  <2>6. Before(out, in)
    BY <1>3, <1>5, <2>1, <2>2, <2>3 DEF Increasing, Before
  <2>7. QED
    BY <2>4, <2>5, <2>6
<1>8. Increasing(heard')
  BY <1>2, <1>4, <1>5, <1>7, JoinIncreasing DEF SpeakerInd, BufferIsNext
<1>9. Before(heard', buffer')
  <2>1. ASSUME NEW i \in 1..Len(heard')
        PROVE  (i \in 1..Len(heard) /\ heard'[i] = heard[i]) \/ \E j \in 1..Len(out) : heard'[i] = out[j]
    <3>1. CASE i \in 1..Len(heard)
      BY <1>2, <1>4, <1>5, <3>1, Joined
    <3>2. CASE i \notin 1..Len(heard)
      <4>1. i - Len(heard) \in 1..Len(out) /\ heard'[i] = out[i - Len(heard)]
        BY <1>2, <1>4, <1>5, <3>2, Joined
      <4>2. QED
        BY <4>1
    <3>3. QED
      BY <3>1, <3>2
  <2>2. QED
    BY <1>4, <1>7, <2>1 DEF Before
<1>10. \A i \in 1..Len(out) : stale < out[i] /\ out[i] <= numbered
  BY <1>2, <1>3, <1>5 DEF SpeakerInd, BufferIsNext
<1>11. \A i \in 1..Len(in) : stale < in[i] /\ in[i] <= numbered
  <2>1. \A i \in 1..Len(in) : k + i \in 1..Len(buffer) /\ in[i] = buffer[k + i]
    BY <1>2, <1>3, <1>5
  <2>2. QED
    BY <2>1 DEF SpeakerInd, BufferIsNext
<1>12. \A i \in 1..Len(heard') : heard'[i] <= numbered
  BY <1>2, <1>4, <1>5, <1>10, Joined DEF SpeakerInd, BufferIsNext
<1>13. BufferIsNext'
  BY <1>4, <1>6, <1>7, <1>8, <1>9, <1>11, <1>12 DEF SpeakerInd, BufferIsNext
<1>14. SpeakerTypeOK' /\ PushFits'
  BY <1>2, <1>4, <1>5, <1>6, Joined DEF SpeakerInd, SpeakerTypeOK, PushFits
<1>15. Counted'
  <2>1. Len(heard') = Len(heard) + k /\ Len(buffer') = Len(buffer) - k
    BY <1>2, <1>4, <1>5, Joined
  <2>2. Len(heard) \in Nat /\ Len(buffer) \in Nat /\ numbered \in Nat /\ thrown \in Nat
    BY <1>2, Members DEF SpeakerInd, SpeakerTypeOK, SpeakerSamples
  <2>3. QED
    BY <1>3, <1>6, <2>1, <2>2 DEF SpeakerInd, Counted
<1>16. \A i \in (Len(heard) + 1)..Len(heard') : heard'[i] > stale
  <2>1. TAKE i \in (Len(heard) + 1)..Len(heard')
  <2>2. i - Len(heard) \in 1..Len(out) /\ heard'[i] = out[i - Len(heard)]
    BY <1>2, <1>4, <1>5, Joined
  <2>3. stale \in Nat /\ out[i - Len(heard)] \in Nat
    BY <1>2, <1>5, <2>2, Members DEF SpeakerInd, SpeakerTypeOK
  <2>4. QED
    BY <1>10, <2>2, <2>3
<1>17. QED
  BY <1>13, <1>14, <1>15, <1>16 DEF SpeakerInd

LEMMA SpeakerStep == SpeakerInd /\ [SpeakerNext]_speakerVars => SpeakerInd'
<1> SUFFICES ASSUME SpeakerInd, [SpeakerNext]_speakerVars PROVE SpeakerInd'
  OBVIOUS
<1> USE DEF SpeakerInd, SpeakerTypeOK, PushFits, BufferIsNext, Counted
<1>1. CASE PushModelPcm
  <2>1. resampled' \in Nat /\ numbered + resampled' <= MaxQueued
    BY <1>1, ResampledIsNat DEF PushModelPcm
  <2>2. resampled' \in SpeakerSamples
    BY <2>1, SpeakerAssumption, SMTT(30) DEF SpeakerSamples
  <2>3. QED
    BY <1>1, <2>1, <2>2 DEF PushModelPcm, HostIdle
<1>2. CASE ClearSpeaker
  BY <1>2 DEF ClearSpeaker, HostIdle
<1>3. CASE LockBuffer
  BY <1>3 DEF LockBuffer, HostIdle
<1>4. CASE Extend
  BY <1>4, ExtendStep
<1>5. CASE ClearBuffer
  BY <1>5, EmptyStep
<1>6. CASE StartSpeaker
  BY <1>6, SpeakerAssumption DEF StartSpeaker
<1>7. CASE StopSpeaker
  BY <1>7, EmptyStep
<1>8. CASE BeginFill
  BY <1>8 DEF BeginFill
<1>9. CASE FillAndFeedAec
  BY <1>9, FillStep
<1>10. CASE UNCHANGED speakerVars
  BY <1>10 DEF speakerVars
<1>11. QED
  BY <1>1, <1>2, <1>3, <1>4, <1>5, <1>6, <1>7, <1>8, <1>9, <1>10
     DEF SpeakerNext, HostCalls, DeviceCallback

\* Each sample numbered is played once and in order, waits, or was cleared, whichever
\* of the host and the device comes first to the mutex.
THEOREM EachSampleOnce == SpeakerSpec => []SpeakerInv
<1>1. SpeakerSpec => []SpeakerInd
  BY SpeakerStarts, SpeakerStep, PTL DEF SpeakerSpec
<1>2. QED
  BY <1>1, SpeakerGivesInv, PTL

\* After the buffer was cleared, by an interruption or with its stream, the device
\* plays nothing that was in it.
THEOREM NoStaleSample == SpeakerSpec => NothingStaleIsHeard
<1>1. SpeakerInd /\ [SpeakerNext]_speakerVars
        => \A i \in (Len(heard) + 1)..Len(heard') : heard'[i] > stale
  <2> SUFFICES ASSUME SpeakerInd, [SpeakerNext]_speakerVars
               PROVE  \A i \in (Len(heard) + 1)..Len(heard') : heard'[i] > stale
    OBVIOUS
  <2>1. CASE FillAndFeedAec
    BY <2>1, FillStep
  <2>2. CASE heard' = heard
    <3>1. Len(heard) \in Nat
      BY DEF SpeakerInd, SpeakerTypeOK
    <3>2. QED
      BY <2>2, <3>1
  <2>3. QED
    BY <2>1, <2>2 DEF SpeakerNext, HostCalls, DeviceCallback, PushModelPcm, ClearSpeaker, LockBuffer, Extend,
       ClearBuffer, StartSpeaker, StopSpeaker, BeginFill, speakerVars
<1>2. SpeakerSpec => []SpeakerInd
  BY SpeakerStarts, SpeakerStep, PTL DEF SpeakerSpec
<1>3. QED
  BY <1>1, <1>2, PTL DEF SpeakerSpec, NothingStaleIsHeard

-----------------------------------------------------------------------------
(* Division.                                                               *)

LEMMA Quotient ==
  ASSUME NEW m \in Int, m > 0, NEW a \in Int
  PROVE  a = m * (a \div m) + (a % m)
  BY Z3
LEMMA Division ==
  ASSUME NEW m \in Nat \ {0}, NEW a \in Int
  PROVE  a \div m \in Int /\ a % m \in Nat /\ a % m < m /\ a = m * (a \div m) + (a % m)
<1>1. m \in Int /\ m > 0
  OBVIOUS
<1>2. a \div m \in Int /\ a % m \in Nat /\ a % m < m
  OBVIOUS
<1>3. a = m * (a \div m) + (a % m)
  BY <1>1, Quotient
<1>4. QED
  BY <1>2, <1>3
LEMMA DivNat ==
  ASSUME NEW m \in Nat \ {0}, NEW a \in Nat
  PROVE  a \div m \in Nat
  OBVIOUS
LEMMA Dist ==
  ASSUME NEW m \in Int, NEW a \in Int, NEW b \in Int
  PROVE  m * (a + b) = m * a + m * b /\ m * a \in Int /\ m * (a - b) = m * a - m * b
  OBVIOUS
LEMMA Mono ==
  ASSUME NEW m \in Nat, NEW a \in Int, NEW b \in Int, a <= b
  PROVE  m * a <= m * b
  OBVIOUS
LEMMA Multiple ==
  ASSUME NEW m \in Nat \ {0}, NEW k \in Int
  PROVE  (m * k) % m = 0
<1> DEFINE z == m * k
           d == z \div m
           r == z % m
<1>1. z \in Int /\ d \in Int /\ r \in Nat /\ r < m /\ z = m * d + r
  BY Division
<1> HIDE DEF d, r
<1>2. m * (k - d) = r
  BY <1>1, Dist
<1>3. k - d <= 0
  BY <1>1, <1>2, Mono
<1>4. k - d >= 0
  BY <1>1, <1>2, Mono
<1>5. k - d = 0
  BY <1>1, <1>3, <1>4
<1>6. QED
  BY <1>2, <1>5 DEF r
LEMMA Shift ==
  ASSUME NEW m \in Nat \ {0}, NEW a \in Int, NEW k \in Int, a % m = 0
  PROVE  (a + m * k) % m = 0
<1>1. a \div m \in Int /\ a = m * (a \div m)
  BY Division
<1>2. a + m * k = m * (a \div m + k) /\ a \div m + k \in Int
  BY <1>1, Dist
<1>3. QED
  BY <1>1, <1>2, Multiple

-----------------------------------------------------------------------------
(* The state of the capture.                                               *)

\* Of stream w: the samples cut into chunks, and those of chunks its callback has
\* already offered.
Cut(w) == made[w] - Len(pending[w])

Offered(w) == Cut(w) - ChunkSize * Len(outbox[w])

\* What waits for the next buffer are the samples made last.
PendingIsNext(w) == \A j \in 1..Len(pending[w]) : pending[w][j] = Cut(w) + j

\* What is still to offer are the chunks after those offered.
OutboxIsNext(w) ==
  \A k \in 1..Len(outbox[w]) :
    /\ Len(outbox[w][k]) = ChunkSize
    /\ \A i \in 1..ChunkSize : outbox[w][k][i] = Offered(w) + ChunkSize * (k - 1) + i

\* What was offered is heard or dropped, and is whole chunks.
OfferedIsKnown(w) ==
  /\ Offered(w) \in Nat /\ Offered(w) % ChunkSize = 0
  /\ SamplesHeard(w) \cup overrun[w] = 1..Offered(w)
  /\ SamplesHeard(w) \cap overrun[w] = {}

StreamInd(w) == PendingIsNext(w) /\ OutboxIsNext(w) /\ OfferedIsKnown(w)

\* The chunks heard are whole, and those of one stream in the order they were made.
HeardWell ==
  /\ \A k \in 1..Len(Heard) : WholeChunk(Heard[k].samples)
  /\ \A k, m \in 1..Len(Heard) :
       k < m /\ Heard[k].stream = Heard[m].stream => EndsBefore(Heard[k].samples, Heard[m].samples[1])

CaptureInd == CaptureTypeOK /\ HeardWell /\ \A w \in CaptureStreams : StreamInd(w)

LEMMA Sizes == ChunkSize \in Nat \ {0} /\ Frame \in Nat \ {0} /\ MaxSamples \in Nat /\ ChannelCap \in Nat \ {0}
  BY CaptureAssumption DEF ChunkSize

\* The buffers of one stream.
LEMMA StreamTyped ==
  ASSUME CaptureTypeOK, NEW w \in CaptureStreams
  PROVE  /\ made[w] \in Nat /\ made[w] <= MaxSamples
         /\ pending[w] \in Seq(CaptureSamples) /\ Len(pending[w]) \in Nat /\ Len(pending[w]) < ChunkSize
         /\ outbox[w] \in Seq(Seq(CaptureSamples)) /\ Len(outbox[w]) \in Nat
         /\ Cut(w) \in Int /\ ChunkSize * Len(outbox[w]) \in Nat /\ Offered(w) \in Int
<1>1. /\ made[w] \in Nat /\ made[w] <= MaxSamples
      /\ pending[w] \in Seq(CaptureSamples) /\ Len(pending[w]) < ChunkSize
      /\ outbox[w] \in Seq(Seq(CaptureSamples))
  BY Sizes DEF CaptureTypeOK
<1>2. Len(pending[w]) \in Nat /\ Len(outbox[w]) \in Nat
  BY <1>1
<1>3. Cut(w) \in Int /\ ChunkSize * Len(outbox[w]) \in Nat
  BY <1>1, <1>2, Sizes DEF Cut
<1>4. QED
  BY <1>1, <1>2, <1>3 DEF Offered

LEMMA HeardTyped ==
  ASSUME CaptureTypeOK
  PROVE  /\ Heard \in Seq(CapturedChunks) /\ Len(Heard) \in Nat
         /\ \A k \in 1..Len(Heard) : /\ Heard[k] \in CapturedChunks /\ Heard[k].stream \in CaptureStreams
                                     /\ Heard[k].samples \in Seq(CaptureSamples)
<1>1. Heard \in Seq(CapturedChunks)
  BY DEF CaptureTypeOK, Heard
<1>2. Len(Heard) \in Nat /\ \A k \in 1..Len(Heard) : Heard[k] \in CapturedChunks
  BY <1>1, Members
<1>3. \A c \in CapturedChunks : c.stream \in CaptureStreams /\ c.samples \in Seq(CaptureSamples)
  BY DEF CapturedChunks
<1>4. QED
  BY <1>1, <1>2, <1>3

\* The samples a chunk has in the range of natural numbers.
LEMMA InChunk ==
  ASSUME NEW i \in 1..ChunkSize, NEW k \in Nat \ {0}, NEW n \in Nat, k <= n
  PROVE  ChunkSize * (k - 1) \in Nat /\ ChunkSize * (k - 1) + i <= ChunkSize * n /\ ChunkSize * (k - 1) + ChunkSize <= ChunkSize * n
<1> DEFINE m == ChunkSize
<1>1. m \in Nat \ {0}
  BY Sizes
<1>2. i <= m
  OBVIOUS
<1> HIDE DEF m
<1>3. m * (k - 1) = m * k - m * 1 /\ m * k \in Int /\ m * 1 = m
  BY <1>1, Dist
<1>4. m * k <= m * n /\ m * n \in Int
  BY <1>1, Mono
<1>5. m * (k - 1) \in Nat
  BY <1>1
<1>6. QED
  BY <1>1, <1>2, <1>3, <1>4, <1>5 DEF m

\* Every sample of a run of n chunks is in one of them.
LEMMA OfChunk ==
  ASSUME NEW n \in Nat, NEW x \in Nat \ {0}, x <= ChunkSize * n
  PROVE  \E k \in 1..n, i \in 1..ChunkSize : x = ChunkSize * (k - 1) + i
<1> DEFINE m == ChunkSize
           q == (x - 1) \div m
           r == (x - 1) % m
<1>1. m \in Nat \ {0}
  BY Sizes
<1>2. q \in Nat /\ r \in Nat /\ r < m /\ x - 1 = m * q + r
  BY <1>1, Division, DivNat
<1> HIDE DEF q, r
<1>3. q < n
  <2>1. SUFFICES ASSUME n <= q PROVE FALSE
    BY <1>2
  <2>2. m * n <= m * q /\ m * n \in Int /\ m * q \in Int
    BY <1>1, <1>2, <2>1, Mono
  <2> HIDE DEF m
  <2>3. x <= m * n
    BY DEF m
  <2>4. QED
    BY <1>2, <2>2, <2>3
<1>4. q + 1 \in 1..n /\ r + 1 \in 1..m /\ (q + 1) - 1 = q
  BY <1>1, <1>2, <1>3
<1>5. x = m * ((q + 1) - 1) + (r + 1)
  <2> DEFINE z == m * q
  <2>1. z \in Int /\ x - 1 = z + r
    BY <1>1, <1>2
  <2> HIDE DEF z
  <2>2. x = z + (r + 1)
    BY <1>2, <2>1
  <2>3. m * ((q + 1) - 1) = z
    BY <1>4 DEF z
  <2>4. QED
    BY <2>2, <2>3
<1>6. QED
  BY <1>4, <1>5

\* The buffers of a stream hold what it made and has not offered.
LEMMA HeldIsTheRest ==
  ASSUME CaptureInd, NEW w \in CaptureStreams
  PROVE  SamplesHeld(w) = (Offered(w) + 1)..made[w]
<1> DEFINE o == Offered(w)
           m == ChunkSize
           l == Len(outbox[w])
           p == Len(pending[w])
<1>1. /\ o \in Nat /\ m \in Nat \ {0} /\ l \in Nat /\ p \in Nat /\ made[w] \in Nat /\ m * l \in Nat
      /\ Cut(w) = made[w] - p /\ o = Cut(w) - m * l
  BY StreamTyped, Sizes DEF CaptureInd, StreamInd, OfferedIsKnown, Offered, Cut
<1>2. \A k \in 1..l, i \in 1..m : outbox[w][k][i] = o + m * (k - 1) + i
  BY DEF CaptureInd, StreamInd, OutboxIsNext
<1>3. \A j \in 1..p : pending[w][j] = Cut(w) + j
  BY DEF CaptureInd, StreamInd, PendingIsNext
<1>4. ASSUME NEW n \in SamplesHeld(w) PROVE n \in (o + 1)..made[w]
  <2>1. CASE \E k \in 1..l, i \in 1..m : n = outbox[w][k][i]
    <3>1. PICK k \in 1..l, i \in 1..m : n = outbox[w][k][i]
      BY <2>1
    <3> DEFINE b == m * (k - 1)
               t == m * l
    <3>2. b \in Nat /\ b + i <= t /\ t \in Nat
      <4>1. k \in Nat \ {0} /\ k <= l
        BY <1>1
      <4>2. QED
        BY <1>1, <4>1, InChunk
    <3>3. n = o + b + i
      BY <1>2, <3>1
    <3>4. o = Cut(w) - t /\ Cut(w) = made[w] - p /\ Cut(w) \in Int /\ t \in Nat /\ p \in Nat /\ made[w] \in Nat
      BY <1>1
    <3> HIDE DEF b, t, o, p
    <3>5. i \in Nat /\ i >= 1 /\ o \in Nat /\ p \in Nat /\ made[w] \in Nat
      BY <1>1
    <3>6. n \in Int /\ n >= o + 1 /\ n <= o + t
      BY <3>2, <3>3, <3>5
    <3>7. o + t + p = made[w]
      BY <3>4
    <3>8. QED
      BY <3>2, <3>5, <3>6, <3>7
  <2>2. CASE \E j \in 1..p : n = pending[w][j]
    <3>1. PICK j \in 1..p : n = pending[w][j]
      BY <2>2
    <3>2. n = Cut(w) + j
      BY <1>3, <3>1
    <3> DEFINE t == m * l
    <3>3. o = Cut(w) - t /\ Cut(w) = made[w] - p /\ t \in Nat /\ o \in Nat /\ made[w] \in Nat /\ Cut(w) \in Int
          /\ j \in Nat \ {0} /\ j <= p /\ p \in Nat
      BY <1>1
    <3> HIDE DEF t, o, p
    <3>4. n \in Int /\ o + 1 <= n /\ n <= made[w]
      BY <3>2, <3>3
    <3>5. QED
      BY <3>3, <3>4
  <2>3. QED
    BY <2>1, <2>2 DEF SamplesHeld
<1>5. ASSUME NEW n \in (o + 1)..made[w] PROVE n \in SamplesHeld(w)
  <2>1. CASE n <= Cut(w)
    <3>1. n - o \in Nat \ {0} /\ n - o <= m * l /\ n \in Int
      <4> DEFINE t == m * l
      <4>1. o = Cut(w) - t /\ t \in Nat /\ o \in Nat /\ made[w] \in Nat /\ Cut(w) \in Int
        BY <1>1
      <4> HIDE DEF t, o, p, m, l
      <4>2. n \in Int /\ o + 1 <= n
        BY <1>5, <4>1
      <4>3. n - o \in Nat \ {0} /\ n - o <= t /\ n \in Int
        BY <2>1, <4>1, <4>2
      <4>4. QED
        BY <4>3 DEF t
    <3>2. PICK k \in 1..l, i \in 1..m : n - o = m * (k - 1) + i
      BY <1>1, <3>1, OfChunk
    <3>3. outbox[w][k][i] = n
      <4> DEFINE b == m * (k - 1)
      <4>1. b \in Int
        BY <1>1
      <4>2. outbox[w][k][i] = o + b + i /\ n - o = b + i /\ o \in Int /\ n \in Int /\ i \in Int
        BY <1>1, <1>2, <3>1, <3>2
      <4> HIDE DEF b, o, m, l
      <4>3. QED
        BY <4>1, <4>2
    <3>4. QED
      BY <3>3 DEF SamplesHeld
  <2>2. CASE ~(n <= Cut(w))
    <3>1. n - Cut(w) \in 1..p /\ Cut(w) + (n - Cut(w)) = n
      <4> HIDE DEF o, m, l, p
      <4>1. QED
        BY <1>1, <1>5, <2>2
    <3>2. pending[w][n - Cut(w)] = n
      BY <1>3, <3>1
    <3>3. QED
      BY <3>1, <3>2 DEF SamplesHeld
  <2>3. QED
    BY <2>1, <2>2
<1>6. QED
  BY <1>4, <1>5

-----------------------------------------------------------------------------
(* Draining.                                                               *)

\* What a buffer of a device becomes.
LEMMA ResampleIsNat ==
  ASSUME NEW n \in Nat, NEW from \in Nat \ {0}, NEW to \in Nat \ {0}
  PROVE  LinearResample(n, from, to) \in Nat
<1>1. n * to \in Nat
  OBVIOUS
<1>2. (n * to) \div from \in Nat
  BY <1>1, DivNat
<1>3. QED
  BY <1>2 DEF LinearResample

\* Chunk after chunk of the run of samples that follows base, and the rest of it.
LEMMA Drained ==
  ASSUME NEW s \in Seq(CaptureSamples), NEW base \in Nat, \A k \in 1..Len(s) : s[k] = base + k
  PROVE  LET q == Len(s) \div ChunkSize
             r == Len(s) % ChunkSize
         IN  /\ q \in Nat /\ r \in Nat /\ r < ChunkSize /\ Len(s) = ChunkSize * q + r
             /\ DrainChunks(s) \in Seq(Seq(CaptureSamples)) /\ Len(DrainChunks(s)) = q
             /\ \A i \in 1..q : /\ Len(DrainChunks(s)[i]) = ChunkSize
                                /\ \A j \in 1..ChunkSize : DrainChunks(s)[i][j] = base + ChunkSize * (i - 1) + j
             /\ RestOf(s) \in Seq(CaptureSamples) /\ Len(RestOf(s)) = r
             /\ \A j \in 1..r : RestOf(s)[j] = base + Len(s) - r + j
<1> DEFINE m == ChunkSize
           q == Len(s) \div m
           r == Len(s) % m
           d == DrainChunks(s)
<1>1. m \in Nat \ {0} /\ Len(s) \in Nat
  BY Sizes
<1> HIDE DEF m
<1>2. q \in Nat /\ r \in Nat /\ r < m /\ Len(s) = m * q + r
  <2>1. q \in Nat
    BY <1>1, DivNat
  <2>2. r \in Nat /\ r < m /\ Len(s) = m * q + r
    BY <1>1, Division
  <2>3. QED
    BY <2>1, <2>2
<1> HIDE DEF q, r
<1>3. ASSUME NEW i \in 1..q
      PROVE  /\ ChunkOf(s, i) \in Seq(CaptureSamples) /\ Len(ChunkOf(s, i)) = m
             /\ \A j \in 1..m : ChunkOf(s, i)[j] = base + m * (i - 1) + j
  <2>1. m * (i - 1) \in Nat /\ m * (i - 1) + m = m * i /\ m * i <= m * q /\ (i - 1) * m = m * (i - 1)
    <3>1. i \in Int /\ q \in Int /\ i - 1 \in Nat /\ m \in Nat /\ i <= q
      BY <1>1, <1>2
    <3>2. m * i <= m * q
      BY <3>1, Mono
    <3>3. m * (i - 1) = m * i - m * 1
      BY <3>1, Dist
    <3>4. m * (i - 1) \in Nat /\ (i - 1) * m = m * (i - 1) /\ m * 1 = m /\ m * i \in Int
      BY <3>1
    <3>5. QED
      BY <3>1, <3>2, <3>3, <3>4
  <2> DEFINE k == m * (i - 1)
  <2>2. \A j \in 1..m : k + j \in 1..Len(s)
    <3>1. m * i <= Len(s) /\ k + m = m * i /\ k \in Nat /\ m * i \in Int
      BY <1>1, <1>2, <2>1
    <3> HIDE DEF k
    <3>2. k + m <= Len(s)
      BY <3>1
    <3>3. QED
      BY <1>1, <3>1, <3>2
  <2>3. ChunkOf(s, i) = [j \in 1..m |-> s[k + j]]
    BY <2>1 DEF ChunkOf, m
  <2> HIDE DEF k
  <2>4. \A j \in 1..m : s[k + j] \in CaptureSamples /\ s[k + j] = base + (k + j)
    BY <2>2
  <2>5. ChunkOf(s, i) \in Seq(CaptureSamples) /\ Len(ChunkOf(s, i)) = m
    BY <1>1, <2>3, <2>4
  <2>6. \A j \in 1..m : ChunkOf(s, i)[j] = base + k + j
    <3>1. k \in Nat
      BY <2>1 DEF k
    <3>2. \A j \in 1..m : ChunkOf(s, i)[j] = s[k + j]
      BY <2>3
    <3>3. \A j \in 1..m : ChunkOf(s, i)[j] = base + (k + j) /\ j \in Int
      BY <2>4, <3>2
    <3>4. QED
      BY <3>1, <3>3
  <2>7. QED
    BY <2>5, <2>6 DEF k
<1>4. d = [i \in 1..q |-> ChunkOf(s, i)]
  BY DEF DrainChunks, q, m
<1>5. d \in Seq(Seq(CaptureSamples)) /\ Len(d) = q /\ \A i \in 1..q : d[i] = ChunkOf(s, i)
  BY <1>2, <1>3, <1>4
<1>6. RestOf(s) = [j \in 1..r |-> s[Len(s) - r + j]]
  BY DEF RestOf, r, m
<1>7. Len(s) - r \in Nat
  <2>1. m * q \in Nat
    BY <1>1, <1>2
  <2>2. QED
    BY <1>2, <2>1
<1>8. \A j \in 1..r : Len(s) - r + j \in 1..Len(s)
  BY <1>1, <1>2, <1>7
<1>9. \A j \in 1..r : s[Len(s) - r + j] \in CaptureSamples /\ s[Len(s) - r + j] = base + (Len(s) - r + j)
  BY <1>8
<1>10. /\ RestOf(s) \in Seq(CaptureSamples) /\ Len(RestOf(s)) = r
  BY <1>2, <1>6, <1>9
<1>11. \A j \in 1..r : RestOf(s)[j] = base + Len(s) - r + j
  <2>1. \A j \in 1..r : RestOf(s)[j] = base + (Len(s) - r + j) /\ j \in Int
    BY <1>6, <1>9
  <2>2. QED
    BY <1>1, <1>2, <2>1
<1>12. QED
  BY <1>2, <1>3, <1>5, <1>10, <1>11 DEF q, r, m

LEMMA CaptureGivesInv == CaptureInd => CaptureInv
<1> SUFFICES ASSUME CaptureInd PROVE ChunksAreStable /\ HeardInOrder /\ SamplesAccounted
  BY DEF CaptureInd, CaptureInv
<1> DEFINE m == ChunkSize
<1>1. m \in Nat \ {0}
  BY Sizes
\* A chunk of a stream's outbox is a run, whole chunks from where the stream began.
<1>2. ASSUME NEW w \in CaptureStreams, NEW k \in 1..Len(outbox[w])
      PROVE  /\ WholeChunk(outbox[w][k]) /\ Offered(w) \in Nat /\ m * (k - 1) \in Nat
             /\ outbox[w][k][1] = Offered(w) + m * (k - 1) + 1
             /\ outbox[w][k][m] = Offered(w) + m * (k - 1) + m
  <2> DEFINE o == Offered(w)
             c == outbox[w][k]
             b == m * (k - 1)
  <2>1. o \in Nat /\ o % m = 0 /\ Len(c) = m /\ \A i \in 1..m : c[i] = o + b + i
    BY DEF CaptureInd, StreamInd, OfferedIsKnown, OutboxIsNext
  <2>2. k - 1 \in Nat /\ b \in Nat
    BY <1>1, StreamTyped DEF CaptureInd
  <2>3. (o + b) % m = 0
    <3> HIDE DEF o, m
    <3>1. o \in Int /\ k - 1 \in Int /\ o % m = 0
      BY <2>1, <2>2
    <3>2. (o + m * (k - 1)) % m = 0
      BY <1>1, <3>1, Shift
    <3>3. QED
      BY <3>2
  <2>4. 1 \in 1..m /\ m \in 1..m
    BY <1>1
  <2> HIDE DEF o, c, b, m
  <2>5. c[1] = o + b + 1 /\ c[m] = o + b + m
    BY <2>1, <2>4
  <2>6. c[1] - 1 = o + b /\ \A i \in 1..m : c[i] = c[1] + i - 1
    BY <2>1, <2>2, <2>5
  <2>7. QED
    BY <2>1, <2>2, <2>3, <2>5, <2>6 DEF WholeChunk, o, c, b, m
<1>3. ChunksAreStable
  BY <1>2 DEF ChunksAreStable, CaptureInd, HeardWell
<1>4. SamplesAccounted
  <2>1. SUFFICES ASSUME NEW w \in CaptureStreams
                 PROVE  /\ SamplesHeard(w) \cup SamplesHeld(w) \cup overrun[w] = 1..made[w]
                        /\ overrun[w] \cap (SamplesHeard(w) \cup SamplesHeld(w)) = {}
    BY DEF SamplesAccounted
  <2>2. /\ Offered(w) \in Nat /\ SamplesHeard(w) \cup overrun[w] = 1..Offered(w) /\ SamplesHeard(w) \cap overrun[w] = {}
    BY DEF CaptureInd, StreamInd, OfferedIsKnown
  <2>3. SamplesHeld(w) = (Offered(w) + 1)..made[w]
    BY HeldIsTheRest
  <2>4. made[w] \in Nat /\ Offered(w) <= made[w]
    <3> DEFINE t == m * Len(outbox[w])
    <3>1. made[w] \in Nat /\ Len(pending[w]) \in Nat /\ t \in Nat /\ Offered(w) = made[w] - Len(pending[w]) - t
      BY StreamTyped DEF CaptureInd, Offered, Cut
    <3> HIDE DEF t
    <3>2. QED
      BY <2>2, <3>1
  <2>5. 1..made[w] = 1..Offered(w) \cup (Offered(w) + 1)..made[w] /\ 1..Offered(w) \cap (Offered(w) + 1)..made[w] = {}
    BY <2>2, <2>4
  <2>6. QED
    BY <2>2, <2>3, <2>5
<1>5. HeardInOrder
  <2>1. ASSUME NEW w \in CaptureStreams, NEW k \in 1..Len(Heard), Heard[k].stream = w, NEW n \in SamplesHeld(w)
        PROVE  EndsBefore(Heard[k].samples, n)
    <3>1. m \in 1..m
      BY <1>1
    <3>2. Heard[k].samples[m] \in SamplesHeard(w)
      BY <2>1, <3>1 DEF SamplesHeard
    <3>3. Heard[k].samples[m] \in 1..Offered(w) /\ Offered(w) \in Nat
      BY <3>2 DEF CaptureInd, StreamInd, OfferedIsKnown
    <3>4. n \in (Offered(w) + 1)..made[w]
      BY <2>1, HeldIsTheRest
    <3>5. Heard[k].samples[m] < n
      BY <3>3, <3>4, StreamTyped DEF CaptureInd
    <3>6. QED
      BY <3>5 DEF EndsBefore
  <2>2. ASSUME NEW w \in CaptureStreams, NEW k \in 1..Len(outbox[w]), NEW l \in 1..Len(outbox[w]), k < l
        PROVE  EndsBefore(outbox[w][k], outbox[w][l][1])
    <3>1. Len(outbox[w]) \in Nat
      BY StreamTyped DEF CaptureInd
    <3>2. k \in Nat \ {0} /\ l - 1 \in Nat /\ k <= l - 1 /\ m \in 1..m
      BY <1>1, <2>2, <3>1
    <3> DEFINE o == Offered(w)
               a == m * (k - 1)
               b == m * (l - 1)
    <3>3. a + m <= b /\ a \in Nat
      BY <3>2, InChunk
    <3>4. o \in Nat /\ b \in Nat /\ outbox[w][k][m] = o + a + m /\ outbox[w][l][1] = o + b + 1
      BY <1>2, <2>2
    <3> HIDE DEF o, a, b, m
    <3>5. outbox[w][k][m] < outbox[w][l][1]
      BY <1>1, <3>3, <3>4
    <3>6. QED
      BY <3>5 DEF EndsBefore, m
  <2>3. ASSUME NEW w \in CaptureStreams, NEW k \in 1..Len(outbox[w]), NEW j \in 1..Len(pending[w])
        PROVE  EndsBefore(outbox[w][k], pending[w][j])
    <3> DEFINE o == Offered(w)
               a == m * (k - 1)
               t == m * Len(outbox[w])
    <3>1. Len(outbox[w]) \in Nat /\ Len(pending[w]) \in Nat /\ Cut(w) \in Int /\ t \in Nat /\ o = Cut(w) - t
      BY StreamTyped DEF CaptureInd, Offered
    <3>2. k \in Nat \ {0} /\ k <= Len(outbox[w]) /\ m \in 1..m
      BY <1>1, <3>1
    <3>3. a + m <= t /\ a \in Nat
      BY <3>1, <3>2, InChunk
    <3>4. o \in Nat /\ outbox[w][k][m] = o + a + m
      BY <1>2
    <3>5. pending[w][j] = Cut(w) + j /\ j \in Nat \ {0}
      BY <3>1 DEF CaptureInd, StreamInd, PendingIsNext
    <3> HIDE DEF o, a, t, m
    <3>6. outbox[w][k][m] < pending[w][j]
      BY <1>1, <3>1, <3>3, <3>4, <3>5
    <3>7. QED
      BY <3>6 DEF EndsBefore, m
  <2>4. QED
    BY <2>1, <2>2, <2>3 DEF HeardInOrder, CaptureInd, HeardWell
<1>6. QED
  BY <1>3, <1>4, <1>5

LEMMA CaptureStarts == CaptureInit => CaptureInd
<1> SUFFICES ASSUME CaptureInit PROVE CaptureInd
  OBVIOUS
<1>1. 0 < ChunkSize /\ 0 <= ChannelCap /\ 0 \in 0..MaxToggles /\ 0 \in 0..MaxSamples
  BY Sizes, CaptureAssumption
<1>2. Heard = <<>> /\ Len(Heard) = 0
  BY DEF CaptureInit, Heard
<1>3. CaptureTypeOK
  <2>1. chan \in Seq(CapturedChunks) /\ Len(chan) = 0 /\ received \in Seq(CapturedChunks)
    BY DEF CaptureInit
  <2>2. /\ pending \in [CaptureStreams -> Seq(CaptureSamples)] /\ \A w \in CaptureStreams : Len(pending[w]) = 0
        /\ outbox \in [CaptureStreams -> Seq(Seq(CaptureSamples))]
    BY DEF CaptureInit
  <2>3. QED
    BY <1>1, <2>1, <2>2 DEF CaptureInit, CaptureTypeOK
<1>4. HeardWell
  BY <1>2 DEF HeardWell
<1>5. ASSUME NEW w \in CaptureStreams PROVE StreamInd(w)
  <2>1. made[w] = 0 /\ Len(pending[w]) = 0 /\ Len(outbox[w]) = 0 /\ overrun[w] = {}
    BY DEF CaptureInit
  <2>2. ChunkSize * 0 = 0 /\ 0 % ChunkSize = 0
    BY Sizes
  <2>3. Cut(w) = 0 /\ Offered(w) = 0
    BY <2>1, <2>2 DEF Cut, Offered
  <2>4. SamplesHeard(w) = {}
    BY <1>2 DEF SamplesHeard
  <2>5. QED
    BY <2>1, <2>2, <2>3, <2>4 DEF StreamInd, PendingIsNext, OutboxIsNext, OfferedIsKnown
<1>6. QED
  BY <1>3, <1>4, <1>5 DEF CaptureInd

-----------------------------------------------------------------------------
(* The streams.                                                            *)

\* A stream whose buffers, and whose chunks heard, stay as they are.
LEMMA StreamKept ==
  ASSUME NEW w, StreamInd(w), ChunkSize' = ChunkSize, SamplesHeard(w)' = SamplesHeard(w),
         made'[w] = made[w], pending'[w] = pending[w], outbox'[w] = outbox[w], overrun'[w] = overrun[w]
  PROVE  StreamInd(w)'
<1>1. Cut(w)' = Cut(w) /\ Offered(w)' = Offered(w)
  BY DEF Cut, Offered
<1>2. QED
  BY <1>1 DEF StreamInd, PendingIsNext, OutboxIsNext, OfferedIsKnown

\* What is heard depends on the two queues only as one.
LEMMA SameHeard ==
  ASSUME Heard' = Heard, UNCHANGED captureHost
  PROVE  ChunkSize' = ChunkSize /\ (HeardWell => HeardWell') /\ \A w : SamplesHeard(w)' = SamplesHeard(w)
<1>1. ChunkSize' = ChunkSize
  BY DEF ChunkSize, Passthrough
<1>2. QED
  BY <1>1 DEF HeardWell, SamplesHeard, WholeChunk, EndsBefore

LEMMA BuffersKept ==
  ASSUME CaptureInd, CaptureTypeOK', Heard' = Heard, UNCHANGED <<captureHost, made, pending, outbox, overrun>>
  PROVE  CaptureInd'
<1>1. HeardWell' /\ \A w \in CaptureStreams : StreamInd(w)'
  BY SameHeard, StreamKept DEF CaptureInd
<1>2. QED
  BY <1>1 DEF CaptureInd

\* The callback's samples go on from those that waited.
LEMMA EmitStep ==
  ASSUME CaptureInd, NEW w \in CaptureStreams, NEW n \in Nat, outbox[w] = <<>>, EmitSamples(w, n)
  PROVE  CaptureInd'
<1> DEFINE S == CaptureSamples
           p == Len(pending[w])
           f == FreshOutput(made[w], n)
           s == pending[w] \o f
           base == Cut(w)
           d == DrainChunks(s)
           q == Len(s) \div ChunkSize
           r == Len(s) % ChunkSize
           m == ChunkSize
<1>1. /\ pending[w] \in Seq(S) /\ p \in Nat /\ made[w] \in Nat /\ m \in Nat \ {0} /\ MaxSamples \in Nat
      /\ base \in Int /\ base = made[w] - p
  BY Sizes, StreamTyped DEF CaptureInd, Cut
<1>2. /\ made[w] + n <= MaxSamples
      /\ made' = [made EXCEPT ![w] = @ + n] /\ outbox' = [outbox EXCEPT ![w] = d]
      /\ pending' = [pending EXCEPT ![w] = RestOf(s)]
      /\ UNCHANGED <<captureHost, toggles, live, captureSource, chan, received, overrun>>
  BY DEF EmitSamples
<1>3. f \in Seq(S) /\ Len(f) = n /\ \A i \in 1..n : f[i] = made[w] + i
  BY <1>1, <1>2 DEF FreshOutput, CaptureSamples
<1> HIDE DEF f
<1>4. s \in Seq(S) /\ Len(s) = p + n /\ Len(s) \in Nat
  <2>1. s \in Seq(S) /\ Len(s) = Len(pending[w]) + Len(f)
    <3>1. pending[w] \in Seq(S) /\ f \in Seq(S)
      BY <1>1, <1>3
    <3> HIDE DEF S
    <3>2. QED
      BY <3>1, Joined
  <2>2. QED
    BY <1>1, <1>3, <2>1
<1>5. \A k \in 1..Len(s) : s[k] = base + k
  <2>1. TAKE k \in 1..Len(s)
  <2>2. CASE k \in 1..p
    <3>1. s[k] = pending[w][k]
      BY <1>1, <1>3, <2>2, Joined
    <3>2. QED
      BY <2>2, <3>1 DEF CaptureInd, StreamInd, PendingIsNext
  <2>3. CASE k \notin 1..p
    <3>1. k - p \in 1..n /\ s[k] = f[k - p]
      BY <1>1, <1>3, <2>3, Joined
    <3>2. s[k] = made[w] + (k - p) /\ k \in Int
      BY <1>3, <3>1
    <3>3. QED
      BY <1>1, <3>2
  <2>4. QED
    BY <2>2, <2>3
<1>6. Offered(w) = base /\ base \in Nat
  <2>1. Len(outbox[w]) = 0 /\ m * 0 = 0 /\ Offered(w) \in Nat
    BY <1>1 DEF CaptureInd, StreamInd, OfferedIsKnown
  <2>2. QED
    BY <1>1, <2>1 DEF Offered
<1> HIDE DEF s, base
<1>7. /\ q \in Nat /\ r \in Nat /\ r < m /\ Len(s) = m * q + r
      /\ d \in Seq(Seq(S)) /\ Len(d) = q
      /\ \A i \in 1..q : Len(d[i]) = m /\ \A j \in 1..m : d[i][j] = base + m * (i - 1) + j
      /\ RestOf(s) \in Seq(S) /\ Len(RestOf(s)) = r
      /\ \A j \in 1..r : RestOf(s)[j] = base + Len(s) - r + j
  BY <1>4, <1>5, <1>6, Drained
<1> HIDE DEF d, q, r
<1>8. Heard' = Heard /\ ChunkSize' = m
  BY <1>2 DEF Heard, ChunkSize, Passthrough
<1>9. HeardWell' /\ \A v : SamplesHeard(v)' = SamplesHeard(v)
  BY <1>2, <1>8, SameHeard DEF CaptureInd
<1>10. CaptureTypeOK'
  <2>1. made' \in [CaptureStreams -> 0..MaxSamples]
    BY <1>1, <1>2 DEF CaptureInd, CaptureTypeOK
  <2>2. /\ pending' \in [CaptureStreams -> Seq(CaptureSamples)]
        /\ \A v \in CaptureStreams : Len(pending'[v]) < ChunkSize
    BY <1>2, <1>7 DEF CaptureInd, CaptureTypeOK
  <2>3. outbox' \in [CaptureStreams -> Seq(Seq(CaptureSamples))]
    BY <1>2, <1>7 DEF CaptureInd, CaptureTypeOK
  <2>4. QED
    BY <1>2, <1>8, <2>1, <2>2, <2>3 DEF CaptureInd, CaptureTypeOK
<1>11. /\ made'[w] = made[w] + n /\ outbox'[w] = d /\ pending'[w] = RestOf(s)
       /\ \A v \in CaptureStreams \ {w} : made'[v] = made[v] /\ outbox'[v] = outbox[v] /\ pending'[v] = pending[v]
  BY <1>2 DEF CaptureInd, CaptureTypeOK
<1>12. StreamInd(w)'
  <2> DEFINE t == m * q
  <2>0. q \in Nat /\ r \in Nat /\ Len(s) = t + r /\ Len(RestOf(s)) = r /\ Len(d) = q
    BY <1>7
  <2>1. t \in Nat /\ p + n = t + r
    <3>1. Len(s) = p + n /\ Len(s) = t + r
      BY <1>4, <2>0, Zenon
    <3>2. m \in Nat /\ q \in Nat
      BY <1>1, <2>0
    <3>3. t \in Nat
      <4> HIDE DEF m
      <4>1. QED
        BY <3>2
    <3>4. QED
      BY <3>1, <3>3, Zenon
  <2>2. Cut(w)' = made[w] + n - r /\ Cut(w)' = base + Len(s) - r
    <3>1. made'[w] = made[w] + n /\ Len(pending'[w]) = r
      BY <1>11, <2>0
    <3>2. Cut(w)' = made[w] + n - r
      BY <1>1, <2>0, <3>1 DEF Cut
    <3>3. made[w] + n - r = base + Len(s) - r
      <4>1. /\ base = made[w] - p /\ Len(s) = p + n /\ made[w] \in Nat /\ p \in Nat /\ r \in Nat
        BY <1>1, <1>4, <2>0
      <4> HIDE DEF p
      <4>2. QED
        BY <4>1
    <3>4. QED
      BY <3>2, <3>3, Zenon
  <2>3. Offered(w)' = Cut(w)' - t
    BY <1>8, <1>11, <2>0 DEF Offered
  <2> HIDE DEF t
  <2>4. Offered(w)' = base
    BY <1>1, <2>0, <2>1, <2>2, <2>3
  <2>5. PendingIsNext(w)'
    BY <1>7, <1>11, <2>2 DEF PendingIsNext
  <2>6. OutboxIsNext(w)'
    BY <1>7, <1>8, <1>11, <2>4 DEF OutboxIsNext
  <2>7. OfferedIsKnown(w)'
    BY <1>2, <1>6, <1>8, <1>9, <2>4 DEF OfferedIsKnown, CaptureInd, StreamInd
  <2>8. QED
    BY <2>5, <2>6, <2>7 DEF StreamInd
<1>13. ASSUME NEW v \in CaptureStreams, v # w PROVE StreamInd(v)'
  BY <1>2, <1>8, <1>9, <1>11, <1>13, StreamKept DEF CaptureInd
<1>14. QED
  BY <1>9, <1>10, <1>12, <1>13 DEF CaptureInd

\* process_mic_samples and process_system_audio_samples make a natural number of samples.
LEMMA ProcessStep ==
  ASSUME CaptureInd, NEW w \in CaptureStreams, ProcessMic(w) \/ ProcessSystem(w)
  PROVE  CaptureInd'
<1>1. CASE ProcessMic(w)
  <2>1. PICK rt \in DeviceRates, n \in Buffers : \E clean \in 0..Frames(n, rt) :
          EmitSamples(w, IF Passthrough THEN clean * Frame ELSE LinearResample(clean * Frame, AecRate, OutRate))
    BY <1>1 DEF ProcessMic
  <2>2. Frames(n, rt) \in Nat
    BY ResampleIsNat, DivNat, CaptureAssumption DEF Frames
  <2>3. PICK clean \in 0..Frames(n, rt) :
          EmitSamples(w, IF Passthrough THEN clean * Frame ELSE LinearResample(clean * Frame, AecRate, OutRate))
    BY <2>1
  <2>4. clean * Frame \in Nat
    BY <2>2, Sizes
  <2>5. LinearResample(clean * Frame, AecRate, OutRate) \in Nat
    BY <2>4, ResampleIsNat, CaptureAssumption
  <2>6. PICK k \in Nat : EmitSamples(w, k)
    BY <2>3, <2>4, <2>5
  <2>7. QED
    BY <1>1, <2>6, EmitStep DEF ProcessMic, Callback
<1>2. CASE ProcessSystem(w)
  <2>1. PICK rt \in DeviceRates, n \in Buffers : EmitSamples(w, LinearResample(n, rt, OutRate))
    BY <1>2 DEF ProcessSystem
  <2>2. LinearResample(n, rt, OutRate) \in Nat
    BY ResampleIsNat, CaptureAssumption
  <2>3. QED
    BY <1>2, <2>1, <2>2, EmitStep DEF ProcessSystem, Callback
<1>3. QED
  BY <1>1, <1>2

-----------------------------------------------------------------------------
(* The channel and the hosts.                                              *)

\* A chunk moves from the front of one queue to the end of the one before.
LEMMA Handover ==
  ASSUME NEW S, NEW a \in Seq(S), NEW b \in Seq(S), b # <<>>
  PROVE  /\ Append(a, Head(b)) \in Seq(S) /\ Tail(b) \in Seq(S) /\ Head(b) \in S
         /\ Append(a, Head(b)) \o Tail(b) = a \o b
<1>1. /\ Len(a) \in Nat /\ Len(b) \in Nat /\ Len(b) > 0
      /\ Tail(b) \in Seq(S) /\ Len(Tail(b)) = Len(b) - 1 /\ \A i \in 1..(Len(b) - 1) : Tail(b)[i] = b[i + 1]
  OBVIOUS
<1>2. Head(b) = b[1] /\ b[1] \in S
  BY <1>1
<1> DEFINE f == Append(a, Head(b))
<1>3. f \in Seq(S) /\ Len(f) = Len(a) + 1 /\ f[Len(a) + 1] = b[1] /\ \A i \in 1..Len(a) : f[i] = a[i]
  BY <1>1, <1>2
<1> HIDE DEF f
<1> DEFINE x == f \o Tail(b)
           y == a \o b
<1>4. x \in Seq(S) /\ y \in Seq(S) /\ Len(x) = Len(y) /\ Len(y) = Len(a) + Len(b)
  BY <1>1, <1>3
<1>5. ASSUME NEW i \in 1..Len(y) PROVE x[i] = y[i]
  <2>1. CASE i \in 1..Len(a)
    <3>1. i \in 1..Len(f)
      BY <1>1, <1>3, <2>1
    <3>2. QED
      BY <1>1, <1>3, <2>1, <3>1, Joined
  <2>2. CASE i = Len(a) + 1
    <3>1. x[i] = f[i] /\ f[i] = b[1]
      BY <1>1, <1>3, <2>2
    <3>2. y[i] = b[1]
      BY <1>1, <2>2
    <3>3. QED
      BY <3>1, <3>2
  <2>3. CASE i > Len(a) + 1
    <3> DEFINE k == i - (Len(a) + 1)
    <3>1. k \in 1..(Len(b) - 1) /\ i = Len(f) + k /\ i = Len(a) + (k + 1) /\ k + 1 \in 1..Len(b)
      BY <1>1, <1>3, <1>4, <2>3
    <3> HIDE DEF k
    <3>2. x[i] = Tail(b)[k]
      <4>1. k \in 1..Len(Tail(b))
        BY <1>1, <3>1
      <4>2. (f \o Tail(b))[Len(f) + k] = Tail(b)[k]
        BY <1>1, <1>3, <4>1, Joined
      <4>3. QED
        BY <3>1, <4>2
    <3>3. y[i] = b[k + 1]
      BY <1>1, <3>1
    <3>4. QED
      BY <1>1, <3>1, <3>2, <3>3
  <2>4. QED
    BY <1>1, <1>4, <2>1, <2>2, <2>3
<1> HIDE DEF x, y
<1>6. x = y
  BY <1>4, <1>5
<1>7. QED
  BY <1>1, <1>2, <1>3, <1>6 DEF f, x, y

\* The callback's first chunk is the one after those offered.
LEMMA OfferStep ==
  ASSUME CaptureInd, NEW w \in CaptureStreams, TrySend(w)
  PROVE  CaptureInd'
<1> DEFINE m == ChunkSize
           o == Offered(w)
           l == Len(outbox[w])
           c == outbox[w][1]
           new == [stream |-> w, samples |-> c]
<1>1. /\ m \in Nat \ {0} /\ o \in Nat /\ o % m = 0
      /\ outbox[w] \in Seq(Seq(CaptureSamples)) /\ outbox[w] # <<>> /\ l \in Nat \ {0} /\ Head(outbox[w]) = c
      /\ c \in Seq(CaptureSamples)
  <2>1. outbox[w] \in Seq(Seq(CaptureSamples)) /\ outbox[w] # <<>>
    BY StreamTyped DEF CaptureInd, TrySend
  <2>2. l \in Nat \ {0} /\ Head(outbox[w]) = c /\ c \in Seq(CaptureSamples)
    BY <2>1
  <2>3. QED
    BY <2>1, <2>2, Sizes DEF CaptureInd, StreamInd, OfferedIsKnown
<1>2. /\ outbox' = [outbox EXCEPT ![w] = Tail(@)]
      /\ UNCHANGED <<captureHost, toggles, live, captureSource, made, pending, received>>
  BY DEF TrySend
<1>3. Len(c) = m /\ \A i \in 1..m : c[i] = o + i
  <2>1. 1 \in 1..l
    BY <1>1
  <2>2. Len(c) = m /\ \A i \in 1..m : c[i] = o + m * (1 - 1) + i
    BY <2>1 DEF CaptureInd, StreamInd, OutboxIsNext
  <2>3. m * (1 - 1) = 0
    BY <1>1
  <2>4. QED
    BY <1>1, <2>2, <2>3
<1>4. WholeChunk(c) /\ c[1] = o + 1 /\ c[m] = o + m /\ {c[i] : i \in 1..m} = (o + 1)..(o + m)
  <2>1. 1 \in 1..m /\ m \in 1..m
    BY <1>1
  <2> HIDE DEF m, o, c
  <2>2. c[1] = o + 1 /\ c[m] = o + m /\ c[1] - 1 = o
    BY <1>1, <1>3, <2>1
  <2>3. \A i \in 1..m : c[i] = c[1] + i - 1
    BY <1>1, <1>3, <2>2
  <2>4. {c[i] : i \in 1..m} = (o + 1)..(o + m)
    <3>1. ASSUME NEW x \in (o + 1)..(o + m) PROVE x \in {c[i] : i \in 1..m}
      <4>1. x - o \in 1..m /\ o + (x - o) = x
        BY <1>1
      <4>2. c[x - o] = x
        BY <1>3, <4>1
      <4>3. QED
        BY <4>1, <4>2
    <3>2. ASSUME NEW i \in 1..m PROVE c[i] \in (o + 1)..(o + m)
      BY <1>1, <1>3
    <3>3. QED
      BY <3>1, <3>2
  <2>5. QED
    BY <1>1, <1>3, <2>2, <2>3, <2>4 DEF WholeChunk, m
<1>5. ChunkSize' = m
  BY <1>2 DEF ChunkSize, Passthrough
<1>6. /\ outbox'[w] = Tail(outbox[w]) /\ Len(outbox'[w]) = l - 1 /\ outbox' \in [CaptureStreams -> Seq(Seq(CaptureSamples))]
      /\ \A k \in 1..(l - 1) : outbox'[w][k] = outbox[w][k + 1]
      /\ \A v \in CaptureStreams \ {w} : outbox'[v] = outbox[v]
  <2>1. outbox \in [CaptureStreams -> Seq(Seq(CaptureSamples))]
    BY DEF CaptureInd, CaptureTypeOK
  <2>2. /\ Tail(outbox[w]) \in Seq(Seq(CaptureSamples)) /\ Len(Tail(outbox[w])) = l - 1
        /\ \A k \in 1..(l - 1) : Tail(outbox[w])[k] = outbox[w][k + 1]
    BY <1>1
  <2>3. outbox'[w] = Tail(outbox[w])
    BY <1>2, <2>1
  <2>4. outbox' \in [CaptureStreams -> Seq(Seq(CaptureSamples))] /\ \A v \in CaptureStreams \ {w} : outbox'[v] = outbox[v]
    BY <1>2, <2>1, <2>2
  <2>5. QED
    BY <2>2, <2>3, <2>4
\* The stream itself has offered one chunk more.
<1>7. Cut(w)' = Cut(w) /\ Offered(w)' = o + m
  <2>1. Cut(w)' = Cut(w) /\ Cut(w) \in Int
    BY <1>2, StreamTyped DEF Cut, CaptureInd
  <2>2. Offered(w)' = Cut(w) - m * (l - 1)
    BY <1>5, <1>6, <2>1 DEF Offered
  <2>3. m * (l - 1) = m * l - m * 1 /\ m * 1 = m /\ m * l \in Int
    <3> HIDE DEF m, l
    <3>1. m \in Int /\ l \in Int /\ m * 1 = m
      BY <1>1
    <3>2. QED
      BY <3>1, Dist
  <2>4. o = Cut(w) - m * l
    BY DEF Offered
  <2> HIDE DEF o, m, l
  <2>5. QED
    BY <1>1, <2>1, <2>2, <2>3, <2>4
<1>8. PendingIsNext(w)'
  BY <1>2, <1>7 DEF CaptureInd, StreamInd, PendingIsNext
<1>9. OutboxIsNext(w)'
  <2>1. SUFFICES ASSUME NEW k \in 1..(l - 1)
                 PROVE  /\ Len(outbox[w][k + 1]) = m
                        /\ \A i \in 1..m : outbox[w][k + 1][i] = (o + m) + m * (k - 1) + i
    BY <1>5, <1>6, <1>7 DEF OutboxIsNext
  <2>2. k + 1 \in 1..l /\ k \in Nat \ {0} /\ (k + 1) - 1 = k
    <3>1. l \in Nat
      BY <1>1
    <3> HIDE DEF l
    <3>2. QED
      BY <3>1
  <2>3. Len(outbox[w][k + 1]) = m /\ \A i \in 1..m : outbox[w][k + 1][i] = o + m * ((k + 1) - 1) + i
    BY <2>2 DEF CaptureInd, StreamInd, OutboxIsNext
  <2> DEFINE a == m * k
             b == m * (k - 1)
  <2>4. b = a - m /\ a \in Int /\ b \in Int
    <3>1. m * (k - 1) = m * k - m * 1 /\ m * 1 = m /\ m * k \in Int
      BY <1>1, <2>2, Dist
    <3>2. QED
      BY <1>1, <3>1
  <2>5. \A i \in 1..m : outbox[w][k + 1][i] = o + a + i
    BY <2>2, <2>3
  <2> HIDE DEF a, b, o, m
  <2>6. o + a = (o + m) + b
    BY <1>1, <2>4
  <2>7. \A i \in 1..m : outbox[w][k + 1][i] = (o + m) + b + i
    BY <2>5, <2>6
  <2>8. QED
    BY <2>3, <2>7 DEF b
<1>10. o + m \in Nat /\ (o + m) % m = 0
  <2> HIDE DEF o, m
  <2>1. (o + m * 1) % m = 0
    <3>1. m \in Nat \ {0} /\ o \in Int /\ 1 \in Int /\ o % m = 0
      BY <1>1
    <3>2. QED
      BY <3>1, Shift
  <2>2. QED
    BY <1>1, <2>1
<1>11. 1..(o + m) = 1..o \cup (o + 1)..(o + m) /\ 1..o \cap (o + 1)..(o + m) = {}
  BY <1>1
<1>12. SamplesHeard(w) \cup overrun[w] = 1..o /\ SamplesHeard(w) \cap overrun[w] = {}
  BY DEF CaptureInd, StreamInd, OfferedIsKnown
\* A chunk that finds no room.
<1>13. CASE /\ overrun' = [overrun EXCEPT ![w] = @ \cup {c[i] : i \in 1..m}] /\ chan' = chan
  <2>1. /\ overrun' \in [CaptureStreams -> SUBSET CaptureSamples] /\ overrun'[w] = overrun[w] \cup (o + 1)..(o + m)
        /\ \A v \in CaptureStreams \ {w} : overrun'[v] = overrun[v]
    <3>1. {c[i] : i \in 1..m} \subseteq CaptureSamples
      BY <1>1, <1>3, Members
    <3>2. overrun \in [CaptureStreams -> SUBSET CaptureSamples]
      BY DEF CaptureInd, CaptureTypeOK
    <3>3. QED
      BY <1>4, <1>13, <3>1, <3>2
  <2>2. Heard' = Heard
    BY <1>2, <1>13 DEF Heard
  <2>3. HeardWell' /\ \A v : SamplesHeard(v)' = SamplesHeard(v)
    BY <1>2, <2>2, SameHeard DEF CaptureInd
  <2>4. CaptureTypeOK'
    BY <1>2, <1>5, <1>6, <1>13, <2>1 DEF CaptureInd, CaptureTypeOK
  <2>5. OfferedIsKnown(w)'
    <3>1. SamplesHeard(w) \cup overrun'[w] = 1..(o + m) /\ SamplesHeard(w) \cap overrun'[w] = {}
      BY <1>11, <1>12, <2>1
    <3>2. QED
      BY <1>5, <1>7, <1>10, <2>3, <3>1 DEF OfferedIsKnown
  <2>6. ASSUME NEW v \in CaptureStreams, v # w PROVE StreamInd(v)'
    BY <1>2, <1>5, <1>6, <2>1, <2>3, <2>6, StreamKept DEF CaptureInd
  <2>7. QED
    BY <1>8, <1>9, <2>3, <2>4, <2>5, <2>6 DEF CaptureInd, StreamInd
\* A chunk that is heard.
<1>14. CASE Len(chan) < ChannelCap /\ chan' = Append(chan, new) /\ overrun' = overrun
  <2> DEFINE h == Len(Heard)
  <2>1. new \in CapturedChunks /\ new.stream = w /\ new.samples = c
    BY <1>1 DEF CapturedChunks
  <2>2. /\ Heard' = Append(Heard, new) /\ h \in Nat /\ Len(Heard') = h + 1
        /\ Heard'[h + 1] = new /\ \A k \in 1..h : Heard'[k] = Heard[k]
    <3>1. received \in Seq(CapturedChunks) /\ chan \in Seq(CapturedChunks) /\ Heard \in Seq(CapturedChunks)
      BY HeardTyped DEF CaptureInd, CaptureTypeOK
    <3> HIDE DEF new
    <3>2. Heard' = Append(Heard, new)
      BY <1>2, <1>14, <2>1, <3>1 DEF Heard
    <3>3. QED
      BY <2>1, <3>1, <3>2
  <2>3. \A k \in 1..(h + 1) : k \in 1..h \/ k = h + 1
    BY <2>2
  <2> HIDE DEF h, new
  <2>4. CaptureTypeOK'
    <3>1. chan' \in Seq(CapturedChunks) /\ Len(chan') <= ChannelCap
      BY <1>14, <2>1, Sizes DEF CaptureInd, CaptureTypeOK
    <3>2. QED
      BY <1>2, <1>5, <1>6, <1>14, <3>1 DEF CaptureInd, CaptureTypeOK
  <2>5. SamplesHeard(w)' = SamplesHeard(w) \cup (o + 1)..(o + m)
    <3>1. SamplesHeard(w)' = {Heard'[k].samples[i] : k \in {x \in 1..(h + 1) : Heard'[x].stream = w}, i \in 1..m}
      BY <1>5, <2>2 DEF SamplesHeard
    <3>2. {x \in 1..(h + 1) : Heard'[x].stream = w} = {x \in 1..h : Heard[x].stream = w} \cup {h + 1}
      BY <2>1, <2>2, <2>3
    <3>3. {Heard'[k].samples[i] : k \in {h + 1}, i \in 1..m} = {c[i] : i \in 1..m}
      BY <2>1, <2>2
    <3>4. {Heard'[k].samples[i] : k \in {x \in 1..h : Heard[x].stream = w}, i \in 1..m} = SamplesHeard(w)
      BY <2>2 DEF SamplesHeard, h, m
    <3>5. QED
      BY <1>4, <3>1, <3>2, <3>3, <3>4
  <2>6. \A v \in CaptureStreams \ {w} : SamplesHeard(v)' = SamplesHeard(v)
    <3>1. SUFFICES ASSUME NEW v \in CaptureStreams \ {w} PROVE SamplesHeard(v)' = SamplesHeard(v)
      OBVIOUS
    <3>2. {x \in 1..(h + 1) : Heard'[x].stream = v} = {x \in 1..h : Heard[x].stream = v}
      BY <2>1, <2>2, <2>3
    <3>3. SamplesHeard(v)' = {Heard'[k].samples[i] : k \in {x \in 1..(h + 1) : Heard'[x].stream = v}, i \in 1..m}
      BY <1>5, <2>2 DEF SamplesHeard
    <3>4. {Heard'[k].samples[i] : k \in {x \in 1..h : Heard[x].stream = v}, i \in 1..m} = SamplesHeard(v)
      BY <2>2 DEF SamplesHeard, h, m
    <3>5. QED
      BY <3>2, <3>3, <3>4
  <2>7. OfferedIsKnown(w)'
    <3>1. SamplesHeard(w)' \cup overrun[w] = 1..(o + m) /\ SamplesHeard(w)' \cap overrun[w] = {}
      BY <1>11, <1>12, <2>5
    <3>2. QED
      BY <1>5, <1>7, <1>10, <1>14, <3>1 DEF OfferedIsKnown
  <2>8. HeardWell'
    <3>1. ASSUME NEW k \in 1..(h + 1) PROVE WholeChunk(Heard[k].samples)'
      <4>1. WholeChunk(Heard'[k].samples)
        BY <1>4, <2>1, <2>2, <2>3 DEF CaptureInd, HeardWell, h
      <4>2. QED
        BY <1>5, <4>1 DEF WholeChunk, m
    <3>2. ASSUME NEW k \in 1..(h + 1), NEW x \in 1..(h + 1), k < x, Heard'[k].stream = Heard'[x].stream
          PROVE  Heard'[k].samples[m] < Heard'[x].samples[1]
      <4>1. k \in 1..h
        BY <2>2, <3>2 DEF h
      <4>2. CASE x \in 1..h
        BY <2>2, <3>2, <4>1, <4>2 DEF CaptureInd, HeardWell, EndsBefore, h, m
      <4>3. CASE x = h + 1
        <5>1. Heard[k].stream = w /\ Heard'[k] = Heard[k] /\ Heard'[x].samples[1] = o + 1
          BY <1>4, <2>1, <2>2, <3>2, <4>1, <4>3
        <5>2. m \in 1..m
          BY <1>1
        <5>3. Heard[k].samples[m] \in SamplesHeard(w)
          BY <4>1, <5>1, <5>2 DEF SamplesHeard, h, m
        <5>4. Heard[k].samples[m] \in 1..o
          BY <1>12, <5>3
        <5>5. QED
          BY <1>1, <5>1, <5>4
      <4>4. QED
        BY <2>3, <4>2, <4>3
    <3>3. ASSUME NEW k \in 1..(h + 1), NEW x \in 1..(h + 1), k < x, Heard'[k].stream = Heard'[x].stream
          PROVE  EndsBefore(Heard[k].samples, Heard[x].samples[1])'
      BY <1>5, <3>2, <3>3 DEF EndsBefore
    <3>4. Len(Heard)' = h + 1
      BY <2>2
    <3>5. QED
      BY <3>1, <3>3, <3>4 DEF HeardWell
  <2>9. ASSUME NEW v \in CaptureStreams, v # w PROVE StreamInd(v)'
    BY <1>2, <1>5, <1>6, <1>14, <2>6, <2>9, StreamKept DEF CaptureInd
  <2>10. QED
    BY <1>8, <1>9, <2>4, <2>7, <2>8, <2>9 DEF CaptureInd, StreamInd
<1>15. QED
  BY <1>1, <1>13, <1>14 DEF TrySend, Offer, ToChunk

LEMMA NextStep == CaptureInd /\ NextCaptured => CaptureInd'
<1> SUFFICES ASSUME CaptureInd, NextCaptured PROVE CaptureInd'
  OBVIOUS
<1>1. received \in Seq(CapturedChunks) /\ chan \in Seq(CapturedChunks) /\ Len(chan) \in Nat /\ Len(chan) <= ChannelCap
  BY DEF CaptureInd, CaptureTypeOK
<1>2. /\ chan # <<>> /\ received' = Append(received, Head(chan)) /\ chan' = Tail(chan)
      /\ UNCHANGED <<captureHost, toggles, live, captureSource, made, pending, outbox, overrun>>
  BY DEF NextCaptured
<1>3. received' \in Seq(CapturedChunks) /\ chan' \in Seq(CapturedChunks) /\ received' \o chan' = received \o chan
  BY <1>1, <1>2, Handover
<1>4. Len(chan') <= ChannelCap /\ Heard' = Heard /\ ChunkSize' = ChunkSize
  <2>1. Len(chan') = Len(chan) - 1
    BY <1>1, <1>2
  <2>2. Heard' = Heard /\ ChunkSize' = ChunkSize
    BY <1>2, <1>3 DEF Heard, ChunkSize, Passthrough
  <2>3. QED
    BY <1>1, <2>1, <2>2, Sizes
<1>5. CaptureTypeOK'
  BY <1>2, <1>3, <1>4 DEF CaptureInd, CaptureTypeOK
<1>6. QED
  BY <1>2, <1>4, <1>5, BuffersKept

\* A new stream has buffers of its own, empty as none has used them.
LEMMA StartStep ==
  ASSUME CaptureInd, NEW source \in {"mic", "system"}, StartStream(source)
  PROVE  CaptureInd'
<1>1. Heard' = Heard /\ ChunkSize' = ChunkSize
  BY DEF StartStream, Heard, ChunkSize, Passthrough
<1>2. toggles' \in 0..MaxToggles /\ live' \subseteq 1..toggles' /\ captureSource' \in [CaptureStreams -> {"mic", "system"}]
  <2>1. toggles \in Nat /\ toggles < MaxToggles /\ MaxToggles \in Nat /\ toggles' = toggles + 1
    BY CaptureAssumption DEF CaptureInd, CaptureTypeOK, StartStream
  <2>2. live' = live \cup {toggles'} /\ live \subseteq 1..toggles
    BY DEF CaptureInd, CaptureTypeOK, StartStream
  <2>3. captureSource' \in [CaptureStreams -> {"mic", "system"}]
    BY DEF CaptureInd, CaptureTypeOK, StartStream
  <2>4. QED
    BY <2>1, <2>2, <2>3
<1>3. CaptureTypeOK'
  BY <1>1, <1>2 DEF CaptureInd, CaptureTypeOK, StartStream
<1>4. QED
  BY <1>1, <1>3, BuffersKept DEF StartStream

LEMMA StreamsDropped ==
  ASSUME CaptureInd, NEW gone, DropStreams(gone)
  PROVE  CaptureInd'
<1>1. Heard' = Heard /\ ChunkSize' = ChunkSize
  BY DEF DropStreams, Heard, ChunkSize, Passthrough
<1>2. CaptureTypeOK'
  BY <1>1 DEF CaptureInd, CaptureTypeOK, DropStreams
<1>3. QED
  BY <1>1, <1>2, BuffersKept DEF DropStreams

LEMMA CaptureStep == CaptureInd /\ [CaptureNext]_captureVars => CaptureInd'
<1> SUFFICES ASSUME CaptureInd, [CaptureNext]_captureVars PROVE CaptureInd'
  OBVIOUS
<1>1. CASE \E w \in CaptureStreams : ProcessMic(w) \/ ProcessSystem(w)
  BY <1>1, ProcessStep
<1>2. CASE \E w \in CaptureStreams : TrySend(w)
  BY <1>2, OfferStep
<1>3. CASE MicOn \/ FirstStream \/ SwitchStream
  BY <1>3, StartStep DEF MicOn, FirstStream, SwitchStream
<1>4. CASE MicOff \/ DropOld
  BY <1>4, StreamsDropped DEF MicOff, DropOld
<1>5. CASE NextCaptured
  BY <1>5, NextStep
<1>6. CASE UNCHANGED captureVars
  <2>1. Heard' = Heard /\ CaptureTypeOK'
    BY <1>6 DEF captureVars, Heard, CaptureInd, CaptureTypeOK, ChunkSize, Passthrough
  <2>2. QED
    BY <1>6, <2>1, BuffersKept DEF captureVars
<1>7. QED
  BY <1>1, <1>2, <1>3, <1>4, <1>5, <1>6 DEF CaptureNext

\* Chunks are runs of consecutive samples of their stream, whole and aligned, whatever
\* the device's buffers (pcm.rs:28-30) and whichever streams overlap on the channel
\* (transcribe/audio.rs:97-98); those of a stream are heard in order, and each of its
\* samples is heard, waits in its buffers or was dropped at a full channel.
THEOREM CaptureIsSound == CaptureSpec => []CaptureInv
<1>1. CaptureSpec => []CaptureInd
  BY CaptureStarts, CaptureStep, PTL DEF CaptureSpec
<1>2. QED
  BY <1>1, CaptureGivesInv, PTL

-----------------------------------------------------------------------------
(* The start-up profile: what a launch writes back resolves by itself.     *)

\* A transport with a model and what its backend insists on.
Settled(access) ==
  \/ /\ access.backend = "gemini"
     /\ access = [backend |-> "gemini", model |-> access.model, key |-> access.key]
     /\ access.model # None /\ Given(access.key)
  \/ /\ access.backend = "vertex"
     /\ access = [backend |-> "vertex", model |-> access.model, location |-> access.location,
                  auth |-> access.auth, token |-> access.token]
     /\ Given(access.model) /\ Given(access.location)
     /\ \/ access.auth = "adc" /\ access.token = None
        \/ access.auth = "static" /\ Given(access.token)

\* A launch that resolves has one (StartupProfile, resolve_startup_config).
LEMMA AccessIsSettled ==
  ASSUME NEW env, NEW profile, Resolves(env, profile)
  PROVE  Settled(Access(env, profile))
<1> USE StartupAssumption
<1>1. CASE Backend(env, profile) = "gemini" /\ Given(Key(env, profile))
  <2>1. Model(env, profile) # None
    BY <1>1 DEF Model, Or
  <2>2. Access(env, profile) = [backend |-> "gemini", model |-> Model(env, profile), key |-> Key(env, profile)]
    BY <1>1 DEF Access
  <2>3. QED
    BY <1>1, <2>1, <2>2 DEF Settled
<1>2. CASE /\ Backend(env, profile) = "vertex"
           /\ Given(Location(env, profile)) /\ Given(Model(env, profile))
           /\ \/ AuthMode(env, profile) = "adc"
              \/ AuthMode(env, profile) = "static" /\ Given(Token(env, profile))
  <2>1. Access(env, profile) =
          [backend |-> "vertex", model |-> Model(env, profile), location |-> Location(env, profile),
           auth |-> AuthMode(env, profile),
           token |-> IF AuthMode(env, profile) = "static" THEN Token(env, profile) ELSE None]
    BY <1>2 DEF Access
  <2>2. QED
    BY <1>2, <2>1 DEF Settled
<1>3. QED
  BY <1>1, <1>2 DEF Resolves

\* What is written back of it is enough for it without any environment (StartupProfile,
\* build_persisted_profile).
LEMMA PersistedResolves ==
  ASSUME NEW access, Settled(access)
  PROVE  Resolves(NoEnv, Persisted(access)) /\ Access(NoEnv, Persisted(access)) = access
<1> USE StartupAssumption
<1> DEFINE p == Persisted(access)
<1>1. \A k \in EnvKeys : NoEnv[k] = None
  BY DEF NoEnv
<1>2. /\ NoEnv["LIVE_BACKEND"] = None /\ NoEnv["GEMINI_MODEL"] = None /\ NoEnv["VERTEX_MODEL"] = None
      /\ NoEnv["GEMINI_API_KEY"] = None /\ NoEnv["VERTEX_LOCATION"] = None /\ NoEnv["VERTEX_AUTH"] = None
      /\ NoEnv["VERTEX_AI_ACCESS_TOKEN"] = None
  BY <1>1 DEF EnvKeys
<1>3. CASE /\ access.backend = "gemini"
           /\ access = [backend |-> "gemini", model |-> access.model, key |-> access.key]
           /\ access.model # None /\ Given(access.key)
  <2>1. p.backend = "gemini" /\ p.model = access.model /\ p.key = access.key
    BY <1>3 DEF Persisted, NoAccess
  <2> HIDE DEF p
  <2>2. /\ Backend(NoEnv, p) = "gemini" /\ Key(NoEnv, p) = access.key /\ Model(NoEnv, p) = access.model
    BY <1>2, <1>3, <2>1 DEF Backend, Key, Model, Or
  <2>3. QED
    BY <1>3, <2>2 DEF Resolves, Access, p
<1>4. CASE /\ access.backend = "vertex"
           /\ access = [backend |-> "vertex", model |-> access.model, location |-> access.location,
                        auth |-> access.auth, token |-> access.token]
           /\ Given(access.model) /\ Given(access.location)
           /\ \/ access.auth = "adc" /\ access.token = None
              \/ access.auth = "static" /\ Given(access.token)
  <2>1. /\ p.backend = "vertex" /\ p.model = access.model /\ p.location = access.location
        /\ p.auth = access.auth /\ p.token = access.token
    BY <1>4 DEF Persisted, NoAccess, AuthStored
  <2> HIDE DEF p
  <2>2. Backend(NoEnv, p) = "vertex"
    BY <1>2, <2>1 DEF Backend, Or
  <2>3. Location(NoEnv, p) = access.location /\ Token(NoEnv, p) = access.token
    BY <1>2, <2>1 DEF Location, Token, Or
  <2>4. Model(NoEnv, p) = access.model
    BY <1>2, <2>1, <2>2 DEF Model, Or
  <2>5. AuthMode(NoEnv, p) = access.auth
    BY <1>2, <1>4, <2>1 DEF AuthMode, Or
  <2>6. Resolves(NoEnv, p)
    BY <1>4, <2>2, <2>3, <2>4, <2>5 DEF Resolves
  <2>7. (IF access.auth = "static" THEN access.token ELSE None) = access.token
    BY <1>4
  <2>8. Access(NoEnv, p) = [backend |-> "vertex", model |-> access.model, location |-> access.location,
                            auth |-> access.auth, token |-> access.token]
    BY <2>2, <2>3, <2>4, <2>5, <2>7 DEF Access
  <2>9. QED
    BY <1>4, <2>6, <2>8 DEF p
<1>5. QED
  BY <1>3, <1>4 DEF Settled

-----------------------------------------------------------------------------
(* The invariant of DesktopDevices.                                        *)

IsProfile(p) ==
  /\ p = [access |-> p.access, mic |-> p.mic, speaker |-> p.speaker, share |-> p.share]
  /\ p.mic \in BOOLEAN /\ p.speaker \in BOOLEAN /\ p.share \in Targets \cup {None}

Desks == [mic : BOOLEAN, speaker : BOOLEAN, share : Targets \cup {None}]

DesktopTypes ==
  /\ IsProfile(disk) /\ IsProfile(memory) /\ IsProfile(startup)
  /\ saveFailed \in BOOLEAN /\ desk \in Desks
  /\ phase \in Audio \cup {"ended", "share", "loop"}

\* The file differs from the copy only after a write has failed, never in the
\* transport of the run under way, which a later launch can resolve.
StoreInv ==
  /\ ~saveFailed => disk = memory
  /\ phase # "ended" =>
       /\ disk.access = memory.access /\ memory.access = Persisted(startup.access)
       /\ Settled(startup.access)

\* How far the devices and the profile have come from what the launch found.
FollowInv ==
  /\ phase \in {"ended", "speaker"} => desk = AllOff
  /\ phase = "speaker" => memory.speaker = startup.speaker
  /\ phase \in {"speaker", "mic"} => ~desk.mic /\ memory.mic \in {FALSE, startup.mic}
  /\ phase \in {"speaker", "mic", "share"} => desk.share = None /\ memory.share = startup.share
  /\ phase \in {"mic", "share", "loop"} => memory.speaker = desk.speaker
  /\ phase \in {"share", "loop"} => memory.mic = desk.mic
  /\ phase = "loop" => desk.share \in {None, memory.share}

Threads == [target : Targets, stopped : BOOLEAN, at : {"looking", "holding", "gone"}]

\* Only the last capture may be running, and is exactly if something is shared.
ThreadsInv ==
  /\ captures \in Seq(Threads) /\ Len(captures) <= MaxCaptures
  /\ \A w \in DOMAIN captures : captures[w].stopped <=> w # Len(captures) \/ desk.share = None

\* Behind a frame of a later share, forwarded or in the channel, there is at most
\* one of an earlier.
FramesInv ==
  /\ frames \in Seq(DOMAIN captures) /\ Len(frames) <= FrameCap
  /\ newest \in 0..Len(captures)
  /\ \A w \in DOMAIN captures :
       /\ w < newest => AtMostOneLeft(w, 0)
       /\ \A i \in DOMAIN frames : w < frames[i] => AtMostOneLeft(w, i)

AskedInv ==
  /\ queue \in Seq(Requests) /\ Len(queue) <= QueueCap
  /\ call \in [Requests -> {"idle", "sending", "waiting", "settled", "refused"}]
  /\ \A r \in Requests : call[r] = "waiting" => Contains(queue, r)

DesktopInd == DesktopTypes /\ StoreInv /\ FollowInv /\ ThreadsInv /\ FramesInv /\ AskedInv

LEMMA DesktopIndGivesInv ==
  ASSUME DesktopInd
  PROVE  DesktopInv
<1>1. captures \in Seq(Threads) /\ DOMAIN captures = 1..Len(captures)
  BY DEF DesktopInd, ThreadsInv
<1>2. \A w \in DOMAIN captures :
         captures[w].target \in Targets /\ captures[w].at \in {"looking", "holding", "gone"}
  <2>1. \A w \in DOMAIN captures : captures[w] \in Threads
    BY <1>1
  <2>2. QED
    BY <2>1 DEF Threads
<1>3. DesktopTypeOK
  <2>1. /\ {disk.share, memory.share, desk.share} \subseteq Targets \cup {None}
        /\ {disk.mic, disk.speaker, memory.mic, memory.speaker, desk.mic, desk.speaker, saveFailed} \subseteq BOOLEAN
        /\ phase \in Audio \cup {"ended", "share", "loop"}
    BY DEF DesktopInd, DesktopTypes, IsProfile, Desks
  <2>2. QED
    BY <1>2, <2>1 DEF DesktopTypeOK, DesktopInd, ThreadsInv, FramesInv, AskedInv
<1>4. SeedsLaterRuns
  BY PersistedResolves DEF SeedsLaterRuns, DesktopInd, StoreInv
<1>5. ProfileFollows
  BY DEF ProfileFollows, DesktopInd, StoreInv, FollowInv
<1>6. Stragglers
  BY DEF Stragglers, DesktopInd, FramesInv
<1>7. QED
  BY <1>3, <1>4, <1>5, <1>6 DEF DesktopInv

LEMMA DesktopInitial ==
  ASSUME DesktopInit
  PROVE  DesktopInd
<1>1. DesktopTypes
  BY DesktopAssumption DEF DesktopInit, DesktopTypes, IsProfile, EmptyProfile, Desks, AllOff, Audio
<1>2. StoreInv /\ FollowInv
  BY DEF DesktopInit, StoreInv, FollowInv
<1>3. ThreadsInv
  BY DesktopAssumption DEF DesktopInit, ThreadsInv
<1>4. FramesInv
  BY DesktopAssumption DEF DesktopInit, FramesInv
<1>5. AskedInv
  BY DesktopAssumption DEF DesktopInit, AskedInv
<1>6. QED
  BY <1>1, <1>2, <1>3, <1>4, <1>5 DEF DesktopInd

\* A profile with some of its fields replaced (persist_audio_state, persist_screen_state).
LEMMA ProfileNoted ==
  ASSUME NEW p, IsProfile(p), NEW after \in Desks
  PROVE  /\ IsProfile(AudioNoted(p, after))
         /\ AudioNoted(p, after).access = p.access /\ AudioNoted(p, after).share = p.share
         /\ AudioNoted(p, after).mic = after.mic /\ AudioNoted(p, after).speaker = after.speaker
         /\ IsProfile(ShareNoted(p, after))
         /\ ShareNoted(p, after).access = p.access /\ ShareNoted(p, after).share = after.share
         /\ ShareNoted(p, after).mic = p.mic /\ ShareNoted(p, after).speaker = p.speaker
<1>1. after.mic \in BOOLEAN /\ after.speaker \in BOOLEAN /\ after.share \in Targets \cup {None}
  BY DEF Desks
<1>2. PICK acc, mic, spk, shr :
         /\ p = [access |-> acc, mic |-> mic, speaker |-> spk, share |-> shr]
         /\ mic \in BOOLEAN /\ spk \in BOOLEAN /\ shr \in Targets \cup {None}
  BY DEF IsProfile
<1>3. AudioNoted(p, after) = [access |-> acc, mic |-> after.mic, speaker |-> after.speaker, share |-> shr]
  <2>1. [p EXCEPT !.mic = after.mic] = [access |-> acc, mic |-> after.mic, speaker |-> spk, share |-> shr]
    BY <1>2
  <2>2. [[access |-> acc, mic |-> after.mic, speaker |-> spk, share |-> shr] EXCEPT !.speaker = after.speaker]
          = [access |-> acc, mic |-> after.mic, speaker |-> after.speaker, share |-> shr]
    OBVIOUS
  <2>3. QED
    BY <2>1, <2>2, Zenon DEF AudioNoted
<1>4. ShareNoted(p, after) = [access |-> acc, mic |-> mic, speaker |-> spk, share |-> after.share]
  BY <1>2 DEF ShareNoted
<1>5. QED
  BY <1>1, <1>2, <1>3, <1>4 DEF IsProfile

LEMMA AccessReplaced ==
  ASSUME NEW p, IsProfile(p), NEW access
  PROVE  /\ IsProfile([p EXCEPT !.access = access])
         /\ [p EXCEPT !.access = access].access = access
         /\ [p EXCEPT !.access = access].share = p.share
         /\ [p EXCEPT !.access = access].mic = p.mic
         /\ [p EXCEPT !.access = access].speaker = p.speaker
<1>1. PICK acc, mic, spk, shr :
         /\ p = [access |-> acc, mic |-> mic, speaker |-> spk, share |-> shr]
         /\ mic \in BOOLEAN /\ spk \in BOOLEAN /\ shr \in Targets \cup {None}
  BY DEF IsProfile
<1>2. [p EXCEPT !.access = access] = [access |-> access, mic |-> mic, speaker |-> spk, share |-> shr]
  BY <1>1
<1>3. QED
  BY <1>1, <1>2 DEF IsProfile

\* What an action can do to the devices (set_mic_enabled, set_speaker_enabled,
\* set_screen_share): another device is as it was, and a start that failed leaves
\* the device off.
LEMMA DesksAfter ==
  ASSUME DesktopTypes, ThreadsInv, NEW action \in Actions, NEW outcome \in Outcomes(action)
  PROVE  /\ outcome.desk \in Desks /\ outcome.ok \in BOOLEAN
         /\ action.device = "share" =>
              /\ outcome.desk.mic = desk.mic /\ outcome.desk.speaker = desk.speaker
              /\ \/ outcome.desk.share \in {None, desk.share}
                 \/ outcome.desk.share \in Targets /\ Len(captures) < MaxCaptures
              /\ ~outcome.ok => outcome.desk.share \in {None, desk.share}
         /\ action.device # "share" =>
              /\ outcome.desk.share = desk.share
              /\ action.device # "mic" => outcome.desk.mic = desk.mic
              /\ action.device # "speaker" => outcome.desk.speaker = desk.speaker
              /\ ~outcome.ok => outcome.desk = desk
<1>1. desk \in Desks
  BY DEF DesktopTypes
<1>2. PICK mic \in BOOLEAN, spk \in BOOLEAN, shr \in Targets \cup {None} :
         desk = [mic |-> mic, speaker |-> spk, share |-> shr]
  BY <1>1 DEF Desks
<1>3. CASE action.device = "share"
  <2>1. outcome \in ShareOutcomes(action.to) /\ action.to \in Targets \cup {None, Invalid}
    BY <1>3 DEF Outcomes, Actions, Audio
  <2>2. \/ outcome = Failed(desk)
        \/ outcome = Failed([desk EXCEPT !.share = None])
        \/ action.to \in {None, shr} /\ outcome = Done([desk EXCEPT !.share = action.to])
        \/ action.to \in Targets /\ Len(captures) < MaxCaptures /\ outcome = Done([desk EXCEPT !.share = action.to])
    BY <1>2, <2>1 DEF ShareOutcomes
  <2>3. \A x : [desk EXCEPT !.share = x] = [mic |-> mic, speaker |-> spk, share |-> x]
    BY <1>2
  <2>4. PICK x : /\ outcome.desk = [mic |-> mic, speaker |-> spk, share |-> x] /\ outcome.ok \in BOOLEAN
                 /\ x \in {None, shr} \/ (x \in Targets /\ Len(captures) < MaxCaptures)
                 /\ ~outcome.ok => x \in {None, shr}
    <3>1. CASE outcome = Failed(desk)
      BY <1>2, <3>1 DEF Failed
    <3>2. CASE outcome = Failed([desk EXCEPT !.share = None])
      BY <2>3, <3>2 DEF Failed
    <3>3. CASE action.to \in {None, shr} /\ outcome = Done([desk EXCEPT !.share = action.to])
      BY <2>3, <3>3 DEF Done
    <3>4. CASE /\ action.to \in Targets /\ Len(captures) < MaxCaptures
               /\ outcome = Done([desk EXCEPT !.share = action.to])
      BY <2>3, <3>4 DEF Done
    <3>5. QED
      BY <2>2, <3>1, <3>2, <3>3, <3>4
  <2>5. outcome.desk \in Desks
    BY <2>4 DEF Desks
  <2>6. /\ outcome.desk.mic = mic /\ outcome.desk.speaker = spk /\ outcome.desk.share = x
        /\ desk.mic = mic /\ desk.speaker = spk /\ desk.share = shr
    BY <1>2, <2>4
  <2>7. QED
    BY <1>3, <2>4, <2>5, <2>6
<1>4. CASE action.device = "mic"
  <2>1. action.to \in BOOLEAN /\ outcome \in AudioOutcomes("mic", action.to)
    BY <1>4 DEF Outcomes, Actions, Audio
  <2>2. outcome = Failed(desk) \/ outcome = Done([desk EXCEPT !["mic"] = action.to])
    BY <2>1 DEF AudioOutcomes
  <2>3. [desk EXCEPT !["mic"] = action.to] = [mic |-> action.to, speaker |-> spk, share |-> shr]
    BY <1>2
  <2>4. PICK x \in BOOLEAN : /\ outcome.desk = [mic |-> x, speaker |-> spk, share |-> shr]
                             /\ outcome.ok \in BOOLEAN /\ (~outcome.ok => outcome.desk = desk)
    <3>1. CASE outcome = Failed(desk)
      BY <1>2, <3>1 DEF Failed
    <3>2. CASE outcome = Done([desk EXCEPT !["mic"] = action.to])
      BY <2>1, <2>3, <3>2 DEF Done
    <3>3. QED
      BY <2>2, <3>1, <3>2
  <2>5. outcome.desk \in Desks
    BY <2>4 DEF Desks
  <2>6. QED
    BY <1>2, <1>4, <2>4, <2>5
<1>5. CASE action.device = "speaker"
  <2>1. action.to \in BOOLEAN /\ outcome \in AudioOutcomes("speaker", action.to)
    BY <1>5 DEF Outcomes, Actions, Audio
  <2>2. outcome = Failed(desk) \/ outcome = Done([desk EXCEPT !["speaker"] = action.to])
    BY <2>1 DEF AudioOutcomes
  <2>3. [desk EXCEPT !["speaker"] = action.to] = [mic |-> mic, speaker |-> action.to, share |-> shr]
    BY <1>2
  <2>4. PICK x \in BOOLEAN : /\ outcome.desk = [mic |-> mic, speaker |-> x, share |-> shr]
                             /\ outcome.ok \in BOOLEAN /\ (~outcome.ok => outcome.desk = desk)
    <3>1. CASE outcome = Failed(desk)
      BY <1>2, <3>1 DEF Failed
    <3>2. CASE outcome = Done([desk EXCEPT !["speaker"] = action.to])
      BY <2>1, <2>3, <3>2 DEF Done
    <3>3. QED
      BY <2>2, <3>1, <3>2
  <2>5. outcome.desk \in Desks
    BY <2>4 DEF Desks
  <2>6. QED
    BY <1>2, <1>5, <2>4, <2>5
<1>6. QED
  BY <1>3, <1>4, <1>5 DEF Actions, Audio

\* The captures after a change (Share): what ran is told to stop, what is started
\* is behind all others.
LEMMA CapturesAfter ==
  ASSUME ThreadsInv, DesktopTypes, NEW after \in Desks, Share(after),
         \/ after.share \in {None, desk.share}
         \/ after.share \in Targets /\ Len(captures) < MaxCaptures
  PROVE  /\ captures' \in Seq(Threads) /\ Len(captures') <= MaxCaptures
         /\ Len(captures') >= Len(captures) /\ DOMAIN captures' = 1..Len(captures')
         /\ \A w \in DOMAIN captures : w \in DOMAIN captures' /\ captures'[w].at = captures[w].at
         /\ \A w \in DOMAIN captures' : captures'[w].stopped <=> w # Len(captures') \/ after.share = None
<1> DEFINE n == Len(captures)
           dropped == [w \in DOMAIN captures |-> [captures[w] EXCEPT !.stopped = TRUE]]
           started == [target |-> after.share, stopped |-> FALSE, at |-> "looking"]
<1>1. /\ captures \in Seq(Threads) /\ n \in Nat /\ n <= MaxCaptures /\ DOMAIN captures = 1..n
      /\ \A w \in 1..n : captures[w] \in Threads
      /\ MaxCaptures \in Nat
      /\ \A w \in 1..n : captures[w].stopped <=> w # n \/ desk.share = None
  BY DesktopAssumption DEF ThreadsInv
<1>2. \A w \in 1..n : /\ [captures[w] EXCEPT !.stopped = TRUE] \in Threads
                      /\ [captures[w] EXCEPT !.stopped = TRUE].stopped = TRUE
                      /\ [captures[w] EXCEPT !.stopped = TRUE].at = captures[w].at
  BY <1>1 DEF Threads
<1>3. /\ dropped \in Seq(Threads) /\ Len(dropped) = n
      /\ \A w \in 1..n : dropped[w].stopped = TRUE /\ dropped[w].at = captures[w].at
  <2>1. dropped \in [1..n -> Threads]
    BY <1>1, <1>2
  <2>2. \A w \in 1..n : dropped[w] = [captures[w] EXCEPT !.stopped = TRUE]
    BY <1>1
  <2>3. dropped \in Seq(Threads) /\ Len(dropped) = n
    <3> HIDE DEF dropped, n
    <3>1. QED
      BY <1>1, <2>1
  <2>4. QED
    BY <1>2, <2>2, <2>3
<1>4. CASE after.share = desk.share
  <2>1. captures' = captures
    BY <1>4 DEF Share
  <2> HIDE DEF dropped, started, n
  <2>2. QED
    BY <1>1, <1>4, <2>1
<1>5. CASE after.share # desk.share /\ after.share = None
  <2>1. captures' = dropped
    BY <1>3, <1>5 DEF Share
  <2> HIDE DEF dropped, n
  <2>2. QED
    BY <1>1, <1>3, <1>5, <2>1
<1>6. CASE after.share # desk.share /\ after.share # None
  <2>1. captures' = dropped \o <<started>>
    BY <1>6 DEF Share
  <2>2. /\ after.share \in Targets /\ n < MaxCaptures
    BY <1>6
  <2>3. started \in Threads /\ started.stopped = FALSE
    BY <2>2 DEF Threads
  <2> HIDE DEF dropped, started, n
  <2>4. /\ captures' \in Seq(Threads) /\ Len(captures') = n + 1 /\ captures'[n + 1] = started
        /\ \A w \in 1..n : captures'[w] = dropped[w]
    BY <1>1, <1>3, <2>1, <2>3
  <2>5. \A w \in 1..(n + 1) : w \in 1..n \/ w = n + 1
    BY <1>1
  <2>6. DOMAIN captures' = 1..(n + 1)
    BY <2>4
  <2>7. \A w \in 1..n : captures'[w].at = captures[w].at /\ captures'[w].stopped = TRUE /\ w # n + 1
    BY <1>1, <1>3, <2>4
  <2>8. QED
    BY <1>1, <1>6, <2>2, <2>3, <2>4, <2>5, <2>6, <2>7
<1>7. QED
  BY <1>4, <1>5, <1>6

\* Captures are only added, so what is in the channel stays as it was.
LEMMA FramesKept ==
  ASSUME FramesInv, captures \in Seq(Threads), captures' \in Seq(Threads),
         Len(captures') >= Len(captures), UNCHANGED <<frames, newest>>,
         \A w \in DOMAIN captures : w \in DOMAIN captures' /\ captures'[w].at = captures[w].at
  PROVE  FramesInv'
<1>1. /\ DOMAIN captures = 1..Len(captures) /\ DOMAIN captures' = 1..Len(captures')
      /\ Len(captures) \in Nat /\ Len(captures') \in Nat
  OBVIOUS
<1>2. /\ frames \in Seq(DOMAIN captures) /\ newest \in 0..Len(captures)
      /\ DOMAIN frames = 1..Len(frames) /\ \A i \in DOMAIN frames : frames[i] \in 1..Len(captures)
  BY <1>1 DEF FramesInv
<1>3. frames' \in Seq(DOMAIN captures') /\ newest' \in 0..Len(captures')
  <2>1. DOMAIN captures \subseteq DOMAIN captures'
    BY <1>1
  <2>2. frames \in Seq(DOMAIN captures')
    BY <1>2, <2>1
  <2>3. QED
    BY <1>1, <1>2, <2>2
<1>4. ASSUME NEW w \in DOMAIN captures', w < newest' \/ \E i \in DOMAIN frames' : w < frames'[i]
      PROVE  w \in DOMAIN captures /\ captures'[w].at = captures[w].at
  BY <1>1, <1>2, <1>4
<1>5. ASSUME NEW w \in DOMAIN captures, NEW i, AtMostOneLeft(w, i)
      PROVE  AtMostOneLeft(w, i)'
  BY <1>5 DEF AtMostOneLeft
<1>6. \A w \in DOMAIN captures' :
        /\ w < newest' => AtMostOneLeft(w, 0)'
        /\ \A i \in DOMAIN frames' : w < frames'[i] => AtMostOneLeft(w, i)'
  BY <1>4, <1>5 DEF FramesInv
<1>7. QED
  BY <1>3, <1>6 DEF FramesInv

\* The devices are taken over, and what has been sent to the loop stays.
LEMMA AdoptStep ==
  ASSUME ThreadsInv, FramesInv, DesktopTypes, NEW after \in Desks, Adopt(after),
         \/ after.share \in {None, desk.share}
         \/ after.share \in Targets /\ Len(captures) < MaxCaptures
  PROVE  ThreadsInv' /\ FramesInv'
<1>1. Share(after) /\ desk' = after /\ UNCHANGED <<frames, newest>>
  BY DEF Adopt
<1>2. /\ captures' \in Seq(Threads) /\ Len(captures') <= MaxCaptures
      /\ Len(captures') >= Len(captures) /\ DOMAIN captures' = 1..Len(captures')
      /\ \A w \in DOMAIN captures : w \in DOMAIN captures' /\ captures'[w].at = captures[w].at
      /\ \A w \in DOMAIN captures' : captures'[w].stopped <=> w # Len(captures') \/ after.share = None
  BY <1>1, CapturesAfter
<1>3. captures \in Seq(Threads)
  BY DEF ThreadsInv
<1>4. FramesInv'
  BY <1>1, <1>2, <1>3, FramesKept
<1>5. QED
  BY <1>1, <1>2, <1>4 DEF ThreadsInv

\* The program ends: nothing is left of its threads, and nobody waits (EndRun).
LEMMA EndRunStep ==
  ASSUME AskedInv, EndRun
  PROVE  FollowInv' /\ ThreadsInv' /\ FramesInv' /\ AskedInv' /\ desk' \in Desks /\ phase' = "ended"
<1>1. FollowInv' /\ ThreadsInv' /\ FramesInv'
  BY DesktopAssumption DEF EndRun, FollowInv, ThreadsInv, FramesInv
<1>2. AskedInv'
  BY DesktopAssumption DEF EndRun, AskedInv
<1>3. QED
  BY <1>1, <1>2 DEF EndRun, Desks, AllOff

-----------------------------------------------------------------------------
(* One lemma for each action.                                              *)

\* A save or a save that fails (profile.rs): the copy is what was to be saved, the
\* file is either that or as it was, and only differs when it is known to.
LEMMA StoreWritten ==
  ASSUME NEW profile, Saves(profile) \/ SaveFails(profile)
  PROVE  /\ memory' = profile /\ disk' \in {disk, profile} /\ saveFailed' \in BOOLEAN
         /\ ~saveFailed' => disk' = profile
BY DEF Saves, SaveFails

\* What is noted of an outcome follows the devices that the action was about.
LEMMA NotedStep ==
  ASSUME DesktopInd, NEW action \in Actions, NEW outcome \in Outcomes(action),
         Saves(Noted(action.device, outcome.desk)) \/ SaveFails(Noted(action.device, outcome.desk))
  PROVE  /\ IsProfile(memory') /\ IsProfile(disk') /\ saveFailed' \in BOOLEAN
         /\ ~saveFailed' => disk' = memory'
         /\ memory'.access = memory.access
         /\ disk.access = memory.access => disk'.access = memory'.access
         /\ action.device = "share" =>
              memory'.mic = memory.mic /\ memory'.speaker = memory.speaker /\ memory'.share = outcome.desk.share
         /\ action.device # "share" =>
              /\ memory'.mic = outcome.desk.mic /\ memory'.speaker = outcome.desk.speaker
              /\ memory'.share = memory.share
<1> DEFINE noted == Noted(action.device, outcome.desk)
<1>1. IsProfile(memory) /\ IsProfile(disk) /\ outcome.desk \in Desks
  BY DesksAfter DEF DesktopInd, DesktopTypes
<1>2. /\ IsProfile(noted) /\ noted.access = memory.access
      /\ action.device = "share" =>
           noted.mic = memory.mic /\ noted.speaker = memory.speaker /\ noted.share = outcome.desk.share
      /\ action.device # "share" =>
           noted.mic = outcome.desk.mic /\ noted.speaker = outcome.desk.speaker /\ noted.share = memory.share
  <2>1. CASE action.device = "share"
    BY <1>1, <2>1, ProfileNoted DEF Noted
  <2>2. CASE action.device # "share"
    BY <1>1, <2>2, ProfileNoted DEF Noted
  <2>3. QED
    BY <2>1, <2>2
<1> HIDE DEF noted
<1>3. /\ memory' = noted /\ disk' \in {disk, noted} /\ saveFailed' \in BOOLEAN /\ (~saveFailed' => disk' = noted)
  BY StoreWritten DEF noted
<1>4. QED
  BY <1>1, <1>2, <1>3

LEMMA LaunchStep ==
  ASSUME DesktopInd, NEW env, Launch(env)
  PROVE  DesktopInd'
<1> DEFINE access  == Access(env, disk.access)
           profile == [disk EXCEPT !.access = Persisted(access)]
           start   == [profile EXCEPT !.access = access]
<1>1. phase = "ended" /\ desk = AllOff /\ IsProfile(disk) /\ IsProfile(startup) /\ desk \in Desks
  BY DEF Launch, DesktopInd, DesktopTypes, FollowInv
<1>2. Settled(access)
  BY AccessIsSettled DEF Launch
<1>3. /\ IsProfile(profile) /\ profile.access = Persisted(access)
      /\ profile.share = disk.share /\ profile.mic = disk.mic /\ profile.speaker = disk.speaker
  BY <1>1, AccessReplaced
<1>4. \/ Saves(profile) /\ phase' = "speaker" /\ startup' = start
      \/ SaveFails(profile) /\ UNCHANGED <<phase, startup>>
  BY DEF Launch
<1>5. ThreadsInv' /\ FramesInv' /\ AskedInv' /\ UNCHANGED desk
  BY DEF Launch, screens, control, DesktopInd, ThreadsInv, FramesInv, AskedInv, AtMostOneLeft
<1> HIDE DEF access, profile
<1>6. /\ IsProfile(start) /\ start.access = access
      /\ start.share = disk.share /\ start.mic = disk.mic /\ start.speaker = disk.speaker
  BY <1>1, <1>3, AccessReplaced
<1> HIDE DEF start
<1>7. /\ memory' = profile /\ disk' \in {disk, profile} /\ saveFailed' \in BOOLEAN /\ (~saveFailed' => disk' = profile)
  BY <1>4, StoreWritten
<1>8. DesktopTypes'
  BY <1>1, <1>3, <1>4, <1>5, <1>6, <1>7 DEF DesktopTypes, Audio
<1>9. StoreInv'
  <2>1. CASE Saves(profile) /\ phase' = "speaker" /\ startup' = start
    BY <1>2, <1>3, <1>6, <2>1 DEF StoreInv, Saves
  <2>2. CASE SaveFails(profile) /\ UNCHANGED <<phase, startup>>
    BY <1>1, <1>7, <2>2 DEF StoreInv
  <2>3. QED
    BY <1>4, <2>1, <2>2
<1>10. FollowInv'
  <2>1. desk' = AllOff /\ ~AllOff.mic /\ AllOff.share = None
    BY <1>1, <1>5 DEF AllOff
  <2>2. phase' \in {"ended", "speaker"}
    BY <1>1, <1>4
  <2>3. phase' = "speaker" =>
          memory'.speaker = startup'.speaker /\ memory'.mic = startup'.mic /\ memory'.share = startup'.share
    BY <1>1, <1>3, <1>4, <1>6, <1>7
  <2>4. QED
    BY <2>1, <2>2, <2>3 DEF FollowInv
<1>11. QED
  BY <1>5, <1>8, <1>9, <1>10 DEF DesktopInd

\* A step that adopts what is left of an action and notes it, with the phase after.
LEMMA NotedAndAdopted ==
  ASSUME DesktopInd, NEW action \in Actions, NEW outcome \in Outcomes(action),
         Saves(Noted(action.device, outcome.desk)) \/ SaveFails(Noted(action.device, outcome.desk)),
         Adopt(outcome.desk), phase # "ended", phase' \in {"mic", "share", "loop"}
  PROVE  DesktopTypes' /\ StoreInv' /\ ThreadsInv' /\ FramesInv'
<1>1. outcome.desk \in Desks
  BY DesksAfter DEF DesktopInd
<1>2. /\ IsProfile(memory') /\ IsProfile(disk') /\ saveFailed' \in BOOLEAN
      /\ ~saveFailed' => disk' = memory'
      /\ memory'.access = memory.access
      /\ disk.access = memory.access => disk'.access = memory'.access
  BY NotedStep
<1>3. desk' = outcome.desk /\ startup' = startup
  BY DEF Adopt
<1>4. DesktopTypes'
  BY <1>1, <1>2, <1>3 DEF DesktopTypes, DesktopInd, Audio
<1>5. StoreInv'
  BY <1>2, <1>3 DEF DesktopInd, StoreInv
<1>6. \/ outcome.desk.share \in {None, desk.share}
      \/ outcome.desk.share \in Targets /\ Len(captures) < MaxCaptures
  BY DesksAfter DEF DesktopInd, Actions, Audio, DesktopTypes, Desks
<1>7. QED
  BY <1>1, <1>4, <1>5, <1>6, AdoptStep DEF DesktopInd

\* The profile is noted and cannot be saved: the program ends.
LEMMA NotedAndEnded ==
  ASSUME DesktopInd, NEW action \in Actions, NEW outcome \in Outcomes(action),
         SaveFails(Noted(action.device, outcome.desk)), EndRun
  PROVE  DesktopInd'
<1>1. /\ IsProfile(memory') /\ IsProfile(disk') /\ saveFailed' \in BOOLEAN
      /\ ~saveFailed' => disk' = memory'
  BY NotedStep
<1>2. FollowInv' /\ ThreadsInv' /\ FramesInv' /\ AskedInv' /\ desk' \in Desks /\ phase' = "ended"
  BY EndRunStep DEF DesktopInd
<1>3. startup' = startup
  BY DEF EndRun
<1>4. DesktopTypes' /\ StoreInv'
  BY <1>1, <1>2, <1>3 DEF DesktopInd, DesktopTypes, StoreInv, Audio
<1>5. QED
  BY <1>2, <1>4 DEF DesktopInd

LEMMA AutostartStep ==
  ASSUME DesktopInd, Autostart
  PROVE  DesktopInd'
<1>1. /\ phase \in Audio \cup {"share"} /\ IsProfile(startup) /\ desk \in Desks /\ None \notin BOOLEAN
  BY DesktopAssumption DEF Autostart, DesktopInd, DesktopTypes
<1>2. phase \in {"speaker", "mic", "share"} /\ Following[phase] \in {"mic", "share", "loop"}
  BY <1>1 DEF Audio, Following
<1>3. /\ phase = "speaker" => startup[phase] = startup.speaker /\ Following[phase] = "mic"
      /\ phase = "mic" => startup[phase] = startup.mic /\ Following[phase] = "share"
      /\ phase = "share" => startup[phase] = startup.share /\ Following[phase] = "loop"
  BY DEF Following
<1>4. startup.mic \in BOOLEAN /\ startup.speaker \in BOOLEAN /\ startup.share \in Targets \cup {None}
  BY <1>1 DEF IsProfile
<1>5. CASE startup[phase] \in {FALSE, None}
  <2>1. phase' = Following[phase] /\ UNCHANGED <<store, startup, desk, screens, control>>
    BY <1>5 DEF Autostart
  <2>2. ThreadsInv' /\ FramesInv' /\ AskedInv'
    BY <2>1 DEF DesktopInd, ThreadsInv, FramesInv, AskedInv, AtMostOneLeft, screens, control
  <2>3. DesktopTypes' /\ StoreInv'
    BY <1>2, <2>1 DEF DesktopInd, DesktopTypes, StoreInv, store, Audio
  <2>4. FollowInv'
    <3>1. UNCHANGED <<memory, desk, startup>>
      BY <2>1 DEF store
    <3>2. CASE phase = "speaker"
      <4>1. startup.speaker = FALSE
        BY <1>1, <1>3, <1>4, <1>5, <3>2
      <4>2. /\ desk = AllOff /\ memory.speaker = startup.speaker /\ ~desk.mic /\ memory.mic \in {FALSE, startup.mic}
            /\ desk.share = None /\ memory.share = startup.share /\ desk.speaker = FALSE
        <5>1. desk = AllOff /\ AllOff.speaker = FALSE
          BY <3>2 DEF DesktopInd, FollowInv, AllOff
        <5>2. QED
          BY <3>2, <5>1 DEF DesktopInd, FollowInv
      <4>3. phase' = "mic"
        BY <1>3, <2>1, <3>2
      <4>4. QED
        BY <3>1, <4>1, <4>2, <4>3 DEF FollowInv
    <3>3. CASE phase = "mic"
      <4>1. startup.mic = FALSE
        BY <1>1, <1>3, <1>4, <1>5, <3>3
      <4>2. /\ memory.mic \in {FALSE, startup.mic} /\ ~desk.mic /\ desk.mic \in BOOLEAN
            /\ memory.speaker = desk.speaker /\ desk.share = None /\ memory.share = startup.share
        BY <1>1, <3>3 DEF DesktopInd, FollowInv, Desks
      <4>3. phase' = "share"
        BY <1>3, <2>1, <3>3
      <4>4. QED
        BY <3>1, <4>1, <4>2, <4>3 DEF FollowInv
    <3>4. CASE phase = "share"
      <4>1. phase' = "loop"
        BY <1>3, <2>1, <3>4
      <4>2. QED
        BY <3>1, <3>4, <4>1 DEF FollowInv, DesktopInd
    <3>5. QED
      BY <1>2, <3>2, <3>3, <3>4
  <2>5. QED
    BY <2>2, <2>3, <2>4 DEF DesktopInd
<1>6. CASE startup[phase] \notin {FALSE, None}
  <2> DEFINE action == [device |-> phase, to |-> startup[phase]]
  <2>1. PICK outcome \in Outcomes(action) :
          \/ /\ Saves(Noted(phase, outcome.desk))
             /\ Adopt(outcome.desk) /\ phase' = Following[phase] /\ UNCHANGED control
          \/ SaveFails(Noted(phase, outcome.desk)) /\ EndRun
    BY <1>6 DEF Autostart
  <2>2. action.device = phase /\ action \in Actions
    BY <1>1, <1>3, <1>4 DEF Actions, Audio
  <2> HIDE DEF action
  <2>3. CASE SaveFails(Noted(phase, outcome.desk)) /\ EndRun
    BY <2>2, <2>3, NotedAndEnded
  <2>4. CASE /\ Saves(Noted(phase, outcome.desk))
             /\ Adopt(outcome.desk) /\ phase' = Following[phase] /\ UNCHANGED control
    <3>1. DesktopTypes' /\ StoreInv' /\ ThreadsInv' /\ FramesInv'
      BY <1>2, <2>2, <2>4, NotedAndAdopted
    <3>2. AskedInv'
      BY <2>4 DEF control, AskedInv, DesktopInd
    <3>3. FollowInv'
      <4> DEFINE after == outcome.desk
      <4>1. /\ action.device = "share" =>
                 memory'.mic = memory.mic /\ memory'.speaker = memory.speaker /\ memory'.share = after.share
            /\ action.device # "share" =>
                 memory'.mic = after.mic /\ memory'.speaker = after.speaker /\ memory'.share = memory.share
        BY <2>2, <2>4, NotedStep
      <4>2. /\ after \in Desks
            /\ action.device = "share" => after.mic = desk.mic /\ after.speaker = desk.speaker
            /\ action.device # "share" =>
                 /\ after.share = desk.share
                 /\ action.device # "mic" => after.mic = desk.mic
                 /\ action.device # "speaker" => after.speaker = desk.speaker
        BY <2>2, DesksAfter DEF DesktopInd
      <4>3. desk' = after /\ startup' = startup /\ phase' = Following[phase]
        BY <2>4 DEF Adopt
      <4> HIDE DEF after
      <4>4. after.mic \in BOOLEAN
        BY <4>2 DEF Desks
      <4>5. CASE phase = "speaker"
        BY <1>3, <2>2, <4>1, <4>2, <4>3, <4>4, <4>5 DEF DesktopInd, FollowInv
      <4>6. CASE phase = "mic"
        BY <1>3, <2>2, <4>1, <4>2, <4>3, <4>4, <4>6 DEF DesktopInd, FollowInv
      <4>7. CASE phase = "share"
        BY <1>3, <2>2, <4>1, <4>2, <4>3, <4>4, <4>7 DEF DesktopInd, FollowInv
      <4>8. QED
        BY <1>2, <4>5, <4>6, <4>7
    <3>4. QED
      BY <3>1, <3>2, <3>3 DEF DesktopInd
  <2>5. QED
    BY <2>1, <2>3, <2>4
<1>7. QED
  BY <1>5, <1>6

\* A change in the loop: what is noted is what the devices are.
LEMMA LoopFollows ==
  ASSUME DesktopInd, phase = "loop", phase' = "loop", NEW action \in Actions, NEW outcome \in Outcomes(action),
         Saves(Noted(action.device, outcome.desk)) \/ SaveFails(Noted(action.device, outcome.desk)),
         Adopt(outcome.desk)
  PROVE  FollowInv'
<1> DEFINE after == outcome.desk
<1>1. /\ action.device = "share" =>
           memory'.mic = memory.mic /\ memory'.speaker = memory.speaker /\ memory'.share = after.share
      /\ action.device # "share" =>
           memory'.mic = after.mic /\ memory'.speaker = after.speaker /\ memory'.share = memory.share
  BY NotedStep
<1>2. /\ action.device = "share" => after.mic = desk.mic /\ after.speaker = desk.speaker
      /\ action.device # "share" => after.share = desk.share
  BY DesksAfter DEF DesktopInd
<1>3. desk' = after
  BY DEF Adopt
<1> HIDE DEF after
<1>4. QED
  BY <1>1, <1>2, <1>3 DEF DesktopInd, FollowInv

LEMMA DesktopCommandStep ==
  ASSUME DesktopInd, NEW action \in Actions, SlashCommand(action)
  PROVE  DesktopInd'
<1>1. phase = "loop"
  BY DEF SlashCommand
<1>2. PICK outcome \in Outcomes(action) :
        \/ Saves(Noted(action.device, outcome.desk)) /\ Adopt(outcome.desk) /\ UNCHANGED <<phase, control>>
        \/ SaveFails(Noted(action.device, outcome.desk)) /\ EndRun
  BY DEF SlashCommand
<1>3. CASE SaveFails(Noted(action.device, outcome.desk)) /\ EndRun
  BY <1>3, NotedAndEnded
<1>4. CASE Saves(Noted(action.device, outcome.desk)) /\ Adopt(outcome.desk) /\ UNCHANGED <<phase, control>>
  <2>1. DesktopTypes' /\ StoreInv' /\ ThreadsInv' /\ FramesInv'
    BY <1>1, <1>4, NotedAndAdopted
  <2>2. FollowInv'
    BY <1>1, <1>4, LoopFollows
  <2>3. AskedInv'
    BY <1>4 DEF control, AskedInv, DesktopInd
  <2>4. QED
    BY <2>1, <2>2, <2>3 DEF DesktopInd
<1>5. QED
  BY <1>2, <1>3, <1>4

LEMMA ExitStep ==
  ASSUME DesktopInd, Exit
  PROVE  DesktopInd'
<1>1. EndRun /\ UNCHANGED store
  BY DEF Exit
<1>2. FollowInv' /\ ThreadsInv' /\ FramesInv' /\ AskedInv' /\ desk' \in Desks /\ phase' = "ended"
  BY <1>1, EndRunStep DEF DesktopInd
<1>3. DesktopTypes' /\ StoreInv'
  BY <1>1, <1>2 DEF EndRun, store, DesktopInd, DesktopTypes, StoreInv, Audio
<1>4. QED
  BY <1>2, <1>3 DEF DesktopInd

\* Whoever waits has its request in the channel, unless it has left.
LEMMA AskStep ==
  ASSUME DesktopInd, NEW r \in Requests, Ask(r) \/ Send(r) \/ Cancel(r)
  PROVE  DesktopInd'
<1>1. UNCHANGED <<store, phase, startup, desk, screens>>
  BY DEF Ask, Send, Cancel
<1>2. DesktopTypes' /\ StoreInv' /\ FollowInv'
  BY <1>1 DEF store, DesktopInd, DesktopTypes, StoreInv, FollowInv
<1>3. ThreadsInv' /\ FramesInv'
  BY <1>1 DEF screens, DesktopInd, ThreadsInv, FramesInv, AtMostOneLeft
<1>4. /\ queue \in Seq(Requests) /\ Len(queue) <= QueueCap /\ QueueCap \in Nat
      /\ call \in [Requests -> {"idle", "sending", "waiting", "settled", "refused"}]
      /\ \A q \in Requests : call[q] = "waiting" => \E i \in 1..Len(queue) : queue[i] = q
  BY DesktopAssumption DEF DesktopInd, AskedInv, Contains
<1>5. ASSUME Ask(r) \/ Cancel(r)
      PROVE  AskedInv'
  <2>1. queue' = queue /\ \E place \in {"sending", "settled"} : call' = [call EXCEPT ![r] = place]
    BY <1>5 DEF Ask, Cancel
  <2>2. /\ call' \in [Requests -> {"idle", "sending", "waiting", "settled", "refused"}]
        /\ \A q \in Requests : call'[q] = "waiting" => call[q] = "waiting"
    BY <1>4, <2>1
  <2>3. QED
    BY <2>1, <2>2 DEF AskedInv, DesktopInd
<1>6. ASSUME Send(r)
      PROVE  AskedInv'
  <2>1. /\ queue' = Append(queue, r) /\ call' = [call EXCEPT ![r] = "waiting"] /\ Len(queue) < QueueCap
    BY <1>6 DEF Send
  <2>2. /\ queue' \in Seq(Requests) /\ Len(queue') = Len(queue) + 1 /\ queue'[Len(queue) + 1] = r
        /\ \A i \in 1..Len(queue) : queue'[i] = queue[i]
    BY <1>4, <2>1
  <2>3. \A q \in Requests : call'[q] = "waiting" => q = r \/ call[q] = "waiting"
    BY <1>4, <2>1
  <2>4. Len(queue') <= QueueCap /\ Len(queue) + 1 \in 1..Len(queue')
        /\ \A i \in 1..Len(queue) : i \in 1..Len(queue')
    BY <1>4, <2>1, <2>2
  <2>5. ASSUME NEW q \in Requests, call'[q] = "waiting"
        PROVE  Contains(queue', q)
    <3>1. CASE q = r
      BY <2>2, <2>4, <3>1 DEF Contains
    <3>2. CASE q # r
      <4>1. PICK i \in 1..Len(queue) : queue[i] = q
        BY <1>4, <2>3, <2>5, <3>2
      <4>2. i \in 1..Len(queue') /\ queue'[i] = q
        BY <2>2, <2>4, <4>1
      <4>3. QED
        BY <4>2 DEF Contains
    <3>3. QED
      BY <3>1, <3>2
  <2>6. call' \in [Requests -> {"idle", "sending", "waiting", "settled", "refused"}]
    BY <1>4, <2>1
  <2>7. QED
    BY <2>2, <2>4, <2>5, <2>6 DEF AskedInv
<1>7. AskedInv'
  BY <1>5, <1>6
<1>8. QED
  BY <1>2, <1>3, <1>7 DEF DesktopInd

LEMMA RespondStep ==
  ASSUME AskedInv, queue # <<>>, queue' = Tail(queue), Respond(Head(queue))
  PROVE  AskedInv'
<1> DEFINE r == Head(queue)
<1>1. /\ queue \in Seq(Requests) /\ Len(queue) <= QueueCap /\ QueueCap \in Nat
      /\ call \in [Requests -> {"idle", "sending", "waiting", "settled", "refused"}]
      /\ \A q \in Requests : call[q] = "waiting" => \E i \in 1..Len(queue) : queue[i] = q
  BY DesktopAssumption DEF AskedInv, Contains
<1>2. /\ r \in Requests /\ queue[1] = r /\ queue' \in Seq(Requests) /\ Len(queue') + 1 = Len(queue)
      /\ Len(queue') \in Nat /\ \A i \in 1..Len(queue') : queue'[i] = queue[i + 1]
  BY <1>1
<1>3. call' = IF call[r] = "waiting" THEN [call EXCEPT ![r] = "settled"] ELSE call
  BY DEF Respond, Reply
<1> HIDE DEF r
<1>4. /\ call' \in [Requests -> {"idle", "sending", "waiting", "settled", "refused"}]
      /\ \A q \in Requests : call'[q] = "waiting" => q # r /\ call[q] = "waiting"
  BY <1>1, <1>2, <1>3
<1>5. \A i \in 1..Len(queue) : i = 1 \/ (i - 1 \in 1..Len(queue') /\ queue'[i - 1] = queue[i])
  BY <1>1, <1>2
<1>6. ASSUME NEW q \in Requests, call'[q] = "waiting"
      PROVE  Contains(queue', q)
  <2>1. PICK i \in 1..Len(queue) : queue[i] = q
    BY <1>1, <1>4, <1>6
  <2>2. i # 1
    BY <1>2, <1>4, <1>6, <2>1
  <2>3. i - 1 \in 1..Len(queue') /\ queue'[i - 1] = q
    BY <1>5, <2>1, <2>2
  <2>4. QED
    BY <2>3 DEF Contains
<1>7. QED
  BY <1>1, <1>2, <1>4, <1>6 DEF AskedInv

LEMMA HandleStep ==
  ASSUME DesktopInd, HandleRequest
  PROVE  DesktopInd'
<1>1. /\ phase = "loop" /\ queue # <<>> /\ queue' = Tail(queue) /\ Respond(Head(queue))
      /\ UNCHANGED <<phase, slashCommands>>
  BY DEF HandleRequest
<1>2. AskedInv'
  BY <1>1, RespondStep DEF DesktopInd
<1>3. CASE UNCHANGED <<store, startup, desk, screens, launches, failedSaves>>
  <2>1. DesktopTypes' /\ StoreInv' /\ FollowInv'
    BY <1>1, <1>3 DEF store, DesktopInd, DesktopTypes, StoreInv, FollowInv
  <2>2. ThreadsInv' /\ FramesInv'
    BY <1>3 DEF screens, DesktopInd, ThreadsInv, FramesInv, AtMostOneLeft
  <2>3. QED
    BY <1>2, <2>1, <2>2 DEF DesktopInd
<1>4. ASSUME NEW action \in Actions, NEW outcome \in Outcomes(action),
             PersistIfOk(action.device, outcome), Adopt(outcome.desk)
      PROVE  DesktopInd'
  <2>1. CASE outcome.ok
    <3>1. Saves(Noted(action.device, outcome.desk)) \/ SaveFails(Noted(action.device, outcome.desk))
      BY <1>4, <2>1 DEF PersistIfOk
    <3>2. DesktopTypes' /\ StoreInv' /\ ThreadsInv' /\ FramesInv'
      BY <1>1, <1>4, <3>1, NotedAndAdopted
    <3>3. FollowInv'
      BY <1>1, <1>4, <3>1, LoopFollows
    <3>4. QED
      BY <1>2, <3>2, <3>3 DEF DesktopInd
  <2>2. CASE ~outcome.ok
    <3> DEFINE after == outcome.desk
    <3>1. UNCHANGED store
      BY <1>4, <2>2 DEF PersistIfOk
    <3>2. /\ after \in Desks /\ after.mic = desk.mic /\ after.speaker = desk.speaker
          /\ after.share \in {None, desk.share}
      <4>1. CASE action.device = "share"
        BY <2>2, <4>1, DesksAfter DEF DesktopInd
      <4>2. CASE action.device # "share"
        BY <2>2, <4>2, DesksAfter DEF DesktopInd
      <4>3. QED
        BY <4>1, <4>2
    <3>3. ThreadsInv' /\ FramesInv'
      BY <1>4, <3>2, AdoptStep DEF DesktopInd
    <3>4. desk' = after /\ startup' = startup
      BY <1>4 DEF Adopt
    <3> HIDE DEF after
    <3>5. DesktopTypes' /\ StoreInv'
      BY <1>1, <3>1, <3>2, <3>4 DEF store, DesktopInd, DesktopTypes, StoreInv
    <3>6. FollowInv'
      BY <1>1, <3>1, <3>2, <3>4 DEF store, DesktopInd, FollowInv
    <3>7. QED
      BY <1>2, <3>3, <3>5, <3>6 DEF DesktopInd
  <2>3. QED
    BY <2>1, <2>2
<1>5. QED
  BY <1>3, <1>4 DEF HandleRequest

\* The thread of a capture takes a frame in hand, hands it over, or ends.
LEMMA ThreadStep ==
  ASSUME DesktopInd, NEW w \in DOMAIN captures, Thread(w)
  PROVE  DesktopInd'
<1> DEFINE n == Len(captures)
<1>1. PICK place \in {"looking", "holding", "gone"} : MoveTo(w, place)
  BY DEF Thread, Capture, SendFrame, Leave
<1>2. /\ captures' = [captures EXCEPT ![w].at = place]
      /\ UNCHANGED <<store, phase, startup, desk, newest, control, counters>>
  BY <1>1 DEF MoveTo
<1>3. DesktopTypes' /\ StoreInv' /\ FollowInv' /\ AskedInv'
  BY <1>2 DEF store, control, DesktopInd, DesktopTypes, StoreInv, FollowInv, AskedInv
<1>4. /\ captures \in Seq(Threads) /\ n \in Nat /\ DOMAIN captures = 1..n /\ n <= MaxCaptures
      /\ \A v \in 1..n : captures[v] \in Threads
      /\ \A v \in 1..n : captures[v].stopped <=> v # n \/ desk.share = None
  BY DEF DesktopInd, ThreadsInv
<1>5. /\ [captures[w] EXCEPT !.at = place] \in Threads
      /\ [captures[w] EXCEPT !.at = place].stopped = captures[w].stopped
      /\ [captures[w] EXCEPT !.at = place].at = place
  BY <1>4 DEF Threads
<1>6. captures' = [captures EXCEPT ![w] = [captures[w] EXCEPT !.at = place]]
  BY <1>2
<1>7. /\ captures' \in Seq(Threads) /\ Len(captures') = n /\ DOMAIN captures' = 1..n
      /\ captures'[w] = [captures[w] EXCEPT !.at = place]
      /\ \A v \in 1..n : v # w => captures'[v] = captures[v]
  BY <1>4, <1>5, <1>6
<1> HIDE DEF n
<1>8. ThreadsInv'
  <2>1. \A v \in 1..n : captures'[v].stopped <=> v # n \/ desk'.share = None
    BY <1>2, <1>4, <1>5, <1>7
  <2>2. QED
    BY <1>4, <1>7, <2>1 DEF ThreadsInv
<1>9. /\ frames \in Seq(1..n) /\ Len(frames) <= FrameCap /\ newest \in 0..n /\ newest' = newest
      /\ \A i \in 1..Len(frames) : frames[i] \in 1..n
      /\ \A v \in 1..n :
           /\ v < newest => AtMostOneLeft(v, 0)
           /\ \A i \in 1..Len(frames) : v < frames[i] => AtMostOneLeft(v, i)
      /\ Len(frames) \in Nat /\ DOMAIN frames = 1..Len(frames)
  BY <1>2, <1>4 DEF DesktopInd, FramesInv, n
<1>10. FramesInv'
  <2>1. CASE frames' = frames /\ (place = "holding" => w = n)
    <3>1. ASSUME NEW v \in 1..n, NEW i, AtMostOneLeft(v, i), place = "holding" => v # w
          PROVE  AtMostOneLeft(v, i)'
      <4>1. captures'[v].at = "holding" => captures[v].at = "holding"
        BY <1>5, <1>7, <3>1
      <4>2. QED
        BY <2>1, <3>1, <4>1 DEF AtMostOneLeft
    <3>2. \A v \in 1..n : v < newest \/ (\E i \in 1..Len(frames) : v < frames[i]) => v # n
      BY <1>4, <1>9
    <3>3. QED
      BY <1>4, <1>7, <1>9, <2>1, <3>1, <3>2 DEF FramesInv
  <2>2. CASE /\ captures[w].at = "holding" /\ Len(frames) < FrameCap
             /\ frames' = Append(frames, w) /\ place = "looking"
    <3> PICK m \in Nat : m = Len(frames)
      BY <1>9
    <3>1. /\ frames' \in Seq(1..n) /\ Len(frames') = m + 1 /\ frames'[m + 1] = w
          /\ \A i \in 1..m : frames'[i] = frames[i]
          /\ m \in Nat /\ DOMAIN frames' = 1..(m + 1)
      BY <1>4, <1>9, <2>2
    <3>2. m + 1 <= FrameCap
      BY DesktopAssumption, <1>9, <2>2
    <3>3. \A j \in 1..(m + 1) : j \in 1..m \/ j = m + 1
      BY <3>1
    <3>4. ASSUME NEW v \in 1..n, NEW i \in 0..m, AtMostOneLeft(v, i)
          PROVE  AtMostOneLeft(v, i)'
      <4>1. CASE v = w
        <5>1. \A j \in 1..m : ~(j > i /\ frames[j] = w)
          BY <1>9, <2>2, <3>4, <4>1 DEF AtMostOneLeft
        <5>2. \A j \in DOMAIN frames' : j > i /\ frames'[j] = w => j = m + 1
          BY <3>1, <3>3, <5>1
        <5>3. captures'[w].at # "holding"
          BY <1>5, <1>7, <2>2
        <5>4. QED
          BY <4>1, <5>2, <5>3 DEF AtMostOneLeft
      <4>2. CASE v # w
        <5>1. captures'[v] = captures[v]
          BY <1>7, <4>2
        <5>2. \A j \in DOMAIN frames' : j > i /\ frames'[j] = v => j \in DOMAIN frames /\ frames[j] = v
          BY <1>9, <3>1, <3>3, <4>2
        <5>3. QED
          BY <3>4, <5>1, <5>2 DEF AtMostOneLeft
      <4>3. QED
        BY <4>1, <4>2
    <3>5. ASSUME NEW v \in 1..n
          PROVE  AtMostOneLeft(v, m + 1)'
      BY <3>1 DEF AtMostOneLeft
    <3>6. \A v \in 1..n : v < newest => AtMostOneLeft(v, 0)'
      BY <1>9, <3>1, <3>4
    <3>7. ASSUME NEW v \in 1..n, NEW i \in 1..(m + 1), v < frames'[i]
          PROVE  AtMostOneLeft(v, i)'
      <4>1. CASE i = m + 1
        BY <3>5, <4>1
      <4>2. CASE i \in 1..m
        <5>1. AtMostOneLeft(v, i) /\ i \in 0..m
          BY <1>9, <3>1, <3>7, <4>2
        <5>2. QED
          BY <3>4, <5>1
      <4>3. QED
        BY <3>3, <4>1, <4>2
    <3>8. QED
      BY <1>7, <1>9, <3>1, <3>2, <3>6, <3>7 DEF FramesInv
  <2>3. \/ frames' = frames /\ (place = "holding" => w = n)
        \/ /\ captures[w].at = "holding" /\ Len(frames) < FrameCap
           /\ frames' = Append(frames, w) /\ place = "looking"
    <3>1. CASE Capture(w)
      <4>1. frames' = frames /\ ~captures[w].stopped
        BY <3>1 DEF Capture, NotStopped
      <4>2. QED
        BY <1>4, <4>1
    <3>2. CASE SendFrame(w)
      <4>1. captures'[w].at = "looking"
        <5>1. captures' = [captures EXCEPT ![w].at = "looking"]
          BY <3>2 DEF SendFrame, MoveTo
        <5>2. captures'[w] = [captures[w] EXCEPT !.at = "looking"]
          BY <1>4, <5>1
        <5>3. QED
          BY <1>4, <5>2 DEF Threads
      <4>2. place = "looking"
        BY <1>5, <1>7, <4>1
      <4>3. QED
        BY <3>2, <4>2 DEF SendFrame
    <3>3. CASE Leave(w)
      <4>1. captures'[w].at = "gone"
        <5>1. captures' = [captures EXCEPT ![w].at = "gone"]
          BY <3>3 DEF Leave, MoveTo
        <5>2. captures'[w] = [captures[w] EXCEPT !.at = "gone"]
          BY <1>4, <5>1
        <5>3. QED
          BY <1>4, <5>2 DEF Threads
      <4>2. place = "gone"
        BY <1>5, <1>7, <4>1
      <4>3. QED
        BY <3>3, <4>2 DEF Leave
    <3>4. QED
      BY <3>1, <3>2, <3>3 DEF Thread
  <2>4. QED
    BY <2>1, <2>2, <2>3
<1>11. QED
  BY <1>3, <1>8, <1>10 DEF DesktopInd

\* A frame of a later share is forwarded: behind it there was at most one of each
\* earlier.
LEMMA ForwardStep ==
  ASSUME DesktopInd, ForwardFrame
  PROVE  DesktopInd'
<1> DEFINE n == Len(captures)
           h == Head(frames)
           m == Len(frames')
<1>1. /\ frames # <<>> /\ frames' = Tail(frames)
      /\ newest' = (IF h > newest THEN h ELSE newest)
      /\ UNCHANGED <<store, phase, startup, desk, captures, control, counters>>
  BY DEF ForwardFrame
<1>2. DesktopTypes' /\ StoreInv' /\ FollowInv' /\ AskedInv' /\ ThreadsInv'
  BY <1>1 DEF store, control, DesktopInd, DesktopTypes, StoreInv, FollowInv, AskedInv, ThreadsInv
<1>3. /\ captures \in Seq(Threads) /\ n \in Nat /\ DOMAIN captures = 1..n
  BY DEF DesktopInd, ThreadsInv
<1>4. /\ frames \in Seq(1..n) /\ Len(frames) <= FrameCap /\ newest \in 0..n
      /\ \A v \in 1..n :
           /\ v < newest => AtMostOneLeft(v, 0)
           /\ \A i \in 1..Len(frames) : v < frames[i] => AtMostOneLeft(v, i)
      /\ Len(frames) \in Nat /\ DOMAIN frames = 1..Len(frames) /\ FrameCap \in Nat
  <2>1. FrameCap \in Nat
    BY DesktopAssumption
  <2>2. frames \in Seq(1..n) /\ Len(frames) <= FrameCap /\ newest \in 0..n
    BY <1>3 DEF DesktopInd, FramesInv
  <2>3. Len(frames) \in Nat /\ DOMAIN frames = 1..Len(frames)
    BY <2>2
  <2>4. \A v \in 1..n :
           /\ v < newest => AtMostOneLeft(v, 0)
           /\ \A i \in 1..Len(frames) : v < frames[i] => AtMostOneLeft(v, i)
    BY <1>3, <2>3 DEF DesktopInd, FramesInv
  <2>5. QED
    BY <2>1, <2>2, <2>3, <2>4
<1> HIDE DEF n
<1>5. /\ frames' \in Seq(1..n) /\ m + 1 = Len(frames) /\ m \in Nat /\ DOMAIN frames' = 1..m
      /\ \A i \in 1..m : frames'[i] = frames[i + 1]
      /\ h = frames[1] /\ h \in 1..n
  <2> HIDE DEF h, m
  <2>1. Len(frames) >= 1 /\ 1 \in 1..Len(frames)
    BY <1>1, <1>4
  <2>2. frames' \in Seq(1..n) /\ Len(frames') + 1 = Len(frames) /\ Len(frames') \in Nat
    BY <1>1, <1>4
  <2>3. \A i \in 1..Len(frames') : frames'[i] = frames[i + 1]
    BY <1>1, <1>4, <2>2
  <2>4. h = frames[1] /\ h \in 1..n
    <3>1. frames \in Seq(1..n) /\ 1 \in 1..Len(frames)
      BY <1>4, <2>1
    <3>2. frames[1] \in 1..n
      BY <3>1, ElementOfSeq
    <3>3. Head(frames) = frames[1]
      BY <3>1
    <3>4. QED
      BY <3>2, <3>3 DEF h
  <2>5. QED
    BY <2>2, <2>3, <2>4 DEF m
<1> HIDE DEF m, h
<1>6. ASSUME NEW v \in 1..n, NEW i \in 0..m, AtMostOneLeft(v, i + 1) \/ (i = 0 /\ AtMostOneLeft(v, 0))
      PROVE  AtMostOneLeft(v, i)'
  <2>1. \A j \in DOMAIN frames' : j > i /\ frames'[j] = v =>
          j + 1 \in DOMAIN frames /\ j + 1 > i + 1 /\ j + 1 > 0 /\ frames[j + 1] = v
    BY <1>4, <1>5
  <2>2. \A j, k \in DOMAIN frames' : j + 1 = k + 1 => j = k
    BY <1>5
  <2>3. captures' = captures
    BY <1>1
  <2>4. CASE AtMostOneLeft(v, i + 1)
    BY <2>1, <2>2, <2>3, <2>4 DEF AtMostOneLeft
  <2>5. CASE i = 0 /\ AtMostOneLeft(v, 0)
    BY <2>1, <2>2, <2>3, <2>5 DEF AtMostOneLeft
  <2>6. QED
    BY <1>6, <2>4, <2>5
<1>7. ASSUME NEW v \in 1..n, v < newest'
      PROVE  AtMostOneLeft(v, 0)'
  <2>1. v < h \/ v < newest
    BY <1>1, <1>4, <1>5, <1>7
  <2>2. v < h => AtMostOneLeft(v, 0 + 1)
    BY <1>4, <1>5
  <2>3. v < newest => AtMostOneLeft(v, 0)
    BY <1>4
  <2>4. 0 \in 0..m
    BY <1>5
  <2>5. QED
    BY <1>6, <2>1, <2>2, <2>3, <2>4
<1>8. ASSUME NEW v \in 1..n, NEW i \in 1..m, v < frames'[i]
      PROVE  AtMostOneLeft(v, i)'
  <2>1. i \in 0..m /\ i + 1 \in 1..Len(frames) /\ v < frames[i + 1]
    BY <1>5, <1>8
  <2>2. AtMostOneLeft(v, i + 1)
    BY <1>4, <2>1
  <2>3. QED
    BY <1>6, <2>1, <2>2
<1>9. Len(frames') <= FrameCap /\ newest' \in 0..n
  BY <1>1, <1>4, <1>5 DEF m
<1>10. captures' = captures /\ DOMAIN captures' = 1..n /\ Len(captures') = n
  BY <1>1, <1>3 DEF n
<1>11. FramesInv'
  BY <1>5, <1>7, <1>8, <1>9, <1>10 DEF FramesInv
<1>12. QED
  BY <1>2, <1>11 DEF DesktopInd

LEMMA DesktopStep ==
  ASSUME DesktopInd, DesktopNext
  PROVE  DesktopInd'
<1>1. CASE \E env \in Envs : Launch(env)
  BY <1>1, LaunchStep
<1>2. CASE Autostart \/ Exit
  BY <1>2, AutostartStep, ExitStep
<1>3. CASE \E action \in Actions : SlashCommand(action)
  BY <1>3, DesktopCommandStep
<1>4. CASE \E r \in Requests : Ask(r) \/ Send(r) \/ Cancel(r)
  BY <1>4, AskStep
<1>5. CASE HandleRequest \/ ForwardFrame
  BY <1>5, HandleStep, ForwardStep
<1>6. CASE \E w \in DOMAIN captures : Thread(w)
  BY <1>6, ThreadStep
<1>7. QED
  BY <1>1, <1>2, <1>3, <1>4, <1>5, <1>6 DEF DesktopNext

LEMMA DesktopStutter ==
  ASSUME DesktopInd, UNCHANGED desktopVars
  PROVE  DesktopInd'
<1>1. DesktopTypes' /\ StoreInv' /\ FollowInv'
  BY DEF desktopVars, store, DesktopInd, DesktopTypes, StoreInv, FollowInv
<1>2. ThreadsInv'
  BY DEF desktopVars, screens, DesktopInd, ThreadsInv
<1>3. FramesInv'
  BY DEF desktopVars, screens, DesktopInd, FramesInv, AtMostOneLeft
<1>4. AskedInv'
  BY DEF desktopVars, control, DesktopInd, AskedInv
<1>5. QED
  BY <1>1, <1>2, <1>3, <1>4 DEF DesktopInd

\* Whatever the environments, the saves that fail and the order of commands, tools
\* and capture threads (startup.rs, desktop.rs, desktop_control.rs, capture.rs): the
\* profile seeds later runs, follows the devices, and of a share that was stopped
\* before the one shown now at most one frame is still to come.
THEOREM DesktopIsSound == DesktopSpec => []DesktopInv
<1>1. DesktopInit => DesktopInd
  BY DesktopInitial
<1>2. DesktopInd /\ [DesktopNext]_desktopVars => DesktopInd'
  BY DesktopStep, DesktopStutter
<1>3. DesktopInd => DesktopInv
  BY DesktopIndGivesInv
<1>4. QED
  BY <1>1, <1>2, <1>3, PTL DEF DesktopSpec

-----------------------------------------------------------------------------
(* Fragments in sequences.                                                 *)

Words == Nat

TranscriptEvents == ({"final"} \X Words) \cup {<<"finished">>, <<"error">>, <<"closed">>}

\* What an event is made of.
LEMMA EventFields ==
  ASSUME NEW e \in TranscriptEvents
  PROVE  /\ e[1] \in {"final", "finished", "error", "closed"}
         /\ e[1] = "final" => e[2] \in Words
         /\ Fragments(<<e>>) = IF e[1] = "final" THEN {e[2]} ELSE {}
<1>1. ToSet(<<e>>) = {e}
  BY DEF ToSet
<1>2. Fragments(<<e>>) = {d[2] : d \in {f \in {e} : f[1] = "final"}}
  BY <1>1 DEF Fragments
<1>3. CASE e \in {"final"} \X Words
  BY <1>2, <1>3
<1>4. CASE e \in {<<"finished">>, <<"error">>, <<"closed">>}
  BY <1>2, <1>4
<1>5. QED
  BY <1>3, <1>4 DEF TranscriptEvents

\* What is in a queue of events are the fragments of its elements.
LEMMA FragmentsIn ==
  ASSUME NEW q \in Seq(TranscriptEvents)
  PROVE  /\ \A f : f \in Fragments(q) <=> \E i \in 1..Len(q) : q[i][1] = "final" /\ f = q[i][2]
         /\ Fragments(q) \subseteq Words
<1>1. \A i \in 1..Len(q) : q[i] \in TranscriptEvents
  BY ElementOfSeq
<1>2. \A f : f \in Fragments(q) <=> \E i \in 1..Len(q) : q[i][1] = "final" /\ f = q[i][2]
  BY DEF Fragments, ToSet
<1>3. ASSUME NEW f \in Fragments(q)
      PROVE  f \in Words
  <2>1. PICK i \in 1..Len(q) : q[i][1] = "final" /\ f = q[i][2]
    BY <1>2
  <2>2. q[i] \in TranscriptEvents
    BY <1>1
  <2>3. QED
    BY <2>1, <2>2, EventFields
<1>4. QED
  BY <1>2, <1>3

\* An event more brings its fragment.
LEMMA FragmentsAppend ==
  ASSUME NEW q \in Seq(TranscriptEvents), NEW e \in TranscriptEvents
  PROVE  Fragments(Append(q, e)) = Fragments(q) \cup Fragments(<<e>>)
<1> DEFINE r == Append(q, e)
<1>1. /\ r \in Seq(TranscriptEvents) /\ Len(r) = Len(q) + 1 /\ Len(q) \in Nat
      /\ r[Len(q) + 1] = e /\ \A i \in 1..Len(q) : r[i] = q[i]
  OBVIOUS
<1> HIDE DEF r
<1>2. \A f : f \in Fragments(r) <=> \E i \in 1..Len(r) : r[i][1] = "final" /\ f = r[i][2]
  BY <1>1, FragmentsIn
<1>3. \A f : f \in Fragments(q) <=> \E i \in 1..Len(q) : q[i][1] = "final" /\ f = q[i][2]
  BY FragmentsIn
<1>4. \A f : f \in Fragments(<<e>>) <=> e[1] = "final" /\ f = e[2]
  BY EventFields
<1>5. \A i \in 1..Len(r) : i \in 1..Len(q) \/ i = Len(q) + 1
  BY <1>1
<1>6. Len(q) + 1 \in 1..Len(r) /\ \A i \in 1..Len(q) : i \in 1..Len(r)
  BY <1>1
<1>7. ASSUME NEW f
      PROVE  f \in Fragments(r) <=> f \in Fragments(q) \/ f \in Fragments(<<e>>)
  <2>1. ASSUME f \in Fragments(r) PROVE f \in Fragments(q) \/ f \in Fragments(<<e>>)
    <3>1. PICK i \in 1..Len(r) : r[i][1] = "final" /\ f = r[i][2]
      BY <1>2, <2>1
    <3>2. CASE i \in 1..Len(q)
      BY <1>1, <1>3, <3>1, <3>2
    <3>3. CASE i = Len(q) + 1
      BY <1>1, <1>4, <3>1, <3>3
    <3>4. QED
      BY <1>5, <3>2, <3>3
  <2>2. ASSUME f \in Fragments(q) PROVE f \in Fragments(r)
    <3>1. PICK i \in 1..Len(q) : q[i][1] = "final" /\ f = q[i][2]
      BY <1>3, <2>2
    <3>2. QED
      BY <1>1, <1>2, <1>6, <3>1
  <2>3. ASSUME f \in Fragments(<<e>>) PROVE f \in Fragments(r)
    BY <1>1, <1>2, <1>4, <1>6, <2>3
  <2>4. QED
    BY <2>1, <2>2, <2>3
<1>8. QED
  BY <1>7 DEF r

LEMMA FragmentsTail ==
  ASSUME NEW q \in Seq(TranscriptEvents), q # <<>>
  PROVE  Fragments(q) = Fragments(<<Head(q)>>) \cup Fragments(Tail(q))
<1> DEFINE r == Tail(q)
           e == Head(q)
<1>1. /\ r \in Seq(TranscriptEvents) /\ Len(r) + 1 = Len(q) /\ Len(r) \in Nat
      /\ \A i \in 1..Len(r) : r[i] = q[i + 1]
  OBVIOUS
<1>2. e = q[1] /\ e \in TranscriptEvents /\ 1 \in 1..Len(q)
  <2>1. 1 \in 1..Len(q)
    BY <1>1
  <2>2. QED
    BY <2>1, ElementOfSeq
<1> HIDE DEF r, e
<1>3. \A f : f \in Fragments(r) <=> \E i \in 1..Len(r) : r[i][1] = "final" /\ f = r[i][2]
  BY <1>1, FragmentsIn
<1>4. \A f : f \in Fragments(q) <=> \E i \in 1..Len(q) : q[i][1] = "final" /\ f = q[i][2]
  BY FragmentsIn
<1>5. \A f : f \in Fragments(<<e>>) <=> e[1] = "final" /\ f = e[2]
  BY <1>2, EventFields
<1>6. \A i \in 1..Len(q) : i = 1 \/ (i - 1 \in 1..Len(r) /\ r[i - 1] = q[i])
  BY <1>1
<1>7. \A i \in 1..Len(r) : i + 1 \in 1..Len(q)
  BY <1>1
<1>8. \A f : f \in Fragments(q) <=> f \in Fragments(<<e>>) \/ f \in Fragments(r)
  <2>1. ASSUME NEW f, NEW i \in 1..Len(q), q[i][1] = "final", f = q[i][2]
        PROVE  f \in Fragments(<<e>>) \/ f \in Fragments(r)
    BY <1>2, <1>3, <1>5, <1>6, <2>1
  <2>2. ASSUME NEW f, NEW i \in 1..Len(r), r[i][1] = "final", f = r[i][2]
        PROVE  f \in Fragments(q)
    <3>1. i + 1 \in 1..Len(q) /\ q[i + 1][1] = "final" /\ f = q[i + 1][2]
      BY <1>1, <1>7, <2>2
    <3>2. QED
      BY <1>4, <3>1
  <2>3. ASSUME NEW f, e[1] = "final", f = e[2]
        PROVE  f \in Fragments(q)
    BY <1>2, <1>4, <2>3
  <2>4. QED
    BY <1>3, <1>4, <1>5, <2>1, <2>2, <2>3
<1>9. QED
  BY <1>8 DEF r, e

LEMMA NoFragments == Fragments(<<>>) = {} /\ ToSet(<<>>) = {}
BY DEF Fragments, ToSet

\* Of a sequence of anything: its elements after an Append.
LEMMA ToSetAppend ==
  ASSUME NEW S, NEW s \in Seq(S), NEW x \in S
  PROVE  ToSet(Append(s, x)) = ToSet(s) \cup {x}
<1> DEFINE r == Append(s, x)
<1>1. /\ DOMAIN r = 1..(Len(s) + 1) /\ DOMAIN s = 1..Len(s) /\ Len(s) \in Nat
      /\ r[Len(s) + 1] = x /\ \A i \in 1..Len(s) : r[i] = s[i]
  OBVIOUS
<1> HIDE DEF r
<1>2. \A i \in 1..(Len(s) + 1) : i \in 1..Len(s) \/ i = Len(s) + 1
  BY <1>1
<1>3. Len(s) + 1 \in 1..(Len(s) + 1) /\ \A i \in 1..Len(s) : i \in 1..(Len(s) + 1)
  BY <1>1
<1>4. \A y : y \in ToSet(r) <=> y \in ToSet(s) \/ y = x
  BY <1>1, <1>2, <1>3 DEF ToSet
<1>5. QED
  BY <1>4 DEF r

LEMMA WordsOf ==
  ASSUME NEW s \in Seq(Words)
  PROVE  ToSet(s) \subseteq Words
BY ElementOfSeq DEF ToSet

\* The numbers of the fragments in a queue increase.
EventsRise(q) == \A i, j \in DOMAIN q : i < j => Precedes(Fragments(<<q[i]>>), Fragments(<<q[j]>>))

LEMMA OneOfMany ==
  ASSUME NEW q \in Seq(TranscriptEvents), NEW i \in 1..Len(q)
  PROVE  Fragments(<<q[i]>>) \subseteq Fragments(q)
<1>1. q[i] \in TranscriptEvents
  BY ElementOfSeq
<1>2. ASSUME NEW f \in Fragments(<<q[i]>>)
      PROVE  f \in Fragments(q)
  <2>1. q[i][1] = "final" /\ f = q[i][2]
    BY <1>1, EventFields
  <2>2. QED
    BY <2>1, FragmentsIn
<1>3. QED
  BY <1>2

LEMMA RiseAppend ==
  ASSUME NEW q \in Seq(TranscriptEvents), NEW e \in TranscriptEvents, EventsRise(q),
         Precedes(Fragments(q), Fragments(<<e>>))
  PROVE  EventsRise(Append(q, e))
<1> DEFINE r == Append(q, e)
<1>1. /\ DOMAIN r = 1..(Len(q) + 1) /\ DOMAIN q = 1..Len(q) /\ Len(q) \in Nat
      /\ r[Len(q) + 1] = e /\ \A i \in 1..Len(q) : r[i] = q[i]
  OBVIOUS
<1> HIDE DEF r
<1>2. ASSUME NEW i \in DOMAIN r, NEW j \in DOMAIN r, i < j
      PROVE  Precedes(Fragments(<<r[i]>>), Fragments(<<r[j]>>))
  <2>1. i \in 1..Len(q) /\ r[i] = q[i]
    BY <1>1, <1>2
  <2>2. CASE j \in 1..Len(q)
    BY <1>1, <1>2, <2>1, <2>2 DEF EventsRise
  <2>3. CASE j = Len(q) + 1
    <3>1. r[j] = e /\ Fragments(<<q[i]>>) \subseteq Fragments(q)
      BY <1>1, <2>1, <2>3, OneOfMany
    <3>2. QED
      BY <2>1, <3>1 DEF Precedes
  <2>4. QED
    BY <1>1, <1>2, <2>2, <2>3
<1>3. QED
  BY <1>2 DEF EventsRise, r

LEMMA RiseTail ==
  ASSUME NEW q \in Seq(TranscriptEvents), q # <<>>, EventsRise(q)
  PROVE  EventsRise(Tail(q)) /\ Precedes(Fragments(<<Head(q)>>), Fragments(Tail(q)))
<1> DEFINE r == Tail(q)
<1>1. /\ r \in Seq(TranscriptEvents) /\ Len(r) + 1 = Len(q) /\ Len(r) \in Nat
      /\ DOMAIN r = 1..Len(r) /\ DOMAIN q = 1..Len(q)
      /\ \A i \in 1..Len(r) : r[i] = q[i + 1]
      /\ Head(q) = q[1]
  OBVIOUS
<1> HIDE DEF r
<1>2. 1 \in DOMAIN q /\ \A i \in 1..Len(r) : i + 1 \in DOMAIN q /\ 1 < i + 1
  BY <1>1
<1>3. EventsRise(r)
  <2>1. ASSUME NEW i \in DOMAIN r, NEW j \in DOMAIN r, i < j
        PROVE  Precedes(Fragments(<<r[i]>>), Fragments(<<r[j]>>))
    <3>1. i + 1 \in DOMAIN q /\ j + 1 \in DOMAIN q /\ i + 1 < j + 1 /\ r[i] = q[i + 1] /\ r[j] = q[j + 1]
      BY <1>1, <1>2, <2>1
    <3>2. QED
      BY <3>1 DEF EventsRise
  <2>2. QED
    BY <2>1 DEF EventsRise
<1>4. ASSUME NEW f \in Fragments(<<Head(q)>>), NEW g \in Fragments(r)
      PROVE  f < g
  <2>1. PICK j \in 1..Len(r) : r[j][1] = "final" /\ g = r[j][2]
    BY <1>1, <1>4, FragmentsIn
  <2>2. r[j] \in TranscriptEvents
    BY <1>1, ElementOfSeq
  <2>3. g \in Fragments(<<r[j]>>)
    BY <2>1, <2>2, EventFields
  <2>4. Precedes(Fragments(<<q[1]>>), Fragments(<<q[j + 1]>>)) /\ r[j] = q[j + 1]
    BY <1>1, <1>2 DEF EventsRise
  <2>5. QED
    BY <1>1, <1>4, <2>3, <2>4 DEF Precedes
<1>5. QED
  BY <1>3, <1>4 DEF Precedes, r

LEMMA RisingAppend ==
  ASSUME NEW s \in Seq(Words), NEW w \in Words, Rising(s), Precedes(ToSet(s), {w})
  PROVE  Rising(Append(s, w))
<1> DEFINE r == Append(s, w)
<1>1. /\ DOMAIN r = 1..(Len(s) + 1) /\ DOMAIN s = 1..Len(s) /\ Len(s) \in Nat
      /\ r[Len(s) + 1] = w /\ \A i \in 1..Len(s) : r[i] = s[i]
  OBVIOUS
<1> HIDE DEF r
<1>2. ASSUME NEW i \in DOMAIN r, NEW j \in DOMAIN r, i < j
      PROVE  r[i] < r[j]
  <2>1. i \in 1..Len(s) /\ r[i] = s[i] /\ s[i] \in ToSet(s)
    BY <1>1, <1>2 DEF ToSet
  <2>2. CASE j \in 1..Len(s)
    BY <1>1, <1>2, <2>1, <2>2 DEF Rising
  <2>3. CASE j = Len(s) + 1
    BY <1>1, <2>1, <2>3 DEF Precedes
  <2>4. QED
    BY <1>1, <1>2, <2>2, <2>3
<1>3. QED
  BY <1>2 DEF Rising, r

-----------------------------------------------------------------------------
(* The transcript.                                                         *)

FragmentsHeld == InFile \cup ToSet(line) \cup Fragments(events) \cup missed

TranscriptTypes ==
  /\ events \in Seq(TranscriptEvents) /\ Len(events) <= EventCap
  /\ line \in Seq(Words) /\ file \in Seq(Seq(Words)) /\ missed \in SUBSET Words
  /\ said \in Nat

\* What is written, in flight and still to be read follow one another.
TranscriptOrder ==
  /\ Rising(line) /\ \A k \in DOMAIN file : Rising(file[k])
  /\ \A k, m \in DOMAIN file : k < m => Precedes(ToSet(file[k]), ToSet(file[m]))
  /\ Precedes(InFile, ToSet(line)) /\ Precedes(InFile \cup ToSet(line), Fragments(events))
  /\ EventsRise(events)

TranscriptInd == TranscriptTypes /\ TranscriptOrder /\ FragmentsHeld = 1..said

LEMMA TranscriptIsComplete == TranscriptOrder /\ FragmentsHeld = 1..said => TranscriptComplete
BY DEF TranscriptOrder, TranscriptComplete, FragmentsHeld, EventsRise

\* The events after a step hold the fragments they held before.
SameToRead ==
  /\ events' \in Seq(TranscriptEvents) /\ Len(events') <= EventCap
  /\ EventsRise(events') /\ Fragments(events') = Fragments(events)

LEMMA NothingRead ==
  ASSUME TranscriptInd, UNCHANGED events
  PROVE  SameToRead
BY DEF TranscriptInd, TranscriptTypes, TranscriptOrder, SameToRead

LEMMA TranscriptKept ==
  ASSUME TranscriptInd, SameToRead, UNCHANGED <<line, file, missed, said>>
  PROVE  TranscriptInd'
<1>1. Fragments(events)' = Fragments(events) /\ EventsRise(events)' /\ InFile' = InFile
  BY DEF SameToRead, Fragments, EventsRise, InFile
<1>2. TranscriptTypes'
  BY DEF TranscriptInd, TranscriptTypes, SameToRead
<1>3. TranscriptOrder'
  BY <1>1 DEF TranscriptInd, TranscriptOrder
<1>4. FragmentsHeld' = FragmentsHeld
  BY <1>1 DEF FragmentsHeld
<1>5. QED
  BY <1>2, <1>3, <1>4 DEF TranscriptInd

\* An event is sent: a fragment with the next number, or none (Emit).
LEMMA EmissionStep ==
  ASSUME TranscriptInd, NEW e \in TranscriptEvents, Emit(e), UNCHANGED <<line, file>>,
         \/ said' = said + 1 /\ e = <<"final", said'>>
         \/ said' = said /\ Fragments(<<e>>) = {}
  PROVE  TranscriptInd'
<1>1. /\ events \in Seq(TranscriptEvents) /\ Len(events) <= EventCap
      /\ line \in Seq(Words) /\ file \in Seq(Seq(Words)) /\ missed \in SUBSET Words
      /\ said \in Nat /\ EventCap \in Nat \ {0}
  BY TranscribeAssumption DEF TranscriptInd, TranscriptTypes
<1>2. /\ Fragments(<<e>>) = IF said' = said THEN {} ELSE {said + 1}
      /\ said' \in {said, said + 1}
  <2>1. CASE said' = said /\ Fragments(<<e>>) = {}
    BY <2>1
  <2>2. CASE said' = said + 1 /\ e = <<"final", said'>>
    <3>1. e[1] = "final" /\ e[2] = said + 1 /\ said' # said
      BY <1>1, <2>2
    <3>2. QED
      BY <2>2, <3>1, EventFields
  <2>3. QED
    BY <2>1, <2>2
<1>3. Precedes(FragmentsHeld, Fragments(<<e>>))
  <2>1. \A f \in FragmentsHeld : f < said + 1
    BY <1>1 DEF TranscriptInd
  <2>2. QED
    BY <1>2, <2>1 DEF Precedes
<1>4. EventsRise(events) /\ Precedes(InFile \cup ToSet(line), Fragments(events))
  BY DEF TranscriptInd, TranscriptOrder
<1>5. PICK q \in Seq(TranscriptEvents) :
        /\ events' = Append(q, e) /\ Len(q) < EventCap /\ EventsRise(q)
        /\ Fragments(q) \subseteq Fragments(events)
        /\ missed \subseteq missed' /\ missed' \subseteq missed \cup Fragments(events)
        /\ Fragments(events) \cup missed = Fragments(q) \cup missed'
  <2>1. CASE Len(events) < EventCap
    BY <1>1, <1>4, <2>1 DEF Emit
  <2>2. CASE ~(Len(events) < EventCap)
    <3>1. events # <<>> /\ Len(events) = EventCap
      BY <1>1, <2>2
    <3>2. events' = Append(Tail(events), e) /\ missed' = missed \cup Fragments(<<Head(events)>>)
      BY <2>2 DEF Emit
    <3>3. Tail(events) \in Seq(TranscriptEvents) /\ Len(Tail(events)) < EventCap
      BY <1>1, <3>1
    <3>4. Fragments(events) = Fragments(<<Head(events)>>) \cup Fragments(Tail(events))
      BY <1>1, <3>1, FragmentsTail
    <3>5. EventsRise(Tail(events))
      BY <1>1, <1>4, <3>1, RiseTail
    <3>6. QED
      BY <3>2, <3>3, <3>4, <3>5
  <2>3. QED
    BY <2>1, <2>2
<1>6. Fragments(events') = Fragments(q) \cup Fragments(<<e>>)
  BY <1>5, FragmentsAppend
<1>7. Fragments(q) \subseteq FragmentsHeld
  BY <1>5 DEF FragmentsHeld
<1>8. EventsRise(events')
  BY <1>3, <1>5, <1>7, RiseAppend DEF Precedes
<1>9. TranscriptOrder'
  <2>1. InFile' = InFile /\ InFile \cup ToSet(line) \subseteq FragmentsHeld
    BY DEF InFile, FragmentsHeld
  <2>2. Precedes(InFile \cup ToSet(line), Fragments(events'))
    BY <1>3, <1>4, <1>5, <1>6, <2>1 DEF Precedes
  <2>3. QED
    BY <1>8, <2>1, <2>2 DEF TranscriptInd, TranscriptOrder
<1>10. FragmentsHeld' = FragmentsHeld \cup Fragments(<<e>>)
  <2>1. InFile' = InFile /\ ToSet(line)' = ToSet(line) /\ Fragments(events)' = Fragments(events')
    BY DEF InFile, ToSet, Fragments
  <2>2. QED
    BY <1>5, <1>6, <2>1 DEF FragmentsHeld
<1>11. TranscriptTypes'
  <2>1. events' \in Seq(TranscriptEvents) /\ Len(events') <= EventCap
    BY <1>1, <1>5
  <2>2. Fragments(events) \subseteq Words
    BY <1>1, FragmentsIn
  <2>3. missed' \in SUBSET Words
    BY <1>1, <1>5, <2>2
  <2>4. said' \in Nat
    BY <1>1, <1>2
  <2>5. QED
    BY <1>1, <2>1, <2>3, <2>4 DEF TranscriptTypes
<1>12. FragmentsHeld' = 1..said'
  <2>1. FragmentsHeld = 1..said
    BY DEF TranscriptInd
  <2>2. CASE said' = said
    BY <1>2, <1>10, <2>1, <2>2
  <2>3. CASE said' = said + 1
    <3>1. Fragments(<<e>>) = {said + 1}
      BY <1>1, <1>2, <2>3
    <3>2. 1..(said + 1) = 1..said \cup {said + 1}
      BY <1>1
    <3>3. QED
      BY <1>10, <2>1, <2>3, <3>1, <3>2
  <2>4. QED
    BY <1>2, <2>2, <2>3
<1>13. QED
  BY <1>9, <1>11, <1>12 DEF TranscriptInd

\* The line in flight is ended (FlushLine): it is in the file or lost as a whole.
LEMMA FlushStep ==
  ASSUME TranscriptInd, FlushLine, SameToRead, UNCHANGED said
  PROVE  TranscriptInd'
<1>1. /\ line \in Seq(Words) /\ file \in Seq(Seq(Words)) /\ missed \in SUBSET Words
      /\ TranscriptTypes /\ TranscriptOrder
  BY DEF TranscriptInd, TranscriptTypes
<1>2. line' = <<>> /\ ToSet(line)' = {} /\ ToSet(line') = {} /\ line' \in Seq(Words) /\ Rising(line')
  BY DEF FlushLine, ToSet, Rising
<1>3. Fragments(events)' = Fragments(events) /\ EventsRise(events)'
  BY DEF SameToRead, Fragments, EventsRise
<1>4. CASE file' = file /\ missed' = missed \cup ToSet(line)
  <2>1. InFile' = InFile
    BY <1>4 DEF InFile
  <2>2. FragmentsHeld' = FragmentsHeld
    BY <1>2, <1>3, <1>4, <2>1 DEF FragmentsHeld
  <2>3. TranscriptOrder'
    BY <1>1, <1>2, <1>3, <1>4, <2>1 DEF TranscriptOrder, Precedes
  <2>4. TranscriptTypes'
    BY <1>1, <1>2, <1>3, <1>4, WordsOf DEF TranscriptTypes, SameToRead
  <2>5. QED
    BY <2>2, <2>3, <2>4 DEF TranscriptInd
<1>5. CASE file' = Append(file, line) /\ missed' = missed
  <2> DEFINE n == Len(file)
  <2>1. /\ n \in Nat /\ DOMAIN file = 1..n /\ DOMAIN file' = 1..(n + 1) /\ file' \in Seq(Seq(Words))
        /\ file'[n + 1] = line /\ \A k \in 1..n : file'[k] = file[k]
    <3> DEFINE T == Seq(Words)
    <3>1. file \in Seq(T) /\ line \in T
      BY <1>1
    <3> HIDE DEF T
    <3>2. QED
      BY <1>5, <3>1 DEF T
  <2> HIDE DEF n
  <2>2. \A k \in 1..(n + 1) : k \in 1..n \/ k = n + 1
    BY <2>1
  <2>3. \A k \in 1..n : k \in 1..(n + 1) /\ k < n + 1
    BY <2>1
  <2>4. InFile' = InFile \cup ToSet(line)
    <3>1. \A f : f \in InFile <=> \E k \in 1..n : f \in ToSet(file[k])
      BY <2>1 DEF InFile
    <3>2. InFile' = UNION {ToSet(file'[k]) : k \in DOMAIN file'}
      BY DEF InFile, ToSet
    <3>3. \A f : f \in InFile' <=> \E k \in 1..(n + 1) : f \in ToSet(file'[k])
      BY <2>1, <3>2
    <3>4. n + 1 \in 1..(n + 1)
      BY <2>1
    <3>5. \A f : f \in InFile' <=> f \in InFile \/ f \in ToSet(line)
      BY <2>1, <2>2, <2>3, <3>1, <3>3, <3>4
    <3>6. QED
      BY <3>5
  <2>5. FragmentsHeld' = FragmentsHeld
    BY <1>2, <1>3, <1>5, <2>4 DEF FragmentsHeld
  <2>6. /\ \A k \in 1..n : Rising(file[k]) /\ ToSet(file[k]) \subseteq InFile
        /\ \A k, m \in 1..n : k < m => Precedes(ToSet(file[k]), ToSet(file[m]))
        /\ Rising(line) /\ Precedes(InFile, ToSet(line))
        /\ Precedes(InFile \cup ToSet(line), Fragments(events))
    BY <1>1, <2>1 DEF TranscriptOrder, InFile
  <2>7. \A k \in DOMAIN file' : Rising(file'[k])
    BY <2>1, <2>2, <2>6
  <2>8. ASSUME NEW k \in DOMAIN file', NEW m \in DOMAIN file', k < m
        PROVE  Precedes(ToSet(file'[k]), ToSet(file'[m]))
    <3>1. k \in 1..n /\ file'[k] = file[k]
      BY <2>1, <2>2, <2>3, <2>8
    <3>2. CASE m \in 1..n
      BY <2>1, <2>6, <2>8, <3>1, <3>2
    <3>3. CASE m = n + 1
      <4>1. file'[m] = line /\ ToSet(file[k]) \subseteq InFile
        BY <2>1, <2>6, <3>1, <3>3
      <4>2. QED
        BY <2>6, <3>1, <4>1 DEF Precedes
    <3>4. QED
      BY <2>1, <2>2, <2>8, <3>2, <3>3
  <2>9. Precedes(InFile', {}) /\ Precedes(InFile' \cup {}, Fragments(events))
    BY <2>4, <2>6 DEF Precedes
  <2>10. TranscriptOrder'
    BY <1>2, <1>3, <2>7, <2>8, <2>9 DEF TranscriptOrder
  <2>11. TranscriptTypes'
    BY <1>1, <1>2, <1>3, <1>5, <2>1 DEF TranscriptTypes, SameToRead
  <2>12. QED
    BY <2>5, <2>10, <2>11 DEF TranscriptInd
<1>6. CASE line = <<>> /\ UNCHANGED <<file, missed>>
  <2>1. line' = line
    BY <1>2, <1>6
  <2>2. QED
    BY <1>6, <2>1, TranscriptKept
<1>7. QED
  BY <1>4, <1>5, <1>6 DEF FlushLine, fileVars

LEMMA ReadStep ==
  ASSUME TranscriptInd, ReadEvent
  PROVE  TranscriptInd'
<1> DEFINE e == Head(events)
           q == Tail(events)
<1>1. /\ TranscriptTypes /\ TranscriptOrder /\ events \in Seq(TranscriptEvents) /\ Len(events) <= EventCap
      /\ line \in Seq(Words) /\ EventCap \in Nat
  BY TranscribeAssumption DEF TranscriptInd, TranscriptTypes
<1>2. /\ events # <<>> /\ events' = q /\ UNCHANGED said
      /\ e[1] = "final" => line' = Append(line, e[2]) /\ UNCHANGED fileVars
      /\ e[1] = "finished" => FlushLine
      /\ e[1] \notin {"final", "finished"} => UNCHANGED <<line, fileVars>>
  BY DEF ReadEvent
<1>3. /\ q \in Seq(TranscriptEvents) /\ Len(q) <= EventCap /\ e \in TranscriptEvents
  BY <1>1, <1>2
<1>4. Fragments(events) = Fragments(<<e>>) \cup Fragments(q) /\ EventsRise(q)
      /\ Precedes(Fragments(<<e>>), Fragments(q))
  BY <1>1, <1>2, FragmentsTail, RiseTail DEF TranscriptOrder
<1> HIDE DEF e, q
<1>5. CASE e[1] # "final"
  <2>1. SameToRead
    BY <1>2, <1>3, <1>4, <1>5, EventFields DEF SameToRead
  <2>2. CASE e[1] = "finished"
    BY <1>2, <2>1, <2>2, FlushStep
  <2>3. CASE e[1] # "finished"
    <3>1. UNCHANGED <<line, file, missed, said>>
      BY <1>2, <1>5, <2>3 DEF fileVars
    <3>2. QED
      BY <2>1, <3>1, TranscriptKept
  <2>4. QED
    BY <2>2, <2>3
<1>6. CASE e[1] = "final"
  <2> DEFINE w == e[2]
  <2>1. w \in Words /\ Fragments(<<e>>) = {w}
    BY <1>3, <1>6, EventFields
  <2>2. line' = Append(line, w) /\ UNCHANGED <<file, missed>>
    BY <1>2, <1>6 DEF fileVars
  <2> HIDE DEF w
  <2>3. line' \in Seq(Words) /\ ToSet(line') = ToSet(line) \cup {w} /\ ToSet(line)' = ToSet(line')
    <3>1. ToSet(Append(line, w)) = ToSet(line) \cup {w}
      BY <1>1, <2>1, ToSetAppend
    <3>2. ToSet(line)' = ToSet(line')
      BY DEF ToSet
    <3>3. line' \in Seq(Words)
      BY <1>1, <2>1, <2>2
    <3>4. QED
      BY <2>2, <3>1, <3>2, <3>3
  <2>4. InFile' = InFile /\ Fragments(events)' = Fragments(q) /\ EventsRise(events)'
    BY <1>2, <1>4, <2>2 DEF InFile, Fragments, EventsRise
  <2>5. FragmentsHeld' = FragmentsHeld
    BY <1>4, <2>1, <2>2, <2>3, <2>4 DEF FragmentsHeld
  <2>6. /\ Precedes(InFile, ToSet(line)) /\ Precedes(InFile \cup ToSet(line), Fragments(events))
        /\ Rising(line)
    BY <1>1 DEF TranscriptOrder
  <2>7. Precedes(ToSet(line), {w})
    BY <1>4, <2>1, <2>6 DEF Precedes
  <2>8. Rising(line')
    BY <1>1, <2>1, <2>2, <2>6, <2>7, RisingAppend
  <2>9. Precedes(InFile, ToSet(line')) /\ Precedes(InFile \cup ToSet(line'), Fragments(q))
    BY <1>4, <2>1, <2>3, <2>6 DEF Precedes
  <2>10. Rising(line)'
    BY <2>8 DEF Rising
  <2>11. TranscriptOrder'
    BY <1>1, <2>2, <2>3, <2>4, <2>9, <2>10 DEF TranscriptOrder
  <2>12. TranscriptTypes'
    BY <1>1, <1>2, <1>3, <1>4, <2>1, <2>2, <2>3, <2>4 DEF TranscriptTypes
  <2>13. QED
    BY <1>2, <2>5, <2>11, <2>12 DEF TranscriptInd
<1>7. QED
  BY <1>5, <1>6

\* A session is replaced, or given up: what was not read of it is lost.
LEMMA DropStep ==
  ASSUME TranscriptInd, events' = <<>>, missed' = missed \cup Fragments(events), UNCHANGED <<line, file, said>>
  PROVE  TranscriptInd'
<1>1. TranscriptTypes /\ TranscriptOrder /\ events \in Seq(TranscriptEvents) /\ EventCap \in Nat
  BY TranscribeAssumption DEF TranscriptInd, TranscriptTypes
<1>2. /\ Fragments(events)' = {} /\ EventsRise(events)' /\ InFile' = InFile
  BY DEF Fragments, ToSet, EventsRise, InFile
<1>3. Fragments(events) \subseteq Words
  BY <1>1, FragmentsIn
<1>4. TranscriptTypes'
  BY <1>1, <1>3 DEF TranscriptTypes
<1>5. Precedes(InFile \cup ToSet(line), {})
  BY DEF Precedes
<1>6. TranscriptOrder'
  BY <1>1, <1>2, <1>5 DEF TranscriptOrder
<1>7. FragmentsHeld' = FragmentsHeld
  BY <1>2 DEF FragmentsHeld
<1>8. QED
  BY <1>4, <1>6, <1>7 DEF TranscriptInd

\* The transcript over the whole next-state relation.
LEMMA TranscriptStep ==
  ASSUME TranscriptInd, Next
  PROVE  TranscriptInd'
<1>1. said \in Nat
  BY DEF TranscriptInd, TranscriptTypes
<1>2. ASSUME UNCHANGED <<events, line, file, missed, said>>
      PROVE  TranscriptInd'
  BY <1>2, NothingRead, TranscriptKept
<1>3. ASSUME NEW e \in TranscriptEvents, e[1] # "final", Emit(e), UNCHANGED <<line, file, said>>
      PROVE  TranscriptInd'
  BY <1>3, EventFields, EmissionStep
<1>4. CASE Say
  <2>1. UNCHANGED <<line, file>>
    BY <1>4 DEF Say, appVars
  <2>2. CASE said' = said + 1 /\ Emit(<<"final", said'>>)
    <3> DEFINE e == <<"final", said'>>
    <3>1. e \in TranscriptEvents
      BY <1>1, <2>2 DEF TranscriptEvents, Words
    <3>2. Emit(e) /\ said' = said + 1 /\ e = <<"final", said'>>
      BY <2>2
    <3> HIDE DEF e
    <3>3. QED
      BY <2>1, <3>1, <3>2, EmissionStep
  <2>3. CASE said' = said /\ Emit(<<"finished">>)
    <3>1. <<"finished">> \in TranscriptEvents /\ <<"finished">>[1] # "final"
      BY DEF TranscriptEvents
    <3>2. QED
      BY <1>3, <2>1, <2>3, <3>1
  <2>4. QED
    BY <1>4, <2>2, <2>3 DEF Say
<1>5. CASE Disconnects
  <2>1. UNCHANGED <<line, file, said>>
    BY <1>5 DEF Disconnects, appVars
  <2>2. CASE Emit(<<"closed">>)
    <3>1. <<"closed">> \in TranscriptEvents /\ <<"closed">>[1] # "final"
      BY DEF TranscriptEvents
    <3>2. QED
      BY <1>3, <2>1, <2>2, <3>1
  <2>3. QED
    BY <1>2, <1>5, <2>1, <2>2 DEF Disconnects
<1>6. CASE GivesUp
  <2>1. UNCHANGED <<line, file, said>> /\ Emit(<<"error">>)
    BY <1>6 DEF GivesUp, appVars
  <2>2. <<"error">> \in TranscriptEvents /\ <<"error">>[1] # "final"
    BY DEF TranscriptEvents
  <2>3. QED
    BY <1>3, <2>1, <2>2
<1>7. CASE Reconnects \/ Tick \/ ReadLag \/ SwitchDone \/ Stage \/ ManualActivity \/ SwitchStarts
  <2>1. UNCHANGED <<events, line, file, missed, said>>
    BY <1>7 DEF Reconnects, Tick, ReadLag, SwitchDone, Stage, ManualActivity, SwitchStarts, inboxVars, appVars,
                fileVars
  <2>2. QED
    BY <1>2, <2>1
<1>8. CASE ReadEvent
  BY <1>8, ReadStep
<1>9. CASE ApplyStarts \/ Quit
  <2>1. FlushLine /\ UNCHANGED <<events, said>>
    BY <1>9 DEF ApplyStarts, Quit, inboxVars
  <2>2. QED
    BY <2>1, NothingRead, FlushStep
<1>10. CASE ApplyConnects \/ ApplyFails
  <2>1. events' = <<>> /\ missed' = missed \cup Fragments(events) /\ UNCHANGED <<line, file, said>>
    BY <1>10 DEF ApplyConnects, ApplyFails
  <2>2. QED
    BY <2>1, DropStep
<1>11. QED
  BY <1>4, <1>5, <1>6, <1>7, <1>8, <1>9, <1>10 DEF Next, Runner, ReadEvents, Applies, User

-----------------------------------------------------------------------------
(* The settings, the source and the theorem.                               *)

ShownTypes ==
  /\ at \in {"loop", "switching", "connecting", "ended"} /\ {status, shown} \subseteq Statuses
  /\ {setup, activeSetup, staged} \subseteq Setups
  /\ {lagged, open, timed, dead, unsaved} \subseteq BOOLEAN
  /\ {audioSource, nextSource} \subseteq Sources /\ capturing \subseteq Sources
  /\ saved \in {NotSaved} \cup [setup : Setups, source : Sources]

SettingsInd ==
  /\ ShownTypes /\ ActiveIsConnected /\ CapturesChosen
  /\ saved # NotSaved /\ ~unsaved => saved = [setup |-> activeSetup, source |-> audioSource]

LEMMA EventSettings ==
  ASSUME SettingsInd, Runner \/ Tick \/ ReadEvents
  PROVE  SettingsInd'
<1>1. UNCHANGED <<at, setup, activeSetup, staged, audioVars, savedVars>>
  BY DEF Runner, Say, Disconnects, Reconnects, GivesUp, Tick, ReadEvents, ReadLag, ReadEvent, sessionVars, appVars
<1>2. UNCHANGED <<nextSource, audioSource, capturing, saved, unsaved>>
  BY <1>1 DEF audioVars, savedVars
<1>3. lagged' \in BOOLEAN /\ dead' = dead
  BY DEF Runner, Say, Disconnects, Reconnects, GivesUp, Tick, ReadEvents, ReadLag, ReadEvent, Emit, SettingsInd,
         ShownTypes, inboxVars, appVars
<1>4. {status', shown'} \subseteq Statuses
  BY DEF Runner, Say, Disconnects, Reconnects, GivesUp, Tick, Observe, ReadEvents, ReadLag, ReadEvent, SettingsInd,
         ShownTypes, sessionVars, appVars, Statuses
<1>5. {timed', open'} \subseteq BOOLEAN
  BY DEF Runner, Say, Disconnects, Reconnects, GivesUp, Tick, Observe, ReadEvents, ReadLag, ReadEvent, appVars,
         SettingsInd, ShownTypes
<1>6. QED
  BY <1>1, <1>2, <1>3, <1>4, <1>5 DEF SettingsInd, ShownTypes, ActiveIsConnected, CapturesChosen

LEMMA UserSettings ==
  ASSUME SettingsInd, User
  PROVE  SettingsInd'
<1>1. UNCHANGED <<setup, status, shown, activeSetup, timed, dead, saved, unsaved, lagged, audioSource>>
  BY DEF User, Stage, ManualActivity, SwitchStarts, ApplyStarts, ActiveKept, Quit, sessionVars, appVars,
         inboxVars, audioVars, savedVars
<1>2. staged' \in Setups /\ open' \in BOOLEAN /\ at' \in {"loop", "switching", "connecting", "ended"}
  BY DEF User, Stage, ManualActivity, SwitchStarts, ApplyStarts, Quit, appVars, SettingsInd, ShownTypes
<1>3. nextSource' \in Sources /\ capturing' \subseteq Sources /\ CapturesChosen'
  <2>1. CASE SwitchStarts
    BY <2>1 DEF SwitchStarts, SettingsInd, ShownTypes, CapturesChosen
  <2>2. CASE Stage \/ ManualActivity \/ ApplyStarts \/ Quit
    <3>1. UNCHANGED <<nextSource, capturing, audioSource>> /\ at = "loop"
      BY <2>2 DEF Stage, ManualActivity, ApplyStarts, Quit, Command, audioVars
    <3>2. QED
      BY <3>1 DEF SettingsInd, ShownTypes, CapturesChosen
  <2>3. QED
    BY <2>1, <2>2 DEF User
<1>4. QED
  BY <1>1, <1>2, <1>3 DEF SettingsInd, ShownTypes, ActiveIsConnected

\* What is saved is the snapshot of the step that saves it (persist).
LEMMA PersistStep ==
  ASSUME Persist, activeSetup' \in Setups, audioSource' \in Sources, SettingsInd
  PROVE  /\ saved' \in {NotSaved} \cup [setup : Setups, source : Sources] /\ unsaved' \in BOOLEAN
         /\ saved' # NotSaved /\ ~unsaved' => saved' = [setup |-> activeSetup', source |-> audioSource']
<1>1. CASE saved' = Snapshot /\ unsaved' = FALSE
  BY <1>1 DEF Snapshot
<1>2. CASE unsaved' = TRUE /\ saved' = saved
  BY <1>2 DEF SettingsInd, ShownTypes
<1>3. QED
  BY <1>1, <1>2 DEF Persist

LEMMA AppliedSettings ==
  ASSUME SettingsInd, SwitchDone \/ Applies
  PROVE  SettingsInd'
<1>1. CASE SwitchDone
  <2>1. /\ at' = "loop" /\ capturing' = {nextSource} /\ audioSource' = nextSource /\ Persist
        /\ UNCHANGED <<status, setup, shown, activeSetup, staged, open, timed, dead, lagged, nextSource>>
    BY <1>1 DEF SwitchDone, OnlyNext, sessionVars, appVars, inboxVars
  <2>2. nextSource \in Sources /\ activeSetup \in Setups
    BY DEF SettingsInd, ShownTypes
  <2>3. /\ saved' \in {NotSaved} \cup [setup : Setups, source : Sources] /\ unsaved' \in BOOLEAN
        /\ saved' # NotSaved /\ ~unsaved' => saved' = [setup |-> activeSetup', source |-> audioSource']
    BY <2>1, <2>2, PersistStep
  <2>4. QED
    BY <2>1, <2>2, <2>3 DEF SettingsInd, ShownTypes, ActiveIsConnected, CapturesChosen
<1>2. CASE ApplyConnects
  <2>1. /\ at = "connecting" /\ at' = "loop" /\ status' = "connected"
        /\ setup' = staged /\ activeSetup' = staged /\ lagged' = FALSE /\ dead' = FALSE /\ shown' = "connected"
        /\ timed' = TRUE /\ open' = FALSE /\ Persist
        /\ UNCHANGED <<staged, audioSource, nextSource, capturing>>
    BY <1>2 DEF ApplyConnects, Revived, audioVars
  <2>2. audioSource \in Sources /\ staged \in Setups
    BY DEF SettingsInd, ShownTypes
  <2>3. /\ saved' \in {NotSaved} \cup [setup : Setups, source : Sources] /\ unsaved' \in BOOLEAN
        /\ saved' # NotSaved /\ ~unsaved' => saved' = [setup |-> activeSetup', source |-> audioSource']
    BY <2>1, <2>2, PersistStep
  <2>4. QED
    BY <2>1, <2>2, <2>3 DEF SettingsInd, ShownTypes, ActiveIsConnected, CapturesChosen, Statuses
<1>3. CASE ApplyFails
  <2>1. /\ at = "connecting" /\ at' = "loop" /\ status' = "closed" /\ lagged' = FALSE /\ dead' = TRUE
        /\ shown' = "closed"
        /\ UNCHANGED <<setup, activeSetup, staged, open, timed, audioSource, nextSource, capturing, saved,
                       unsaved>>
    BY <1>3 DEF ApplyFails, audioVars, savedVars
  <2>2. QED
    BY <2>1 DEF SettingsInd, ShownTypes, ActiveIsConnected, CapturesChosen, Statuses
<1>4. QED
  BY <1>1, <1>2, <1>3 DEF Applies

LEMMA TranscribeStarts ==
  ASSUME Init
  PROVE  TranscriptInd /\ SettingsInd
<1>1. SettingsInd
  <2>1. ShownTypes
    <3>1. /\ {setup, activeSetup, staged} \subseteq Setups /\ {audioSource, nextSource} \subseteq Sources
          /\ capturing \subseteq Sources
      BY TranscribeAssumption DEF Init
    <3>2. {status, shown} \subseteq Statuses /\ {lagged, open, timed, dead, unsaved} \subseteq BOOLEAN
      BY DEF Init, Statuses
    <3>3. QED
      BY <3>1, <3>2 DEF Init, ShownTypes
  <2>2. QED
    BY <2>1 DEF Init, SettingsInd, ActiveIsConnected, CapturesChosen
<1>2. Fragments(events) = {} /\ ToSet(line) = {} /\ InFile = {} /\ FragmentsHeld = {}
  BY NoFragments DEF Init, InFile, FragmentsHeld
<1>3. TranscriptTypes
  BY <1>2, TranscribeAssumption DEF Init, TranscriptTypes
<1>4. TranscriptOrder
  BY <1>2 DEF Init, TranscriptOrder, Rising, Precedes, EventsRise
<1>5. FragmentsHeld = 1..said
  BY <1>2 DEF Init
<1>6. QED
  BY <1>1, <1>3, <1>4, <1>5 DEF TranscriptInd

LEMMA TranscribeHolds ==
  ASSUME TranscriptInd, SettingsInd
  PROVE  TranscribeInv
<1>1. Fragments(events) \cup missed \cup ToSet(line) \subseteq 1..said
  BY DEF TranscriptInd, FragmentsHeld
<1>2. TypeOK
  BY <1>1 DEF TypeOK, TranscriptInd, TranscriptTypes, SettingsInd, ShownTypes
<1>3. TranscriptComplete
  BY TranscriptIsComplete DEF TranscriptInd
<1>4. QED
  BY <1>2, <1>3 DEF TranscribeInv, SettingsInd, StartsWhereLeftOff

\* At every capacity of the broadcast, and whatever is said, read late, switched,
\* applied, disconnected or failed (transcribe/mod.rs, state.rs): the fragments in the
\* file, in the line in flight and still to be read are in order, each once, and none
\* is missing that the model does not account for; active and saved settings are those
\* of the session and the source in use.
THEOREM TranscriptIsSound == Spec => []TranscribeInv
<1>1. Init => TranscriptInd /\ SettingsInd
  BY TranscribeStarts
<1>2. (TranscriptInd /\ SettingsInd) /\ [Next]_vars => (TranscriptInd /\ SettingsInd)'
  <2>1. ASSUME TranscriptInd, SettingsInd, Next
        PROVE  TranscriptInd' /\ SettingsInd'
    BY <2>1, TranscriptStep, EventSettings, UserSettings, AppliedSettings DEF Next
  <2>2. ASSUME TranscriptInd, SettingsInd, UNCHANGED vars
        PROVE  TranscriptInd' /\ SettingsInd'
    <3>1. UNCHANGED <<events, line, file, missed, said>>
      BY <2>2 DEF vars, inboxVars, appVars, fileVars
    <3>2. TranscriptInd'
      BY <2>2, <3>1, NothingRead, TranscriptKept
    <3>3. SettingsInd'
      BY <2>2 DEF vars, sessionVars, inboxVars, appVars, audioVars, savedVars, SettingsInd, ShownTypes,
                  ActiveIsConnected, CapturesChosen
    <3>4. QED
      BY <3>2, <3>3
  <2>3. QED
    BY <2>1, <2>2
<1>3. TranscriptInd /\ SettingsInd => TranscribeInv
  BY TranscribeHolds
<1>4. QED
  BY <1>1, <1>2, <1>3, PTL DEF Spec
=============================================================================

--------------------------- MODULE WorkspaceTools ---------------------------
(***************************************************************************)
(* What the workspace tools do once a call is routed to them               *)
(* (tools/src/workspace.rs): run_command, whose process, pipes, readers    *)
(* and time limit run concurrently; read_file, asked for a file page by    *)
(* page; and list_files, which walks the directories with a stack.         *)
(*                                                                         *)
(* Which call is routed where is the subject of ToolCatalog, the budget of *)
(* a call and its cancellation that of HarnessTools.  A byte is a unit of  *)
(* output, a line its number, a name a model value.                        *)
(***************************************************************************)
EXTENDS Naturals, Sequences, FiniteSets

CONSTANTS
  MaxOutput,    \* bytes kept of a stream (16 KiB in the code)
  Chunk,        \* bytes of a read (4 KiB)
  PipeCap,      \* bytes a pipe of the operating system holds
  MaxWritten,   \* bound of the model: bytes written to a stream
  FileLines,    \* lines of the file that is read
  PageLines,    \* the counts a read may ask for (1..400 in the code)
  Root,         \* the directory listed
  Children,     \* the entries of every directory
  Outside,      \* the entries that resolve outside the workspace
  EntryLimits   \* the numbers of entries a listing may ask for (1..200)

Streams == {"stdout", "stderr"}
Dirs == DOMAIN Children
Entries == UNION {Children[d] : d \in Dirs}

ASSUME WorkspaceAssumption ==
  /\ {MaxOutput, Chunk, PipeCap} \cup EntryLimits \subseteq Nat \ {0}
  /\ PageLines \subseteq Nat \ {0}
  /\ {MaxWritten, FileLines} \subseteq Nat
  /\ Root \in Dirs /\ Outside \subseteq Entries

VARIABLES
  tool,      \* the tool called
  stage,     \* of run_command: "idle", "waiting", the stream joined, "answered", "failed", "dropped"
  child,     \* "none", "running", "succeeded" or "broken": exited with an error or killed
  heir,      \* a process the child has left behind holds its pipes
  written,   \* per stream: bytes written to the pipe
  taken,     \* bytes read from it
  kept,      \* bytes in the buffer of read_limited
  truncated, \* its flag
  reader,    \* per stream: "none", "reading" or "done"
  expired,   \* the sleep of the time limit
  timedOut,
  first,     \* the next page asked for, or 0 when the file has been read
  pages,     \* the lines returned so far
  wanted,    \* the entries asked for
  stack,     \* the directories to list
  rest,      \* the entries of the current one that are left
  listed     \* the entries returned

commandVars   == <<stage, child, heir, written, taken, kept, truncated, reader, expired, timedOut>>
pageVars      == <<first, pages>>
listVars      == <<wanted, stack, rest, listed>>
workspaceVars == <<tool, commandVars, pageVars, listVars>>

-----------------------------------------------------------------------------
(* run_command.                                                            *)

Over == stage \in {"answered", "failed", "dropped"}

\* The process is spawned with both pipes and a reader on each, or is not: the
\* arguments are refused, or the program is not found.
RunCommand ==
  /\ tool = "run_command" /\ stage = "idle"
  /\ \/ /\ stage' = "waiting" /\ child' = "running"
        /\ reader' = [s \in Streams |-> "reading"]
     \/ stage' = "failed" /\ UNCHANGED <<child, reader>>
  /\ UNCHANGED <<heir, written, taken, kept, truncated, expired, timedOut, pageVars, listVars, tool>>

\* What runs is the user's command: it writes while there is room, leaves a
\* process behind, and exits when it likes, or never.
Write(s) ==
  /\ child = "running" \/ heir
  /\ written[s] - taken[s] < PipeCap /\ written[s] < MaxWritten
  /\ written' = [written EXCEPT ![s] = @ + 1]
  /\ UNCHANGED <<stage, child, heir, taken, kept, truncated, reader, expired, timedOut, pageVars, listVars, tool>>

Fork ==
  /\ child = "running" /\ ~heir /\ heir' = TRUE
  /\ UNCHANGED <<stage, child, written, taken, kept, truncated, reader, expired, timedOut, pageVars, listVars, tool>>

Exits ==
  /\ child = "running" /\ child' \in {"succeeded", "broken"}
  /\ UNCHANGED <<stage, heir, written, taken, kept, truncated, reader, expired, timedOut, pageVars, listVars, tool>>

HeirExits ==
  /\ heir /\ heir' = FALSE
  /\ UNCHANGED <<stage, child, written, taken, kept, truncated, reader, expired, timedOut, pageVars, listVars, tool>>

Least(a, b) == IF a < b THEN a ELSE b

\* to_take: what of the bytes read is kept.
Fits(s, read) == Least(read, MaxOutput - kept[s])

\* Mutant: only bytes read with a full buffer count as cut off.
CutOffWhenFull(s, read) == kept[s] >= MaxOutput

\* What is dropped of the bytes that were read.
CutOff(s, read) == read > MaxOutput - kept[s]

\* read_limited: the pipe is drained beyond the limit, whose excess is dropped.
ReadSome(s, read) ==
  /\ reader[s] = "reading" /\ read <= written[s] - taken[s]
  /\ taken' = [taken EXCEPT ![s] = @ + read]
  /\ kept' = [kept EXCEPT ![s] = @ + Fits(s, read)]
  /\ truncated' = [truncated EXCEPT ![s] = @ \/ CutOff(s, read)]
  /\ UNCHANGED <<stage, child, heir, written, reader, expired, timedOut, pageVars, listVars, tool>>

\* The end of the stream, which every writer must have closed.
ReadEnd(s) ==
  /\ reader[s] = "reading" /\ written[s] = taken[s]
  /\ child # "running" /\ ~heir
  /\ reader' = [reader EXCEPT ![s] = "done"]
  /\ UNCHANGED <<stage, child, heir, written, taken, kept, truncated, expired, timedOut, pageVars, listVars, tool>>

Expire ==
  /\ stage = "waiting" /\ ~expired /\ expired' = TRUE
  /\ UNCHANGED <<stage, child, heir, written, taken, kept, truncated, reader, timedOut, pageVars, listVars, tool>>

\* The branches of the select!, either of them when both are ready.
Waited ==
  /\ stage = "waiting" /\ child # "running"
  /\ stage' = "stdout"
  /\ UNCHANGED <<child, heir, written, taken, kept, truncated, reader, expired, timedOut, pageVars, listVars, tool>>

Killed == IF child = "running" THEN "broken" ELSE child

\* Mutant: nothing kills the process.
LeftAlone == child

KilledAtLimit == Killed

TimesOut ==
  /\ stage = "waiting" /\ expired
  /\ child' = KilledAtLimit
  /\ timedOut' = TRUE /\ stage' = "stdout"
  /\ UNCHANGED <<heir, written, taken, kept, truncated, reader, expired, pageVars, listVars, tool>>

\* join_read_task for stdout, then for stderr.
JoinReader ==
  /\ stage \in Streams /\ reader[stage] = "done"
  /\ stage' = IF stage = "stdout" THEN "stderr" ELSE "answered"
  /\ UNCHANGED <<child, heir, written, taken, kept, truncated, reader, expired, timedOut, pageVars, listVars, tool>>

KilledOnDrop == Killed

\* The harness aborts the call: the process is killed (kill_on_drop), the
\* readers run on.
Drop ==
  /\ stage \in {"waiting"} \cup Streams
  /\ stage' = "dropped" /\ child' = KilledOnDrop
  /\ UNCHANGED <<heir, written, taken, kept, truncated, reader, expired, timedOut, pageVars, listVars, tool>>

CommandNext ==
  \/ RunCommand \/ Fork \/ Exits \/ HeirExits \/ Expire \/ Waited \/ TimesOut \/ JoinReader \/ Drop
  \/ \E s \in Streams : Write(s) \/ ReadEnd(s) \/ \E read \in 1..Chunk : ReadSome(s, read)

-----------------------------------------------------------------------------
(* read_file.                                                              *)

\* start_index.
StartIndex(from) == from - 1

\* end_index.
EndIndex(from, count) == Least(StartIndex(from) + count, FileLines)

\* The caller goes on after endLine until the answer says it is not truncated.
ReadPage(count) ==
  /\ tool = "read_file" /\ first # 0
  /\ pages' = pages \o [i \in 1..(EndIndex(first, count) - StartIndex(first)) |-> StartIndex(first) + i]
  /\ first' = IF EndIndex(first, count) < FileLines THEN EndIndex(first, count) + 1 ELSE 0
  /\ UNCHANGED <<tool, commandVars, listVars>>

-----------------------------------------------------------------------------
(* list_files with recursion, collect_entries.                             *)

ListDir ==
  /\ tool = "list_files" /\ stack # <<>> /\ rest = {} /\ Cardinality(listed) < wanted
  /\ rest' = Children[stack[Len(stack)]]
  /\ stack' = SubSeq(stack, 1, Len(stack) - 1)
  /\ UNCHANGED <<tool, commandVars, pageVars, wanted, listed>>

Pushed(e) == Append(stack, e)

\* One entry: skipped when it resolves outside, else returned, and pushed when it
\* is a directory; a link to a directory is not.  The order is that of the names.
ListEntry(e) ==
  /\ Cardinality(listed) < wanted
  /\ rest' = rest \ {e}
  /\ listed' = IF e \in Outside THEN listed ELSE listed \cup {e}
  /\ stack' = IF e \in Dirs \ Outside THEN Pushed(e) ELSE stack
  /\ UNCHANGED <<tool, commandVars, pageVars, wanted>>

-----------------------------------------------------------------------------
WorkspaceInit ==
  /\ tool \in {"run_command", "read_file", "list_files"}
  /\ stage = "idle" /\ child = "none" /\ heir = FALSE
  /\ written = [s \in Streams |-> 0] /\ taken = [s \in Streams |-> 0]
  /\ kept = [s \in Streams |-> 0] /\ truncated = [s \in Streams |-> FALSE]
  /\ reader = [s \in Streams |-> "none"]
  /\ expired = FALSE /\ timedOut = FALSE
  /\ first = 1 /\ pages = <<>>
  /\ wanted \in EntryLimits
  /\ stack = <<Root>> /\ rest = {} /\ listed = {}

ReadNext == \E count \in PageLines : ReadPage(count)
ListNext == ListDir \/ \E e \in rest : ListEntry(e)

WorkspaceNext == CommandNext \/ ReadNext \/ ListNext

WorkspaceSpec == WorkspaceInit /\ [][WorkspaceNext]_workspaceVars

\* The tasks of the call are polled and the timer fires; the command is its own master.
WorkspaceFairness ==
  /\ WF_workspaceVars(Expire) /\ WF_workspaceVars(Waited \/ TimesOut) /\ WF_workspaceVars(JoinReader)
  /\ \A s \in Streams : /\ WF_workspaceVars(\E read \in 1..Chunk : ReadSome(s, read))
                        /\ WF_workspaceVars(ReadEnd(s))

FairWorkspaceSpec == WorkspaceSpec /\ WorkspaceFairness

-----------------------------------------------------------------------------
(* Properties.                                                             *)

WorkspaceTypeOK ==
  /\ stage \in {"idle", "waiting", "answered", "failed", "dropped"} \cup Streams
  /\ child \in {"none", "running", "succeeded", "broken"}
  /\ {heir, expired, timedOut} \subseteq BOOLEAN
  /\ written \in [Streams -> 0..MaxWritten] /\ taken \in [Streams -> 0..MaxWritten]
  /\ kept \in [Streams -> 0..MaxOutput] /\ truncated \in [Streams -> BOOLEAN]
  /\ reader \in [Streams -> {"none", "reading", "done"}]
  /\ first \in 0..(FileLines + 1)
  /\ rest \subseteq Entries /\ listed \subseteq Entries

\* The answer has the output from its start, up to the limit, and says of each
\* stream whether more was written, by the command and by what it left behind.
OutputAccounted ==
  stage = "answered" => \A s \in Streams :
    kept[s] = Least(written[s], MaxOutput) /\ truncated[s] = (written[s] > MaxOutput)

\* A call that is over, answered or aborted, leaves no command of its own running.
NoCommandLeft == Over => child # "running"

\* Pages that follow one another show every line once, in order, and the one that
\* is not truncated is the last (read_file).
PagesCover ==
  /\ \A i \in 1..Len(pages) : pages[i] = i
  /\ first = 0 => Len(pages) = FileLines
  /\ first # 0 => Len(pages) = first - 1

\* Everything the walk reaches: the directories in the workspace, and their entries.
Reached == {e \in Entries \ Outside : \E d \in {Root} \cup (Dirs \cap listed) : e \in Children[d]}

\* A listing with fewer entries than asked for has all there are: it is not marked
\* as truncated (list_files).
ListedWhole ==
  (stack = <<>> /\ rest = {} /\ Cardinality(listed) < wanted) => listed = Reached

\* A command ends within its time limit, unless a process it started keeps the
\* pipes open, whose end the answer waits for (join_read_task).
CommandEnds == stage = "waiting" ~> (Over \/ heir)

\* Not met: a command ends within its time limit.
TimeLimitHolds == stage = "waiting" ~> Over

\* What holds of a call of run_command, read_file or list_files in every state.
WorkspaceInv == WorkspaceTypeOK /\ OutputAccounted /\ NoCommandLeft /\ PagesCover /\ ListedWhole
=============================================================================

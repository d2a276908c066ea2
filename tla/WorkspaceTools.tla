----------------------------- MODULE WorkspaceTools -----------------------------
(* The tool calls of an agent over the files of its project (tools/*.py) and  *)
(* what the engine keeps of them (runtime/engine.py): the changed files, the  *)
(* required ones that are done, and excerpts of files read, shown to the      *)
(* model in later turns.  Each call is also logged, and logging may fail.     *)
(* AgentRun has what a turn of calls means for the run.                       *)
(* A file's text is known by its size, in some unit.                          *)
EXTENDS Naturals, FiniteSets, Sequences

CONSTANTS
    NumPaths,     \* paths are 1..NumPaths, in the order of their names
    Protected,    \* the ones that are never to be changed (.git, gradlew)
    Sizes,        \* of the texts
    OutputLimit,  \* max_tool_output_bytes
    MaxExcerpt, MaxRetained, MaxTotal,  \* _MAX_RETAINED_FILE_...
    MaxSteps, MaxCalls,                 \* bounds: turns, and calls executed
    MaxFaults     \* bound: appends to the log, and writes, that fail

Paths == 1..NumPaths
ASSUME ToolConstants ==
    /\ NumPaths \in Nat \ {0} /\ Protected \subseteq Paths
    /\ Sizes \subseteq Nat \ {0} /\ Sizes # {}
    /\ {OutputLimit, MaxExcerpt, MaxRetained, MaxTotal, MaxSteps, MaxCalls} \subseteq Nat \ {0}
    /\ MaxExcerpt <= MaxTotal /\ MaxFaults \in Nat

VARIABLES
    files,     \* what each path holds
    folder,    \* does the folder of the last path exist?
    step, calls, faults,
    evidence,  \* retained_file_evidence
    changed, pending,  \* changed_files, pending_mutation_targets (one is required)
    logged,    \* paths of the FILE_CHANGED events
    last,      \* the last call: what was logged of it, what the agent was told
    untold,    \* paths changed since the agent was last told of them
    refused,   \* a call of this turn was rejected, and not for an existing file
    running    \* nothing has been raised

telling == <<evidence, changed, pending, logged, last>>
vars == <<files, folder, step, calls, faults, telling, untold, refused, running>>

(* A text's lines end in "\n" or in "\r\n"; "binary" is not UTF-8, and "torn" *)
(* what a write that failed half way left.                                    *)
Texts  == [size : Sizes, crlf : BOOLEAN]
Absent == [size |-> 0, kind |-> "absent"]
Binary == [size |-> 0, kind |-> "binary"]
Torn   == [size |-> 0, kind |-> "torn"]

Least(a, b) == IF a < b THEN a ELSE b
InFolder(p) == p = NumPaths

-----------------------------------------------------------------------------
(* The tools: what a call does to its path, and answers.                      *)
Result(status, now) == [status |-> status, now |-> now, changed |-> FALSE, read |-> 0]
Unchanged(status, p) == Result(status, files[p])
Changing(p, now) == [Result("success", now) EXCEPT !.changed = TRUE]

\* Text read and compared has its line ends translated, text given has not.
Write(p, t) ==
    IF files[p] = Absent \/ p \in Protected \/ t.size > OutputLimit
    THEN Unchanged("rejected", p)
    ELSE IF files[p] = Binary THEN Unchanged("error", p)
    ELSE IF files[p] = Torn \/ files[p].size # t.size \/ t.crlf THEN Changing(p, t)
    ELSE Unchanged("success", p)

Create(p, t) ==
    IF p \in Protected \/ (files[p] = Absent /\ t.size > OutputLimit)
    THEN Unchanged("rejected", p)
    ELSE IF files[p] # Absent THEN Unchanged("exists", p)
    ELSE Changing(p, t)

Delete(p) ==
    IF files[p] = Absent \/ p \in Protected THEN Unchanged("rejected", p)
    ELSE Changing(p, Absent)

\* The caller's max_bytes can only lower the limit.
Read(p, limit) ==
    IF files[p] = Absent THEN Unchanged("rejected", p)
    ELSE IF files[p] = Binary THEN Unchanged("error", p)
    ELSE [Unchanged("success", p) EXCEPT !.read = Least(limit, OutputLimit)]

-----------------------------------------------------------------------------
(* ToolExecutor.execute: what is logged of a call with this result, what the  *)
(* agent is told of it, and how many appends failed on the way.  An exception *)
(* of the log after the tool has run is an error of the tool.                 *)
Answer(status) == CASE status \in {"rejected", "exists"} -> "rejected" [] OTHER -> status
Telling(log, told, failed) == [log |-> log, told |-> told, failed |-> failed]
\* As if a change that could not be logged were a success all the same.
FaultyTellings(r) ==
    {Telling(<<Answer(r.status)>> \o log, r.status, 0) :
        log \in IF r.changed THEN {<<>>, <<"changed">>} ELSE {<<>>}}
Tellings(r) ==
    LET word == Answer(r.status)
        Fallback(log, failed) ==
            {Telling(Append(log, "error"), "error", failed), Telling(log, "raised", failed + 1)}
    IN  {Telling(IF r.changed THEN <<word, "changed">> ELSE <<word>>, r.status, 0)}
        \cup IF word = "success"
             THEN Fallback(<<>>, 1) \cup IF r.changed THEN Fallback(<<word>>, 1) ELSE {}
             ELSE {Telling(<<>>, "raised", 1)}

(* _record_retained_file_evidence, with _prune_retained_file_evidence: the    *)
(* oldest of the excerpts go until the others fit.                            *)
Excerpt(p, r) ==
    [path |-> p, step |-> step, of |-> files[p], size |-> Least(Least(files[p].size, r.read), MaxExcerpt)]
Newer(e, f) == f.step < e.step \/ (f.step = e.step /\ f.path < e.path)
Total(es) ==
    LET sum[n \in 0..NumPaths] ==
            IF n = 0 THEN 0
            ELSE sum[n - 1] + IF \E e \in es : e.path = n
                              THEN (CHOOSE e \in es : e.path = n).size ELSE 0
    IN  sum[NumPaths]
Pruned(es) ==
    {e \in es : LET kept == {f \in es : f = e \/ Newer(f, e)}
                IN  Cardinality(kept) <= MaxRetained /\ Total(kept) <= MaxTotal}

Without(p) == {e \in evidence : e.path # p}
FaultyForgotten(tool, p) == IF tool = "delete_file" THEN evidence ELSE Without(p)
Forgotten(tool, p) == Without(p)
Retained(tool, p, r) ==
    IF r.changed THEN Forgotten(tool, p)
    ELSE IF r.read > 0 THEN Pruned(Without(p) \cup {Excerpt(p, r)})
    ELSE evidence

(* _execute_tool_calls, for a call of an offered tool.                        *)
Perform(tool, p, r) ==
    /\ running /\ calls < MaxCalls
    /\ \E t \in Tellings(r) :
          LET told == t.told = "success" IN
          /\ faults + t.failed <= MaxFaults /\ faults' = faults + t.failed
          /\ last' = [log |-> t.log, told |-> t.told]
          /\ files' = [files EXCEPT ![p] = r.now]
          /\ evidence' = IF told THEN Retained(tool, p, r) ELSE evidence
          /\ changed'  = IF told /\ r.changed THEN changed \cup {p} ELSE changed
          /\ pending'  = IF told /\ r.changed /\ tool # "delete_file" THEN pending \ {p} ELSE pending
          /\ logged'   = IF "changed" \in {t.log[i] : i \in DOMAIN t.log} THEN logged \cup {p} ELSE logged
          /\ untold'   = IF told /\ (r.changed \/ r.read > 0) THEN untold \ {p}
                         ELSE IF r.changed THEN untold \cup {p} ELSE untold
          /\ refused'  = (refused \/ t.told = "rejected")
          /\ running'  = (t.told # "raised")
    /\ calls' = calls + 1
    /\ UNCHANGED step

ReadFile == \E p \in Paths, limit \in {1, OutputLimit} :
    Perform("read_file", p, Read(p, limit)) /\ UNCHANGED folder
WriteFile == \E p \in Paths, t \in Texts :
    Perform("write_file", p, Write(p, t)) /\ UNCHANGED folder
DeleteFile == \E p \in Paths :
    Perform("delete_file", p, Delete(p)) /\ UNCHANGED folder

\* The checks come before the folder is made.
FaultyFolderAfter(p, r) == folder \/ InFolder(p)
FolderAfter(p, r) == folder \/ (InFolder(p) /\ r.changed)
CreateFile == \E p \in Paths, t \in Texts :
    LET r == Create(p, t)
    IN  Perform("create_file", p, r) /\ folder' = FolderAfter(p, r)

\* Nothing is kept of what these answer.  A binary file, or a folder that is
\* not there, fails a whole search.
Looks(tool, statuses) == \E status \in statuses :
    Perform(tool, 1, Unchanged(status, 1)) /\ UNCHANGED folder
ListDirectory == Looks("list_directory", {"success", "error", "rejected"})
SearchText == Looks("search_text", {"success", "error", "rejected"})
\* An unknown tool, or arguments that do not fit its schema.
InvalidCall == Looks("invalid", {"rejected"})

\* write_text fails half way: an error, and the file is neither old nor new.
WriteTears == \E p \in Paths, t \in Texts :
    /\ faults < MaxFaults /\ running /\ calls < MaxCalls
    /\ \/ Write(p, t).changed /\ UNCHANGED folder
       \/ Create(p, t).changed /\ folder' = (folder \/ InFolder(p))
    /\ files' = [files EXCEPT ![p] = Torn] /\ untold' = untold \cup {p}
    /\ faults' = faults + 1 /\ calls' = calls + 1
    /\ last' = [log |-> <<"error">>, told |-> "error"]
    /\ UNCHANGED <<step, evidence, changed, pending, logged, refused, running>>

\* The request itself cannot be logged: nothing was executed, the run ends.
RequestUnlogged ==
    /\ running /\ calls < MaxCalls /\ faults < MaxFaults
    /\ faults' = faults + 1 /\ running' = FALSE
    /\ last' = [log |-> <<>>, told |-> "raised"]
    /\ UNCHANGED <<files, folder, step, calls, evidence, changed, pending, logged, untold, refused>>

\* The calls that follow a rejection in its turn are still executed; then the
\* run ends.
NextTurn ==
    /\ running /\ ~refused /\ step < MaxSteps /\ step' = step + 1
    /\ UNCHANGED <<files, folder, calls, faults, telling, untold, refused, running>>

\* Someone else edits a file of the project.
UserEdits == \E p \in Paths, now \in Texts \cup {Absent} :
    /\ running /\ faults < MaxFaults /\ now # files[p] /\ (InFolder(p) => folder)
    /\ files' = [files EXCEPT ![p] = now] /\ untold' = untold \cup {p}
    /\ faults' = faults + 1
    /\ UNCHANGED <<folder, step, calls, telling, refused, running>>

Init ==
    /\ files \in [Paths -> Texts \cup {Absent, Binary}] /\ folder = (files[NumPaths] # Absent)
    /\ step = 1 /\ calls = 0 /\ faults = 0
    /\ evidence = {} /\ changed = {} /\ pending = {1}
    /\ logged = {} /\ last = [log |-> <<>>, told |-> "none"]
    /\ untold = {} /\ refused = FALSE /\ running = TRUE

Next ==
    \/ ReadFile \/ WriteFile \/ CreateFile \/ DeleteFile
    \/ ListDirectory \/ SearchText \/ InvalidCall
    \/ WriteTears \/ RequestUnlogged \/ NextTurn \/ UserEdits
Spec == Init /\ [][Next]_vars

-----------------------------------------------------------------------------
(* What the model is shown of a file is the beginning of what the file holds, *)
(* unless something changed it that the agent was not told of: a write that   *)
(* tore, a change that could not be logged, or someone else.                  *)
EvidenceIsCurrent ==
    \A e \in evidence : e.path \notin untold => e.of = files[e.path]

(* As many excerpts as may be retained at most, and one of a file: an older   *)
(* one is replaced or has gone, however the reads and the changes follow.     *)
ShownIsBounded ==
    /\ Cardinality(evidence) <= MaxRetained
    /\ \A e, f \in evidence : e.path = f.path => e = f

(* The run state and the event log agree on the files that were changed,      *)
(* whichever append failed.                                                   *)
ChangedIsLogged == changed = logged

(* A call the agent was told is rejected, or names an existing file, has left *)
(* nothing behind: no file, no folder, no evidence.                           *)
RefusedTouchesNothing ==
    [][calls' # calls /\ last'.told \in {"rejected", "exists"} =>
          UNCHANGED <<files, folder, evidence, changed, pending>>]_vars
================================================================================

----------------------------- MODULE SessionFiles -----------------------------
(***************************************************************************)
(* insights/session_files.go: the file accesses of a session, from its     *)
(* events and its operations.  An operation is [id, session, call,         *)
(* category, duration]; the call is the provider's identity of the tool    *)
(* call, as an optional number.                                            *)
(***************************************************************************)
EXTENDS InsightEvents

LOCAL INSTANCE TLC

FilesystemAction ==
    {<<"filesystem read", "read">>, <<"filesystem write", "write">>,
     <<"filesystem delete", "delete">>}

\* actionFromCategory
CategoryAction(category) == {pair[2] : pair \in {p \in FilesystemAction : p[1] = category}}

\* actionFromToolName
ToolAction(tool) ==
    CASE tool \in {"Read", "Glob", "Grep", "NotebookRead"} -> {"read"}
      [] tool \in {"Write", "Edit", "MultiEdit", "NotebookEdit", "apply_patch"} -> {"write"}
      [] OTHER -> {}

\* isFilesystemCategory
FileOperations(operations) == {o \in operations : CategoryAction(o.category) # {}}

\* eventToolUseID: of a span, of an event, of the echo of a record.
EventCall(e) ==
    FirstNumber(NumberAt(Extension(e, "tool"), "tool_use_id"),
        FirstNumber(NumberAt(e.attributes, "tool_use_id"),
                    NumberAt(Extension(e, "event"), "tool_use_id")))

EventTool(e) ==
    StringAt(Extension(e, "tool"), "tool_name",
        StringAt(e.attributes, "tool_name", StringAt(Extension(e, "event"), "tool_name", "")))

\* matchFilesystemOperation: by the call, else by the operation the event names.
OperationOf(e, operations) ==
    LET files == FileOperations(operations)
        ofCall == {o \in files : o.call # Absent /\ o.call = EventCall(e)}
    IN  IF ofCall # {} THEN ofCall
        ELSE {o \in files : NumberAt(e.attributes, "operation_id") = {o.id}}

\* filesystemCategoryFromEvent
FileCategory(e, operation) ==
    IF operation # {} THEN {o.category : o \in operation}
    ELSE {c \in {StringAt(e.attributes, "category", "")} : CategoryAction(c) # {}}

\* toolFilePath: only the block of a tool span has a path that counts.
FilePath(e) == NumberAt(Extension(e, "tool"), "file_path")

\* fileAction: from the category, else from the name of the tool.
FileAction(e, operation) ==
    LET proved == UNION {CategoryAction(c) : c \in FileCategory(e, operation)}
        guessed == ToolAction(EventTool(e))
    IN  IF proved # {} THEN [action |-> proved, availability |-> "observed"]
        ELSE IF guessed # {} THEN [action |-> guessed, availability |-> "inferred"]
        ELSE [action |-> {"unknown"}, availability |-> "unavailable"]

\* fileDuration
FileDuration(e, operation) ==
    FirstNumber(NumberAt(e.attributes, "duration_ms"),
        FirstNumber(NumberAt(Extension(e, "tool"), "duration_ms"),
                    UNION {o.duration : o \in operation}))

\* SessionFilesFromEvidence
FileRows(events, operations) ==
    LET row(e) ==
            LET operation == OperationOf(e, operations)
            IN  [event |-> e.id, at |-> e.at, path |-> FilePath(e), call |-> EventCall(e),
                 operation |-> FirstNumber({o.id : o \in operation},
                                           NumberAt(e.attributes, "operation_id")),
                 duration |-> FileDuration(e, operation)] @@ FileAction(e, operation)
    IN  {row(e) : e \in {f \in events : \/ FilePath(f) # Absent
                                        \/ FileCategory(f, OperationOf(f, operations)) # {}}}
=============================================================================

------------------------------- MODULE Setup -------------------------------
(***************************************************************************)
(* `runtimepulse setup` (internal/setup, cmd_setup.go): the command        *)
(* registers the MCP server with the agents the user selects, by the       *)
(* agent's own CLI or in its JSON config, and merges a block of guidance   *)
(* into their instruction files.  It is run again and again over files     *)
(* that the user edits, and can be interrupted at any point.               *)
(*                                                                         *)
(* The agents' CLIs and the user are external.  The user edits while no    *)
(* set-up runs.  An instruction file is a sequence of marker lines, of     *)
(* bodies of the managed block and of lines of the user.                   *)
(***************************************************************************)
EXTENDS Naturals, Sequences, FiniteSets, SequencesExt

CONSTANTS
    Native,      \* agents with a CLI that registers servers: claude, codex
    Configured,  \* agents with a JSON config: cursor, opencode
    Manual,      \* agents without an instruction file: cursor
    Configs,     \* the configs the user may have written
    Docs,        \* the instruction files the user may have written
    MaxEdits,    \* bound: edits of the user
    MaxDoc       \* bound: the lines of an instruction file before a set-up

Agents == Native \cup Configured

VARIABLES
    installed,   \* the agents whose CLI is found on PATH
    native,      \* the native agents that list the server
    config,      \* each configured agent's JSON file
    doc,         \* each agent's instruction file
    edits,       \* edits of the user so far
    setup,       \* where the command is
    todo,        \* the agents that it has still to go through, in order
    selected,    \* the agents it was asked for
    rules,       \* it goes on to the instruction files
    temp,        \* what it has written to a temporary file, <<>> for nothing
    result       \* what it reports for each agent

setupVars == <<installed, native, config, doc, edits, setup, todo, selected, rules, temp,
               result>>

\* A JSON config: what its first JSON value is, the value null among them, its other keys,
\* what the section of the servers is, and its servers; "tail" if text follows that value.
ConfigType == [json: {"absent", "object", "null", "invalid"}, keys: BOOLEAN, tail: BOOLEAN,
               section: {"none", "object", "other"}, servers: SUBSET {"ours", "theirs"}]

Body == "body"          \* of this release
Lines == {"begin", Body, "old body", "end", "text 1", "text 2"}
NoDoc == <<"absent">>
DocType == Seq(Lines) \cup {NoDoc}

\* An agent has a CLI that registers servers or a config, one of the two (specs).
ASSUME SetupAssumption ==
    /\ MaxDoc \in Nat /\ MaxEdits \in Nat
    /\ IsFiniteSet(Agents) /\ Native \cap Configured = {} /\ Manual \subseteq Agents
    /\ Configs \subseteq ConfigType /\ Docs \subseteq DocType

\* Every file is one the set-up or the user wrote, and every result is one of Run's.
SetupTypeOK ==
    /\ installed \subseteq Agents /\ native \subseteq Native
    /\ config \in [Configured -> ConfigType]
    /\ doc \in [Agents \ Manual -> DocType]
    /\ edits \in Nat
    /\ setup \in {"idle", "run", "rules", "done", "panic"}
    /\ todo \in Seq(Agents)
    /\ selected \subseteq Agents
    /\ rules \in BOOLEAN
    /\ \/ temp = <<>>
       \/ setup = "run" /\ temp \in Seq(ConfigType)
       \/ setup = "rules" /\ temp \in Seq(Seq(Lines))
    /\ result \in [Agents -> {"none", "ok", "skipped", "error"}]

NoResult == [a \in Agents |-> "none"]

SetupInit ==
    /\ installed = Agents
    /\ native = {}
    /\ config \in [Configured -> Configs]
    /\ doc \in [Agents \ Manual -> Docs]
    /\ edits = 0
    /\ setup = "idle"
    /\ todo = <<>>
    /\ selected = {}
    /\ rules = FALSE
    /\ temp = <<>>
    /\ result = NoResult

----------------------------------------------------------------------------
(* The user *)

\* An agent's CLI disappears after it was detected.
Uninstall(a) ==
    /\ setup = "run"
    /\ installed' = installed \ {a}
    /\ UNCHANGED <<native, config, doc, edits, setup, todo, selected, rules, temp, result>>

\* Lines are added at either end, and any line is taken out.
EditDoc(a) ==
    /\ setup = "idle"
    /\ edits < MaxEdits
    /\ edits' = edits + 1
    /\ doc[a] # NoDoc
    /\ \/ \E x \in {"text 2", "begin", "end"} :
            doc' = [doc EXCEPT ![a] = Append(@, x)] \/ doc' = [doc EXCEPT ![a] = <<x>> \o @]
       \/ \E i \in DOMAIN doc[a] : doc' = [doc EXCEPT ![a] = RemoveAt(@, i)]
    /\ UNCHANGED <<installed, native, config, setup, todo, selected, rules, temp, result>>

----------------------------------------------------------------------------
(* The pure merges *)

Block == <<"begin", Body, "end">>

\* The first line that is x, or 0 (strings.Index, and its -1).
Index(d, x) == SelectInSeq(d, LAMBDA y : y = x)

\* Mutant: what follows the block begins with its end marker.
MergeKeepsEnd(d) ==
    LET b == Index(d, "begin")  e == Index(d, "end")
    IN  IF d = NoDoc THEN Block
        ELSE IF b > 0 /\ e >= b
        THEN SubSeq(d, 1, b - 1) \o Block \o SubSeq(d, e, Len(d))
        ELSE d \o Block

\* mergeMarkerBlock: the block replaces what is between the first markers, or is added.
MergeMarkerBlock(d) ==
    LET b == Index(d, "begin")  e == Index(d, "end")
    IN  IF d = NoDoc THEN Block
        ELSE IF b > 0 /\ e >= b
        THEN SubSeq(d, 1, b - 1) \o Block \o SubSeq(d, e + 1, Len(d))
        ELSE d \o Block

\* hasJSONServer reads the whole file.
HasServer(c) == c.json = "object" /\ ~c.tail /\ c.section = "object" /\ "ours" \in c.servers

\* mergeJSONServer reads the first JSON value of it.
Mergeable(c) == c.json \notin {"invalid", "null"}

MergeJSONServer(c) ==
    [c EXCEPT !.json = "object", !.tail = FALSE, !.section = "object",
              !.servers = IF c.section = "object" THEN @ \cup {"ours"} ELSE {"ours"}]

----------------------------------------------------------------------------
(* setupCmd and Run *)

\* The agents are detected and selected, by flags or by the prompt, in their fixed order;
\* --dry-run and a user who quits do nothing.
StartSetup(sel, r) ==
    /\ setup = "idle"
    /\ sel # {} /\ sel \subseteq installed
    /\ \A a \in DOMAIN doc : Len(doc[a]) <= MaxDoc
    /\ setup' = "run"
    /\ todo' = SetToSeq(sel)
    /\ selected' = sel
    /\ rules' = r
    /\ result' = NoResult
    /\ UNCHANGED temp
    /\ UNCHANGED <<installed, native, config, doc, edits>>

\* The next agent, or the next stage: the rules, when they were asked for, and the end.
Advance ==
    /\ temp' = <<>>
    /\ IF Len(todo) > 1 THEN todo' = Tail(todo) /\ UNCHANGED setup
       ELSE IF setup = "run" /\ rules THEN todo' = SetToSeq(selected) /\ setup' = "rules"
       ELSE todo' = <<>> /\ setup' = "done"
    /\ UNCHANGED <<installed, edits, selected, rules>>

Report(a, res) == result' = [result EXCEPT ![a] = res]

Registered(a) == IF a \in Native THEN a \in native ELSE HasServer(config[a])

At(stage, a) == setup = stage /\ Head(todo) = a

\* Mutant: an agent that cannot be served ends the run.
AbortRun(a) ==
    /\ At("run", a) /\ temp = <<>>
    /\ \/ a \in installed /\ Registered(a) /\ Report(a, "skipped") /\ Advance
       \/ /\ a \notin installed \/ (a \in Configured /\ config[a].json = "invalid")
          /\ Report(a, "error")
          /\ setup' = "done" /\ todo' = <<>>
          /\ UNCHANGED <<installed, edits, selected, rules, temp>>
    /\ UNCHANGED <<native, config, doc>>

\* The agent needs nothing, or cannot be served: its CLI is gone, or its config is not JSON.
SkipAgent(a) ==
    /\ At("run", a) /\ temp = <<>>
    /\ \/ a \in installed /\ Registered(a) /\ Report(a, "skipped")
       \/ a \notin installed /\ Report(a, "error")
       \/ /\ a \in Configured /\ config[a].json = "invalid" /\ ~Registered(a)
          /\ Report(a, "error")
    /\ Advance
    /\ UNCHANGED <<native, config, doc>>

\* mergeJSONServer decodes null into root, and panics when it assigns to the nil map: the
\* command dies, with the agents that come later.
Panic(a) ==
    /\ At("run", a) /\ temp = <<>>
    /\ a \in Configured \cap installed /\ config[a].json = "null"
    /\ setup' = "panic"
    /\ UNCHANGED <<installed, native, config, doc, edits, todo, selected, rules, temp, result>>

\* `mcp add` of the agent's CLI, which may fail.  It is also called when `mcp list` fails,
\* and a server that exists already is no error.
RegisterNative(a) ==
    /\ At("run", a)
    /\ a \in Native \cap installed
    /\ \/ native' = native \cup {a} /\ Report(a, "ok")
       \/ UNCHANGED native /\ Report(a, "error")
    /\ Advance
    /\ UNCHANGED <<config, doc>>

\* Mutant: the contents go to the config itself, which holds half of them for a while.
WriteInPlace(a) ==
    /\ At("run", a) /\ temp = <<>>
    /\ a \in Configured \cap installed /\ ~Registered(a) /\ Mergeable(config[a])
    /\ temp' = <<MergeJSONServer(config[a])>>
    /\ config' = [config EXCEPT ![a].json = "invalid"]
    /\ UNCHANGED <<installed, native, doc, edits, setup, todo, selected, rules, result>>

\* mergeJSONServer: the merged contents are in the temporary file ...
WriteConfig(a) ==
    /\ At("run", a) /\ temp = <<>>
    /\ a \in Configured \cap installed /\ ~Registered(a) /\ Mergeable(config[a])
    /\ temp' = <<MergeJSONServer(config[a])>>
    /\ UNCHANGED <<installed, native, config, doc, edits, setup, todo, selected, rules, result>>

\* ... which is renamed to the config, unless that fails.
RenameConfig(a) ==
    /\ At("run", a) /\ temp # <<>>
    /\ \/ config' = [config EXCEPT ![a] = temp[1]] /\ Report(a, "ok")
       \/ UNCHANGED config /\ Report(a, "error")
    /\ Advance
    /\ UNCHANGED <<native, doc>>

\* WriteRules: an agent without an instruction file, or one that is up to date.
SkipRule(a) ==
    /\ At("rules", a) /\ temp = <<>>
    /\ a \notin Manual => MergeMarkerBlock(doc[a]) = doc[a]
    /\ Advance
    /\ UNCHANGED <<native, config, doc, result>>

WriteRule(a) ==
    /\ At("rules", a) /\ temp = <<>>
    /\ a \notin Manual /\ MergeMarkerBlock(doc[a]) # doc[a]
    /\ temp' = <<MergeMarkerBlock(doc[a])>>
    /\ UNCHANGED <<installed, native, config, doc, edits, setup, todo, selected, rules, result>>

RenameRule(a) ==
    /\ At("rules", a) /\ temp # <<>>
    /\ \/ doc' = [doc EXCEPT ![a] = temp[1]] /\ UNCHANGED result
       \/ UNCHANGED doc /\ Report(a, "error")
    /\ Advance
    /\ UNCHANGED <<native, config>>

\* The command ends, or is interrupted.
EndSetup ==
    /\ setup # "idle"
    /\ setup' = "idle"
    /\ todo' = <<>>
    /\ temp' = <<>>
    /\ installed' = Agents
    /\ selected' = {}
    /\ rules' = FALSE
    /\ result' = NoResult
    /\ UNCHANGED <<native, config, doc, edits>>

SetupNext ==
    \/ \E a \in Agents : Uninstall(a)
    \/ \E a \in Agents \ Manual : EditDoc(a)
    \/ \E sel \in SUBSET Agents, r \in BOOLEAN : StartSetup(sel, r)
    \/ \E a \in Agents :
         \/ SkipAgent(a) \/ Panic(a) \/ RegisterNative(a) \/ WriteConfig(a) \/ RenameConfig(a)
         \/ SkipRule(a) \/ WriteRule(a) \/ RenameRule(a)
    \/ EndSetup

SetupSpec == SetupInit /\ [][SetupNext]_setupVars

----------------------------------------------------------------------------
(* Properties *)

Marks(d, x) == {i \in 1 .. Len(d) : d[i] = x}

\* One block, or none yet: no marker is missing, misplaced or there twice.
WellFormed(d) ==
    \/ Marks(d, "begin") = {} /\ Marks(d, "end") = {}
    \/ \E b, e \in 1 .. Len(d) :
          b < e /\ Marks(d, "begin") = {b} /\ Marks(d, "end") = {e}

\* What is not of the block.
Outside(d) ==
    IF d = NoDoc THEN <<>>
    ELSE IF Index(d, "begin") = 0 THEN d
    ELSE SubSeq(d, 1, Index(d, "begin") - 1) \o SubSeq(d, Index(d, "end") + 1, Len(d))

\* Over any number of set-ups, interrupted ones too, an instruction file that has no stray
\* marker keeps all of the user's lines in their order and gets one block, which the next
\* set-up leaves alone (mergeMarkerBlock).
GuidanceKeepsText ==
    [][\A a \in Agents \ Manual :
         setup # "idle" /\ WellFormed(doc[a]) =>
             /\ WellFormed(doc'[a])
             /\ Outside(doc'[a]) = Outside(doc[a])
             /\ doc'[a] # doc[a] => MergeMarkerBlock(doc'[a]) = doc'[a]]_setupVars

\* The set-up takes nothing out of a config but what is not JSON: the keys and the servers
\* of others stay, and an interrupted run leaves the old file or the new one
\* (mergeJSONServer, atomicWrite).
ConfigKeepsRest ==
    [][\A a \in Configured :
         /\ config'[a].keys = config[a].keys
         /\ config'[a].json # config[a].json => config[a].json = "absent"
         /\ config[a].section = "object" =>
              config[a].servers \subseteq config'[a].servers]_setupVars

Served(a) == Registered(a) \/ result[a] = "error"

\* One agent's failure is not another's: at the end every selected agent is registered or
\* its error is reported.  It takes a config that is the JSON value null to end the run
\* before that, and then it is so for the agents that came before (Run, mergeJSONServer).
EveryAgentServed ==
    /\ setup = "done" => \A a \in selected : Served(a)
    /\ setup = "panic" => /\ config[Head(todo)].json = "null"
                          /\ \A a \in selected \ ToSet(todo) : Served(a)

\* A failure is recorded, never fatal, as the comment on Run says: the command does not
\* end before every selected agent is registered or its error reported.
FailureNeverFatal == setup \in {"done", "panic"} => \A a \in selected : Served(a)

UserText(d) == SelectSeq(d, LAMBDA x : x \in {"text 1", "text 2"})

\* The guidance is refreshed in place and never disturbs the user's content, as the usage
\* document says: a set-up keeps the user's lines of an instruction file
\* (mergeMarkerBlock).
ContentUndisturbed ==
    [][\A a \in Agents \ Manual :
         setup # "idle" /\ doc[a] # NoDoc => UserText(doc'[a]) = UserText(doc[a])]_setupVars

\* A config that is not one valid JSON value is left as it is, as the comment on
\* mergeJSONServer says.
NotJSONIsKept ==
    [][\A a \in Configured :
         config[a].json = "invalid" \/ config[a].tail => config'[a] = config[a]]_setupVars
=============================================================================

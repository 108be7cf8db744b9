------------------------- MODULE RuntimeUpgradeScript -------------------------
(***************************************************************************)
(* The runtime-upgrade migration test script (src/unnamed/part_001), run   *)
(* repeatedly by an operator or CI on one working directory.  It runs with *)
(* set -e (line 2): the first failing command ends the run.  The functions *)
(* are defined twice; bash keeps the later definitions (lines 159-270),    *)
(* and the flag defaults are assigned twice (lines 7-20, 138-151).        *)
(* main (lines 273-305) builds a chain spec, forks the live state with    *)
(* fork_off_init, starts a node, waits for the migration and runs the     *)
(* TypeScript post-migration assertions if POST_MIGRATION_ASYNC_ASSERTIONS *)
(* is on; line 309 then calls cleanup (defined in node-utils.sh).         *)
(* Every external command is abstracted to succeed or fail.               *)
(***************************************************************************)
EXTENDS Naturals

CONSTANTS
    EnvValues,  \* values the environment may give the flag; "unset" = absent
    MaxRuns     \* how many times the script is run

ASSUME "unset" \in EnvValues /\ MaxRuns \in Nat \ {0}

VARIABLES
    storageJson,  \* ./storage.json: "absent", "partial" or "complete" (persists across runs)
    node,         \* the node started by start_node: "none" or "running"
    pc,           \* "idle", "chainspec", "fetch", "forkoff", "startNode", "assert", "cleanup", "done", "failed"
    envIn,        \* POST_MIGRATION_ASYNC_ASSERTIONS as the environment gives it
    asyncFlag,    \* its value after the default assignments
    asyncRan,     \* the post-migration assertions ran in this run
    forkedFrom,   \* the storage.json state fork-off.ts read in this run, or "none"
    runs

vars == <<storageJson, node, pc, envIn, asyncFlag, asyncRan, forkedFrom, runs>>

\* $true and $false: no script, sourced file or environment assigns them,
\* so they expand to the empty string.
ExpandTrue == ""
ExpandFalse == ""

\* ${X=word}: assign word only when X is unset (an empty X is kept).
DefaultIfUnset(v, word) == IF v = "unset" THEN word ELSE v

\* The exit status of ( $X ): an empty command succeeds, true and false are
\* the builtins, anything else is "command not found".
SubshellStatus(v) ==
    CASE v \in {"", "true"} -> 0
      [] v = "false"        -> 1
      [] OTHER              -> 127

Init ==
    /\ storageJson \in {"absent", "complete"}
    /\ node = "none"
    /\ pc = "idle"
    /\ envIn = "unset" /\ asyncFlag = "unset"
    /\ asyncRan = FALSE
    /\ forkedFrom = "none"
    /\ runs = 0

\* A new run of the script: the flag defaults of lines 20 and 151.
StartRun ==
    /\ pc \in {"idle", "done", "failed"}
    /\ runs < MaxRuns
    /\ \E e \in EnvValues :
          /\ envIn' = e
          /\ asyncFlag' = DefaultIfUnset(DefaultIfUnset(e, ExpandTrue), ExpandFalse)
    /\ pc' = "chainspec"
    /\ asyncRan' = FALSE
    /\ forkedFrom' = "none"
    /\ runs' = runs + 1
    /\ UNCHANGED <<storageJson, node>>

\* Lines 276-280: create_initial_config, create_chainspec_file, convert_chainspec.
CreateChainspec ==
    /\ pc = "chainspec"
    /\ \E ok \in BOOLEAN : pc' = IF ok THEN "fetch" ELSE "failed"
    /\ UNCHANGED <<storageJson, node, envIn, asyncFlag, asyncRan, forkedFrom, runs>>

\* fork_off_init lines 169-175: the live state is downloaded only when no
\* storage.json exists; the shell redirection creates the file before curl
\* runs, so a failed download leaves a partial file behind.
FetchStorage ==
    /\ pc = "fetch"
    /\ \/ /\ storageJson # "absent"
          /\ pc' = "forkoff"
          /\ UNCHANGED storageJson
       \/ /\ storageJson = "absent"
          /\ \E ok \in BOOLEAN :
                /\ storageJson' = IF ok THEN "complete" ELSE "partial"
                /\ pc' = IF ok THEN "forkoff" ELSE "failed"
    /\ UNCHANGED <<node, envIn, asyncFlag, asyncRan, forkedFrom, runs>>

\* fork_off_init lines 177-185: schema, runtime wasm, then fork-off.ts reads
\* storage.json.
ForkOff ==
    /\ pc = "forkoff"
    /\ \E ok \in BOOLEAN :
          /\ forkedFrom' = IF ok THEN storageJson ELSE forkedFrom
          /\ pc' = IF ok THEN "startNode" ELSE "failed"
    /\ UNCHANGED <<storageJson, node, envIn, asyncFlag, asyncRan, runs>>

\* Lines 285-291: start_node, then the migration wait.
StartNode ==
    /\ pc = "startNode"
    /\ \E ok \in BOOLEAN :
          /\ node' = IF ok THEN "running" ELSE node
          /\ pc' = IF ok THEN "assert" ELSE "failed"
    /\ UNCHANGED <<storageJson, envIn, asyncFlag, asyncRan, forkedFrom, runs>>

\* Lines 300-304: the TypeScript assertions run when ( $X ) succeeds; their
\* failure ends the script under set -e.
PostMigration ==
    /\ pc = "assert"
    /\ \/ /\ SubshellStatus(asyncFlag) = 0
          /\ asyncRan' = TRUE
          /\ \E ok \in BOOLEAN : pc' = IF ok THEN "cleanup" ELSE "failed"
       \/ /\ SubshellStatus(asyncFlag) # 0
          /\ pc' = "cleanup"
          /\ UNCHANGED asyncRan
    /\ UNCHANGED <<storageJson, node, envIn, asyncFlag, forkedFrom, runs>>

\* Line 309: cleanup stops the node.
Cleanup ==
    /\ pc = "cleanup"
    /\ node' = "none"
    /\ pc' = "done"
    /\ UNCHANGED <<storageJson, envIn, asyncFlag, asyncRan, forkedFrom, runs>>

\* The operator stops rerunning the script.
Finished ==
    /\ pc \in {"idle", "done", "failed"} /\ runs = MaxRuns
    /\ UNCHANGED vars

Next ==
    \/ StartRun \/ CreateChainspec \/ FetchStorage \/ ForkOff
    \/ StartNode \/ PostMigration \/ Cleanup \/ Finished

Spec == Init /\ [][Next]_vars

-----------------------------------------------------------------------------

TypeOK ==
    /\ storageJson \in {"absent", "partial", "complete"}
    /\ node \in {"none", "running"}
    /\ pc \in {"idle", "chainspec", "fetch", "forkoff", "startNode", "assert",
               "cleanup", "done", "failed"}
    /\ envIn \in EnvValues /\ asyncFlag \in EnvValues \cup {""}
    /\ asyncRan \in BOOLEAN /\ forkedFrom \in {"none", "partial", "complete"}
    /\ runs \in 0..MaxRuns

(***************************************************************************)
(* fork-off.ts only ever reads a complete copy of the live state: a run    *)
(* that reaches the fork never forks from a partial storage.json left by   *)
(* an earlier failed download.                                             *)
(***************************************************************************)
ForkOffUsesCompleteState == forkedFrom # "partial"

=============================================================================

----------------------------- MODULE VectorDump -----------------------------
(***************************************************************************)
(* The files of a vector dump (persistence.rs): dump stages the graph, the *)
(* data and the metadata in temporary files and renames them one by one;   *)
(* an empty index has metadata only, and removes the files of an earlier   *)
(* dump.  The process may be killed, or a step fail, at any point; the     *)
(* next boot loads the files, or starts with an empty index (main.rs).     *)
(* A file holds the number of the dump that wrote it, 0 when it is absent. *)
(***************************************************************************)
EXTENDS Integers

CONSTANT MaxDumps   \* bound: dumps started

ASSUME DumpAssumption == MaxDumps \in Nat

VARIABLES
    dump,     \* number of the dump in progress or the last one
    empty,    \* is the index empty, as that dump sees it
    step,     \* the step of dump; "idle" while serving, "down" without process
    temp,     \* the temporary graph, data and metadata
    final,    \* the published ones
    zero,     \* does the published metadata say point_count = 0
    loaded,   \* what the last boot serves: the dump of its graph and of its data
    emptied   \* history: an empty dump has removed files, and no metadata came since

vars == <<dump, empty, step, temp, final, zero, loaded, emptied>>

Files == {"graph", "data", "meta"}
Dumps == 0..MaxDumps
NoFiles == [f \in Files |-> 0]
Nothing == [graph |-> 0, data |-> 0]

Goto(s) == step' = s

\* graceful_shutdown dumps the index; hnsw_rs writes it under names of its own.
DumpBegin ==
    /\ step = "idle" /\ dump < MaxDumps
    /\ dump' = dump + 1
    /\ empty' \in BOOLEAN
    /\ Goto(IF empty' THEN "stageMeta" ELSE "stageGraph")
    /\ UNCHANGED <<temp, final, zero, loaded, emptied>>

\* Mutant: the file is stamped with the number of the next dump.
StageAhead(f, then) ==
    /\ temp' = [temp EXCEPT ![f] = dump + 1]
    /\ Goto(then)
    /\ UNCHANGED <<dump, empty, final, zero, loaded, emptied>>

\* The file f of this dump is complete under its temporary name.
Stage(f, then) ==
    /\ temp' = [temp EXCEPT ![f] = dump]
    /\ Goto(then)
    /\ UNCHANGED <<dump, empty, final, zero, loaded, emptied>>

StageGraph == step = "stageGraph" /\ Stage("graph", "stageData")
StageData == step = "stageData" /\ Stage("data", "stageMeta")

\* Mutant: the metadata is published before the graph.
StageMetaPublishes ==
    /\ step = "stageMeta"
    /\ final' = [final EXCEPT !["meta"] = dump]
    /\ zero' = empty
    /\ temp' = [temp EXCEPT !["meta"] = dump]
    /\ Goto(IF empty THEN "removeGraph" ELSE "publishGraph")
    /\ UNCHANGED <<dump, empty, loaded, emptied>>

\* The metadata under its temporary name, for an empty index too.
StageMeta ==
    /\ step = "stageMeta"
    /\ Stage("meta", IF empty THEN "removeGraph" ELSE "publishGraph")

\* rename: the final file is the temporary one.
Publish(f) ==
    /\ final' = [final EXCEPT ![f] = temp[f]]
    /\ temp' = [temp EXCEPT ![f] = 0]

PublishGraph ==
    /\ step = "publishGraph"
    /\ Publish("graph") /\ Goto("publishData")
    /\ UNCHANGED <<dump, empty, zero, loaded, emptied>>

PublishData ==
    /\ step = "publishData"
    /\ Publish("data") /\ Goto("publishMeta")
    /\ UNCHANGED <<dump, empty, zero, loaded, emptied>>

\* remove_if_exists
RemoveFinal(f, then) ==
    /\ final' = [final EXCEPT ![f] = 0]
    /\ emptied' = TRUE
    /\ Goto(then)
    /\ UNCHANGED <<dump, empty, temp, zero, loaded>>

RemoveGraph == step = "removeGraph" /\ RemoveFinal("graph", "removeData")

\* Mutant: an empty dump leaves the data file of an earlier one.
RemoveDataSkipped ==
    /\ step = "removeData"
    /\ Goto("publishMeta")
    /\ UNCHANGED <<dump, empty, temp, final, zero, loaded, emptied>>

RemoveData == step = "removeData" /\ RemoveFinal("data", "publishMeta")

\* The metadata last.  The process ends soon after.
PublishMeta ==
    /\ step = "publishMeta"
    /\ Publish("meta") /\ zero' = empty /\ emptied' = FALSE
    /\ Goto("done")
    /\ UNCHANGED <<dump, empty, loaded>>

\* The process ends: it exits after the dump, is killed, or a step of the dump
\* failed, which graceful_shutdown only logs.
ProcessEnds ==
    /\ step # "down"
    /\ Goto("down") /\ loaded' = Nothing
    /\ UNCHANGED <<dump, empty, temp, final, zero, emptied>>

\* load can go on: there is metadata of a non-empty index and both files.
Loadable == final["meta"] # 0 /\ ~zero /\ final["graph"] # 0 /\ final["data"] # 0

\* Boot: load, or an empty index without a dump, with the metadata of an empty
\* one, or when load fails.  hnsw_rs may accept or reject files of two dumps.
Boot ==
    /\ step = "down"
    /\ Goto("idle")
    /\ \/ Loadable /\ loaded' = [graph |-> final["graph"], data |-> final["data"]]
       \/ (~Loadable \/ final["graph"] # final["data"]) /\ loaded' = Nothing
    /\ UNCHANGED <<dump, empty, temp, final, zero, emptied>>

Init ==
    /\ dump = 0 /\ empty = TRUE /\ step = "idle"
    /\ temp = NoFiles /\ final = NoFiles /\ zero = FALSE
    /\ loaded = Nothing /\ emptied = FALSE

Next ==
    \/ DumpBegin \/ StageGraph \/ StageData \/ StageMeta
    \/ PublishGraph \/ PublishData \/ RemoveGraph \/ RemoveData \/ PublishMeta
    \/ ProcessEnds \/ Boot

Spec == Init /\ [][Next]_vars
-----------------------------------------------------------------------------
\* The shape of the state.
TypeOK ==
    /\ dump \in Dumps /\ empty \in BOOLEAN /\ zero \in BOOLEAN
    /\ step \in {"idle", "stageGraph", "stageData", "stageMeta", "publishGraph", "publishData",
                 "removeGraph", "removeData", "publishMeta", "done", "down"}
    /\ temp \in [Files -> Dumps] /\ final \in [Files -> Dumps]
    /\ loaded \in [graph: Dumps, data: Dumps]
    /\ emptied \in BOOLEAN

(***************************************************************************)
(* A dump that runs to its end publishes its own files and nothing else,   *)
(* whatever temporary and final files an interrupted dump left behind.     *)
(***************************************************************************)
CompleteDumpExact ==
    step = "done" =>
        /\ final["meta"] = dump /\ zero = empty
        /\ final["graph"] = (IF empty THEN 0 ELSE dump)
        /\ final["data"] = (IF empty THEN 0 ELSE dump)

(***************************************************************************)
(* "A crash at any point therefore never leaves a .meta overclaiming a     *)
(* missing/torn graph" (persistence.rs, dump; GH-824): metadata that       *)
(* claims points has the graph and the data file beside it, and neither is *)
(* older than it, wherever dumps were interrupted.  It does not hold of a  *)
(* dump of an empty index, which removes the files of its predecessor one  *)
(* by one while the metadata still claims them: when that is interrupted,  *)
(* a file may be missing until the next dump is complete, but none that is *)
(* there is older than the metadata.                                       *)
(***************************************************************************)
MetaNeverAhead ==
    final["meta"] # 0 /\ ~zero =>
        \A f \in {"graph", "data"} : final[f] >= final["meta"] \/ (emptied /\ final[f] = 0)
=============================================================================

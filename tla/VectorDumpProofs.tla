-------------------------- MODULE VectorDumpProofs --------------------------
(***************************************************************************)
(* The order of the steps of dump is what makes an interrupted dump        *)
(* harmless: the graph and the data are in place before the metadata that  *)
(* describes them.  It is proved here for any number of dumps, kills and   *)
(* failures.  The invariant says which files of the running dump are       *)
(* staged and published at each step.                                      *)
(***************************************************************************)
EXTENDS VectorDump, TLAPS

\* The temporary files that are complete when dump is at a step.
Staged ==
    /\ step = "stageData" => temp["graph"] = dump
    /\ step \in {"stageMeta", "publishGraph"} /\ ~empty =>
         temp["graph"] = dump /\ temp["data"] = dump
    /\ step = "publishData" => temp["data"] = dump
    /\ step \in {"publishGraph", "publishData", "removeGraph", "removeData", "publishMeta"} =>
         temp["meta"] = dump

\* The final files that dump has replaced or removed by then.
Replaced ==
    /\ step = "publishData" => final["graph"] = dump
    /\ step = "removeData" => final["graph"] = 0
    /\ step = "publishMeta" => /\ final["graph"] = (IF empty THEN 0 ELSE dump)
                               /\ final["data"] = (IF empty THEN 0 ELSE dump)

\* Which steps belong to a dump of an empty index.
Branch ==
    /\ step \in {"stageGraph", "stageData", "publishGraph", "publishData"} => ~empty
    /\ step \in {"removeGraph", "removeData"} => empty

\* The inductive invariant: no file comes from a dump that has not begun.
DumpInv ==
    /\ TypeOK /\ Staged /\ Replaced /\ Branch
    /\ \A f \in Files : final[f] <= dump
    /\ CompleteDumpExact /\ MetaNeverAhead

\* Before the first dump there is nothing.
LEMMA DumpInvInit == Init => DumpInv
<1> SUFFICES ASSUME Init PROVE DumpInv
  OBVIOUS
<1>1. temp = NoFiles /\ final = NoFiles /\ loaded = Nothing /\ dump = 0 /\ step = "idle"
  BY DEF Init
<1>2. TypeOK
  <2>1. empty \in BOOLEAN /\ zero \in BOOLEAN /\ emptied \in BOOLEAN
    BY DEF Init
  <2>2. 0 \in Dumps
    BY DumpAssumption DEF Dumps
  <2> QED BY <1>1, <2>1, <2>2 DEF TypeOK, NoFiles, Nothing
<1>3. Staged /\ Replaced /\ Branch /\ CompleteDumpExact
  BY <1>1 DEF Staged, Replaced, Branch, CompleteDumpExact
<1>4. MetaNeverAhead /\ \A f \in Files : final[f] <= dump
  BY <1>1 DEF MetaNeverAhead, NoFiles, Files
<1> QED BY <1>2, <1>3, <1>4 DEF DumpInv

\* Every step of dump, the end of the process and the boot keep the invariant.
LEMMA DumpInvNext == DumpInv /\ [Next]_vars => DumpInv'
<1> SUFFICES ASSUME DumpInv, [Next]_vars PROVE DumpInv'
  OBVIOUS
<1> USE DumpAssumption DEF DumpInv, TypeOK, Staged, Replaced, Branch, CompleteDumpExact,
                           MetaNeverAhead, Files, Dumps, Goto
<1>1. CASE DumpBegin
  BY <1>1 DEF DumpBegin
<1>2. CASE StageGraph
  BY <1>2 DEF StageGraph, Stage
<1>3. CASE StageData
  BY <1>3 DEF StageData, Stage
<1>4. CASE StageMeta
  BY <1>4 DEF StageMeta, Stage
<1>5. CASE PublishGraph
  BY <1>5 DEF PublishGraph, Publish
<1>6. CASE PublishData
  BY <1>6 DEF PublishData, Publish
<1>7. CASE RemoveGraph
  BY <1>7 DEF RemoveGraph, RemoveFinal
<1>8. CASE RemoveData
  BY <1>8 DEF RemoveData, RemoveFinal
<1>9. CASE PublishMeta
  <2>1. /\ final' = [final EXCEPT !["meta"] = dump] /\ temp' = [temp EXCEPT !["meta"] = 0]
        /\ step' = "done" /\ dump' = dump /\ loaded' = loaded
    BY <1>9 DEF PublishMeta, Publish
  <2>2. zero' = empty /\ emptied' = FALSE /\ empty' = empty
    BY <1>9 DEF PublishMeta
  <2>3. zero' \in BOOLEAN /\ emptied' \in BOOLEAN /\ empty' \in BOOLEAN
    BY <2>2
  <2>4. TypeOK'
    BY <2>1, <2>3
  <2>5. /\ final'["meta"] = dump /\ final'["graph"] = (IF empty THEN 0 ELSE dump)
        /\ final'["data"] = (IF empty THEN 0 ELSE dump)
    BY <1>9, <2>1 DEF PublishMeta
  <2>6. (Staged /\ Replaced /\ Branch)' /\ \A f \in Files : final'[f] <= dump'
    BY <2>1, <2>5
  <2>7. CompleteDumpExact'
    BY <2>1, <2>2, <2>5
  <2>8. MetaNeverAhead'
    <3>1. CASE empty
      BY <2>2, <3>1
    <3>2. CASE ~empty
      BY <2>1, <2>5, <3>2
    <3> QED BY <3>1, <3>2
  <2> QED BY <2>4, <2>6, <2>7, <2>8
<1>10. CASE ProcessEnds
  BY <1>10 DEF ProcessEnds, Nothing
<1>11. CASE Boot
  BY <1>11 DEF Boot, Nothing
<1>12. CASE UNCHANGED vars
  BY <1>12 DEF vars
<1> QED
  BY <1>1, <1>2, <1>3, <1>4, <1>5, <1>6, <1>7, <1>8, <1>9, <1>10, <1>11, <1>12 DEF Next

\* The invariant holds throughout.
LEMMA DumpInvariant == Spec => []DumpInv
BY DumpInvInit, DumpInvNext, PTL DEF Spec

\* Whatever is interrupted, the files and the step keep their shape.
THEOREM DumpTypeCorrect == Spec => []TypeOK
<1>1. DumpInv => TypeOK
  BY DEF DumpInv
<1> QED BY <1>1, DumpInvariant, PTL

\* A dump that runs to its end has published its own files and nothing else,
\* after any history of interrupted dumps.
THEOREM DumpExact == Spec => []CompleteDumpExact
<1>1. DumpInv => CompleteDumpExact
  BY DEF DumpInv
<1> QED BY <1>1, DumpInvariant, PTL

\* Wherever a dump is interrupted, metadata that claims points has both files
\* beside it and is not newer than they are; only an empty dump that was cut
\* short has left one of them out.
THEOREM DumpMetaNeverAhead == Spec => []MetaNeverAhead
<1>1. DumpInv => MetaNeverAhead
  BY DEF DumpInv
<1> QED BY <1>1, DumpInvariant, PTL
=============================================================================

--------------------------- MODULE MCCorpusInstall ---------------------------
(***************************************************************************)
(* One pinned file and one the manifest knows nothing of.  Version 1 has   *)
(* two blocks, version 2 three: a file may be shorter than expected,       *)
(* longer, or over the limit.  An older install has left version 2 of the  *)
(* pinned file and a piece of version 1.                                   *)
(***************************************************************************)
EXTENDS CorpusInstall

MCAssets == {"schedule", "ffc_adp"}
MCOrder == <<"schedule", "ffc_adp">>
MCVersions == {1, 2}
MCSize == [v \in MCVersions |-> IF v = 1 THEN 2 ELSE 3]
MCMaxSize == [a \in MCAssets |-> IF a = "schedule" THEN 3 ELSE 2]
MCElsewhere ==
    [a \in MCAssets |-> IF a = "schedule" THEN {<<2, 2, 2>>, <<1>>} ELSE {}]
=============================================================================

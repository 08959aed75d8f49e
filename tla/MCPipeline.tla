----------------------------- MODULE MCPipeline -----------------------------
(* A source file that is edited back and forth between two versions, with  *)
(* no target beside it or one that was built for branches.                 *)
EXTENDS Pipeline, TLC
CONSTANTS v1, v2
TwoVersions == {v1, v2}
Branchy     == {NoFile} \cup {Code(v, "br") : v \in TwoVersions}
Either      == Permutations(TwoVersions)
=============================================================================

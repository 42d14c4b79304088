---------------------------- MODULE MCDataModel ----------------------------
(* One structure with one part, and two tpinv.                             *)
EXTENDS DataModel, TLC

CONSTANTS s1, p1

MCStructures == {s1}
MCParts == {p1}
MCOwner == [p \in MCParts |-> s1]

(* The two tpinv are alike.                                                *)
Alike == Permutations(Tools)
=============================================================================

---------------------------- MODULE MCQkUpstream ----------------------------
(* Instances of QkUpstream for TLC. *)
EXTENDS QkUpstreamInv, TLC

CONSTANTS n1, n2, r1, r2, s1

MCNodes == {n1, n2}
PlainKind == [sub |-> FALSE, script |-> FALSE]
ScriptKind == [sub |-> FALSE, script |-> TRUE]
SubKind == [sub |-> TRUE, script |-> TRUE]
AllKinds == {PlainKind, ScriptKind, SubKind}
ScriptOnly == {ScriptKind}
PlainOnly == {PlainKind}
OldWorker == {{}, MCNodes, MCNodes \cup {Backup}}
WarmWorker == {MCNodes}
NodeSymmetry == Permutations(MCNodes)
FullSymmetry == Permutations(MCNodes) \cup Permutations({r1, r2})
=============================================================================

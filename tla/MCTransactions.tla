--------------------------- MODULE MCTransactions ---------------------------
(* update-stack on a small mod directory: the release evidence is verified, *)
(* the component snapshot is written into the runtime directory, the mod    *)
(* directory around it is replaced, enabled.txt is written into it and the  *)
(* runtime directory is made again.                                         *)
EXTENDS Transactions

MCPath == {"mod", "code", "enabled", "runtime", "snapshot"}
MCAbove == [p \in MCPath |-> CASE p = "mod" -> {} [] p = "snapshot" -> {"mod", "runtime"} [] OTHER -> {"mod"}]
Tree(f) == [p \in MCPath |-> IF p \in DOMAIN f THEN f[p] ELSE "absent"]
MCTrees == {Tree(<<>>),
            Tree([mod |-> "dir", code |-> "old"]),
            Tree([mod |-> "dir", code |-> "old", runtime |-> "dir", snapshot |-> "old", enabled |-> "old"])}
Step(kind, target, f) == [kind |-> kind, target |-> target, tree |-> Tree(f)]
MCPlan == <<
  Step("verify", "snapshot", <<>>),
  Step("write", "snapshot", [snapshot |-> "new"]),
  Step("copy", "mod", [mod |-> "dir", code |-> "new"]),
  Step("write", "enabled", [enabled |-> "new"]),
  Step("ensure", "runtime", [runtime |-> "dir"])>>
=============================================================================

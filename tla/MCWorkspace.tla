----------------------------- MODULE MCWorkspace -----------------------------
(* Small instances of Workspace for TLC. *)
EXTENDS Workspace

CONSTANTS none, main, other, third

TwoWorkspaces == {main, other}
ThreeWorkspaces == {main, other, third}
OneHost == {"h"}

NoProfiles == {}
OneSession == {[p \in {1, 2} |-> IF p = 1 THEN "h" ELSE None], [p \in {2} |-> "local"]}
TwoShells == {[p \in {1, 2} |-> "local"]}
=============================================================================

-------------------------------- MODULE MCCli --------------------------------
(* An instance of Cli for TLC: two processes, and a skill under two roots. *)
EXTENDS Cli, TLC

TwoRoots == <<"workspace", "home">>

Skill(dir, valid) == [id |-> "skill:s", dir |-> dir, valid |-> valid]

\* Without the skill, and with two of it beside one that has no description.
FewEdits == {{}, {Skill(1, FALSE), Skill(2, TRUE), Skill(3, TRUE)}}

FewToggleSets == {[enabled |-> {}, disabled |-> {"skill:s"}],
                  [enabled |-> {"skill:s"}, disabled |-> {}]}

\* What the last input leads to is looked at where no file is spoiled yet.
LastWhileSound == inputs = MaxInputs => spoiled = {}

\* What the user puts under the roots and into the configuration files is looked at with
\* one process, before it stores anything: no session depends on it.
Untouched == /\ shelf = [root \in Root |-> {}]
             /\ configs = [where \in Where |-> [enabled |-> {}, disabled |-> {}]]
EditsAlone == Untouched \/ (issued = 0 /\ \E p \in Proc : \A q \in Proc \ {p} : pc[q] = "off")

Apart == LastWhileSound /\ EditsAlone

\* The processes are alike.
Alike == Permutations(Proc)
=============================================================================

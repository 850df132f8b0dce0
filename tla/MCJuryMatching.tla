---------------------------- MODULE MCJuryMatching -----------------------------
(* Jury matching with two runs; the circuit with two requests.             *)
EXTENDS JuryMatching

(* Two runs and the administrator; one run among other calls; recovery.    *)
MCOpSets == {{"assign", "reset", "patch", "raise", "crash"}, {"assign", "direct"},
             {"recommend", "direct", "health", "crash"}}

CONSTANTS J1, J2, C1, C2
MCProjects == {J1, J2}
MCCombos == {C1, C2}
Proposing(plan) == [pairs |-> {x[2] : x \in plan}, plan |-> plan]

(* Two answers that respect the limits, one that overloads a pair, one     *)
(* that leaves a project out, one whose rows cannot be resolved.           *)
MCAnswers ==
    {Proposing({<<J1, C1>>, <<J2, C2>>}), Proposing({<<J1, C2>>, <<J2, C1>>}),
     Proposing({<<J1, C1>>, <<J2, C1>>}), Proposing({<<J2, C2>>}),
     [pairs |-> {C1}, plan |-> {}]}
=============================================================================

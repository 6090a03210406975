-------------------------- MODULE MCEnvLifecycle ---------------------------
(* Small instances of EnvLifecycle for TLC: who sends the requests, and for *)
(* which image.                                                             *)
EXTENDS EnvLifecycle, TLC

CONSTANTS e1, e2, e3, e4, alice, root, web, kali

\* Every request is alice's.
AliceOnly == [e \in Envs |-> alice]
\* e1 and e2 are alice's, the others the administrator's.
AliceAndRoot == [e \in Envs |-> IF e \in {e1, e2} THEN alice ELSE root]

WebOnly == [e \in Envs |-> web]
\* e1 starts a project, the others the attack machine image.
WebThenKali == [e \in Envs |-> IF e = e1 THEN web ELSE kali]

\* e1 and e2 start a project, e3 and e4 the attack machine image.
WebsThenKalis == [e \in Envs |-> IF e \in {e1, e2} THEN web ELSE kali]

\* e1 and e2 play the same part in the safety runs that name them.
TwinRequests == Permutations({e1, e2})
\* So do e3 and e4 in the run of the limits and leases.
BothTwins == {p \in Permutations(Envs) : {p[e1], p[e2]} = {e1, e2}}
=============================================================================

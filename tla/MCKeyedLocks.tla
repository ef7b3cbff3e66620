----------------------------- MODULE MCKeyedLocks -----------------------------
(* Small instances of KeyedLocks for TLC.                                  *)
EXTENDS KeyedLocks, TLC

CONSTANTS p1, p2, t3

\* An entity, and a relation between it and another one named either way.
EntitiesAndEdges == {<<1>>, <<1, 2>>, <<2, 1>>}
\* A relation whose two names have become the same one, and its entity: with
\* these requests EveryoneServed fails.
SelfLoop == {<<1>>, <<1, 1>>}

\* One process for all, or one coroutine in a process of its own.
OneOrTwo == {[t \in Task |-> p1], [t \in Task |-> IF t = t3 THEN p2 ELSE p1]}
=============================================================================

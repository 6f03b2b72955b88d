---------------------------- MODULE MCKeyLifecycle ----------------------------
EXTENDS KeyLifecycle, TLC

\* A key of one namespace, and one shared with the first caller.
TwoTerms == {[mode |-> "scope", ns |-> "t1", principals |-> {}, groups |-> {}],
             [mode |-> "shared", ns |-> "t1", principals |-> {"agent:a"}, groups |-> {}]}

\* One in the namespace, one it is shared with, one in the key's group.
ThreeCallers == {[id |-> "agent:a", ns |-> "t2", groups |-> {}],
                 [id |-> "agent:b", ns |-> "t1", groups |-> {}],
                 [id |-> "agent:c", ns |-> "t2", groups |-> {"g"}]}

Symmetry == Permutations(Procs)

===============================================================================

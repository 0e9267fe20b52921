--------------------------- MODULE MCGuardedStep ---------------------------
(* Finite instances of GuardedStep.                                        *)
EXTENDS GuardedStep, TLC

CONSTANTS a, b, c, d, w1, w2

\* Two inputs of different updates; one call may take both, in either order.
MCUpdateOf == a :> "u1" @@ b :> "u2"
MCNonceOf == a :> "na" @@ b :> "nb"
MCBatches == {<<a, b>>, <<b, a>>, <<a>>, <<b>>}

\* One caller passes the same input twice, and two inputs share a nonce; b
\* and c are a step and its redo under one update id; d was never allowed.
AliasedUpdateOf == a :> "u1" @@ b :> "u2" @@ c :> "u2" @@ d :> "u1"
AliasedNonceOf == a :> "na" @@ b :> "na" @@ c :> "nc" @@ d :> "nd"
AliasedBatches == {<<a, a>>, <<a, c>>, <<b>>, <<c>>, <<d>>}

AllOrNothing == {{}, {"size", "members", "parent"}}
All == {{"size", "members", "parent"}}

WorkerSymmetry == Permutations(Worker)
=============================================================================

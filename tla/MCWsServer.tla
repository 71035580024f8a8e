----------------------------- MODULE MCWsServer -----------------------------
EXTENDS WsServer, TLC

\* Connections and callers are only compared for equality.
Symmetry == Permutations(Conns) \cup Permutations(Callers)

\* What follows a state in which every connection is mixed is not explored:
\* mixed never shrinks, and no property but TypeOK says anything of such a state.
SomeUnmixed == mixed # Conns

=============================================================================

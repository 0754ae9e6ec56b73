----------------------------- MODULE MCDispatch -----------------------------
\* Dispatch on a small fleet, for TLC.
EXTENDS DispatchProps

\* Every worker completes a different number of responses in every second, and
\* no two sums of them are the same.
MCCounts == {2 ^ k : k \in 0 .. Cardinality(Workers) * MaxTicks - 1}
Nth == CHOOSE f \in Injection(Workers, 0 .. Cardinality(Workers) - 1) : TRUE
MCYield == [w \in Workers |-> [n \in 1 .. MaxTicks |-> {2 ^ (Nth[w] * MaxTicks + n - 1)}]]
=============================================================================

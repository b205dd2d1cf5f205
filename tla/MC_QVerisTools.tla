--------------------------- MODULE MC_QVerisTools ---------------------------
EXTENDS QVerisTools

\* Three calls: two identical searches can race, a third can share or miss
\* their key, or run qveris_execute.
MCCalls == {"c1", "c2", "c3"}

\* Omitted, below the minimum and above the maximum: None and 150 share the
\* key <<q, 100>>, 0 normalizes to <<q, 1>>.
MCLimits == {None, 0, 150}

\* Default execute timeout, or a shorter override.
MCOverrides == {None, 1}

=============================================================================

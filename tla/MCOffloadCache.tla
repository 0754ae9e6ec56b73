--------------------------- MODULE MCOffloadCache ---------------------------
\* OffloadCache with a few runs and samples, for TLC.
EXTENDS OffloadCacheProps, TLC

\* No tier, two tiers, and one that does not compile.
MCSpecs == {[tiers |-> {}, bad |-> FALSE],
            [tiers |-> {"fail_schema", "fail_regex"}, bad |-> FALSE],
            [tiers |-> {"fail_value"}, bad |-> TRUE]}

MCBodies == {{}, {"fail_value", "fail_regex"}, {"fail_schema", "fail_regex"}}
=============================================================================

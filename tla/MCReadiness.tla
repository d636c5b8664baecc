----------------------------- MODULE MCReadiness -----------------------------
(* Instances of Readiness for TLC.                                         *)
EXTENDS Readiness

P(required, redact, timeout, adapter) ==
  [required |-> required, redact |-> redact, timeout |-> timeout, adapter |-> adapter]
C(parallel, default_timeout, overall_timeout) ==
  [parallel |-> parallel, default_timeout |-> default_timeout,
   overall_timeout |-> overall_timeout]

\* A name, another, and one that is also a service of the first.
MCNames == {<<"db">>, <<"cache">>, <<"db", "replica">>}
\* A dotted name without its top, and a single name.
MCDotted == {<<"db">>, <<"db", "pool">>}
MCSingle == {<<"db">>}
MCParts == {"replica"}

\* A strict check with a sync adapter, a lenient one, and one with a timeout and
\* an async adapter.
MCPolicies == {P(TRUE, TRUE, FALSE, "sync"), P(FALSE, FALSE, FALSE, "none"),
               P(TRUE, FALSE, TRUE, "async")}
MCConfigs == {C(TRUE, TRUE, FALSE), C(FALSE, FALSE, TRUE)}
=============================================================================

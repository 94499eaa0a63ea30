------------------------------- MODULE MCEngine -------------------------------
(***************************************************************************)
(* Suites on which TLC runs Engine.  A suite is a sequence of checks, each *)
(* with its kind and severity, whether its plan has conditional evidence   *)
(* and the key it batches under.                                           *)
(***************************************************************************)
EXTENDS Engine

Check(kind, severity, conditional, key) ==
  [kind |-> kind, severity |-> severity, conditional |-> conditional, key |-> key]

Plain(severity)    == Check("plain", severity, FALSE, "-")
Guarded(severity)  == Check("plain", severity, TRUE, "-")
Complete(severity) == Check("plain", severity, TRUE, "suite/Person")
Of(kind, severity) == Check(kind, severity, FALSE, "-")

KindOf(s)        == [i \in DOMAIN s |-> s[i].kind]
SeverityOf(s)    == [i \in DOMAIN s |-> s[i].severity]
ConditionalOf(s) == {i \in DOMAIN s : s[i].conditional}
KeyOf(s)         == [i \in DOMAIN s |-> s[i].key]

(* Workers racing on checks of different length.                           *)
Mixed == <<Of("drift", "warn"), Of("unsupported", "error"), Of("sampled", "error"),
           Plain("warn"), Of("drift", "error")>>
MixedKind == KindOf(Mixed)
MixedSeverity == SeverityOf(Mixed)
MixedConditional == ConditionalOf(Mixed)
MixedKey == KeyOf(Mixed)

(* A full batch of two and its overflow.                                   *)
Batched == <<Complete("error"), Complete("warn"), Complete("error")>>
BatchedKind == KindOf(Batched)
BatchedSeverity == SeverityOf(Batched)
BatchedConditional == ConditionalOf(Batched)
BatchedKey == KeyOf(Batched)

(* Every way to pass, stop or be passed over in a fail-fast run.           *)
Stopping == <<Of("explosion", "warn"), Guarded("error"), Of("generated", "warn"),
              Of("graphrag", "error"), Of("unsupported", "warn"), Of("tokens", "error")>>
StoppingKind == KindOf(Stopping)
StoppingSeverity == SeverityOf(Stopping)
StoppingConditional == ConditionalOf(Stopping)
StoppingKey == KeyOf(Stopping)
==============================================================================

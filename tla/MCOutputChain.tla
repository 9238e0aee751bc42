--------------------------- MODULE MCOutputChain ---------------------------
(* Small instance of OutputChain: one channel, two addresses, one source.   *)
EXTENDS OutputChain

CONSTANTS a1, a2, motors

Set(a, f, l, m, act) ==
  [addr |-> <<a>>, func |-> <<f>>, loads |-> l, maps |-> m, act |-> act]

\* driven, with OUT_FAIL_ACT 2; refused by the loader, with OUT_FAIL_ACT 0.
LiveProfiles ==
  { Set(a1, motors, TRUE, TRUE, 2), Set(a2, Disabled, FALSE, TRUE, 0) }

MCDrivable == {<<1, a1>>}

\* For the run: no operator at the console (no inhibition, no zero
\* command, no stop), which the hypotheses of the properties exclude or which
\* only takes the output mutex for a moment; and targets that are bad by being
\* too old only, which counts as much as being invalid.
GoodTarget == Target /\ \A s \in Sources : src'[s].ok

QuietNext ==
  \/ Turn \/ ArmTopic \/ GoodTarget \/ Tick
  \/ (ParamSet \/ LinkChange) /\ UNCHANGED mixVars

QuietSpec == /\ ChainInit /\ [][QuietNext]_chainVars
             /\ SF_chainVars(Turn) /\ WF_chainVars(Tick)
=============================================================================

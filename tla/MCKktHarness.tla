----------------------------- MODULE MCKktHarness -----------------------------
EXTENDS KktHarness

\* A case without warmup and one with, every way of checking the output, an
\* empty workspace, and a case ValidateCase() turns down.
MCCases ==
  {[valid |-> TRUE, warmup |-> 1, repeat |-> 2, mode |-> "full", rows |-> 0,
    workspace |-> TRUE],
   [valid |-> TRUE, warmup |-> 0, repeat |-> 1, mode |-> "sampled", rows |-> 2,
    workspace |-> FALSE],
   [valid |-> TRUE, warmup |-> 1, repeat |-> 1, mode |-> "sampled", rows |-> 0,
    workspace |-> TRUE],
   [valid |-> TRUE, warmup |-> 0, repeat |-> 2, mode |-> "none", rows |-> 0,
    workspace |-> FALSE],
   [valid |-> FALSE, warmup |-> 0, repeat |-> 0, mode |-> "full", rows |-> 0,
    workspace |-> TRUE]}
=============================================================================

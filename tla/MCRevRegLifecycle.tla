------------------------- MODULE MCRevRegLifecycle --------------------------
(* Model-checking instance of RevRegLifecycle: two workers on one          *)
(* credential definition, at most three registry records.                  *)
EXTENDS RevRegLifecycle

CONSTANTS w1, w2

MCWorkers == {w1, w2}
=============================================================================

--------------------------- MODULE MCRegistration ---------------------------
(* Model-checking instance of Registration: one or two concurrent callers  *)
(* registering the same schema, and one credential definition.             *)
EXTENDS Registration

CONSTANTS c1, c2, cd

MCOneCaller == {c1}
MCTwoCallers == {c1, c2}
=============================================================================

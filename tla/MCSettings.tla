----------------------------- MODULE MCSettings -----------------------------
(* One password manager that is seeded and can be removed and added again. *)
EXTENDS Settings

CONSTANTS pm, first, second

MCApps == {pm}
MCBuiltIn == {pm}
MCTasks == {first, second}
=============================================================================

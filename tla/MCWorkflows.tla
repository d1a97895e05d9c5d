---------------------------- MODULE MCWorkflows ----------------------------
(* Small instances of Workflows, told apart by their configurations.       *)
EXTENDS Workflows

AllModes    == Mode
FromSource  == {"translate", "verify", "continue_source"}
Resumptions == {"translate", "continue_source", "continue_translation"}
Retries     == {"translate", "continue_source"}
Updates     == {"translate", "verify", "continue_translation"}

=============================================================================

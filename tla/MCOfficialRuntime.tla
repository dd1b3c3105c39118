-------------------------- MODULE MCOfficialRuntime --------------------------
(* Workers of all three kinds with three bridge instances.                   *)
EXTENDS OfficialRuntime

EveryMode == {"node", "external", "inprocess"}
==============================================================================

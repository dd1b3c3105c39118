------------------------------ MODULE MCNodeTab ------------------------------
(* One network; every order of a few clicks, losses, timeouts and commands.  *)
EXTENDS NodeTab
==============================================================================

----------------------------- MODULE MCDispatcher -----------------------------
(* Two callers race two drainers over one workflow name.                     *)
EXTENDS Dispatcher
===============================================================================

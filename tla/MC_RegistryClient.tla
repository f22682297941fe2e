------------------------- MODULE MC_RegistryClient -------------------------
(* Two runs, one after the other, against one registry: any pair of the   *)
(* scripts, with at most one failed request or interrupt in each run.     *)
EXTENDS RegistryClient

(* The scripts that clean up after themselves or set before they read.   *)
MCPassScripts == {"web_ui", "simple", "comprehensive"}
=============================================================================

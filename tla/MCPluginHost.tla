---------------------------- MODULE MCPluginHost ----------------------------
(* PluginHost as it is; the bounds are in the configurations. *)
EXTENDS PluginHost
=============================================================================

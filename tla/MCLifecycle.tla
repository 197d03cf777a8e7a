----------------------------- MODULE MCLifecycle -----------------------------
(***************************************************************************)
(* The process of module Lifecycle over the constants of MCDiscovery.      *)
(***************************************************************************)
EXTENDS Lifecycle, MCDiscovery
=============================================================================

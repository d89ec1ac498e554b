---------------------------- MODULE MCLifecycle ----------------------------
(***************************************************************************)
(* Instances of Lifecycle for TLC: Start may fail at any stage in every    *)
(* setup; what becomes of connections once the listener failed does not    *)
(* depend on the setup, and one with a provider and a log file is enough.  *)
(***************************************************************************)
EXTENDS LifecycleInvariant

EverySetup == Setup
OneSetup == {[given |-> TRUE, endpoints |-> {"logger"}, fileLog |-> TRUE,
              goodPath |-> TRUE]}
=============================================================================

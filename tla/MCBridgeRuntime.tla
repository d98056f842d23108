---------------------------- MODULE MCBridgeRuntime ----------------------------
(* Instances of BridgeRuntime for TLC: the driver's speech worker and one       *)
(* warm-up thread, two installed browsers.                                      *)
EXTENDS BridgeRuntimeProps

=============================================================================

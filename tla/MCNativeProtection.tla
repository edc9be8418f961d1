-------------------------- MODULE MCNativeProtection --------------------------
(* Instances of NativeProtection for TLC. *)
EXTENDS NativeProtection, TLC

NineIds == 1 .. 9
Callbacks == Permutations(FillTasks)
=============================================================================

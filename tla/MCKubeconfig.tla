---------------------------- MODULE MCKubeconfig ----------------------------
(* Three invocations of the plugin over a kubeconfig with a root context.  *)
EXTENDS Kubeconfig, TLC

CONSTANTS p1, p2, p3, root, hub, a, b

MCInvocations == {p1, p2, p3}
InvocationSymmetry == Permutations(MCInvocations)
=============================================================================

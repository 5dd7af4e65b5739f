---------------------------- MODULE MCPeerManager ----------------------------
(* A small instance of PeerManager: one deployed peer, keys to enrol up to *)
(* the limit and to re-enrol after a removal.                              *)
EXTENDS PeerManager

CONSTANTS k0, k1, k2, k3

MCKeys    == {k0, k1, k2, k3}
MCInitial == <<k0>>

(* The keys Add generates are interchangeable.                             *)
NewKeys == Permutations({k1, k2, k3})
=============================================================================

---------------------------- MODULE MCPublication ----------------------------
(* Small instances of Publication: three builds over shared objects. *)
EXTENDS Publication, TLC

CONSTANTS b1, b2, b3, u1, u2, u3, d1, d2, p1, p2, lockA, lockB

MCPubId == (b1 :> u1) @@ (b2 :> u2)
\* A third build that carries the first one's publication id: the conflict Reserve refuses.
MCPubIdConflict == MCPubId @@ (b3 :> u1)
MCPubId3 == MCPubId @@ (b3 :> u3)
MCFiles == (b1 :> {d1}) @@ (b2 :> {d1, d2})

MCOneFile == (b1 :> {d1}) @@ (b2 :> {d1})
MCOneFile3 == MCOneFile @@ (b3 :> {d1})
MCOwnLocks == (p1 :> lockA) @@ (p2 :> lockB)
MCOneLock == (p1 :> lockA) @@ (p2 :> lockA)
=============================================================================

---------------------------- MODULE MCQmpSession ----------------------------
(* Instances of QmpSession.  Connections are interchangeable; the clients are *)
(* only where they perform the same operations.                               *)
EXTENDS QmpSession, TLC

CONSTANTS c1, c2, n1, n2, n3, n4

MCClient == {c1, c2}
MCConn == {n1, n2, n3, n4}

\* One asks for the running info while the other pauses, or resumes, the VM.
InfoOps == (c1 :> {"info"}) @@ (c2 :> {"pause", "resume"})
EffectOps == [c \in MCClient |-> {"pause", "resume", "media"}]
LiveOps == (c1 :> {"media", "wakeup"}) @@ (c2 :> {"text", "reboot", "powerdown"})

SymmetricConns == Permutations(MCConn)
SymmetricAll == Permutations(MCConn) \cup Permutations(MCClient)
=============================================================================

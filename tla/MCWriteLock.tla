---------------------------- MODULE MCWriteLock -----------------------------
(* An instance of WriteLock for TLC. *)
EXTENDS WriteLock, TLC

CONSTANTS s1, s2, x1, a1, w1

MCKindOf == s1 :> "start" @@ s2 :> "start" @@ x1 :> "extend"
            @@ a1 :> "extend_attack" @@ w1 :> "write"
=============================================================================

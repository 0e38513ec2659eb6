---------------------------- MODULE MCMigration ----------------------------
(* Model-checking instance of Migration: three sessions, one of them with  *)
(* blocks only.                                                            *)
EXTENDS Migration

CONSTANTS s1, s2, s3, p1, p2, p3, b1, b2

MCSessions     == {s1, s2, s3}
MCPanes        == {p1, p2, p3}
MCBlocks       == {b1, b2}
MCPaneSessions == {s1, s2}
MCLegacyPanes  == [s \in MCSessions |->
                    IF s = s1 THEN {p1, p2} ELSE IF s = s2 THEN {p3} ELSE {}]
MCBlockSession == [b \in MCBlocks |-> IF b = b1 THEN s1 ELSE s3]
=============================================================================

---------------------------- MODULE MCTtsBatches ----------------------------
(* A voice "v" and two sparse voices "s" and "t", a line each; the          *)
(* configurations choose among them.                                        *)
EXTENDS TtsBatches

MCVoiceOf == [l \in Lines |-> CASE l = "s1" -> "s" [] l = "t1" -> "t" [] OTHER -> "v"]
=============================================================================

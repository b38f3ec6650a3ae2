---------------------------- MODULE MCSpanOrder ----------------------------
(* Four spans: chains up to two longer than the guard, spans beside them, circles. *)
EXTENDS SpanOrder

MCIds == {"a", "b", "c", "d"}
=============================================================================

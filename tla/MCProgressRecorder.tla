------------------------- MODULE MCProgressRecorder -------------------------
(* ProgressRecorder on a small instance: the run checks liveness as well as
   safety, so that it uses no symmetry. *)
EXTENDS ProgressRecorder

CONSTANTS c1, c2, d1, d2

(* Two calls differ in the content alone, two in the delivery set alone, and
   one of the sets is large enough for a pass over two deliveries. *)
AskedFor == [c \in {c1, c2} |-> IF c = c1 THEN {{d1}, {d1, d2}} ELSE {{d1}}]

=============================================================================

------------------------------ MODULE MCPages -------------------------------
(* One browser, two requests in flight, and each query of the client in turn:  *)
(* a list whose rows go and a preview that a change rewrites in three moves,   *)
(* so that a page can be left and opened again, and every other in two.        *)
EXTENDS Pages, TLC

Deep == {"managedEvents", "preview"}

MCMovesOf == [q \in DOMAIN Query |-> IF q \in Deep THEN 3 ELSE 2]

=============================================================================

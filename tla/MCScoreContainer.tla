-------------------------- MODULE MCScoreContainer --------------------------
(* Three uploads of a score whose parts overlap but differ. *)
EXTENDS ScoreContainer

CONSTANTS score, bombard

MCPartsOf == [u \in Uploads |-> CASE u = 1   -> {score, bombard}
                                  [] u = 2   -> {score}
                                  [] OTHER   -> {bombard}]

=============================================================================

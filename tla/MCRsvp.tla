------------------------------- MODULE MCRsvp -------------------------------
(* The values of Rsvp's constants for the run. *)
EXTENDS Rsvp

MCCooldown == 3

\* Time for a change, another within its cooldown, and two that are not.
MCMaxTime == 4 * MCCooldown

=============================================================================

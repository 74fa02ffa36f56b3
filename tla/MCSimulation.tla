---------------------------- MODULE MCSimulation ----------------------------
(* A small instance of Simulation for TLC. *)
EXTENDS Simulation

\* No step, and steps that are and that are not multiples of a hundredth.
SmallSteps == {0, 8, 10, 12, 16, 20}
=============================================================================

------------------------------- MODULE Checks -------------------------------
(***************************************************************************)
(* Functions that are a list of checks, each with an early return.  A list *)
(* is written as the errors that its checks find, in their order; what is  *)
(* returned is the first.                                                  *)
(***************************************************************************)
EXTENDS Naturals, Sequences, SequencesExt

\* What a check finds.
When(fails, error) == IF fails THEN <<error>> ELSE <<>>

FirstError(errors, otherwise) == IF errors = <<>> THEN otherwise ELSE errors[1]

=============================================================================

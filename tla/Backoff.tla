------------------------------- MODULE Backoff -------------------------------
(***************************************************************************)
(* How long the sidecar waits after an attempt that failed.                *)
(***************************************************************************)
EXTENDS Integers, FiniteSetsExt

(* Mistake: the maximum only replaces a minimum that is too large.         *)
ForAttemptUncapped(min, max, attempt) ==
    IF min >= max THEN {max} ELSE min .. min * 2 ^ attempt

(* The jitter picks a wait up to what attempt doublings make of the least. *)
(* What a float64 cannot hold as a duration is the longest wait, and what  *)
(* is not a number (infinity times a jitter of zero) the shortest one.     *)
ForAttempt(min, max, attempt) ==
    IF min >= max THEN {max} ELSE {Min({d, max}) : d \in min .. min * 2 ^ attempt}
=============================================================================

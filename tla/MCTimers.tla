------------------------------ MODULE MCTimers ------------------------------
(* Small instances of Timers: two events and a few units of time. *)
EXTENDS Timers

CONSTANTS a, b

====

------------------------------ MODULE EventLog ------------------------------
(***************************************************************************)
(* What a thread's events table promises to whoever reads it with          *)
(* get_events(since): the events form one sequence, the event with seq n   *)
(* is its n-th entry, and the sequence changes only by growing at its end. *)
(* A reader that has seen everything up to n and asks for what is after n  *)
(* therefore never misses an event that is stored later.                   *)
(***************************************************************************)
EXTENDS Naturals, Sequences

CONSTANT Entry      \* what an event says, its seq aside
VARIABLE entries

Init == entries = <<>>

Insert ==
  /\ Len(entries') = Len(entries) + 1
  /\ entries'[Len(entries')] \in Entry
  /\ \A n \in 1..Len(entries) : entries'[n] = entries[n]

Spec == Init /\ [][Insert]_entries
=============================================================================

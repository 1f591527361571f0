----------------------------- MODULE ReplicatedLog -----------------------------
(***************************************************************************)
(* What the name service promises: one log, which only grows, and copies   *)
(* of it that catch up one entry at a time in the order of the log.  A     *)
(* copy starts again from nothing when its process is replaced.            *)
(***************************************************************************)
EXTENDS Integers, Sequences

CONSTANTS Holder, Entry

VARIABLES log, copy

Init == log = <<>> /\ copy = [p \in Holder |-> <<>>]

Extend ==
  /\ log' \in Seq(Entry)
  /\ Len(log') > Len(log)
  /\ SubSeq(log', 1, Len(log)) = log
  /\ UNCHANGED copy

CatchUp(p) ==
  /\ Len(copy[p]) < Len(log)
  /\ copy' = [copy EXCEPT ![p] = Append(@, log[Len(@) + 1])]
  /\ UNCHANGED log

Restart(p) ==
  /\ copy' = [copy EXCEPT ![p] = <<>>]
  /\ UNCHANGED log

Next == Extend \/ \E p \in Holder : CatchUp(p) \/ Restart(p)

Spec == Init /\ [][Next]_<<log, copy>>
===============================================================================

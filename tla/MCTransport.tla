------------------------------ MODULE MCTransport ------------------------------
(* Messages and what they carry, for TLC.  The transport of Postman and the *)
(* streams of Marshal share no variable, so that one run can check both one *)
(* after the other: a behaviour either marshals a call, with no client      *)
(* connected, or transports calls whatever they carry.                      *)
EXTENDS Postman, Marshal

(* Two of the data types are enough for a stream to be cut at wrong places. *)
Sizes == [char |-> 1, short |-> 2]

MCInit == Init /\ MarshalInit

TransportNext == stage = "none" /\ Next /\ UNCHANGED marshalVars

StreamNext == conn = [c \in Conn |-> "none"] /\ MarshalNext /\ UNCHANGED vars

MCSpec ==
  /\ MCInit
  /\ [][TransportNext \/ StreamNext]_<<vars, marshalVars>>
  /\ Fairness
=============================================================================

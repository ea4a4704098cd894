----------------------------- MODULE MCComplaints -----------------------------
(* A small instance of Complaints for TLC. *)
EXTENDS Complaints, TLC
==============================================================================

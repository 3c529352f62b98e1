---------------------------- MODULE MCSpiDriver ----------------------------
(***************************************************************************)
(* A FIFO of four bytes with its mark in the middle: jobs of one byte,     *)
(* that fill it, and exceed it by a byte and by more than twice, from      *)
(* clients of two rates, with two of them waiting while one runs.          *)
(***************************************************************************)
EXTENDS SpiDriver

MCJobs == {[size |-> 1, rate |-> 8], [size |-> 4, rate |-> 10],
           [size |-> 5, rate |-> 8], [size |-> 9, rate |-> 10]}
=============================================================================

------------------------------ MODULE MCServer ------------------------------
(* Server with three or four clients, and the mixes of their requests. *)
EXTENDS Server

AllThreads == Clients \cup {"writer", "sealer", "merger"}

(* Everything but the scan arm of a filtered search. *)
WithoutScan ==
    { [a |-> "insert", b |-> "delete", c |-> "checkpoint"],
      [a |-> "insert", b |-> "insert", c |-> "stats"],
      [a |-> "insert", b |-> "checkpoint", c |-> "post"] }

(* A filtered search that scans beside a count, and two inserts. *)
WithScan == { [a |-> "insert", b |-> "insert", c |-> "scan", d |-> "stats"] }
=============================================================================

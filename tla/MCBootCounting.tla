--------------------------- MODULE MCBootCounting ---------------------------
(* Two entries: "new", sorted first, and "old".  Every history of their counters. *)
EXTENDS BootCounting, TLC

MCName     == {"new", "old"}
MCRank     == "new" :> 1 @@ "old" :> 2
MCLoads    == [n \in MCName |-> BOOLEAN]
MCComplete == [n \in MCName |-> TRUE]

=============================================================================

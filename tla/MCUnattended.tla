---------------------------- MODULE MCUnattended ----------------------------
(* Nobody attends.  Three entries: "new" sorts first and hangs, "mid" is the    *)
(* default and hangs, "old" completes.  Every history of their counters.        *)
EXTENDS BootCounting, TLC

MCName     == {"new", "mid", "old"}
MCRank     == "new" :> 1 @@ "mid" :> 2 @@ "old" :> 3
MCLoads    == [n \in MCName |-> {TRUE}]
MCComplete == [n \in MCName |-> n = "old"]

=============================================================================

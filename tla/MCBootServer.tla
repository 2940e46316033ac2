---------------------------- MODULE MCBootServer ----------------------------
(* No device; one that boots or does not; an empty one, or one without countdown, *)
(* before another.                                                                *)
EXTENDS BootServer

Empty(t) == [timeout |-> t, bootable |-> FALSE, loads |-> {TRUE}]
Fickle(t) == [timeout |-> t, bootable |-> TRUE, loads |-> BOOLEAN]

MCDeviceLists ==
  {<<>>, <<Fickle(2)>>, <<Fickle(0)>>, <<Empty(1), Fickle(2)>>, <<Empty(0), Fickle(1)>>,
   <<Fickle(1), Fickle(1)>>, <<Empty(2), Empty(1)>>}

=============================================================================

----------------------------- MODULE MCBootMenu -----------------------------
(* A fixed disk, a stick, and a disk whose number does not fit in 32 bits (CounterMax). *)
EXTENDS BootMenu, TLC

CONSTANTS fixed, stick, late, g9, g10, g11, foo

Plainly == [name |-> g9, left |-> None, version |-> 9, title |-> 1, arch |-> "this", linux |-> TRUE]

MCFiles == [d \in Disk |->
  IF d = fixed
  THEN {Plainly,
        [Plainly EXCEPT !.name = g10, !.version = 10, !.left = 3],
        [Plainly EXCEPT !.name = g11, !.version = 11],
        [Plainly EXCEPT !.name = g11, !.version = 11, !.left = 0],
        [Plainly EXCEPT !.name = foo, !.version = None, !.title = None],
        [Plainly EXCEPT !.name = None]}
  ELSE {Plainly, [Plainly EXCEPT !.name = foo, !.title = 2, !.arch = "other"],
        [Plainly EXCEPT !.name = g10, !.linux = FALSE]}]

MCTable == [d \in Disk |->
  IF d = fixed THEN [kind |-> "gpt", types |-> <<"swap", "EFI", "EFI">>]
  ELSE [kind |-> "mbr", types |-> <<"EA", "other">>]]
MCDiskSeq == [d \in Disk |-> CASE d = fixed -> 1 [] d = stick -> 2 [] OTHER -> 5]
MCDefault == [d \in Disk |-> IF d = fixed THEN g10 ELSE None]
MCNameOrder == [n \in Name |-> CASE n = g9 -> 1 [] n = g10 -> 2 [] n = g11 -> 3 [] OTHER -> 4]

Say(verb, args) == [verb |-> verb, args |-> args]
MCLines == {Empty, Say("list", <<>>), Say("rescan", <<>>), Say("loader", <<DiskWord>>), Say("loader", <<>>),
  Say("boot", <<>>), Say("boot", <<1>>), Say("boot", <<2>>), Say("boot", <<1, 2>>), Say("boot", <<1, 12>>),
  Say("boot", <<0, 3>>), Say("boot", <<9, 1>>), Say("boot", <<OtherWord>>),
  Say("dmesg", <<>>), Say("dmesg", <<0>>), Say("dmesg", <<300>>), Say("help", <<>>), Say("reboot", <<>>)}

\* SortBy and Filtered do what the standard operators do, and equal elements stay in order.
Short == UNION {[1 .. n -> 0 .. 2] : n \in 0 .. 4}
ASSUME VectorsAgree ==
  \A s \in Short :
    LET pairs == [i \in DOMAIN s |-> <<s[i], i>>]
    IN  /\ SortBy(pairs, LAMBDA a, b : a[1] < b[1])
             = {SortSeq(pairs, LAMBDA a, b : a[1] < b[1] \/ (a[1] = b[1] /\ a[2] < b[2]))}
        /\ Filtered(s, {i \in DOMAIN s : s[i] > 0}) = SelectSeq(s, LAMBDA n : n > 0)

=============================================================================

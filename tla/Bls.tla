-------------------------------- MODULE Bls --------------------------------
(***************************************************************************)
(* What the boot loader (tboot-loader/src/boot_loader/disk.rs) makes of    *)
(* entry files: which it discovers, which it offers, and which it boots    *)
(* when nobody interrupts.  What the lines of a file say is fixed by the   *)
(* constants below.                                                        *)
(***************************************************************************)
EXTENDS EntryFiles

CONSTANTS
  Rank,        \* Rank[n]: the place of n when entries are sorted by version, title and name
  Kernels,     \* names whose file is for this architecture and names a Linux kernel
  Default      \* the default entry of loader.conf, or None

ASSUME RankAssumption ==
  /\ Rank \in [Name -> Nat]
  /\ \A m, n \in Name : Rank[m] = Rank[n] => m = n

\* discover_entries adds the files whose name the disk does not hold yet.
Discovered(known, files) ==
  known \cup {f \in files : \A k \in known : k.name # f.name}

\* Mutation of Offered: an entry that is not counted is taken for one without tries.
OfferedCounted(known) == {f \in known : f.name \in Kernels /\ f.left \notin {None, 0}}

\* The entries a BootDevice offers: those that convert to a BootEntry.
Offered(known) == {f \in known : f.name \in Kernels /\ f.left # 0}

\* The head of the sorted list.
Firsts(offered) == {f \in offered : \A g \in offered : Rank[f.name] =< Rank[g.name]}

\* The entry booted when nobody interrupts: the default if it comes after the
\* first entry, the first entry otherwise.
AutoChoice(offered) ==
  LET defaults == {f \in offered \ Firsts(offered) : f.name = Default}
  IN  IF defaults # {} THEN defaults ELSE Firsts(offered)

=============================================================================

----------------------------- MODULE EntryFiles -----------------------------
(***************************************************************************)
(* The files of Type 1 boot loader entries on an EFI system partition:     *)
(* NAME[+LEFT[-DONE]].conf in loader/entries, where LEFT counts the boots  *)
(* that remain and DONE those already made.  A file is the record of what  *)
(* its name says.  The loader, the boot assessment tool and the installer  *)
(* share them.                                                             *)
(***************************************************************************)
EXTENDS Naturals

CONSTANTS
  Name,        \* entry names
  None,        \* Option::None
  CounterMax   \* u32::MAX

ASSUME CounterAssumption == CounterMax \in Nat /\ None \notin Nat \cup Name

Counter == 0 .. CounterMax

\* What parse_entry_filename can return: a name alone, name+left, or name+left-done.
File ==
  {f \in [name : Name, left : Counter \cup {None}, done : Counter \cup {None}] :
      f.left = None => f.done = None}

\* Mutations of CountedFile: the tries go below zero; they do not go down; the boots
\* made do not go up.
CountedFileUnderflow(f) ==
  [f EXCEPT !.left = @ - 1, !.done = IF @ # None /\ @ # CounterMax THEN @ + 1 ELSE @]
CountedFileNotDown(f) ==
  [f EXCEPT !.done = IF @ # None /\ @ # CounterMax THEN @ + 1 ELSE @]
CountedFileNotUp(f) == [f EXCEPT !.left = IF @ > 0 THEN @ - 1 ELSE @]

\* The name boot_count gives a counted entry: one boot fewer left, one more done.
CountedFile(f) ==
  [f EXCEPT !.left = IF @ > 0 THEN @ - 1 ELSE @,
            !.done = IF @ # None /\ @ # CounterMax THEN @ + 1 ELSE @]

\* The names tboot-bless-boot gives an entry: mark_as_good and mark_as_bad.
GoodFile(f) == [f EXCEPT !.left = None, !.done = None]
BadFile(f)  == [f EXCEPT !.left = 0]

\* Mutation of Renamed: a copy that leaves the old file.
RenamedByCopy(files, old, new) ==
  IF old \in files THEN files \cup {new} ELSE files

\* rename(2) replaces the target, and fails with ENOENT when the source is gone.
Renamed(files, old, new) ==
  IF old \in files THEN (files \ {old}) \cup {new} ELSE files

=============================================================================

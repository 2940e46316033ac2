---------------------------- MODULE NixosInstall ----------------------------
(***************************************************************************)
(* tboot-nixos-install: it copies and signs the kernel and initrd of every *)
(* system generation, writes the entries that do not exist, and collects   *)
(* the files it does not know.  It may stop at any step (a failed assert   *)
(* or unwrap, a kill, a power cut); the next run starts from what it left. *)
(* Between runs generations come and go, and the loader and the boot       *)
(* assessment rename entries.  Writes reach the medium in their order.     *)
(* Bootspec documents other than version 1 are left out.                   *)
(***************************************************************************)
EXTENDS LoaderConf

CONSTANTS
  Generation,   \* the numbers of system generations that may exist
  Closure,      \* Closure[g]: the system closure generation g links to
  GenerationOf, \* GenerationOf[n]: the generation entry n boots
  Specialised,  \* entries of specialisations; the others are the generations' own
  BootFile,     \* file names in EFI/nixos
  Kernel,       \* Kernel[n]: the kernel of entry n
  Initrd,       \* Initrd[n]: its initrd, or None
  MaxTries,     \* --max-tries
  Timeouts      \* values of --timeout

ASSUME InstallAssumption ==
  /\ Generation \subseteq Nat \ {0} /\ None \notin Generation \cup BootFile
  /\ GenerationOf \in [Name -> Generation]
  /\ Specialised \subseteq Name
  /\ \A g \in Generation : \E n \in Name \ Specialised : GenerationOf[n] = g
  /\ Kernel \in [Name -> BootFile] /\ Initrd \in [Name -> BootFile \cup {None}]
  /\ MaxTries \in Counter /\ Timeouts \subseteq Nat

VARIABLES
  profiles,     \* the links system-N-link in /nix/var/nix/profiles
  collected,    \* generations that were deleted: their numbers do not come back
  boot,         \* boot[k]: what EFI/nixos has under the name k
  entries,      \* the files in loader/entries
  conf,         \* loader/loader.conf
  step,         \* where the installer is
  todo,         \* profiles it has not visited
  gen,          \* entry_number, the generation being installed
  queue,        \* entries of gen that are not installed yet
  at,           \* the entry install_generation works on
  knownFiles,   \* state.known_efi_files, those in EFI/nixos
  knownEntries, \* state.known_entry_files
  default,      \* --default-nixos-system-closure
  timeout,      \* --timeout
  before        \* history: the names that had an entry when the run began

esp == <<boot, entries, conf>>
args == <<default, timeout, before>>
known == <<knownFiles, knownEntries>>
loop == <<todo, gen, queue, at>>
vars == <<profiles, collected, esp, step, loop, known, args>>

EntriesOf(g) == {n \in Name : GenerationOf[n] = g}
Needs(n) == {Kernel[n], Initrd[n]} \ {None}
\* The file a new entry is written to.
Fresh(n) == [name |-> n, left |-> MaxTries, done |-> None]

\* The decimal digits of g begin those of h, so that the pattern
\* nixos-generation-G*.conf matches the files of generation h.
Begins(g, h) == \E k \in 0 .. 9 : h \div 10 ^ k = g

Init ==
  /\ profiles \in (SUBSET Generation) \ {{}} /\ collected = {}
  /\ boot = [k \in BootFile |-> "absent"] /\ entries = {} /\ conf = NoConf
  /\ step = "idle"
  /\ todo = {} /\ gen = None /\ queue = {} /\ at = None
  /\ knownFiles = {} /\ knownEntries = {}
  /\ default = None /\ timeout = None /\ before = {}

-----------------------------------------------------------------------------
(* One run of the installer. *)

\* The closure may be one that no profile links to.
Begin(g, t) ==
  /\ step \in {"idle", "done"}
  /\ default' = Closure[g] /\ timeout' = t /\ before' = {f.name : f \in entries}
  /\ step' = "visit" /\ todo' = profiles
  /\ gen' = None /\ queue' = {} /\ at' = None
  /\ knownFiles' = {} /\ knownEntries' = {}
  /\ UNCHANGED <<profiles, collected, esp>>

\* Mutation of Visit: loader.conf is truncated when it is opened.
VisitTruncates(g) ==
  /\ step = "visit" /\ queue = {} /\ g \in todo
  /\ todo' = todo \ {g} /\ gen' = g /\ queue' = EntriesOf(g)
  /\ conf' = TimeoutWritten(NoConf, timeout)
  /\ step' = IF Closure[g] = default THEN "default" ELSE "visit"
  /\ UNCHANGED <<profiles, collected, boot, entries, at, known, args>>

\* The next profile, in the order of the directory: its timeout line is written.
Visit(g) ==
  /\ step = "visit" /\ queue = {} /\ g \in todo
  /\ todo' = todo \ {g} /\ gen' = g /\ queue' = EntriesOf(g)
  /\ conf' = TimeoutWritten(conf, timeout)
  /\ step' = IF Closure[g] = default THEN "default" ELSE "visit"
  /\ UNCHANGED <<profiles, collected, boot, entries, at, known, args>>

NameDefault ==
  /\ step = "default" /\ step' = "visit"
  /\ conf' = DefaultWritten(conf, gen)
  /\ UNCHANGED <<profiles, collected, boot, entries, loop, known, args>>

\* Mutation of Install: the specialisations come last.
InstallMainFirst(n) ==
  /\ step = "visit" /\ n \in queue
  /\ n \in Specialised => queue \subseteq Specialised
  /\ queue' = queue \ {n} /\ at' = n /\ step' = "kernel"
  /\ UNCHANGED <<profiles, collected, esp, todo, gen, known, args>>

\* install_generation is called for the specialisations first.
Install(n) ==
  /\ step = "visit" /\ n \in queue
  /\ n \in Specialised \/ queue \cap Specialised = {}
  /\ queue' = queue \ {n} /\ at' = n /\ step' = "kernel"
  /\ UNCHANGED <<profiles, collected, esp, todo, gen, known, args>>

\* std::fs::copy overwrites the file in place; it is not signed then.
Copy(k) ==
  /\ boot' = [boot EXCEPT ![k] = "unsigned"]
  /\ knownFiles' = knownFiles \cup {k}
  /\ UNCHANGED <<profiles, collected, entries, conf, loop, knownEntries, args>>

\* sign-file, whose failure fails the assert (Abort).
Sign(k) ==
  /\ boot' = [boot EXCEPT ![k] = "signed"]
  /\ UNCHANGED <<profiles, collected, entries, conf, loop, known, args>>

\* Mutation of CopyInitrd: the initrd is not remembered.
CopyInitrdForgets ==
  /\ step = "initrd" /\ step' = "sign initrd"
  /\ boot' = [boot EXCEPT ![Initrd[at]] = "unsigned"]
  /\ UNCHANGED <<profiles, collected, entries, conf, loop, known, args>>

CopyKernel == step = "kernel" /\ Copy(Kernel[at]) /\ step' = "sign kernel"
SignKernel ==
  /\ step = "sign kernel" /\ Sign(Kernel[at])
  /\ step' = IF Initrd[at] = None THEN "entry" ELSE "initrd"
CopyInitrd == step = "initrd" /\ Copy(Initrd[at]) /\ step' = "sign initrd"
SignInitrd == step = "sign initrd" /\ Sign(Initrd[at]) /\ step' = "entry"

\* Mutation of Existing: the files of specialisations count too.
ExistingAny(n) == {f \in entries : Begins(GenerationOf[n], GenerationOf[f.name])}

\* The files the pattern of entry n matches, also when n is a specialisation.
Existing(n) ==
  {f \in entries : f.name \notin Specialised /\ Begins(GenerationOf[n], GenerationOf[f.name])}

\* An entry is written, and known, where none matches.  Those that match go to the
\* known EFI files, which no name in EFI/nixos equals.
WriteEntry ==
  /\ step = "entry"
  /\ IF Existing(at) = {}
     THEN entries' = entries \cup {Fresh(at)} /\ knownEntries' = knownEntries \cup {Fresh(at)}
     ELSE UNCHANGED <<entries, knownEntries>>
  /\ at' = None /\ step' = "visit"
  /\ UNCHANGED <<profiles, collected, boot, conf, todo, gen, queue, knownFiles, args>>

EndVisits ==
  /\ step = "visit" /\ queue = {} /\ todo = {}
  /\ step' = "collect files"
  /\ UNCHANGED <<profiles, collected, esp, loop, known, args>>

DeleteFile(k) ==
  /\ step = "collect files" /\ boot[k] # "absent" /\ k \notin knownFiles
  /\ boot' = [boot EXCEPT ![k] = "absent"]
  /\ UNCHANGED <<profiles, collected, entries, conf, step, loop, known, args>>

FilesCollected ==
  /\ step = "collect files" /\ \A k \in BootFile \ knownFiles : boot[k] = "absent"
  /\ step' = "collect entries"
  /\ UNCHANGED <<profiles, collected, esp, loop, known, args>>

DeleteEntry(f) ==
  /\ step = "collect entries" /\ f \in entries \ knownEntries
  /\ entries' = entries \ {f}
  /\ UNCHANGED <<profiles, collected, boot, conf, step, loop, known, args>>

\* Mutation of Finish: entries are not collected.
FinishEarly ==
  /\ step = "collect entries" /\ step' = "done"
  /\ UNCHANGED <<profiles, collected, esp, loop, known, args>>

Finish ==
  /\ step = "collect entries" /\ entries \subseteq knownEntries
  /\ step' = "done"
  /\ UNCHANGED <<profiles, collected, esp, loop, known, args>>

\* Nothing of a run is left in memory.
Forgotten ==
  /\ todo' = {} /\ gen' = None /\ queue' = {} /\ at' = None
  /\ knownFiles' = {} /\ knownEntries' = {}
  /\ default' = None /\ timeout' = None /\ before' = {}

Abort ==
  /\ step \notin {"idle", "done"} /\ step' = "idle" /\ Forgotten
  /\ UNCHANGED <<profiles, collected, esp>>

-----------------------------------------------------------------------------
(* Between runs. *)

Between ==
  /\ step \in {"idle", "done"} /\ step' = "idle" /\ Forgotten
  /\ UNCHANGED <<boot, conf>>

\* The loader counts a boot, or the booted system judges it.
Rename(f) ==
  /\ Between
  /\ \E g \in {BadFile(f)} \cup (IF f.left = None THEN {} ELSE {CountedFile(f), GoodFile(f)}) :
        entries' = Renamed(entries, f, g)
  /\ UNCHANGED <<profiles, collected>>

AddGeneration(g) ==
  /\ Between /\ g \notin profiles \cup collected
  /\ profiles' = profiles \cup {g}
  /\ UNCHANGED <<collected, entries>>

\* One generation remains.
RemoveGeneration(g) ==
  /\ Between /\ g \in profiles /\ profiles # {g}
  /\ profiles' = profiles \ {g} /\ collected' = collected \cup {g}
  /\ UNCHANGED entries

Run ==
  \/ \E g \in Generation : Visit(g)
  \/ \E n \in Name : Install(n)
  \/ NameDefault \/ CopyKernel \/ SignKernel \/ CopyInitrd \/ SignInitrd \/ WriteEntry
  \/ EndVisits \/ FilesCollected \/ Finish
  \/ \E k \in BootFile : DeleteFile(k)
  \/ \E f \in entries : DeleteEntry(f)

Next ==
  \/ Run \/ Abort
  \/ \E g \in Generation, t \in Timeouts : Begin(g, t)
  \/ \E f \in entries : Rename(f)
  \/ \E g \in Generation : AddGeneration(g) \/ RemoveGeneration(g)

Spec == Init /\ [][Next]_vars

\* A run that is started goes on; runs keep being started, and are not cut short for ever.
FairSpec ==
  /\ Spec
  /\ WF_vars(Run) /\ WF_vars(\E g \in Generation, t \in Timeouts : Begin(g, t))
  /\ <>[][~Abort]_vars

-----------------------------------------------------------------------------
(* Properties. *)

Steps == {"idle", "visit", "default", "kernel", "sign kernel", "initrd", "sign initrd",
          "entry", "collect files", "collect entries", "done"}

TypeOK ==
  /\ profiles \subseteq Generation /\ collected \subseteq Generation
  /\ boot \in [BootFile -> {"absent", "unsigned", "signed"}]
  /\ entries \subseteq File
  /\ conf \in [timeout : Nat \cup {None}, default : Generation \cup {None}, room : Nat]
  /\ timeout \in Timeouts \cup {None}
  /\ step \in Steps /\ todo \subseteq Generation /\ gen \in Generation \cup {None}
  /\ queue \subseteq Name /\ at \in Name \cup {None}
  /\ knownFiles \subseteq BootFile /\ knownEntries \subseteq File /\ before \subseteq Name

\* Whatever earlier runs left half done, a run that completes leaves what boot counting
\* starts from: one file per entry, with all its tries, of generations that exist, whose
\* kernel and initrd are there and signed.
InstalledIsFresh ==
  step = "done" =>
    \A f \in entries :
      /\ f = Fresh(f.name) /\ GenerationOf[f.name] \in profiles
      /\ \A k \in Needs(f.name) : boot[k] = "signed"

\* At every moment, also between aborted runs, only entries of deleted generations name
\* a kernel or initrd that is not there: files are collected before entries.  (It speaks of
\* presence: a kernel that was copied and is not signed yet counts.)
OnlyOldDangle ==
  \A f \in entries :
    GenerationOf[f.name] \in profiles => \A k \in Needs(f.name) : boot[k] # "absent"

\* After a run loader.conf has its timeout, and names a generation of the closure that is
\* to be the default where there is one, in whatever order the profiles were visited and
\* whatever the file said before.
ConfNamesDefault ==
  step = "done" =>
    /\ conf.timeout = timeout
    /\ (\E g \in profiles : Closure[g] = default) =>
         conf.default \in profiles /\ Closure[conf.default] = default

\* An entry that a run did not leave behind had a reason: a file that its pattern matches,
\* from before the run, or of a generation whose number begins with the same digits.
AbsenceExplained ==
  step = "done" =>
    \A n \in Name :
      GenerationOf[n] \in profiles /\ (\A f \in entries : f.name # n) =>
        \E m \in (before \cup {f.name : f \in entries}) \ Specialised :
          Begins(GenerationOf[n], GenerationOf[m])

\* A generation that stays in the profiles has its entry again and again: a run writes
\* what the one before deleted, unless a longer number stands in its way.
ComesBack ==
  \A n \in Name :
    <>[](GenerationOf[n] \in profiles) =>
      []<>(\/ \E f \in entries : f.name = n
          \/ \E h \in profiles \ {GenerationOf[n]} : Begins(GenerationOf[n], h))

\* The comment on the writing of entries: "only write the new entry if an existing one
\* does not exist".  So an entry that existed would still be there after the run.
ExistingStay ==
  step = "done" =>
    \A n \in before : GenerationOf[n] \in profiles => \E f \in entries : f.name = n

=============================================================================

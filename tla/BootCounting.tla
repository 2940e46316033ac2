---------------------------- MODULE BootCounting ----------------------------
(***************************************************************************)
(* Boot counting from power-on to a blessed boot: the entries on the ESP   *)
(* as tboot-loader counts them down (main.rs, boot_loader/disk.rs), hands  *)
(* over to one of them, and tboot-bless-boot judges it from the booted     *)
(* system.  The ESP is seen twice: "entries" is what the kernel that       *)
(* mounted it sees, "durable" what is on the medium; a power cut loses the *)
(* difference, an unmount flushes it.  The loader also holds its own copy  *)
(* of the entries it discovered, which goes stale when a file is renamed.  *)
(***************************************************************************)
EXTENDS Bls

CONSTANTS
  MaxTries,     \* the tries an entry is installed with (--max-tries)
  MaxFailures,  \* bound: refused renames per entry
  Loads,        \* Loads[n]: the results kexec_load can have for n, a subset of BOOLEAN
  Completes     \* Completes[n]: booting n reaches boot-complete.target

ASSUME BootAssumption ==
  /\ MaxTries \in Nat /\ MaxTries =< CounterMax
  /\ MaxFailures \in Nat
  /\ Loads \in [Name -> SUBSET BOOLEAN]
  /\ Completes \in [Name -> BOOLEAN]

VARIABLES
  entries,    \* the files in loader/entries, as the mounting kernel sees them
  durable,    \* the same directory as it is on the medium
  stage,      \* what the machine is doing
  inShell,    \* handle_commands runs: the user took over
  loader,     \* the Loader: not there, created, or probed
  cache,      \* the BlsEntry list of the probed disk
  selected,   \* the entry last selected: its kernel is being loaded, is loaded, or runs
  attempts,   \* history: starts of an entry that was still counted
  uncounted   \* history: tries of an entry the ESP refused to record

vars == <<entries, durable, stage, inShell, loader, cache, selected, attempts, uncounted>>
ghosts == <<attempts, uncounted>>

Stages == {"off", "probing", "countdown", "loading", "loaded", "failed", "shell", "os"}

\* How an entry arrives on the ESP: uncounted, or with all its tries.
Fresh(n) ==
  {[name |-> n, left |-> None, done |-> None],
   [name |-> n, left |-> MaxTries, done |-> None],
   [name |-> n, left |-> MaxTries, done |-> 0]}

Init ==
  /\ \E pick \in [Name -> UNION {Fresh(n) : n \in Name}] :
        /\ \A n \in Name : pick[n] \in Fresh(n)
        /\ entries = {pick[n] : n \in Name}
  /\ durable = entries
  /\ stage = "off" /\ inShell = FALSE
  /\ loader = "none" /\ cache = {}
  /\ selected = None
  /\ attempts = [n \in Name |-> 0] /\ uncounted = [n \in Name |-> 0]

-----------------------------------------------------------------------------
(* Steps several handlers share. *)

\* Mutations of DropLoader: the list survives the loader; nothing is unmounted.
DropLoaderKeepsList ==
  /\ loader' = "none"
  /\ durable' = IF loader = "probed" THEN entries ELSE durable
  /\ UNCHANGED cache
DropLoaderStaysMounted ==
  /\ loader' = "none"
  /\ cache' = {}
  /\ UNCHANGED durable

\* Loader::drop and Loader::shutdown: teardown unmounts, and the unmount flushes.
DropLoader ==
  /\ loader' = "none"
  /\ cache' = {}
  /\ durable' = IF loader = "probed" THEN entries ELSE durable

\* Mutation of BootCount: missing tries are taken for none left.
BootCountAny(f) ==
  /\ entries' = Renamed(entries, f, IF f.left = None THEN [f EXCEPT !.left = 0] ELSE CountedFile(f))
  /\ UNCHANGED uncounted

\* BlsEntry::boot_count: nothing for an uncounted entry; the rename of a stale
\* path finds no file; a rename may also be refused, which is only logged.
BootCount(f) ==
  \/ /\ f.left = None
     /\ UNCHANGED <<entries, uncounted>>
  \/ /\ f.left # None
     /\ entries' = Renamed(entries, f, CountedFile(f))
     /\ UNCHANGED uncounted
  \/ /\ f.left # None /\ f \in entries
     /\ uncounted[f.name] < MaxFailures
     /\ uncounted' = [uncounted EXCEPT ![f.name] = @ + 1]
     /\ UNCHANGED entries

\* BootEntry::select, on the way to kexec_load.
Select(f) ==
  /\ BootCount(f)
  /\ selected' = f
  /\ stage' = "loading"
  /\ UNCHANGED <<durable, inShell, attempts>>

-----------------------------------------------------------------------------
(* Autoboot: prepare_boot until an outcome is known. *)

PowerOn ==
  /\ stage = "off"
  /\ stage' = "probing"
  /\ UNCHANGED <<entries, durable, inShell, loader, cache, selected, ghosts>>

\* loader.boot_devices() finds the ESP and reads it.
AutoProbe ==
  /\ stage = "probing"
  /\ stage' = "countdown"
  /\ loader' = "probed"
  /\ cache' = Discovered({}, entries)
  /\ UNCHANGED <<entries, durable, inShell, selected, ghosts>>

\* The ESP is not found, does not mount, or has no loader.conf.
DiskMissing ==
  /\ stage = "probing"
  /\ stage' = "failed"
  /\ UNCHANGED <<entries, durable, inShell, loader, cache, selected, ghosts>>

\* UserIsPresent arrives during the countdown.
UserInterrupts ==
  /\ stage = "countdown"
  /\ stage' = "shell" /\ inShell' = TRUE
  /\ DropLoader
  /\ UNCHANGED <<entries, selected, ghosts>>

\* The countdown runs out and the device offers no entry.
NothingToBoot ==
  /\ stage = "countdown" /\ Offered(cache) = {}
  /\ stage' = "failed"
  /\ DropLoader
  /\ UNCHANGED <<entries, inShell, selected, ghosts>>

\* The countdown runs out and an entry is selected.
AutoSelect ==
  /\ stage = "countdown" /\ Offered(cache) # {}
  /\ \E f \in AutoChoice(Offered(cache)) : Select(f)
  /\ UNCHANGED <<loader, cache>>

\* kexec_load fails: autoboot gives up, the shell asks for another command.
LoadFails ==
  /\ stage = "loading" /\ FALSE \in Loads[selected.name]
  /\ IF inShell
     THEN stage' = "shell" /\ UNCHANGED <<durable, loader, cache>>
     ELSE stage' = "failed" /\ DropLoader
  /\ selected' = None
  /\ UNCHANGED <<entries, inShell, ghosts>>

LoadSucceeds ==
  /\ stage = "loading" /\ TRUE \in Loads[selected.name]
  /\ stage' = "loaded"
  /\ UNCHANGED <<entries, durable, inShell, loader, cache, selected, ghosts>>

\* Mutation of Kexec: the new kernel starts while the loader still holds its mounts.
KexecMounted ==
  /\ stage = "loaded"
  /\ stage' = "os" /\ inShell' = FALSE
  /\ loader' = "none" /\ cache' = {}
  /\ attempts' = IF selected.left = None THEN attempts
                 ELSE [attempts EXCEPT ![selected.name] = @ + 1]
  /\ UNCHANGED <<entries, durable, selected, uncounted>>

\* The loader goes out of scope, main executes the kexec, the kernel starts.
Kexec ==
  /\ stage = "loaded"
  /\ stage' = "os" /\ inShell' = FALSE
  /\ DropLoader
  /\ attempts' = IF selected.left = None THEN attempts
                 ELSE [attempts EXCEPT ![selected.name] = @ + 1]
  /\ UNCHANGED <<entries, selected, uncounted>>

\* "failed to boot": main waits for ENTER before it runs the shell.
UserEnters ==
  /\ stage = "failed"
  /\ stage' = "shell" /\ inShell' = TRUE
  /\ UNCHANGED <<entries, durable, loader, cache, selected, ghosts>>

-----------------------------------------------------------------------------
(* The shell: handle_commands. *)

\* "loader disk": the old loader is shut down, a new one is not yet set up.
ShellLoader ==
  /\ stage = "shell"
  /\ loader' = "created" /\ cache' = {}
  /\ durable' = IF loader = "probed" THEN entries ELSE durable
  /\ UNCHANGED <<entries, stage, inShell, selected, ghosts>>

\* "rescan" probes whatever the state, "list" only a loader not yet probed;
\* entries the disk already holds are not read again.
ShellProbe ==
  /\ stage = "shell" /\ loader # "none"
  /\ loader' = "probed"
  /\ cache' = Discovered(cache, entries)
  /\ UNCHANGED <<entries, durable, stage, inShell, selected, ghosts>>

\* "boot D E": any entry on offer; the loader is probed first if it never was.
ShellBoot ==
  /\ stage = "shell" /\ loader # "none"
  /\ loader' = "probed"
  /\ cache' = IF loader = "probed" THEN cache ELSE Discovered({}, entries)
  /\ \E f \in Offered(cache') : Select(f)

\* "reboot" and "poweroff".
ShellQuits ==
  /\ stage = "shell"
  /\ stage' = "off" /\ inShell' = FALSE
  /\ DropLoader
  /\ UNCHANGED <<entries, selected, ghosts>>

-----------------------------------------------------------------------------
(* The booted system: tboot-bless-boot, and shutting down. *)

\* find_entry: the files whose name is the one on the kernel command line.
Booted == {f \in entries : f.name = selected.name}

\* "tboot-bless-boot good", run by the unit ordered after boot-complete.target.
BlessGood ==
  /\ stage = "os" /\ Completes[selected.name]
  /\ \E f \in Booted :
        entries' = IF f.left # None THEN Renamed(entries, f, GoodFile(f)) ELSE entries
  /\ UNCHANGED <<durable, stage, inShell, loader, cache, selected, ghosts>>

\* "tboot-bless-boot bad", run by an administrator.
BlessBad ==
  /\ stage = "os"
  /\ \E f \in Booted : entries' = Renamed(entries, f, BadFile(f))
  /\ UNCHANGED <<durable, stage, inShell, loader, cache, selected, ghosts>>

\* The system shuts down and unmounts the ESP.
Shutdown ==
  /\ stage = "os"
  /\ stage' = "off" /\ selected' = None
  /\ durable' = entries
  /\ UNCHANGED <<entries, inShell, loader, cache, ghosts>>

-----------------------------------------------------------------------------
(* The medium. *)

\* The kernel writes the directory back on its own.
Writeback ==
  /\ stage # "off"
  /\ durable' = entries
  /\ UNCHANGED <<entries, stage, inShell, loader, cache, selected, ghosts>>

PowerLoss ==
  /\ stage # "off"
  /\ stage' = "off" /\ inShell' = FALSE
  /\ loader' = "none" /\ cache' = {} /\ selected' = None
  /\ entries' = durable
  /\ UNCHANGED <<durable, ghosts>>

Autoboot ==
  \/ PowerOn \/ AutoProbe \/ NothingToBoot \/ AutoSelect
  \/ LoadSucceeds \/ Kexec

Shell == UserInterrupts \/ UserEnters \/ ShellLoader \/ ShellProbe \/ ShellBoot \/ ShellQuits

Next ==
  \/ Autoboot \/ DiskMissing \/ LoadFails
  \/ Shell
  \/ BlessGood \/ BlessBad \/ Shutdown
  \/ Writeback \/ PowerLoss

Spec == Init /\ [][Next]_vars

-----------------------------------------------------------------------------
(* Liveness is about a machine nobody attends: it is switched on, boots, and *)
(* is reset when the system it booted does not complete.  Power cuts remain. *)

\* Somebody, or a watchdog, resets a system that does not complete its boot.
ResetHung == stage = "os" /\ ~Completes[selected.name] /\ Shutdown

NextUnattended ==
  \/ Autoboot \/ LoadFails \/ BlessGood \/ ResetHung
  \/ Writeback \/ PowerLoss

Fairness == WF_vars(Autoboot) /\ WF_vars(ResetHung) /\ WF_vars(BlessGood)

UnattendedSpec == Init /\ [][NextUnattended]_vars /\ Fairness

-----------------------------------------------------------------------------
(* Properties. *)

Selection == {"loading", "loaded", "os"}

\* The shape of the state: which loader and which selection exist at which stage.
TypeOK ==
  /\ entries \subseteq File /\ durable \subseteq File /\ cache \subseteq File
  /\ stage \in Stages /\ inShell \in BOOLEAN
  /\ loader \in {"none", "created", "probed"}
  /\ loader # "probed" => cache = {}
  /\ stage \in {"off", "probing", "failed", "os"} => loader = "none"
  /\ stage \in {"countdown", "loading", "loaded"} => loader = "probed"
  /\ IF stage \in Selection THEN selected \in File ELSE selected = None
  /\ attempts \in [Name -> Nat] /\ uncounted \in [Name -> Nat]

\* A file promises no more boots than the entry has not used: its tries left and
\* the starts already made stay within MaxTries and the tries that were refused.
Owed(f) ==
  f.left # None => attempts[f.name] + f.left =< MaxTries + uncounted[f.name]

\* However boots, failed loads, second "boot" commands on a stale list, rescans
\* and power cuts follow each other, an entry is never started more often than
\* its tries allow: the rename of boot_count is on the medium before the kernel
\* it counts runs, and no later step gives a try back.
TriesAccounting == \A f \in entries \cup durable : Owed(f)

\* An entry that lost its counter to a verdict still had no more starts than tries.
StartsBounded == \A n \in Name : attempts[n] =< MaxTries + uncounted[n]

\* The DONE counter, where an entry has one, misses no start that was recorded.
DoneCoversStarts ==
  \A f \in entries \cup durable :
     f.done # None => attempts[f.name] =< f.done + uncounted[f.name]

\* The next start of n is in the ledger already: n has at most the tries left
\* that would remain after it.
Paid(n) ==
  /\ attempts[n] + 1 =< MaxTries + uncounted[n]
  /\ \A f \in entries : f.name = n /\ f.left # None =>
        attempts[n] + 1 + f.left =< MaxTries + uncounted[n]

\* The loader never refreshes an entry it discovered, so after a rename its list
\* names a file that is gone and booting it again counts nothing.  That is safe:
\* the rename that made the entry stale, whose kernel was never started, paid for
\* the next start.  An entry whose kernel is being loaded has been paid for too.
StaleIsPaid ==
  /\ \A f \in cache : f.left # None /\ f \notin entries => Paid(f.name)
  /\ stage \in {"loading", "loaded"} /\ selected.left # None => Paid(selected.name)

\* Renames neither lose an entry nor leave two files of one name, so the system
\* that was started finds exactly its own entry to bless (find_entry takes the
\* first match), also when it runs on the entry's last try.
OneEach(files) ==
  \A n \in Name : \E f \in files : f.name = n /\ \A g \in files : g.name = n => g = f

OneFilePerName == OneEach(entries) /\ OneEach(durable)

\* Boot counting never touches a blessed entry: only the medium losing the
\* blessing or an administrator's "bad" makes an uncounted entry counted.
GoodStaysGood ==
  [][ \A f \in entries : f.left = None =>
        f \in entries' \/ PowerLoss \/ BlessBad ]_vars

\* What the unmounts owe the ledger: a kernel never starts with its try unrecorded,
\* unless the rename was refused.  (The ledger of BootAssessment, implemented.)
TriesOn(files) ==
  [n \in Name |-> LET f == CHOOSE f \in files : f.name = n IN f.left]

Ledger == INSTANCE BootAssessment WITH
  Entry <- Name, Nobody <- None, Unlimited <- None,
  tries <- TriesOn(durable),
  starts <- attempts,
  allowed <- [n \in Name |-> MaxTries + uncounted[n]],
  running <- IF stage = "os" THEN selected.name ELSE None

ImplementsLedger == Ledger!Spec

\* Unattended, when every entry loads and every blessed one completes, a machine
\* with a blessed entry ends in a system that completes: a new entry that hangs
\* uses up its tries, and then autoboot picks another.
Fallback ==
  /\ \A f \in durable : f.name \in Kernels /\ FALSE \notin Loads[f.name]
  /\ \A f \in durable : f.left = None => Completes[f.name]
  /\ \E f \in durable : f.left = None

FallsBack ==
  Fallback /\ <>[][~PowerLoss]_vars
    => <>[](stage = "os" /\ Completes[selected.name])

=============================================================================

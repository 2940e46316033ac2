# tinyboot in TLA+

tinyboot is a boot loader that runs as the init of a small Linux kernel in
firmware. It finds Boot Loader Specification (BLS) entries on disks, counts
boots, and starts the chosen kernel with kexec; a few tools of the booted system
install entries and judge boots. This directory models its core logic in TLA+,
checks it with TLC on small instances and proves the safety half with TLAPS.

## 1. Inventory

| Component | Source | State | Operations |
|---|---|---|---|
| Boot counting in the loader | `tboot-loader/src/boot_loader/disk.rs` (`BlsEntry`, `Disk`), `main.rs` | files `NAME+LEFT-DONE.conf` on the ESP; the list of entries of a probed disk | discover, offer, choose the default, `select` (counts down by renaming), load, kexec |
| Boot assessment | `tboot-bless-boot` | none of its own: renames the same files | `good`, `bad`, `status` |
| Assessment generator | `tboot-bless-boot-generator` | one symlink | enable the unit when booted with an entry |
| Boot server | `tboot-loader/src/main.rs` (`prepare_boot`, `handle_commands`), `shell.rs` | three threads, two mpsc channels, countdown, outcome | autoboot, key press, prompt, commands, Stop |
| Loader life cycle | `boot_loader/mod.rs`, `disk.rs` (`BlsBootLoader`) | `LoaderState`, disks, boot devices; mounts below `/mnt/disk` | setup, probe, rescan, shutdown, drop |
| Command parser | `cmd.rs` | none | `parse_input` |
| kexec | `kexec.rs` | the loaded kernel | load, execute |
| File system detection | `fs.rs` | none | `detect_fs_type` |
| Keys and IMA | `keys.rs`, `etc/ima_policy.conf` | kernel keyring and policy | `load_verification_key` |
| Device manager | `tboot/src/dev.rs` | `/dev`, `/dev/disk`, `/dev/part` | scan, uevents, settle |
| System setup | `tboot/src/system.rs`, `log.rs`, `config.rs`, `nologin.rs` | terminal, logger | one pass at start |
| Installer | `tboot-nixos-install` | files on the ESP, known-file sets | install generation, collect old files |
| NixOS module, firmware and kernel builds, boards, scripts | `module.nix`, `coreboot.nix`, `boards/`, ... | build time | - |

How they interact. `main` starts the device thread, waits for devices to settle
and calls `prepare_boot`. That spawns the presence thread, which sends one
`UserIsPresent`, and lets the loader mount and read disks; a countdown per device
listens on the channel. Without an outcome it joins the presence thread, spawns
the shell thread, and serves its commands, answering each with `ServerIsReady` or
`Stop`. Selecting an entry renames its file before the kernel is loaded; dropping
the loader unmounts the disks before `main` executes the kexec. The booted system
runs `tboot-bless-boot good` after `boot-complete.target`, which takes the
counters off the name that `tboot.bls-entry=` on the command line gives. The
installer and the assessment tool share the ESP with the loader, never at the
same time; the loader and the device thread share `/dev`, at the same time. Three
parts compute where the link of a partition is, each from other data: the scan
from the device's uevent file, the listener from the uevent, the loader from
`diskseq` and the partition table.

What is hard: a power cut between any two of rename, writeback, unmount and
kexec; entries that go stale in a list that is never refreshed; three threads
that block on each other; reads that fail; disks that come and go while setup
walks through them, and while the device thread scans, binds its socket and
follows messages that may be lost; device names that are used again; a recursive
removal next to mounts; an installer that may stop anywhere and deletes files the
next boot may need; a listing that is numbered, and numbers that are typed after it
changed. What makes each part
correct is stated by the properties of section 4, and `PROJECT.json` lists every
hazard with its line.

## 2. Modules

| Module | Models | 
|---|---|
| `EntryFiles` | entry files as records, and the renames the loader and the assessment tool make; shared by all modules about the ESP |
| `Bls` | what the loader does with entry files: discover, offer, sort, choose the default |
| `BootAssessment` | abstract: a ledger of tries and starts, what boot counting promises |
| `BootCounting` | the machine from power-on to a blessed boot, on top of `Bls` |
| `BootServer` | the threads and channels of `tboot-loader` |
| `BlockDevices` | abstract: devices and their links come and go; what the rest relies on |
| `DiskLoader` | the loader's state machine and its mounts, over `BlockDevices` |
| `DevManager` | the device thread, main up to `prepare_boot`, and the kernel's side; implements `BlockDevices` |
| `LoaderConf` | `loader.conf` as the installer writes it, bytes that stay included |
| `NixosInstall` | runs of the installer, aborts, and what happens between runs |
| `Uevents` | how the scan and the listener read the properties of a block device |
| `Partitions` | which partition is booted from, and which file system it is taken for |
| `ShellCommands` | `parse_input`, and what "boot" selects |
| `BootMenu` | from formatted disks over links, probes and listings to the entry selected by hand |
| `Vectors` | `sort_by` and `filter` of Rust's vectors, by what they promise (external) |
| `Decimals` | numbers compared as strings of digits, the way versions are |
| `DataProofs`, `BootCountingProofs`, `BootLedgerProofs`, `BootServerProofs`, `DiskLoaderProofs`, `DevManagerProofs`, `NixosInstallProofs`, `BootMenuProofs` | lemmas, theorems and proofs |
| `MCBootCounting`, `MCUnattended`, `MCBootServer`, `MCDiskLoader`, `MCDevManager`, `MCNixosInstall`, `MCBootMenu` | instances for TLC |

`BootCounting` over `EntryFiles` and `Bls`, `NixosInstall` over `EntryFiles` and
`LoaderConf`, `DiskLoader` and `DevManager` over `BlockDevices`, and `BootMenu` over
`Uevents`, `Partitions`, `ShellCommands`, `Vectors` and `Decimals` are the compositions. The machine as a whole
is not one module: its state would be the product. Instead the parts meet in a module
both use (the ESP in `EntryFiles`, `/dev` in `BlockDevices` and `Uevents`).

Definitions whose comment calls them a mutation are wrong variants of the
definition that follows them, in the way a bug would make it wrong. No
specification uses them; each breaks the property `PROJECT.json` pairs it with,
which is how we know that the property can fail.

### BootCounting and the code

The ESP is kept twice: `entries` is the directory as the kernel that mounted it
sees it, `durable` what is on the medium. `Writeback` makes them equal at any time,
an unmount does too (`DropLoader`, `Shutdown`), and `PowerLoss` takes `durable` for
`entries`. A rename is atomic on the medium; FAT does not promise that, and a torn
rename is outside this model. `cache` is the `Vec<BlsEntry>` of the one disk that has
entries; `loader` distinguishes no loader, one not probed, and one probed.

| Action | Code |
|---|---|
| `PowerOn` | `main` up to `prepare_boot` |
| `AutoProbe`, `DiskMissing` | `loader.boot_devices()`: setup, mount, `discover_entries` |
| `UserInterrupts` | `UserIsPresent` in the countdown, `break 'autoboot`, the loader dropped |
| `NothingToBoot`, `AutoSelect` | the end of the countdown; `select` with `boot_count` |
| `LoadFails`, `LoadSucceeds` | the result of `kexec_load` |
| `Kexec` | loader dropped, `kexec_execute`, the kernel runs |
| `UserEnters`, `ShellLoader`, `ShellProbe`, `ShellBoot`, `ShellQuits` | "failed to boot", and the commands `loader disk`, `list`/`rescan`, `boot`, `reboot`/`poweroff` |
| `BlessGood`, `BlessBad` | `tboot-bless-boot good` and `bad` over `find_entry` |
| `Shutdown`, `Writeback`, `PowerLoss`, `ResetHung` | the booted system and the medium (external) |

`BootCount` has three outcomes: nothing for an uncounted entry, the rename (which
finds no file when the list is stale), and a refused rename, which the code logs
and ignores. `attempts` and `uncounted` are history variables.

### BootServer and the code

Each thread's program counter is a variable (`main`, `shell`, `presence`), each channel a
sequence. A `recv` whose channel is empty blocks; a `send` to a dropped receiver and
a `recv` from a dropped sender fail, and since every one is unwrapped and the release
profile aborts on panic, they set `panicked`, which stops everything. `panicked` tells whose
use of a channel (or, for the presence thread, of the terminal) failed; "work" is a panic
in what a thread does besides. `ServerAlive` is when main still owns its ends of the
channels: `handle_commands` takes them by value.

Commands are split by what they mean for the session: `boot` may end it (`Results`),
`reboot` and `poweroff` do, the others do not. `boot`, and `list`, which stands for `list`,
`rescan` and `dmesg`, may panic as well (`Fallible`): setup unwraps what it reads of a disk under `/sys`
(`disk.rs:604`, `615`, `763`), `kernel_logs` removes a byte of what may be empty. `shell` runs
busybox until the user leaves it (`ShellExits`). The first probe of autoboot may panic as
`list` does, and a line that ends without a newline inside a character panics the shell
thread (`shell.rs:43`).

| Action | Code |
|---|---|
| `Probe`, `Tick`, `Hear`, `AutobootDevice`, `Decide`, `ReceiveKey`, `SpawnShell`, `JoinShell` | `prepare_boot` |
| `SendReady`, `ReceiveCommand`, `FinishCommand`, `ShellExits` | `handle_commands` |
| `KeyPressed`, `PresenceReadFails`, `SendPresence` | `wait_for_user_presence` |
| `ShellReceive`, `UserTypes`, `ShellReadFails` | `run_shell` |

### DiskLoader and the code

`Loader::probe` takes several steps: `BeginSetup` lists `/sys/class/block`, `SetupDisk` tries
one block device, `FinishProbe` reads the mounted ones. Disks are plugged, linked and
unplugged in between. `dirs` are the directories below `/mnt/disk`, which `Disk::mount`
makes before it opens the partition; `Teardown` unmounts the disks in the list and
removes the tree, and `wiped` records the disks still mounted at that moment.
`SetupDisk` also passes over a disk whose partition table cannot be read or has no ESP (`Unread`).
`MissDisk` is a disk that is gone when setup comes to it: the `canonicalize(..).unwrap()`
aborts, or it is skipped a little later. The four actions on the hardware are those of
`BlockDevices`.

### DevManager and the code

A device is one `diskseq` and partition; `NameOf` gives the name in `/dev`, which another
device may have after it. `node` tells who made `/dev/NAME`, since devtmpfs deletes only
nodes it made; `announce` are the uevents the kernel has yet to send, in any order between
devices; `heard` and `unheard` are the history of the socket: the messages its buffer took, and those
that found it full or were sent before it was bound, which includes those of the devices
that were there, and announced, before the thread started.

| Action | Code |
|---|---|
| `Register`, `Unregister`, `Change`, `Announce` | the kernel with `CONFIG_DEVTMPFS` (external) |
| `List`, `Scan` | `scan_and_create_devices`: `read_dir`, then each uevent file and its link |
| `Bind` | the socket, made and bound after the scan, or the panic when it cannot be |
| `Receive` | `recv_from_full`, the message to main, and the dispatch on the action |
| `HandleAdd`, `MakeNode` | the node where `path.exists()` says there is none, made in a step of its own; the link |
| `HandleRemove` | node and link are removed |
| `LoadVerificationKey` | `load_verification_key` and what main prints of it, with a failure at any call |
| `HearNews`, `Settle` | `wait_for_settle` |

A link is made by an unwrapped `symlink`, so one that exists sets `pc` to "aborted", and a socket
that cannot be made sets it to "unbound"; either stops main as well. `Uevents` has the two readings of the properties, `ScannedLink` and
`HeardLink`; `DevManager` only says which device gets a link.

### NixosInstall and the code

One step is one call that changes the ESP: `std::fs::copy` and the signature after it are
two, since a run may stop between them. `Abort` may follow any step, and forgets what is
in memory. Directories are read in any order.

| Action | Code |
|---|---|
| `Begin` | `main` with its arguments |
| `Visit`, `NameDefault` | one link in the profiles directory: the generation number, and the lines of `loader.conf` |
| `Install` | `install_generation`, for the specialisations first and then the generation |
| `CopyKernel`, `SignKernel`, `CopyInitrd`, `SignInitrd` | `copy` and `sign-file` |
| `WriteEntry` | the glob over `loader/entries` and the entry written where nothing matches |
| `EndVisits`, `DeleteFile`, `FilesCollected`, `DeleteEntry`, `Finish` | the two collections at the end |
| `AddGeneration`, `RemoveGeneration`, `Rename` | `nixos-rebuild`, garbage collection, and the loader and assessment tool, between runs (external) |

`Existing` is the glob `nixos-generation-N*.conf`: it matches the entries of every
generation whose number begins with the same digits (`Begins`), also when the entry to
be written is a specialisation's, and puts them among the known EFI files, not the known
entries. `LoaderConf` keeps, besides the timeout and the default, the number of bytes before
the default line, because a file that is opened without truncating keeps what the new
lines do not cover.

### BootMenu and the code

What stands on disks before the machine starts is made by `Format` and `PowerOn`: partitions
that are formatted one file system over the other, where the newer leaves marks of
the older it does not overwrite, and links made by the scan or by uevents.

| Action | Code |
|---|---|
| `Type` | `run_shell` takes a line, `parse_input` parses it |
| `BeginSetup`, `SetupDisk`, `SortDisks` | `Loader::setup` and `BlsBootLoader::setup`: the partition table, `Disk::mount`, `detect_fs_type`, the order by removable |
| `Visit`, `SortEntries` | `BlsBootLoader::probe`: `discover_entries`, a file at a time, then the sort |
| `List`, `Boot`, `NewLoader`, `Answer`, `Dmesg`, `End` | the commands in `handle_commands` |

An entry file is a record of the fields that matter: its name, tries, version, title,
architecture and whether it has a Linux kernel. A version is the number in `Generation N ...`,
the form in the unit test beside the parser; what follows the number is taken to be the same
for equal numbers, and begins with a space, which is less than a digit. `StringLess` compares
versions as the code does, digit by digit. Entries of equal versions, which is what the labels
that this repository's installer writes may give, are ordered by title and name. `TakenLine` is the byte that is cut off each line. Sorting
is a choice among the sequences `SortBy` allows, and a listing is `Filtered`: `SortSeq`
and `SelectSeq` are recursive and out of reach of proofs. `VectorsAgree`, an assumption of
`MCBootMenu` that TLC evaluates, says that they are the same.

## 3. Runs, bounds and fairness

| Run | Instance | Shows |
|---|---|---|
| `bootcount` | two entries, three tries each, at most two refused renames per entry, counter maximum 4; every entry may load or not | `TypeOK`, `TriesAccounting`, `StaleIsPaid`, `DoneCoversStarts`, `OneFilePerName`, `GoodStaysGood`, and that `BootCounting` implements `BootAssessment` |
| `unattended` | three entries, two tries, one refused rename; the first and the default hang, the last completes | `FallsBack` |
| `bootserver` | no device, one, or two, with and without countdown and entries; at most one failed read | the turns, no deadlock, no lost key, and the liveness of the session |
| `diskloader` | four disks: two complete, one without `loader.conf`, one whose file system is not known | no file deleted, nothing left mounted, what a probe finds |
| `install` | generations 1 and 10 and a specialisation of 1 without initrd, a shared kernel, timeouts 5 and 10, one try | what any sequence of complete and aborted runs leaves: `InstalledIsFresh`, `OnlyOldDangle`, `ConfNamesDefault`, `AbsenceExplained`, `ComesBack` |
| `devices` | two disks that have the same name one after the other, a console that stays, a buffer of two messages, one further uevent | `LinksMatch`, `AbortExplained`, `VerificationAsReported`, `Settles`, and that `DevManager` implements `BlockDevices` |
| `menu` | three disks (a GPT, an MBR, one whose `diskseq` does not fit), formatted up to twice, and eighteen lines, typed with or without newline | `LinkIsMounted`, `FilesystemTrue`, `ListingComplete`, `SelectedAsListed` |
| `prompt_returns`, `all_devices`, `rescan_finds`, `existing_stay`, `removable_first` | the same modules | five disagreements, section 6 |

Bounds. Two entries are enough for stale lists and for one entry being counted while
another is selected; three tries allow two boots, a refused rename and a try
left over. The counter maximum is one more than the tries, so that done counts are
not cut off; that they may be is part of the proof, which covers every maximum.
`MaxFailures` and `MaxReadErrors` bound events the code does not bound. `attempts` needs no
bound: the property that it has one is checked. Four disks cover each kind, and two of the
kind that works, one of which can come and go while the other stays mounted.
1 and 10 are the smallest generations of which one's number begins the other's; the
timeouts 5 and 10 have lines of different length, which is when they cover or spare the
default line; runs are not bounded. In `devices` a second disk with the name of the first is what makes
a late message hit the wrong node, and a buffer of two overflows. `ChangeMax` bounds the
uevents that are neither add nor remove; one is enough to keep main waiting
once more. Formatting twice is what leaves marks of an older file system; the generations
9, 10 and 11 are where comparing strings and numbers differ. In `menu` the counter
maximum 4 stands for the 32 bits of the device thread, so that the disk number 5 overflows.

Fairness. `UnattendedSpec` is about a machine nobody attends: the loader keeps running
(weak fairness of `Autoboot`), a system that does not complete is reset by a watchdog
or a person, and one that completes is blessed (the unit runs). Power cuts may come at
any time but have to stop in the end, else nothing follows. `FallsBack` also assumes
that every entry loads: autoboot gives up at the first entry that does not.
In `FairSpec` each thread that can run does; the operating system's scheduler gives that. The
user has no fairness: who never types, or never leaves busybox, never gets an answer, and no
property needs it. That the main thread finishes any other command it does not panic in, and
the wait for `kexec_loaded`, rests on the kernel's calls returning.
`DevManager!FairSpec`: the kernel sends the uevents it owes, and the thread and main run.
`NixosInstall!FairSpec`: a run that was started goes on, runs keep being started (each
`nixos-rebuild` does), and they are not aborted for ever. `BootMenu` and `DiskLoader` state
no fairness and no liveness: what ends there is what the user ends.

Five modules are checked with the deadlock check off, because the program may stop: threads
end (`bootserver`, where `NoMutualWait` is the property instead), the last loader is
dropped, no more devices come, nobody runs the installer, the session is over.

## 4. What the properties say

* `TriesAccounting`: starts made plus tries left never exceed the tries an entry was
  installed with plus the renames refused, in memory and on the medium.
* `StaleIsPaid`: booting a stale entry counts nothing, and is safe since the rename
  that made it stale counted a start that did not happen.
* `DoneCoversStarts`, `OneFilePerName`, `GoodStaysGood`: the done count misses no recorded
  start; each entry keeps one file, which `find_entry` relies on; the loader leaves
  uncounted entries alone.
* `ImplementsLedger`: seen through the medium, every step is a spend, a start out of the
  allowance, a refusal, a verdict on the running entry, or a stop.
* `FallsBack`: a new entry that hangs uses up its tries, and an older one is booted.
* `OneTurn`, `NoMutualWait`, `ChannelsHold`: the threads take turns, whom main waits
  for can go on (unless a read failed), and no send, receive or join of main or the shell
  fails, nor the assertion on the key, however the session ends. Of the presence thread's
  unwraps, and of those in the work between two messages, this says nothing: they can
  fail (section 6).
* `KeyStopsAutoboot`, `KeyGetsPrompt`, `AutobootDecides`, `CommandAnswered`, `OutcomeReached`: the key is
  neither lost nor ignored, the countdown ends, each command is answered, and an
  outcome is carried out. `CommandAnswered` is about help, loader, reboot and poweroff, about the
  shell once the user left it, and about list, rescan, dmesg and boot where their
  work does not panic.
* `NeverWipes`, `NothingLeftMounted`, `OffersAreMounted`, `FreshProbeFindsAll`, `RescanKeepsDevices`: section 1's
  recursive removal is safe, and what loaders leave behind does not hurt the next.
* `LinksMatch`: once the thread has handled what was sent, links and nodes are those of the
  devices, but for a device that came after the listing and whose message nobody
  heard. No race over names, nodes and the scan makes an exception more.
* `AbortExplained`: with its socket bound, init dies in the thread only over a device that
  the scan linked and whose add message the socket took as well; `Settles`: unless the
  thread dies, of that or without a socket, main goes on to boot.
* `ImplementsDevices`: `DiskLoader` is checked over devices that behave as `DevManager` makes them.
* `VerificationAsReported`: whichever call fails, a policy has its key, and the report is true.
* `InstalledIsFresh`, `AbsenceExplained`: what a complete run leaves is as if it had run on an empty
  ESP, except for entries that a file stood in the way of.
* `OnlyOldDangle`: at every step, aborted runs included, an entry of a generation that
  exists has its kernel and initrd; files are deleted before entries, and this is why
  that order is safe. A kernel that was copied and is not signed yet counts as there.
* `ConfNamesDefault`: bytes of older lines never survive as a wrong default.
* `ComesBack`: the deletion by every second run (section 6) is not for good.
* `LinkIsMounted`: the three computations of a link's path agree wherever the disk's number
  fits in 32 bits; the others have no link, and are not mounted.
* `FilesystemTrue`: FAT and ISO 9660 are recognised over the remains of others. It says
  nothing of ext4, which the code never recognises (section 6).
* `ListingComplete`, `SelectedAsListed`: no entry is lost or doubled over any number of probes,
  and "boot" with a number never boots what "list" did not print under it since the last
  probe of the loader in use.

## 5. Proofs

All theorems hold for every value of the constants, under the named assumptions of
`EntryFiles`, `Bls`, `BootCounting`, `BootServer`, `DiskLoader`, `NixosInstall`,
`DevManager`, `Uevents`, `Partitions` and `BootMenu`, which TLC evaluates on every run that uses
them. `TypeAssumption` and `LinkAssumption` say that `None` differs from the values it is
returned instead of, and `MenuAssumption` that it is no device of the menu. `MenuAssumption` also
says that the number in a version has at most ten digits: it is that of a generation, and those
are `u32`.

* `DataProofs` has what several of the others rest on: what renames do to a directory; that
  a set of numbers has a least one; that `Filtered` keeps the elements it should, each once, in
  their order; that a permutation that keeps the order moves nothing, and that a strict
  order on finitely many places, in which any two are ordered, lets them stand in line in one
  way; and numbers as strings: the digits of numbers of equal width compare as the numbers do,
  and of two different strings exactly one is less, in an order.
* `BootCountingProofs`. The invariant is `TypeOK`, `OneFilePerName`, `TriesAccounting`, `StaleIsPaid` and
  `StartsBounded` together. `TriesAccounting` alone is not inductive: `Kexec` adds a start, and
  only `StaleIsPaid` says that the kernel being started was paid for; that in turn needs
  one file per name, so that the file a stale entry became is the only one, and
  `StartsBounded` for entries whose counters a verdict took away. `DoneCoversStarts` is
  proved the same way on top (`DoneInv`); where the done counter stops at its
  maximum, `StaleIsPaid` and `MaxTries =< CounterMax` carry it.
* `BootLedgerProofs`. `BootCounting` implements `BootAssessment`. The ledger is read off the
  medium, so two more facts are needed: the medium differs from the directory only by
  tries already spent or by the verdict on the running entry (`Pending`), and a copy of an
  uncounted entry in the loader's list never goes stale (`UncountedHeld`). Then a flush
  maps to the spends or the verdict it brings to the medium, `Kexec` to the flush and
  the start together, a refused rename to a refusal, and the rest to a stop or a stutter.
* `BootServerProofs`. `OneTurn` follows from a description of the conversation (`Talk`): for
  each place of the main thread, where the shell and the presence thread are and what
  the channels hold. `ChannelsHold` (`ConversationHolds`) is part of the same induction, and
  `NoMutualWait` follows from it: where main waits in a `recv` or a join, `Talk` says that the other thread is at a
  prompt, or has its answer, or is gone.
* `DiskLoaderProofs`. The loader's list equals the mount table and every mount has its directory
  (`Books`); a loader not yet set up owns nothing (`Clean`); and what the current setup is
  expected to find is ahead of it or mounted (`Found`).

* `DevManagerProofs`. The invariant is `TypeOK` with: messages are about devices that are or were
  there, and removals about those that were (`Origin`); what the places of the thread mean
  (`Phases`); a name has one device, and its predecessor's messages are sent (`Names`); an
  addition is in one place at a time (`Once`); behind the addition of a device that is
  gone, and behind its link, a removal is on its way (`RemovalFollows`); behind a removal, the
  addition of the device that took over the name (`AdditionFollows`); which devices have
  their node already (`Nodes`) and their link (`Links`); what the thread handles went through
  the buffer (`Heard`); what aborts (`Aborts`); and the order of the keys (`KeysFirst`, `VerificationAsReported`). Everywhere "unless nobody heard it".
  `LinksMatch` is what remains when everything on its way has arrived. `HandleRemove` is the
  step that needs most of it: the node it deletes may be that of a later device,
  whose own addition then still has to come. The refinement of `BlockDevices` needs `Origin`:
  what is linked or unlinked is a device that is, or was, there.
* `NixosInstallProofs`. The invariant is `TypeOK`, `OnlyOldDangle`, and what a run knows at each step: what
  is still to visit is what exists (`LoopOK`), known files are there and signed once
  their signature is due (`FilesOK`), known entries are fresh and their files known
  (`EntriesOK`), what was visited has its entry or something that matched (`HistoryOK`), and
  what `loader.conf` says after the visits so far (`ConfOK`). `InstalledIsFresh` is `FilesOK` and
  `EntriesOK` after the two collections.
* `BootMenuProofs`. `LinkIsMounted`: the two readings of a device's properties give the same path, the
  path the loader computes (`DiskReadings`, `PartitionReadings`), and `BootPartition` is a
  partition of the table, because a set of numbers that is not empty has a least one.
  `FilesystemTrue` needs that images stay of the length they have, and that one which
  was never formatted has no marks (`Recognised`).
  `Menus` says what the devices hold while a probe goes on: files of their disk, each name
  once; of the current one those read so far, of those before it all, in order; and of every
  one once the loader is probed. A second probe reads all files again into lists that are
  full, which is why "each once" needs an induction. `ListingComplete`
  follows: the order survives the filter (`FilteredPlaces`), and of two versions of as many
  digits the greater string is the greater number. `Conversation` adds that what
  "boot" chose is what was listed under the numbers typed before, and gives `SelectedAsListed`.
  `EntriesSortedOneWay` says that the order directories are read in makes no difference: `Before` is
  asymmetric, transitive and total on the entries of a disk, so that a sort has exactly one
  result. The model's step that sorts is therefore never blocked, and never a choice; and
  the comparison at `disk.rs:503`, which calls equal names less than each other, is the total
  order that `sort_by` requires, since names differ.
  `DisksNeverMoved` explains the finding `RemovableFirst` for any disks: none is ever known
  to be removable, so the sort by that attribute leaves the list as it is.

Only model-checked: everything about fairness (`FallsBack`, `KeyGetsPrompt`, `AutobootDecides`,
`CommandAnswered`, `OutcomeReached`, `ComesBack`, `Settles`), which is beyond this prover. Every invariant
and every action property that a run checks has its theorem; so has each refinement. No
module declares a recursive operator. That `Vectors` says of `sort_by` and `filter` what they do is read
from their documentation; `VectorsAgree` compares it with the library's operators, over short
sequences.

## 6. Disagreements found

* `PromptReturns` (`shell.rs:57`): after a failed `read_line` the shell and the server wait for
  each other for ever.
* `AllDevicesTried` (`main.rs:112`): `docs/boot_flow.md` boots every device in turn; the code gives
  up at the first whose kernel does not load.
* `RescanFindsAll` (`disk.rs:396`): a mountpoint left by a failed mount hides its disk from
  every later rescan of that loader.
* `ExistingStay` (`tboot-nixos-install/src/main.rs:238`): an existing entry is kept from being
  written again, but not remembered as known, so the second run deletes what the
  first wrote, the third writes it again, and so on.
* `RemovableFirst` (`disk.rs:379`): the attribute is trimmed and then compared with text that
  ends in a newline, so no disk is removable and the order of disks is the directory's.

What the models contain without a text to hold it against, so that no run reports it:
a key pressed once autoboot has an outcome aborts init in the presence thread
(`shell.rs:22`); so does a disk that is unplugged while setup walks the block devices
(`disk.rs:604`, in `DiskLoader` and `BootServer`), a device that is scanned and announced to the
socket (`dev.rs:389`), and `dmesg 0` where no line is kept (`system.rs:196`, in `BootMenu` and
`BootServer`); a line that input ends without a newline loses its last byte, or panics where that is
part of a character (`shell.rs:43`); and a partition is taken for ext4 only if its
superblock cannot be read, hence never (`fs.rs:147`).

## 7. Not modelled

* The boot assessment generator, system setup, logging and configuration except
  `kernel_logs`, the NixOS module, builds and boards: no state at run time, or one pass of I/O.
* Text: entry files are what their names and fields say. Whether a name that one tool
  writes parses as the same record in another is left to the unit tests beside
  `parse_entry_filename`; a specialisation whose name has a `+` is outside.
* The kernel's side: kexec, the rules of the IMA policy, FAT. A rename is atomic on the
  medium; the installer's writes reach it in the order they were made, so a torn
  entry or kernel is outside, as are bootspec documents of other versions and files in
  `loader/entries` that no tool of this repository writes.
* Generation numbers do not come back once deleted, which holds for the profiles of Nix
  as long as the newest is kept.
* Writing to the terminal succeeds (`main.rs:70`, `75`, `130`, `157`, `shell.rs:35` unwrap it), and so do the
  directories `dev.rs` makes under `/dev`. `kexec_loaded` is read until it says 1, which it does once
  the load has returned.
* Time: a timeout may pass whenever its channel is empty.
* `umount2` with `MNT_DETACH` succeeds on what the loader mounted.

What could follow: a torn rename or write on FAT, as a third kind of power cut; and names
as sequences of tokens, to relate what the installer and the loader write with what
`parse_entry_filename` reads.

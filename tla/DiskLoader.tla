----------------------------- MODULE DiskLoader -----------------------------
(***************************************************************************)
(* The disk loader: the Loader state machine (boot_loader/mod.rs) around   *)
(* BlsBootLoader (boot_loader/disk.rs), the mounts it makes under          *)
(* /mnt/disk, and the callers of both in main.rs.  Disks with an ESP come  *)
(* and go, and their partitions are linked under /dev/part, as             *)
(* BlockDevices says, while setup walks through them one at a time.        *)
(***************************************************************************)
EXTENDS BlockDevices

CONSTANTS
  Mountable,  \* those with an ESP whose file system detect_fs_type knows
  WithConf    \* those with a readable loader/loader.conf

ASSUME DiskAssumption == Mountable \subseteq Disk /\ WithConf \subseteq Disk

VARIABLES
  session,      \* who holds the loader: autoboot, the shell, nobody any more; or aborted
  state,        \* the LoaderState, or "none" where there is no Loader
  disks,        \* BlsBootLoader.disks
  bootDevices,  \* Loader.boot_devices
  dirs,         \* mountpoints that exist under /mnt/disk
  mounted,      \* disks mounted there
  todo,         \* the block devices setup has not reached
  inSetup,      \* setup walks through the block devices
  wiped,        \* history: disks whose files remove_dir_all deleted
  expected,     \* history: disks that were ready when the last setup began
  fresh         \* history: that setup was the first of its loader

vars == <<hardware, session, state, disks, bootDevices, dirs, mounted,
          todo, inSetup, wiped, expected, fresh>>
tree == <<disks, dirs, mounted, wiped>>

\* Started and Shutdown pass within one step of this model.
States == {"none", "Unstarted", "Probed"}

Ready == plugged \cap linked \cap Mountable \cap WithConf

Init ==
  /\ InitDevices
  /\ session = "auto" /\ state = "Unstarted"
  /\ disks = {} /\ bootDevices = {}
  /\ dirs = {} /\ mounted = {} /\ wiped = {}
  /\ todo = {} /\ inSetup = FALSE /\ expected = {} /\ fresh = FALSE

-----------------------------------------------------------------------------
(* Loader::probe, in steps: setup reads the block class directory, tries each *)
(* disk, and then BlsBootLoader::probe reads the mounted ones.                 *)

\* Mutation of BeginSetup: setup starts with an empty list of disks.
BeginSetupForgets(force) ==
  /\ ~inSetup /\ state # "none"
  /\ force \/ state = "Unstarted"
  /\ inSetup' = TRUE /\ todo' = plugged /\ disks' = {}
  /\ expected' = Ready /\ fresh' = (state = "Unstarted")
  /\ UNCHANGED <<hardware, session, state, bootDevices, dirs, mounted, wiped>>

BeginSetup(force) ==
  /\ ~inSetup /\ state # "none"
  /\ force \/ state = "Unstarted"
  /\ inSetup' = TRUE /\ todo' = plugged
  /\ expected' = Ready /\ fresh' = (state = "Unstarted")
  /\ UNCHANGED <<hardware, session, state, bootDevices, tree>>

\* The disk or its table cannot be read, or has no ESP: setup goes on to the next one.
Unread(d) == d \notin linked \cap Mountable /\ UNCHANGED <<dirs, mounted, disks>>

\* Mutations of SetupDisk: a mount whose disk has no loader.conf is not remembered;
\* a failed mount takes away its mountpoint, also one it did not make.
SetupDiskDropsBare(d) ==
  /\ inSetup /\ d \in todo \cap plugged /\ session # "aborted"
  /\ todo' = todo \ {d}
  /\ \/ Unread(d)
     \/ /\ dirs' = dirs \cup {d}
        /\ IF d \notin dirs /\ d \in linked \cap Mountable
           THEN mounted' = mounted \cup {d} /\ disks' = disks \cup ({d} \cap WithConf)
           ELSE UNCHANGED <<mounted, disks>>
  /\ UNCHANGED <<hardware, session, state, bootDevices, wiped, inSetup, expected, fresh>>
SetupDiskCleansUp(d) ==
  /\ inSetup /\ d \in todo \cap plugged /\ session # "aborted"
  /\ todo' = todo \ {d}
  /\ \/ Unread(d)
     \/ IF d \notin dirs /\ d \in linked \cap Mountable
        THEN mounted' = mounted \cup {d} /\ disks' = disks \cup {d} /\ dirs' = dirs \cup {d}
        ELSE mounted' = mounted \ {d} /\ dirs' = dirs \ {d} /\ UNCHANGED disks
  /\ UNCHANGED <<hardware, session, state, bootDevices, wiped, inSetup, expected, fresh>>

\* Disk::mount, and the push into disks.  The directory is made first: one that
\* exists is an error, and one whose disk then does not mount stays.
SetupDisk(d) ==
  /\ inSetup /\ d \in todo \cap plugged /\ session # "aborted"
  /\ todo' = todo \ {d}
  /\ \/ Unread(d)
     \/ /\ dirs' = dirs \cup {d}
        /\ IF d \notin dirs /\ d \in linked \cap Mountable
           THEN mounted' = mounted \cup {d} /\ disks' = disks \cup {d}
           ELSE UNCHANGED <<mounted, disks>>
  /\ UNCHANGED <<hardware, session, state, bootDevices, wiped, inSetup, expected, fresh>>

\* The disk was unplugged after the directory was read: its path does not resolve
\* and the unwrap aborts, or it goes later, with or without a mountpoint made.
MissDisk(d) ==
  /\ inSetup /\ d \in todo \ plugged /\ session # "aborted"
  /\ todo' = todo \ {d}
  /\ \/ session' = "aborted" /\ UNCHANGED dirs
     \/ dirs' \in {dirs, dirs \cup {d}} /\ UNCHANGED session
  /\ UNCHANGED <<hardware, state, bootDevices, disks, mounted, wiped, inSetup, expected, fresh>>

\* Mutation of FinishProbe: a disk that does not mount ends the walk.
FinishProbeEarly ==
  /\ inSetup /\ session # "aborted" /\ inSetup' = FALSE
  /\ state' = "Probed" /\ bootDevices' = disks \cap WithConf
  /\ UNCHANGED <<hardware, session, tree, todo, expected, fresh>>

\* A disk is offered when its loader.conf can be read, perhaps from the page cache
\* when the disk is gone.
FinishProbe ==
  /\ inSetup /\ todo = {} /\ session # "aborted"
  /\ inSetup' = FALSE
  /\ state' = "Probed"
  /\ \E cached \in SUBSET (disks \ plugged) :
        bootDevices' = disks \cap mounted \cap WithConf \cap (plugged \cup cached)
  /\ UNCHANGED <<hardware, session, tree, todo, expected, fresh>>

\* Mutation of Teardown: the mountpoints stay.
TeardownKeepsDirs ==
  /\ mounted' = IF state = "Probed" THEN mounted \ disks ELSE mounted
  /\ UNCHANGED <<wiped, dirs>>

\* Loader::shutdown: teardown unmounts the disks it knows and removes /mnt/disk
\* with everything below it, which spares nothing that is still mounted there.
Teardown ==
  IF state = "Probed"
  THEN /\ mounted' = mounted \ disks
       /\ wiped' = wiped \cup mounted'
       /\ dirs' = mounted'
  ELSE UNCHANGED <<mounted, wiped, dirs>>

-----------------------------------------------------------------------------
(* The callers: prepare_boot and handle_commands. *)

\* boot_devices(), from autoboot, "list" and "boot"; a probed loader answers at once.
ListDevices == BeginSetup(FALSE)

\* "rescan": probe(true)
Rescan == session = "shell" /\ BeginSetup(TRUE)

\* Mutation of NewLoader: the old loader is replaced without a shutdown.
NewLoaderOnly ==
  /\ session = "shell" /\ ~inSetup
  /\ state' = "Unstarted" /\ disks' = {} /\ bootDevices' = {}
  /\ expected' = {} /\ fresh' = FALSE
  /\ UNCHANGED <<hardware, session, dirs, mounted, wiped, todo, inSetup>>

\* "loader disk": the old loader is shut down and replaced.
NewLoader ==
  /\ session = "shell" /\ ~inSetup
  /\ Teardown
  /\ state' = "Unstarted" /\ disks' = {} /\ bootDevices' = {}
  /\ expected' = {} /\ fresh' = FALSE
  /\ UNCHANGED <<hardware, session, todo, inSetup>>

\* Autoboot ends, with a kernel to run or without; or handle_commands returns.
DropLoader ==
  /\ ~inSetup
  /\ \/ session = "auto" /\ state = "Probed" /\ session' \in {"shell", "over"}
     \/ session = "shell" /\ session' = "over"
  /\ Teardown
  /\ state' = "none" /\ disks' = {} /\ bootDevices' = {}
  /\ expected' = {} /\ fresh' = FALSE
  /\ UNCHANGED <<hardware, todo, inSetup>>

-----------------------------------------------------------------------------
(* Disks and the device thread.  What the loader mounted stays mounted when its *)
(* disk goes, but cannot be read any more.                                       *)

DeviceStep ==
  /\ NextDevices
  /\ expected' = expected \cap plugged'
  /\ UNCHANGED <<session, state, bootDevices, tree, todo, inSetup, fresh>>

Next ==
  \/ ListDevices \/ Rescan \/ FinishProbe \/ NewLoader \/ DropLoader \/ DeviceStep
  \/ \E d \in Disk : SetupDisk(d) \/ MissDisk(d)

Spec == Init /\ [][Next]_vars

-----------------------------------------------------------------------------
(* Properties. *)

TypeOK ==
  /\ plugged \subseteq Disk /\ gone \subseteq Disk /\ linked \subseteq Disk
  /\ plugged \cap gone = {}
  /\ session \in {"auto", "shell", "over", "aborted"} /\ state \in States
  /\ disks \subseteq Disk /\ bootDevices \subseteq Disk
  /\ dirs \subseteq Disk /\ mounted \subseteq Disk /\ wiped \subseteq Disk
  /\ todo \subseteq Disk /\ inSetup \in BOOLEAN /\ (~inSetup => todo = {})
  /\ expected \subseteq Disk /\ fresh \in BOOLEAN

\* Removing /mnt/disk at shutdown never deletes the files of an ESP: whatever is
\* mounted below it is known to the loader that is torn down, and unmounted first.
NeverWipes == wiped = {}

\* Whenever no loader holds disks (between loaders, and when main goes on to kexec
\* or reboot) nothing is mounted and no mountpoint is left behind.
NothingLeftMounted ==
  ~inSetup /\ state \in {"none", "Unstarted"} => mounted = {} /\ dirs = {}

\* Every device the user can pick is mounted, also after disks were unplugged,
\* rescans, and replaced loaders: its kernel can be read.
OffersAreMounted == bootDevices \subseteq mounted

\* A new loader finds every disk that was ready when its setup began and stayed
\* plugged, whatever was mounted, left behind or unplugged before.
FreshProbeFindsAll ==
  state = "Probed" /\ ~inSetup /\ fresh => expected \subseteq bootDevices

\* A rescan does not lose a device that is still there.
RescanKeepsDevices ==
  [][ FinishProbe => bootDevices \cap plugged \subseteq bootDevices' ]_vars

\* What help says of "rescan": that it scans again for bootable partitions and
\* entries.  A disk that is ready by then would be found.
RescanFindsAll ==
  state = "Probed" /\ ~inSetup /\ ~fresh => expected \subseteq bootDevices

=============================================================================

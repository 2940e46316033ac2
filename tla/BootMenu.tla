------------------------------ MODULE BootMenu ------------------------------
(***************************************************************************)
(* From disks to the entry that is booted by hand: what they were          *)
(* formatted with and where their partitions are linked, the setup and     *)
(* the probe of the disk loader (boot_loader/disk.rs), step by step in any *)
(* order directories are read, and the commands of the shell (main.rs).    *)
(* Disks do not come and go here (DiskLoader), nor do their files change   *)
(* (BootCounting).                                                         *)
(***************************************************************************)
EXTENDS Partitions, Uevents, ShellCommands, Vectors, Decimals

CONSTANTS
  Disk,
  DiskSeq,     \* DiskSeq[d]: its number
  Table,       \* Table[d]: its partitions
  Tiny,        \* those whose partition has one sector
  Removable,   \* those whose attribute "removable" is 1
  Files,       \* Files[d]: the files in loader/entries
  Default,     \* Default[d]: the default entry in loader.conf, or None
  NameOrder,   \* NameOrder[n]: the place of the name among all
  LogLevels,   \* the levels of the lines of the kernel log
  Lines,       \* the lines that are typed
  FormatMax    \* bound: how often disks are formatted

\* An entry file: its name, or None where that or the contents do not parse; and of the
\* contents the number N of a version "Generation N ..." (as in the unit test of the source),
\* the place of the title, "other" for another architecture, and whether there is a Linux
\* kernel and no EFI program.
EntryFile == [name : Name \cup {None}, left : Counter \cup {None}, version : Nat \cup {None},
              title : Nat \cup {None}, arch : {"this", "other"}, linux : BOOLEAN]

\* BlsEntry, and whether it is the default one.
MenuEntry == [file : EntryFile, is_default : BOOLEAN]

\* Versions have at most ten digits: the number of a generation fits in 32 bits.
ASSUME MenuAssumption ==
  /\ DiskSeq \in [Disk -> Nat] /\ \A c, d \in Disk : DiskSeq[c] = DiskSeq[d] => c = d
  /\ \A d \in Disk : Table[d].types \in Seq(STRING) /\ Len(Table[d].types) <= CounterMax
  /\ Removable \subseteq Disk /\ Tiny \subseteq Disk
  /\ Files \in [Disk -> SUBSET EntryFile]
  /\ \A d \in Disk : \A f \in Files[d] : f.version # None => f.version \div TenTo(9) <= 9
  /\ None \notin [disk : Disk, entries : Seq(MenuEntry)]
  /\ Default \in [Disk -> Name \cup {None}]
  /\ NameOrder \in [Name -> Nat] /\ \A m, n \in Name : NameOrder[m] = NameOrder[n] => m = n
  /\ LogLevels \subseteq 0 .. 7 /\ FormatMax \in Nat

VARIABLES
  image,     \* image[d]: the bytes of the partition the loader boots from
  format,    \* format[d]: the file system made there last, or None
  formats,   \* how many were made
  links,     \* links under /dev: <<path, disk, partition>>, the whole disk being 0
  pc,        \* where main is: "off", "shell", "setup", "probe", "over", "aborted"
  loader,    \* the shell's loader: "none", "unstarted" or "probed"
  todo,      \* the disks setup has not reached
  disks,     \* BlsBootLoader.disks
  current,   \* the index of the disk whose entries are read
  unread,    \* its files that are left
  typed,     \* the last line, and whether it ended with a newline
  command,   \* the command of that line, "nothing" when it is done
  chosen,    \* the entry it selected, or None
  printed    \* the devices as "list" printed them since they were probed, or <<>>

storage == <<image, format, formats, links>>
probing == <<todo, disks, current, unread>>
user == <<typed, command, chosen, printed>>
vars == <<storage, pc, loader, probing, user>>

Unmarked == [i \in 1 .. 3 |-> FALSE]
Blank(length) == [length |-> length, boot |-> FALSE, id82 |-> "other", id54 |-> "other",
                  iso |-> Unmarked, ext |-> FALSE]

Init ==
  /\ image = [d \in Disk |-> Blank(IF d \in Tiny THEN Sector ELSE 128 * Sector)]
  /\ format = [d \in Disk |-> None] /\ formats = 0
  /\ links = {} /\ pc = "off" /\ loader = "none"
  /\ todo = {} /\ disks = <<>> /\ current = 0 /\ unread = {}
  /\ typed = [line |-> Empty, newline |-> TRUE] /\ command = Nothing
  /\ chosen = None /\ printed = <<>>

-----------------------------------------------------------------------------
(* Before tinyboot: disks are formatted, and announced. *)

\* What mkfs.vfat, mkisofs and mke2fs leave of an image: what they write, and perhaps
\* marks of an older file system further behind.
Formatted(old, fs) ==
  {new \in Image :
     /\ new.length = old.length
     /\ fs = "vfat" =>
          /\ new.boot /\ (new.id82 = "FAT32" <=> new.id54 = "other")
          /\ new.iso \in {old.iso, Unmarked} /\ new.ext \in {old.ext, FALSE}
     /\ fs = "iso9660" =>
          /\ new.id82 = "other" /\ new.id54 = "other" /\ ~new.ext
          /\ new.iso = [i \in 1 .. 3 |-> i < 3]
     /\ fs = "ext4" =>
          /\ ~new.boot /\ new.id82 = "other" /\ new.id54 = "other" /\ new.ext
          /\ new.iso \in {old.iso, Unmarked}}

Format(d, fs) ==
  /\ pc = "off" /\ formats < FormatMax /\ d \notin Tiny
  /\ \E new \in Formatted(image[d], fs) : image' = [image EXCEPT ![d] = new]
  /\ format' = [format EXCEPT ![d] = fs] /\ formats' = formats + 1
  /\ UNCHANGED <<links, pc, loader, probing, user>>

\* A disk and its partitions are linked by the scan or as uevents come.
LinksOf(d, scanned) ==
  LET file(n) == IF n = 0 THEN DiskFile(DiskSeq[d]) ELSE PartitionFile(DiskSeq[d], n)
      path(n) == IF scanned THEN ScannedLink(file(n)) ELSE HeardLink(Message(file(n)))
  IN  {<<path(n), d, n>> : n \in {i \in 0 .. Len(Table[d].types) : path(i) # None}}

PowerOn ==
  /\ pc = "off" /\ pc' = "shell"
  /\ \E scanned \in SUBSET Disk : links' = UNION {LinksOf(d, d \in scanned) : d \in Disk}
  /\ UNCHANGED <<image, format, formats, loader, probing, user>>

-----------------------------------------------------------------------------
(* Loader::probe: setup mounts what it can, probe reads the entries. *)

\* get_disk_attribute trims the value, which is then compared with one that is not.
Trimmed(text) == IF text # <<>> /\ Last(text) = "newline" THEN Front(text) ELSE text
IsRemovable(d) ==
  Trimmed(<<IF d \in Removable THEN "1" ELSE "0", "newline">>) = <<"1", "newline">>

\* Disk::mount.  The kernel refuses a file system that is not the one made there.
Mounts(d) ==
  LET n == BootPartition(Table[d])
  IN  /\ n # None
      /\ <<PartitionLink(DiskSeq[d], n), d, n>> \in links
      /\ Detected(image[d]) # None /\ Detected(image[d]) = format[d]

\* "list", "boot" and "rescan" begin with it, and come back when all is read.
BeginSetup ==
  /\ pc = "shell"
  /\ \/ command.cmd \in {"list", "boot"} /\ loader = "unstarted"
     \/ command.cmd = "rescan" /\ loader # "none"
  /\ pc' = "setup" /\ todo' = Disk
  /\ UNCHANGED <<storage, loader, disks, current, unread, user>>

\* A disk that is mounted already does not mount again.
SetupDisk(d) ==
  /\ pc = "setup" /\ d \in todo /\ todo' = todo \ {d}
  /\ disks' = IF Mounts(d) /\ \A i \in DOMAIN disks : disks[i].disk # d
              THEN Append(disks, [disk |-> d, removable |-> IsRemovable(d), entries |-> <<>>])
              ELSE disks
  /\ UNCHANGED <<storage, pc, loader, current, unread, user>>

\* The next disk whose entries are read.
Turn(i) ==
  IF i <= Len(disks')
  THEN current' = i /\ unread' = Files[disks'[i].disk] /\ UNCHANGED <<pc, loader, command, printed>>
  ELSE /\ current' = 0 /\ unread' = {} /\ pc' = "shell" /\ loader' = "probed"
       /\ printed' = <<>>
       /\ command' = IF command.cmd = "rescan" THEN Nothing ELSE command

\* prioritize disk by removable status
Prior(c, d) == c.removable /\ ~d.removable

SortDisks ==
  /\ pc = "setup" /\ todo = {} /\ current = 0
  /\ disks' \in SortBy(disks, Prior)
  /\ IF disks' = <<>>
     THEN Turn(1)
     ELSE pc' = "probe" /\ current' = 1 /\ unread' = Files[disks'[1].disk]
          /\ UNCHANGED <<loader, command, printed>>
  /\ UNCHANGED <<storage, todo, typed, chosen>>

Entry(d, f) == [file |-> f, is_default |-> f.name = Default[d]]

\* discover_entries: one round of its loop, for a file of the directory.
Visit(f) ==
  /\ pc = "probe" /\ f \in unread /\ unread' = unread \ {f}
  /\ LET known == {disks[current].entries[i].file.name : i \in DOMAIN disks[current].entries}
     IN  disks' = IF f.name \notin known \cup {None} /\ f.arch # "other"
                  THEN [disks EXCEPT ![current].entries = Append(@, Entry(disks[current].disk, f))]
                  ELSE disks
  /\ UNCHANGED <<storage, pc, loader, todo, current, user>>

\* Option's order: None comes first.
OptionLess(a, b, less) == b # None /\ (a = None \/ less)

\* Mutation of Before: versions go up, as titles and names do.
BeforeUpwards(e, f) ==
  LET a == e.file  b == f.file
  IN  IF a.version # b.version
      THEN OptionLess(a.version, b.version, StringLess(a.version, b.version))
      ELSE IF a.title # b.title
      THEN OptionLess(a.title, b.title, a.title < b.title)
      ELSE NameOrder[a.name] < NameOrder[b.name]

\* The order of entries: the version, a string, down, then the title and the name up.
Before(e, f) ==
  LET a == e.file  b == f.file
  IN  IF a.version # b.version
      THEN OptionLess(b.version, a.version, StringLess(b.version, a.version))
      ELSE IF a.title # b.title
      THEN OptionLess(a.title, b.title, a.title < b.title)
      ELSE NameOrder[a.name] < NameOrder[b.name]

\* Mutation of SortEntries: there is always a next disk.
SortEntriesOn ==
  /\ pc = "probe" /\ unread = {}
  /\ \E sorted \in SortBy(disks[current].entries, Before) :
        disks' = [disks EXCEPT ![current].entries = sorted]
  /\ current' = current + 1
  /\ UNCHANGED <<storage, todo, typed, chosen, unread, pc, loader, command, printed>>

SortEntries ==
  /\ pc = "probe" /\ unread = {}
  /\ \E sorted \in SortBy(disks[current].entries, Before) :
        disks' = [disks EXCEPT ![current].entries = sorted]
  /\ Turn(current + 1)
  /\ UNCHANGED <<storage, todo, typed, chosen>>

\* The entries that convert to a BootEntry, by device.
Bootable(e) == e.file.linux /\ e.file.left # 0
Offers(entries) == Filtered(entries, {j \in DOMAIN entries : Bootable(entries[j])})
BootDevices == [i \in DOMAIN disks |-> [disk |-> disks[i].disk, entries |-> Offers(disks[i].entries)]]

-----------------------------------------------------------------------------
(* The shell and handle_commands. *)

Type(line, newline) ==
  /\ pc = "shell" /\ command = Nothing
  /\ typed' = [line |-> line, newline |-> newline] /\ chosen' = None
  /\ LET parsed == Parsed(TakenLine(line, newline))
     IN  command' = IF parsed = Failed THEN Nothing ELSE parsed
  /\ UNCHANGED <<storage, pc, loader, probing, printed>>

Done == command' = Nothing

\* Nothing is printed, or it is not about boot entries.
Answer ==
  /\ pc = "shell"
  /\ \/ command.cmd \in {"help", "shell"}
     \/ command.cmd = "loader" /\ command.type = None
     \/ command.cmd \in {"list", "boot", "rescan"} /\ loader = "none"
  /\ Done
  /\ UNCHANGED <<storage, pc, loader, probing, typed, chosen, printed>>

\* kernel_logs: the last newline of nothing is removed where no line is kept.
Dmesg ==
  /\ pc = "shell" /\ command.cmd = "dmesg" /\ Done
  /\ pc' = IF \E level \in LogLevels : level <= command.level THEN "shell" ELSE "aborted"
  /\ UNCHANGED <<storage, loader, probing, typed, chosen, printed>>

End ==
  /\ pc = "shell" /\ command.cmd \in {"reboot", "poweroff"} /\ Done /\ pc' = "over"
  /\ UNCHANGED <<storage, loader, probing, typed, chosen, printed>>

\* "loader disk": the old loader is shut down.
NewLoader ==
  /\ pc = "shell" /\ command.cmd = "loader" /\ command.type # None /\ Done
  /\ loader' = "unstarted" /\ disks' = <<>> /\ printed' = <<>>
  /\ UNCHANGED <<storage, pc, todo, current, unread, typed, chosen>>

List ==
  /\ pc = "shell" /\ command.cmd = "list" /\ loader = "probed" /\ Done
  /\ printed' = BootDevices
  /\ UNCHANGED <<storage, pc, loader, probing, typed, chosen>>

\* kexec_load may fail, and the shell goes on.
Boot ==
  /\ pc = "shell" /\ command.cmd = "boot" /\ loader = "probed" /\ Done
  /\ chosen' = Selected(BootDevices, command.device, command.entry)
  /\ pc' \in IF chosen' = None THEN {"shell"} ELSE {"shell", "over"}
  /\ UNCHANGED <<storage, loader, probing, typed, printed>>

Next ==
  \/ \E d \in Disk : (\E fs \in {"vfat", "iso9660", "ext4"} : Format(d, fs)) \/ SetupDisk(d)
  \/ PowerOn \/ BeginSetup \/ SortDisks \/ SortEntries
  \/ \E f \in unread : Visit(f)
  \/ \E line \in Lines, newline \in BOOLEAN : Type(line, newline)
  \/ Answer \/ Dmesg \/ End \/ NewLoader \/ List \/ Boot

Spec == Init /\ [][Next]_vars

-----------------------------------------------------------------------------
(* Properties. *)

TypeOK ==
  /\ image \in [Disk -> Image] /\ format \in [Disk -> {None, "vfat", "iso9660", "ext4"}]
  /\ formats \in 0 .. FormatMax
  /\ \A l \in links : l[2] \in Disk /\ l[3] \in Nat
  /\ pc \in {"off", "shell", "setup", "probe", "over", "aborted"}
  /\ loader \in {"none", "unstarted", "probed"}
  /\ todo \subseteq Disk /\ current \in 0 .. Len(disks) /\ (current > 0 <=> pc = "probe")
  /\ \A i \in DOMAIN disks :
       /\ disks[i].disk \in Disk /\ disks[i].removable \in BOOLEAN
       /\ \A j \in DOMAIN disks[i].entries : disks[i].entries[j].file \in Files[disks[i].disk]
  /\ unread # {} => unread \subseteq Files[disks[current].disk]
  /\ typed.line \in Lines \cup {Empty} /\ typed.newline \in BOOLEAN

\* Whether the scan or the listener linked it, the partition the loader takes from the
\* partition table is where it looks for it, and nothing else is there: three readings of
\* the number of a disk and of its partition agree, as long as the first fits in 32 bits.
LinkIsMounted ==
  pc # "off" =>
    \A d \in Disk :
      LET n == BootPartition(Table[d])
      IN  n # None /\ DiskSeq[d] <= CounterMax =>
            {l \in links : l[1] = PartitionLink(DiskSeq[d], n)} = {<<PartitionLink(DiskSeq[d], n), d, n>>}

\* A FAT or an ISO 9660 that was made over another file system is taken for itself,
\* whatever the older one left behind; and nothing is taken for a FAT that is none any
\* more.  (An ext4 is never recognised.)
FilesystemTrue ==
  \A d \in Disk :
    /\ format[d] \in {"vfat", "iso9660"} => Detected(image[d]) = format[d]
    /\ Detected(image[d]) = "vfat" => format[d] = "vfat"

\* After any number of probes and in whatever order directories are read, every device
\* offers each of its bootable entries once, and generations whose numbers have as many
\* digits come newest first.
ListingComplete ==
  loader = "probed" /\ pc = "shell" =>
    \A i \in DOMAIN BootDevices :
      LET offered == BootDevices[i].entries
          files == {f \in Files[BootDevices[i].disk] : f.name # None /\ f.arch = "this"}
      IN  /\ \A f \in files :
               (\A g \in files : g.name = f.name => g.linux /\ g.left # 0) =>
                  \E j \in DOMAIN offered : offered[j].file.name = f.name
          /\ \A j, k \in DOMAIN offered : j < k =>
               LET a == offered[j].file  b == offered[k].file
               IN  /\ a.name # b.name
                   /\ a.version # None /\ b.version # None /\ Width(a.version) = Width(b.version) =>
                        a.version >= b.version

\* The entry that the arguments of "boot" mean, of the devices as they are listed.
Means(args, devices, entry) ==
  LET number(i) == IF Len(args) >= i /\ args[i] # 0 THEN args[i] ELSE None
      device == IF number(1) = None THEN 1 ELSE number(1)
      entries == IF device \in DOMAIN devices THEN devices[device].entries ELSE <<>>
  IN  \/ number(2) # None /\ entry = IF number(2) \in DOMAIN entries THEN entries[number(2)] ELSE None
      \/ number(2) = None /\ entry = None /\ \A j \in DOMAIN entries : ~entries[j].is_default
      \/ number(2) = None /\ \E j \in DOMAIN entries : entry = entries[j] /\ entries[j].is_default

\* What "boot" selects is what "list" printed, since the devices were probed last, under
\* the numbers that were typed, and nothing where it printed nothing; without numbers it is the default entry of the
\* device, or of the first one.  A wrong number never boots another entry.
SelectedAsListed ==
  printed # <<>> /\ typed.line.verb = "boot" /\ typed.newline /\ command = Nothing =>
    \/ Parsed(typed.line) = Failed /\ chosen = None
    \/ Means(typed.line.args, printed, chosen)

\* The comment where disks are sorted: removable ones come first.
RemovableFirst ==
  pc = "probe" =>
    \A i, j \in DOMAIN disks : i < j /\ disks[j].disk \in Removable => disks[i].disk \in Removable

=============================================================================

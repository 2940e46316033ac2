------------------------------ MODULE Uevents ------------------------------
(***************************************************************************)
(* What tboot/src/dev.rs reads in the properties of a block device: once   *)
(* in its uevent file, by the scan, and once in the uevent the kernel      *)
(* sends, by the listener.  Properties are a function of keys; a number    *)
(* stands for its decimal text, anything else for text that is none.       *)
(***************************************************************************)
EXTENDS EntryFiles

\* The kernel: block_uevent and part_uevent, and what a message has besides.
DiskFile(seq) == [DEVNAME |-> "sda", DEVTYPE |-> "disk", DISKSEQ |-> seq]
PartitionFile(seq, n) == [DEVNAME |-> "sda1", DEVTYPE |-> "partition", DISKSEQ |-> seq, PARTN |-> n]
Message(file) ==
  [k \in DOMAIN file \cup {"SUBSYSTEM"} |-> IF k = "SUBSYSTEM" THEN "block" ELSE file[k]]

\* u32::from_str_radix
U32(value) == IF value \in 0 .. CounterMax THEN value ELSE None

\* The links: where they are, under /dev.
DiskLink(seq) == <<"disk", seq>>
PartitionLink(seq, n) == <<"part", seq, n>>

ASSUME LinkAssumption ==
  \A seq, n \in Counter : None # DiskLink(seq) /\ None # PartitionLink(seq, n)

\* scan_and_create_devices: nothing is linked without a name, or when a number does
\* not parse; DEVTYPE tells disks from partitions.
ScannedLink(file) ==
  LET has(key) == key \in DOMAIN file
      seq == IF has("DISKSEQ") THEN U32(file.DISKSEQ) ELSE None
      n == IF has("PARTN") THEN U32(file.PARTN) ELSE None
  IN  IF ~has("DEVNAME") \/ seq = None \/ (has("PARTN") /\ n = None) \/ ~has("DEVTYPE")
      THEN None
      ELSE IF file.DEVTYPE = "disk" THEN DiskLink(seq)
      ELSE IF file.DEVTYPE = "partition" /\ has("PARTN") THEN PartitionLink(seq, n)
      ELSE None

\* Mutation of HeardLink: DISKSEQ is not looked for in the uevent of a partition.
HeardLinkByPartn(message) ==
  LET has(key) == key \in DOMAIN message
      seq == IF has("DISKSEQ") THEN U32(message.DISKSEQ) ELSE None
  IN  IF has("PARTN") THEN PartitionLink(U32(message.PARTN), U32(message.PARTN))
      ELSE IF seq = None THEN None ELSE DiskLink(seq)

\* Uevent::parse and the match on its devtype: PARTN tells partitions from disks, and
\* what is not a block device has no link.
HeardLink(message) ==
  LET has(key) == key \in DOMAIN message
      seq == IF has("DISKSEQ") THEN U32(message.DISKSEQ) ELSE None
      n == IF has("PARTN") THEN U32(message.PARTN) ELSE None
  IN  IF ~has("DEVNAME") \/ ~has("SUBSYSTEM") \/ seq = None THEN None
      ELSE IF message.SUBSYSTEM # "block" THEN None
      ELSE IF ~has("PARTN") THEN DiskLink(seq)
      ELSE IF n # None THEN PartitionLink(seq, n)
      ELSE None

=============================================================================

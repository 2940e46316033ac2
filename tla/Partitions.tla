----------------------------- MODULE Partitions -----------------------------
(***************************************************************************)
(* What the loader makes of the bytes of a disk: which partition it takes  *)
(* for the one to boot from (boot_loader/disk.rs) and which file system it *)
(* takes that for (fs.rs).  A partition's image is what stands where       *)
(* detect_fs_type looks; a table is its kind and the types of partitions   *)
(* 1, 2, ...                                                               *)
(***************************************************************************)
EXTENDS EntryFiles, Sequences

ASSUME TypeAssumption == None \notin {"vfat", "iso9660", "ext4"}

Sector == 512

Image == [
  length : {0, Sector, 128 * Sector},
  boot : BOOLEAN,                      \* 55 AA at 510
  id82 : {"FAT32", "other"},           \* eight bytes at 82
  id54 : {"FAT16", "FAT12", "other"},  \* eight bytes at 54
  iso : [1 .. 3 -> BOOLEAN],           \* "CD001" at 0x8001, 0x8801, 0x9001
  ext : BOOLEAN]                       \* 53 EF at 0x438

\* seek and read_exact
Reads(image, start, length) == start + length <= image.length

IsFat(image) ==
  /\ Reads(image, 510, 2) /\ image.boot
  /\ \/ Reads(image, 82, 8) /\ image.id82 = "FAT32"
     \/ Reads(image, 54, 8) /\ image.id54 \in {"FAT16", "FAT12"}

\* The first read that fails ends the search.
IsoStart == <<32769, 34817, 36865>>
IsIso9660(image) ==
  \E i \in 1 .. 3 :
    /\ \A j \in 1 .. i : Reads(image, IsoStart[j], 5)
    /\ image.iso[i]

\* The result of the read is taken the wrong way round: the bytes are compared when they
\* were not read, and the buffer still has a zero then.
IsExt4(image) ==
  LET second == IF Reads(image, 1080, 2) /\ image.ext THEN "EF" ELSE "00"
  IN  ~Reads(image, 1080, 2) /\ second = "EF"

\* Mutation of Detected: ISO 9660 is looked for first.
DetectedIsoFirst(image) ==
  IF IsIso9660(image) THEN "iso9660" ELSE IF IsFat(image) THEN "vfat" ELSE None

\* detect_fs_type
Detected(image) ==
  IF IsFat(image) THEN "vfat"
  ELSE IF IsIso9660(image) THEN "iso9660"
  ELSE IF IsExt4(image) THEN "ext4"
  ELSE None

\* BlsBootLoader::setup: the first EFI partition of a GPT, or else the first of the four
\* of type EA in an MBR; that of a GPT is protective and has none.
FirstOf(types, wanted) ==
  LET found == {i \in DOMAIN types : types[i] = wanted}
  IN  IF found = {} THEN None ELSE CHOOSE i \in found : \A j \in found : i <= j
BootPartition(table) ==
  CASE table.kind = "gpt" -> FirstOf(table.types, "EFI")
    [] table.kind = "mbr" -> FirstOf([i \in DOMAIN table.types \cap (1 .. 4) |-> table.types[i]], "EA")
    [] OTHER -> None

=============================================================================

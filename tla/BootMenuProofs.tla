--------------------------- MODULE BootMenuProofs ---------------------------
(***************************************************************************)
(* For any disks, tables, files and numbers, however often disks are       *)
(* formatted and read: where partitions are linked and what they are taken *)
(* for, what is listed of their entries, and what "boot" selects of that.  *)
(***************************************************************************)
EXTENDS BootMenu, DataProofs

USE CounterAssumption

-----------------------------------------------------------------------------
(* The readings of a device's properties. *)

\* The scan and the listener link a disk at one place: under its number, where that
\* fits, and nowhere else.
LEMMA DiskReadings ==
  ASSUME NEW seq \in Nat
  PROVE  /\ ScannedLink(DiskFile(seq)) = IF seq <= CounterMax THEN DiskLink(seq) ELSE None
         /\ HeardLink(Message(DiskFile(seq))) = IF seq <= CounterMax THEN DiskLink(seq) ELSE None
<1> DEFINE f == DiskFile(seq)
           m == Message(f)
<1>1. /\ DOMAIN f = {"DEVNAME", "DEVTYPE", "DISKSEQ"}
      /\ f.DEVTYPE = "disk" /\ f.DISKSEQ = seq
  BY DEF DiskFile
<1>2. /\ DOMAIN m = {"DEVNAME", "DEVTYPE", "DISKSEQ", "SUBSYSTEM"}
      /\ m.SUBSYSTEM = "block" /\ m.DISKSEQ = seq
  BY <1>1 DEF Message
<1>3. U32(seq) = IF seq <= CounterMax THEN seq ELSE None
  BY DEF U32
<1>4. None # seq
  OBVIOUS
<1> HIDE DEF f, m
<1>5. ScannedLink(f) = IF seq <= CounterMax THEN DiskLink(seq) ELSE None
  BY <1>1, <1>3, <1>4 DEF ScannedLink
<1>6. HeardLink(m) = IF seq <= CounterMax THEN DiskLink(seq) ELSE None
  BY <1>2, <1>3, <1>4 DEF HeardLink
<1> QED
  BY <1>5, <1>6 DEF f, m

\* The same for a partition.
LEMMA PartitionReadings ==
  ASSUME NEW seq \in Nat, NEW n \in Counter
  PROVE  /\ ScannedLink(PartitionFile(seq, n)) = IF seq <= CounterMax THEN PartitionLink(seq, n) ELSE None
         /\ HeardLink(Message(PartitionFile(seq, n))) = IF seq <= CounterMax THEN PartitionLink(seq, n) ELSE None
<1> DEFINE f == PartitionFile(seq, n)
           m == Message(f)
<1>1. /\ DOMAIN f = {"DEVNAME", "DEVTYPE", "DISKSEQ", "PARTN"}
      /\ f.DEVTYPE = "partition" /\ f.DISKSEQ = seq /\ f.PARTN = n
  BY DEF PartitionFile
<1>2. /\ DOMAIN m = {"DEVNAME", "DEVTYPE", "DISKSEQ", "PARTN", "SUBSYSTEM"}
      /\ m.SUBSYSTEM = "block" /\ m.DISKSEQ = seq /\ m.PARTN = n
  BY <1>1 DEF Message
<1>3. U32(seq) = IF seq <= CounterMax THEN seq ELSE None
  BY DEF U32
<1>4. U32(n) = n
  BY DEF U32, Counter
<1>5. None # seq /\ None # n
  BY DEF Counter
<1> HIDE DEF f, m
<1>6. ScannedLink(f) = IF seq <= CounterMax THEN PartitionLink(seq, n) ELSE None
  BY <1>1, <1>3, <1>4, <1>5 DEF ScannedLink
<1>7. HeardLink(m) = IF seq <= CounterMax THEN PartitionLink(seq, n) ELSE None
  BY <1>2, <1>3, <1>4, <1>5 DEF HeardLink
<1> QED
  BY <1>6, <1>7 DEF f, m

-----------------------------------------------------------------------------
(* The partition the loader takes. *)

\* The partition the loader boots from is one the table has.
LEMMA BootPartitionExists ==
  ASSUME NEW d \in Disk, BootPartition(Table[d]) # None
  PROVE  BootPartition(Table[d]) \in 1 .. Len(Table[d].types)
<1> DEFINE types == Table[d].types
           four == [i \in DOMAIN types \cap (1 .. 4) |-> types[i]]
<1>1. DOMAIN types = 1 .. Len(types) /\ Len(types) \in Nat
  BY MenuAssumption
<1>2. DOMAIN four \subseteq 1 .. Len(types)
  BY <1>1
<1>3. ASSUME NEW t, NEW w, DOMAIN t \subseteq 1 .. Len(types), FirstOf(t, w) # None
      PROVE  FirstOf(t, w) \in 1 .. Len(types)
  <2> DEFINE found == {i \in DOMAIN t : t[i] = w}
  <2>1. found # {} /\ FirstOf(t, w) = CHOOSE i \in found : \A j \in found : i <= j
    BY <1>3 DEF FirstOf
  <2>2. found \in SUBSET Nat
    BY <1>1, <1>3
  <2> HIDE DEF found
  <2>3. \E i \in found : \A j \in found : i <= j
    BY <2>1, <2>2, LeastNumber
  <2>4. FirstOf(t, w) \in found
    BY <2>1, <2>3
  <2> QED
    BY <2>4, <1>3 DEF found
<1> HIDE DEF types, four
<1>4. BootPartition(Table[d]) \in {FirstOf(types, "EFI"), FirstOf(four, "EA"), None}
  BY DEF BootPartition, types, four
<1>5. DOMAIN types \subseteq 1 .. Len(types)
  BY <1>1
<1> QED
  BY <1>2, <1>3, <1>4, <1>5 DEF types

-----------------------------------------------------------------------------
(* Links are made once, when the machine starts. *)

\* Of the links of a disk, those that lead to a partition's path are of that disk and
\* that partition.
LEMMA LinksOfDisk ==
  ASSUME NEW d \in Disk, NEW S
  PROVE  LinksOf(d, d \in S) =
           IF DiskSeq[d] <= CounterMax
           THEN {<<DiskLink(DiskSeq[d]), d, 0>>} \cup
                {<<PartitionLink(DiskSeq[d], n), d, n>> : n \in 1 .. Len(Table[d].types)}
           ELSE {}
<1> DEFINE N == Len(Table[d].types)
           seq == DiskSeq[d]
           file(n) == IF n = 0 THEN DiskFile(DiskSeq[d]) ELSE PartitionFile(DiskSeq[d], n)
           path(n) == IF d \in S THEN ScannedLink(file(n)) ELSE HeardLink(Message(file(n)))
<1>1. N \in Nat /\ N <= CounterMax /\ seq \in Nat
  BY MenuAssumption
<1>2. path(0) = IF seq <= CounterMax THEN DiskLink(seq) ELSE None
  BY <1>1, DiskReadings
<1>3. \A n \in 1 .. N : path(n) = IF seq <= CounterMax THEN PartitionLink(seq, n) ELSE None
  <2> TAKE n \in 1 .. N
  <2>1. n \in Counter /\ n # 0
    BY <1>1 DEF Counter
  <2> QED
    BY <1>1, <2>1, PartitionReadings
<1>4. LinksOf(d, d \in S) = {<<path(n), d, n>> : n \in {i \in 0 .. N : path(i) # None}}
  BY DEF LinksOf
<1>5. seq <= CounterMax => DiskLink(seq) # None /\ \A n \in 1 .. N : PartitionLink(seq, n) # None
  <2>1. seq <= CounterMax => seq \in Counter
    BY <1>1 DEF Counter
  <2>2. \A n \in 1 .. N : n \in Counter
    BY <1>1 DEF Counter
  <2> QED
    BY <2>1, <2>2, LinkAssumption
<1> HIDE DEF N, seq, path
<1>6. CASE seq <= CounterMax
  <2>1. \A n \in 0 .. N : path(n) # None /\ path(n) = IF n = 0 THEN DiskLink(seq) ELSE PartitionLink(seq, n)
    BY <1>1, <1>2, <1>3, <1>5, <1>6
  <2>2. LinksOf(d, d \in S) = {<<path(n), d, n>> : n \in 0 .. N}
    BY <1>4, <2>1
  <2>3. 0 .. N = {0} \cup 1 .. N
    BY <1>1
  <2>4. LinksOf(d, d \in S) = {<<DiskLink(seq), d, 0>>} \cup {<<PartitionLink(seq, n), d, n>> : n \in 1 .. N}
    BY <2>1, <2>2, <2>3, <1>1
  <2> QED
    BY <2>4, <1>6 DEF seq, N
<1>7. CASE ~(seq <= CounterMax)
  <2>1. \A n \in 0 .. N : path(n) = None
    BY <1>1, <1>2, <1>3, <1>7
  <2>2. LinksOf(d, d \in S) = {}
    BY <1>4, <2>1
  <2> QED
    BY <2>2, <1>7 DEF seq
<1> QED
  BY <1>6, <1>7

\* Starting the machine links every partition that is booted from where it is looked for.
LEMMA PowerOnLinks ==
  ASSUME PowerOn
  PROVE  LinkIsMounted'
<1>1. PICK S \in SUBSET Disk : links' = UNION {LinksOf(d, d \in S) : d \in Disk}
  BY DEF PowerOn
<1> SUFFICES ASSUME NEW d \in Disk, BootPartition(Table[d]) # None, DiskSeq[d] <= CounterMax
             PROVE  LET n == BootPartition(Table[d])
                    IN  {l \in links' : l[1] = PartitionLink(DiskSeq[d], n)} =
                          {<<PartitionLink(DiskSeq[d], n), d, n>>}
  BY DEF LinkIsMounted
<1> DEFINE n == BootPartition(Table[d])
           here == <<PartitionLink(DiskSeq[d], n), d, n>>
<1>2. n \in 1 .. Len(Table[d].types)
  BY BootPartitionExists
<1> HIDE DEF n
<1>3. here \in LinksOf(d, d \in S)
  <2>1. LinksOf(d, d \in S) =
          {<<DiskLink(DiskSeq[d]), d, 0>>} \cup
          {<<PartitionLink(DiskSeq[d], k), d, k>> : k \in 1 .. Len(Table[d].types)}
    BY LinksOfDisk
  <2> QED
    BY <1>2, <2>1
<1>4. here \in links'
  BY <1>1, <1>3
<1>5. ASSUME NEW l \in links', l[1] = PartitionLink(DiskSeq[d], n)
      PROVE  l = here
  <2>1. PICK e \in Disk : l \in LinksOf(e, e \in S)
    BY <1>1, <1>5
  <2> DEFINE E == LinksOf(e, e \in S)
  <2>a. E = IF DiskSeq[e] <= CounterMax
            THEN {<<DiskLink(DiskSeq[e]), e, 0>>} \cup
                 {<<PartitionLink(DiskSeq[e], k), e, k>> : k \in 1 .. Len(Table[e].types)}
            ELSE {}
    BY LinksOfDisk
  <2> HIDE DEF E
  <2>2. l = <<DiskLink(DiskSeq[e]), e, 0>> \/ \E k \in 1 .. Len(Table[e].types) : l = <<PartitionLink(DiskSeq[e], k), e, k>>
    BY <2>1, <2>a DEF E
  <2>3. l # <<DiskLink(DiskSeq[e]), e, 0>>
    BY <1>5 DEF DiskLink, PartitionLink
  <2>4. PICK k \in 1 .. Len(Table[e].types) : l = <<PartitionLink(DiskSeq[e], k), e, k>>
    BY <2>2, <2>3
  <2>5. DiskSeq[e] = DiskSeq[d] /\ k = n
    BY <2>4, <1>5 DEF PartitionLink
  <2>6. e = d
    BY <2>5, MenuAssumption
  <2> QED
    BY <2>4, <2>5, <2>6
<1>6. here[1] = PartitionLink(DiskSeq[d], n)
  OBVIOUS
<1> HIDE DEF here
<1>7. {l \in links' : l[1] = PartitionLink(DiskSeq[d], n)} = {here}
  BY <1>4, <1>5, <1>6
<1> QED
  BY <1>7 DEF here, n

\* Whether the scan or the listener linked it, the partition the loader takes is where it
\* looks for it, alone, for any numbers, tables and ways of linking.
THEOREM LinksAreMounted == Spec => []LinkIsMounted
<1>1. Init => LinkIsMounted
  BY DEF Init, LinkIsMounted
<1>2. LinkIsMounted /\ [Next]_vars => LinkIsMounted'
  <2> SUFFICES ASSUME LinkIsMounted, [Next]_vars PROVE LinkIsMounted'
    OBVIOUS
  <2>1. CASE PowerOn
    BY <2>1, PowerOnLinks
  <2>2. CASE pc = "off" /\ ~PowerOn
    <3>1. pc' = "off"
      BY <2>2 DEF Next, Format, SetupDisk, BeginSetup, SortDisks, SortEntries, Visit, Type,
         Answer, Dmesg, End, NewLoader, List, Boot, vars
    <3> QED
      BY <3>1 DEF LinkIsMounted
  <2>3. CASE pc # "off"
    <3>1. links' = links
      BY <2>3 DEF Next, Format, PowerOn, SetupDisk, BeginSetup, SortDisks, SortEntries, Visit, Type,
         Answer, Dmesg, End, NewLoader, List, Boot, vars, storage
    <3> QED
      BY <2>3, <3>1 DEF LinkIsMounted
  <2> QED
    BY <2>1, <2>2, <2>3
<1> QED
  BY <1>1, <1>2, PTL DEF Spec

-----------------------------------------------------------------------------
(* What a partition is taken for. *)

\* The length of an image is that of its partition; a partition of one sector is never
\* formatted; and what was formatted is recognised.
Recognised ==
  /\ image \in [Disk -> Image]
  /\ format \in [Disk -> {None, "vfat", "iso9660", "ext4"}]
  /\ \A d \in Disk : image[d].length = IF d \in Tiny THEN Sector ELSE 128 * Sector
  /\ FilesystemTrue

\* What mkfs leaves of an image of 64 kilobytes is taken for the file system that was
\* made, and for a FAT only if that is what it is.
LEMMA FormattedRecognised ==
  ASSUME NEW old \in Image, old.length = 128 * Sector,
         NEW fs \in {"vfat", "iso9660", "ext4"}, NEW new \in Formatted(old, fs)
  PROVE  /\ new \in Image /\ new.length = old.length
         /\ fs \in {"vfat", "iso9660"} => Detected(new) = fs
         /\ Detected(new) = "vfat" => fs = "vfat"
<1>1. new \in Image /\ new.length = 65536
  BY DEF Formatted, Sector
<1>2. Reads(new, 510, 2) /\ Reads(new, 82, 8) /\ Reads(new, 54, 8) /\ Reads(new, IsoStart[1], 5)
  BY <1>1 DEF Reads, IsoStart
<1>3. CASE fs = "vfat"
  <2>1. new.boot /\ (new.id82 = "FAT32" <=> new.id54 = "other")
    BY <1>3 DEF Formatted
  <2>2. new.id54 \in {"FAT16", "FAT12", "other"}
    BY <1>1 DEF Image
  <2>3. IsFat(new)
    BY <1>2, <2>1, <2>2 DEF IsFat
  <2> QED
    BY <1>1, <1>3, <2>3 DEF Detected, Formatted
<1>4. CASE fs = "iso9660"
  <2>1. new.id82 = "other" /\ new.id54 = "other" /\ new.iso = [i \in 1 .. 3 |-> i < 3]
    BY <1>4 DEF Formatted
  <2>2. ~IsFat(new)
    BY <2>1 DEF IsFat
  <2>3. new.iso[1]
    <3>1. 1 \in 1 .. 3 /\ (1 < 3)
      OBVIOUS
    <3> QED
      BY <2>1, <3>1, Zenon
  <2>4. IsIso9660(new)
    BY <1>2, <2>3 DEF IsIso9660
  <2> QED
    BY <1>1, <1>4, <2>2, <2>4 DEF Detected, Formatted
<1>5. CASE fs = "ext4"
  <2>1. ~new.boot
    BY <1>5 DEF Formatted
  <2>2. ~IsFat(new)
    BY <2>1 DEF IsFat
  <2>3. Detected(new) # "vfat"
    BY <2>2, TypeAssumption DEF Detected
  <2> QED
    BY <1>1, <1>5, <2>3 DEF Formatted
<1> QED
  BY <1>3, <1>4, <1>5

LEMMA RecognisedInvariant == Spec => []Recognised
<1>1. Init => Recognised
  <2> SUFFICES ASSUME Init PROVE Recognised
    OBVIOUS
  <2>1. ASSUME NEW length \in {0, Sector, 128 * Sector}
        PROVE  Blank(length) \in Image
    <3>1. Unmarked \in [1 .. 3 -> BOOLEAN]
      BY DEF Unmarked
    <3> QED
      BY <3>1, Zenon DEF Blank, Image
  <2>2. image \in [Disk -> Image] /\ format \in [Disk -> {None, "vfat", "iso9660", "ext4"}]
    BY <2>1 DEF Init
  <2>3. \A d \in Disk : image[d].length = IF d \in Tiny THEN Sector ELSE 128 * Sector
    BY DEF Init, Blank, Sector
  <2>4. \A d \in Disk : ~image[d].boot /\ format[d] = None
    BY DEF Init, Blank
  <2>5. FilesystemTrue
    BY <2>4, TypeAssumption DEF FilesystemTrue, Detected, IsFat
  <2> QED
    BY <2>2, <2>3, <2>5 DEF Recognised
<1>2. Recognised /\ [Next]_vars => Recognised'
  <2> SUFFICES ASSUME Recognised, [Next]_vars PROVE Recognised'
    OBVIOUS
  <2>1. ASSUME NEW d \in Disk, NEW fs \in {"vfat", "iso9660", "ext4"}, Format(d, fs)
        PROVE  Recognised'
    <3>1. PICK new \in Formatted(image[d], fs) : image' = [image EXCEPT ![d] = new]
      BY <2>1 DEF Format
    <3>2. format' = [format EXCEPT ![d] = fs] /\ d \notin Tiny
      BY <2>1 DEF Format
    <3>3. image[d] \in Image /\ image[d].length = 128 * Sector
      BY <3>2 DEF Recognised
    <3>4. /\ new \in Image /\ new.length = 128 * Sector
          /\ fs \in {"vfat", "iso9660"} => Detected(new) = fs
          /\ Detected(new) = "vfat" => fs = "vfat"
      BY <3>1, <3>3, FormattedRecognised
    <3>5. /\ image' \in [Disk -> Image] /\ image'[d] = new
          /\ \A e \in Disk \ {d} : image'[e] = image[e]
      BY <3>1, <3>4 DEF Recognised
    <3>6. /\ format' \in [Disk -> {None, "vfat", "iso9660", "ext4"}] /\ format'[d] = fs
          /\ \A e \in Disk \ {d} : format'[e] = format[e]
      BY <3>2 DEF Recognised
    <3>7. \A e \in Disk : image'[e].length = IF e \in Tiny THEN Sector ELSE 128 * Sector
      BY <3>2, <3>4, <3>5 DEF Recognised
    <3>8. \A e \in Disk :
            /\ format'[e] \in {"vfat", "iso9660"} => Detected(image'[e]) = format'[e]
            /\ Detected(image'[e]) = "vfat" => format'[e] = "vfat"
      <4> TAKE e \in Disk
      <4>1. CASE e = d
        BY <4>1, <3>4, <3>5, <3>6
      <4>2. CASE e # d
        BY <4>2, <3>5, <3>6 DEF Recognised, FilesystemTrue
      <4> QED
        BY <4>1, <4>2
    <3> QED
      BY <3>5, <3>6, <3>7, <3>8 DEF Recognised, FilesystemTrue
  <2>2. CASE UNCHANGED <<image, format>>
    BY <2>2 DEF Recognised, FilesystemTrue
  <2>3. UNCHANGED <<image, format>>
          \/ \E d \in Disk, fs \in {"vfat", "iso9660", "ext4"} : Format(d, fs)
    BY DEF Next, PowerOn, SetupDisk, BeginSetup, SortDisks, SortEntries, Visit, Type,
       Answer, Dmesg, End, NewLoader, List, Boot, vars, storage
  <2> QED
    BY <2>1, <2>2, <2>3
<1> QED
  BY <1>1, <1>2, PTL DEF Spec

\* However often disks are formatted, a FAT or an ISO 9660 is taken for what it is, over
\* any remains of others, and only a FAT is taken for a FAT.
THEOREM FilesystemsTrue == Spec => []FilesystemTrue
<1>1. Recognised => FilesystemTrue
  BY DEF Recognised
<1> QED
  BY <1>1, RecognisedInvariant, PTL

-----------------------------------------------------------------------------
(* The order of entries. *)

\* No two entries come before each other.
LEMMA BeforeAsymmetric ==
  ASSUME NEW d \in Disk, NEW e, NEW f, e.file \in Files[d], f.file \in Files[d],
         e.file.name # None, f.file.name # None, Before(e, f)
  PROVE  ~Before(f, e)
<1> DEFINE a == e.file  b == f.file
<1>1. a \in EntryFile /\ b \in EntryFile
  BY MenuAssumption
<1>2. /\ a.version \in Nat \cup {None} /\ b.version \in Nat \cup {None}
      /\ a.title \in Nat \cup {None} /\ b.title \in Nat \cup {None}
      /\ a.name \in Name /\ b.name \in Name
  BY <1>1 DEF EntryFile
<1>3. /\ a.version # None => a.version \div TenTo(9) <= 9
      /\ b.version # None => b.version \div TenTo(9) <= 9
  BY MenuAssumption
<1> HIDE DEF a, b
<1>4. CASE a.version # b.version
  <2> SUFFICES ASSUME OptionLess(b.version, a.version, StringLess(b.version, a.version)),
                      OptionLess(a.version, b.version, StringLess(a.version, b.version))
               PROVE  FALSE
    BY <1>4 DEF Before, a, b
  <2>1. a.version # None /\ b.version # None
    BY DEF OptionLess
  <2>2. StringLess(b.version, a.version) /\ StringLess(a.version, b.version)
    BY <2>1 DEF OptionLess
  <2> QED
    BY <1>2, <1>3, <2>1, <2>2, StringsAsymmetric
<1>5. CASE a.version = b.version /\ a.title # b.title
  <2> SUFFICES ASSUME OptionLess(a.title, b.title, a.title < b.title),
                      OptionLess(b.title, a.title, b.title < a.title)
               PROVE  FALSE
    BY <1>5 DEF Before, a, b
  <2>1. a.title # None /\ b.title # None /\ a.title < b.title /\ b.title < a.title
    BY DEF OptionLess
  <2> QED
    BY <1>2, <2>1
<1>6. CASE a.version = b.version /\ a.title = b.title
  <2> SUFFICES ASSUME NameOrder[a.name] < NameOrder[b.name], NameOrder[b.name] < NameOrder[a.name]
               PROVE  FALSE
    BY <1>6 DEF Before, a, b
  <2>1. NameOrder[a.name] \in Nat /\ NameOrder[b.name] \in Nat
    BY <1>2, MenuAssumption
  <2> QED
    BY <2>1
<1> QED
  BY <1>4, <1>5, <1>6

\* The order of entries is one: what comes before an entry that comes before a third comes
\* before the third.
LEMMA BeforeTransitive ==
  ASSUME NEW d \in Disk, NEW e, NEW f, NEW g,
         e.file \in Files[d], f.file \in Files[d], g.file \in Files[d],
         e.file.name # None, f.file.name # None, g.file.name # None,
         Before(e, f), Before(f, g)
  PROVE  Before(e, g)
<1> DEFINE a == e.file  b == f.file  c == g.file
<1>1. a \in EntryFile /\ b \in EntryFile /\ c \in EntryFile
  BY MenuAssumption
<1>2. /\ \A x \in {a, b, c} : x.version \in Nat \cup {None} /\ x.title \in Nat \cup {None}
      /\ \A x \in {a, b, c} : x.name \in Name
  BY <1>1 DEF EntryFile
<1>3. \A x \in {a, b, c} : x.version # None => x.version \div TenTo(9) <= 9
  BY MenuAssumption
<1>4. /\ a.version # b.version => OptionLess(b.version, a.version, StringLess(b.version, a.version))
      /\ b.version # c.version => OptionLess(c.version, b.version, StringLess(c.version, b.version))
      /\ a.version = b.version /\ a.title # b.title => OptionLess(a.title, b.title, a.title < b.title)
      /\ b.version = c.version /\ b.title # c.title => OptionLess(b.title, c.title, b.title < c.title)
      /\ a.version = b.version /\ a.title = b.title => NameOrder[a.name] < NameOrder[b.name]
      /\ b.version = c.version /\ b.title = c.title => NameOrder[b.name] < NameOrder[c.name]
  BY DEF Before
<1> SUFFICES /\ a.version # c.version => OptionLess(c.version, a.version, StringLess(c.version, a.version))
             /\ a.version = c.version /\ a.title # c.title => OptionLess(a.title, c.title, a.title < c.title)
             /\ a.version = c.version /\ a.title = c.title => NameOrder[a.name] < NameOrder[c.name]
  BY DEF Before
<1> HIDE DEF a, b, c
<1>5. CASE a.version # b.version /\ b.version # c.version
  <2>1. /\ a.version # None /\ b.version # None
        /\ StringLess(b.version, a.version)
        /\ c.version = None \/ StringLess(c.version, b.version)
    BY <1>4, <1>5 DEF OptionLess
  <2>2. CASE c.version = None
    BY <2>1, <2>2 DEF OptionLess
  <2>3. CASE c.version # None
    <3>1. /\ a.version \in Nat /\ b.version \in Nat /\ c.version \in Nat
          /\ StringLess(c.version, b.version)
      BY <1>2, <2>1, <2>3
    <3>2. StringLess(c.version, a.version)
      BY <1>3, <2>1, <2>3, <3>1, StringsTransitive
    <3>3. a.version # c.version
      BY <1>3, <2>1, <3>1, StringsAsymmetric
    <3> QED
      BY <2>1, <3>2, <3>3 DEF OptionLess
  <2> QED
    BY <2>2, <2>3
<1>6. CASE a.version # b.version /\ b.version = c.version
  BY <1>4, <1>6
<1>7. CASE a.version = b.version /\ b.version # c.version
  BY <1>4, <1>7
<1>8. CASE a.version = b.version /\ b.version = c.version
  <2>1. \A x \in {a, b, c} : NameOrder[x.name] \in Nat
    BY <1>2, MenuAssumption
  <2>2. CASE a.title = b.title /\ b.title = c.title
    BY <1>4, <1>8, <2>1, <2>2
  <2>3. CASE a.title = b.title /\ b.title # c.title
    BY <1>4, <1>8, <2>3
  <2>4. CASE a.title # b.title /\ b.title = c.title
    BY <1>4, <1>8, <2>4
  <2>5. CASE a.title # b.title /\ b.title # c.title
    <3>1. /\ b.title # None /\ c.title # None
          /\ a.title = None \/ a.title < b.title
          /\ b.title < c.title
      BY <1>4, <1>8, <2>5 DEF OptionLess
    <3>2. b.title \in Nat /\ c.title \in Nat /\ (a.title = None \/ a.title \in Nat)
      BY <1>2, <3>1
    <3>3. a.title # c.title /\ (a.title = None \/ a.title < c.title)
      BY <3>1, <3>2
    <3> QED
      BY <1>8, <3>1, <3>3 DEF OptionLess
  <2> QED
    BY <2>2, <2>3, <2>4, <2>5
<1> QED
  BY <1>5, <1>6, <1>7, <1>8

\* Of two entries of a disk that have different names, one comes before the other.
LEMMA BeforeTotal ==
  ASSUME NEW d \in Disk, NEW e, NEW f, e.file \in Files[d], f.file \in Files[d],
         e.file.name # None, f.file.name # None, e.file.name # f.file.name
  PROVE  Before(e, f) \/ Before(f, e)
<1> DEFINE a == e.file  b == f.file
<1>1. a \in EntryFile /\ b \in EntryFile
  BY MenuAssumption
<1>2. /\ a.version \in Nat \cup {None} /\ b.version \in Nat \cup {None}
      /\ a.title \in Nat \cup {None} /\ b.title \in Nat \cup {None}
      /\ a.name \in Name /\ b.name \in Name
  BY <1>1 DEF EntryFile
<1>3. /\ a.version # None => a.version \div TenTo(9) <= 9
      /\ b.version # None => b.version \div TenTo(9) <= 9
  BY MenuAssumption
<1>d. a.name # b.name
  OBVIOUS
<1> HIDE DEF a, b
<1>4. CASE a.version # b.version
  <2>1. a.version # None /\ b.version # None =>
          StringLess(a.version, b.version) \/ StringLess(b.version, a.version)
    BY <1>2, <1>3, <1>4, StringsTotal
  <2>2. \/ OptionLess(b.version, a.version, StringLess(b.version, a.version))
        \/ OptionLess(a.version, b.version, StringLess(a.version, b.version))
    BY <1>4, <2>1 DEF OptionLess
  <2> QED
    BY <1>4, <2>2 DEF Before, a, b
<1>5. CASE a.version = b.version /\ a.title # b.title
  <2>1. a.title # None /\ b.title # None => a.title < b.title \/ b.title < a.title
    BY <1>2, <1>5
  <2>2. \/ OptionLess(a.title, b.title, a.title < b.title)
        \/ OptionLess(b.title, a.title, b.title < a.title)
    BY <1>5, <2>1 DEF OptionLess
  <2> QED
    BY <1>5, <2>2 DEF Before, a, b
<1>6. CASE a.version = b.version /\ a.title = b.title
  <2>1. NameOrder[a.name] \in Nat /\ NameOrder[b.name] \in Nat /\ NameOrder[a.name] # NameOrder[b.name]
    BY <1>2, <1>d, MenuAssumption
  <2>2. NameOrder[a.name] < NameOrder[b.name] \/ NameOrder[b.name] < NameOrder[a.name]
    BY <2>1
  <2> QED
    BY <1>6, <2>2 DEF Before, a, b
<1> QED
  BY <1>4, <1>5, <1>6

\* Of two generations with as many digits, the older does not come before the newer.
LEMMA NewerBefore ==
  ASSUME NEW d \in Disk, NEW e, NEW f, e.file \in Files[d], f.file \in Files[d],
         e.file.version # None, f.file.version # None,
         Width(e.file.version) = Width(f.file.version), e.file.version < f.file.version
  PROVE  Before(f, e)
<1> DEFINE a == e.file.version  b == f.file.version
<1>1. e.file \in EntryFile /\ f.file \in EntryFile
  BY MenuAssumption
<1>2. a \in Nat /\ b \in Nat
  BY <1>1 DEF EntryFile
<1>3. a \div TenTo(9) <= 9 /\ b \div TenTo(9) <= 9
  BY MenuAssumption
<1>4. StringLess(a, b)
  BY <1>2, <1>3, NewerDigits
<1>5. a # b
  BY <1>2
<1> QED
  BY <1>4, <1>5 DEF Before, OptionLess

-----------------------------------------------------------------------------
(* The menu: what a device holds of the files of its disk. *)

MenuDisk == [disk : Disk, removable : BOOLEAN, entries : Seq(MenuEntry)]

\* Its entries are entries of the disk for this machine, each name once.
FromFiles(m) ==
  /\ m \in MenuDisk
  /\ \A j \in DOMAIN m.entries :
       LET f == m.entries[j].file
       IN  f \in Files[m.disk] /\ f.name # None /\ f.arch = "this"
  /\ \A j, k \in DOMAIN m.entries : j # k => m.entries[j].file.name # m.entries[k].file.name

\* It has them all, of those files.
Covers(m, files) ==
  \A f \in files :
    f.name # None /\ f.arch = "this" => \E j \in DOMAIN m.entries : m.entries[j].file.name = f.name

Ordered(m) == \A j, k \in DOMAIN m.entries : j < k => ~Before(m.entries[k], m.entries[j])

Ready(m) == Covers(m, Files[m.disk]) /\ Ordered(m)

\* Sorting leaves a device its entries.
LEMMA EntriesSorted ==
  ASSUME NEW m, FromFiles(m), NEW sorted \in SortBy(m.entries, Before), NEW n,
         n = [m EXCEPT !.entries = sorted]
  PROVE  /\ FromFiles(n) /\ n.disk = m.disk /\ Ordered(n)
         /\ \A files : Covers(m, files) => Covers(n, files)
<1> DEFINE s == m.entries
<1>1. m \in MenuDisk /\ s \in Seq(MenuEntry) /\ DOMAIN s = 1 .. Len(s) /\ Len(s) \in Nat
  BY DEF FromFiles, MenuDisk
<1>2. PICK p \in Bijection(DOMAIN s, DOMAIN s) :
        /\ \A i, j \in DOMAIN s : i < j =>
             Before(s[p[i]], s[p[j]]) \/ (~Before(s[p[j]], s[p[i]]) /\ p[i] < p[j])
        /\ sorted = [i \in DOMAIN s |-> s[p[i]]]
  BY DEF SortBy
<1>3. /\ p \in [DOMAIN s -> DOMAIN s]
      /\ \A i, j \in DOMAIN s : p[i] = p[j] => i = j
      /\ \A j \in DOMAIN s : \E i \in DOMAIN s : p[i] = j
  BY <1>2 DEF Bijection, Injection, Surjection, IsInjective
<1>4. sorted \in Seq(MenuEntry) /\ DOMAIN sorted = DOMAIN s
  BY <1>1, <1>2, <1>3
<1>5. n.disk = m.disk /\ n.entries = sorted /\ n \in MenuDisk
  <2>1. n.disk = m.disk /\ n.entries = sorted
    BY <1>1, Zenon DEF MenuDisk
  <2>2. n \in MenuDisk
    BY <1>1, <1>4, Zenon DEF MenuDisk
  <2> QED
    BY <2>1, <2>2
<1>6. \A i \in DOMAIN s : sorted[i] = s[p[i]] /\ p[i] \in DOMAIN s
  BY <1>2, <1>3
<1>a. /\ \A j \in DOMAIN s : s[j].file \in Files[m.disk] /\ s[j].file.name # None /\ s[j].file.arch = "this"
      /\ \A j, k \in DOMAIN s : j # k => s[j].file.name # s[k].file.name
  BY DEF FromFiles
<1> HIDE DEF s
<1>7. \A j \in DOMAIN n.entries :
        LET f == n.entries[j].file
        IN  f \in Files[n.disk] /\ f.name # None /\ f.arch = "this"
  BY ONLY <1>4, <1>5, <1>6, <1>a
<1>8. \A j, k \in DOMAIN n.entries : j # k => n.entries[j].file.name # n.entries[k].file.name
  <2> SUFFICES ASSUME NEW j \in DOMAIN s, NEW k \in DOMAIN s, j # k
               PROVE  sorted[j].file.name # sorted[k].file.name
    BY <1>4, <1>5
  <2>1. p[j] \in DOMAIN s /\ p[k] \in DOMAIN s /\ p[j] # p[k]
    BY <1>3, <1>6
  <2> QED
    BY <1>6, <1>a, <2>1
<1>9. Ordered(n)
  <2> SUFFICES ASSUME NEW j \in DOMAIN s, NEW k \in DOMAIN s, j < k
               PROVE  ~Before(sorted[k], sorted[j])
    BY <1>4, <1>5 DEF Ordered
  <2> DEFINE e == s[p[j]]  f == s[p[k]]
  <2>1. Before(e, f) \/ ~Before(f, e)
    BY <1>2
  <2>2. p[j] \in DOMAIN s /\ p[k] \in DOMAIN s
    BY <1>6
  <2>3. /\ e.file \in Files[m.disk] /\ f.file \in Files[m.disk]
        /\ e.file.name # None /\ f.file.name # None
    BY <2>2, <1>a
  <2>4. m.disk \in Disk
    BY <1>1 DEF MenuDisk
  <2>5. sorted[j] = e /\ sorted[k] = f
    BY <1>6
  <2> HIDE DEF e, f
  <2>6. Before(e, f) => ~Before(f, e)
    BY <2>3, <2>4, BeforeAsymmetric
  <2> QED
    BY <2>1, <2>5, <2>6
<1>10. ASSUME NEW files, Covers(m, files) PROVE Covers(n, files)
  <2> SUFFICES ASSUME NEW f \in files, f.name # None /\ f.arch = "this"
               PROVE  \E j \in DOMAIN sorted : sorted[j].file.name = f.name
    BY <1>5 DEF Covers
  <2>1. PICK j \in DOMAIN s : s[j].file.name = f.name
    BY <1>10 DEF Covers, s
  <2>2. PICK i \in DOMAIN s : p[i] = j
    BY <1>3
  <2> QED
    BY <1>4, <1>6, <2>1, <2>2
<1> QED
  BY <1>5, <1>7, <1>8, <1>9, <1>10 DEF FromFiles

\* However the entries of a device are arranged, sorting them has one result, the same.
LEMMA OneSorting ==
  ASSUME NEW m, FromFiles(m)
  PROVE  LET s == m.entries
         IN  \E sorted : \A q \in Bijection(DOMAIN s, DOMAIN s) :
               SortBy([k \in DOMAIN s |-> s[q[k]]], Before) = {sorted}
<1> DEFINE s == m.entries
           n == Len(s)
           R == {x \in (1 .. n) \X (1 .. n) : Before(s[x[1]], s[x[2]])}
<1>1. m.disk \in Disk /\ s \in Seq(MenuEntry) /\ DOMAIN s = 1 .. n /\ n \in Nat
  BY DEF FromFiles, MenuDisk
<1>2. /\ \A j \in 1 .. n : s[j].file \in Files[m.disk] /\ s[j].file.name # None
      /\ \A j, k \in 1 .. n : j # k => s[j].file.name # s[k].file.name
  BY <1>1 DEF FromFiles
<1> HIDE DEF s, n
<1>3. \A i, j \in 1 .. n : <<i, j>> \in R <=> Before(s[i], s[j])
  OBVIOUS
<1>4. \A i \in 1 .. n : <<i, i>> \notin R
  BY <1>1, <1>2, BeforeAsymmetric
<1>5. \A i, j \in 1 .. n : i # j => <<i, j>> \in R \/ <<j, i>> \in R
  <2> SUFFICES ASSUME NEW i \in 1 .. n, NEW j \in 1 .. n, i # j
               PROVE  Before(s[i], s[j]) \/ Before(s[j], s[i])
    BY <1>3
  <2> QED
    BY <1>1, <1>2, BeforeTotal
<1>6. \A i, j, k \in 1 .. n : <<i, j>> \in R /\ <<j, k>> \in R => <<i, k>> \in R
  <2> SUFFICES ASSUME NEW i \in 1 .. n, NEW j \in 1 .. n, NEW k \in 1 .. n,
                      Before(s[i], s[j]), Before(s[j], s[k])
               PROVE  Before(s[i], s[k])
    BY <1>3
  <2> QED
    BY <1>1, <1>2, BeforeTransitive
<1> HIDE DEF R
<1>7. PICK p \in Bijection(1 .. n, 1 .. n) :
        /\ \A i, j \in 1 .. n : i < j => <<p[i], p[j]>> \in R
        /\ \A q \in Bijection(1 .. n, 1 .. n) :
             (\A i, j \in 1 .. n : i < j => <<q[i], q[j]>> \in R) => q = p
  BY <1>1, <1>4, <1>5, <1>6, OneWayToStand
<1>8. p \in [1 .. n -> 1 .. n] /\ (\A i, j \in 1 .. n : p[i] = p[j] => i = j)
      /\ \A j \in 1 .. n : \E i \in 1 .. n : p[i] = j
  BY <1>7 DEF Bijection, Injection, Surjection, IsInjective
<1> DEFINE D == 1 .. n
           sorted == [i \in D |-> s[p[i]]]
<1>9. ASSUME NEW q \in Bijection(D, D)
      PROVE  SortBy([k \in D |-> s[q[k]]], Before) = {sorted}
  <2> DEFINE t == [k \in D |-> s[q[k]]]
  <2>1. /\ q \in [D -> D] /\ \A i, j \in D : q[i] = q[j] => i = j
        /\ \A j \in D : \E i \in D : q[i] = j
    BY <1>9 DEF Bijection, Injection, Surjection, IsInjective
  <2>2. DOMAIN t = D /\ \A k \in D : t[k] = s[q[k]]
    OBVIOUS
  <2> HIDE DEF t
  <2>3. ASSUME NEW x \in SortBy(t, Before) PROVE x = sorted
    <3>1. PICK r \in Bijection(D, D) :
            /\ \A i, j \in D : i < j =>
                 Before(t[r[i]], t[r[j]]) \/ (~Before(t[r[j]], t[r[i]]) /\ r[i] < r[j])
            /\ x = [i \in D |-> t[r[i]]]
      BY <2>2, <2>3 DEF SortBy
    <3>2. /\ r \in [D -> D] /\ \A i, j \in D : r[i] = r[j] => i = j
          /\ \A j \in D : \E i \in D : r[i] = j
      BY <3>1 DEF Bijection, Injection, Surjection, IsInjective
    <3> DEFINE u == [i \in D |-> q[r[i]]]
    <3>3. /\ u \in [D -> D] /\ \A i, j \in D : u[i] = u[j] => i = j
          /\ \A j \in D : \E i \in D : u[i] = j
      <4>1. u \in [D -> D] /\ \A i \in D : u[i] = q[r[i]]
        BY <2>1, <3>2
      <4>2. ASSUME NEW j \in D PROVE \E i \in D : u[i] = j
        <5>1. PICK k \in D : q[k] = j
          BY <2>1
        <5>2. PICK i \in D : r[i] = k
          BY <3>2
        <5> QED
          BY <4>1, <5>1, <5>2
      <4> HIDE DEF u, D
      <4>3. ASSUME NEW i \in D, NEW j \in D, u[i] = u[j] PROVE i = j
        <5>1. r[i] \in D /\ r[j] \in D /\ q[r[i]] = q[r[j]]
          BY <3>2, <4>1, <4>3
        <5> QED
          BY <2>1, <3>2, <5>1
      <4> QED
        BY <4>1, <4>2, <4>3
    <3>4. \A i \in D : t[r[i]] = s[u[i]]
      BY <2>2, <3>2
    <3> HIDE DEF u
    <3>5. u \in Bijection(D, D)
      BY <3>3 DEF Bijection, Injection, Surjection, IsInjective
    <3>6. \A i, j \in D : i < j => <<u[i], u[j]>> \in R
      <4> SUFFICES ASSUME NEW i \in D, NEW j \in D, i < j PROVE Before(s[u[i]], s[u[j]])
        BY <1>3, <3>3
      <4>1. Before(s[u[i]], s[u[j]]) \/ ~Before(s[u[j]], s[u[i]])
        BY <3>1, <3>4
      <4>2. u[i] # u[j] /\ u[i] \in D /\ u[j] \in D
        <5>1. i # j
          BY <1>1
        <5> HIDE DEF D
        <5> QED
          BY <3>3, <5>1
      <4>3. Before(s[u[i]], s[u[j]]) \/ Before(s[u[j]], s[u[i]])
        BY <1>3, <1>5, <4>2
      <4> QED
        BY <4>1, <4>3
    <3>7. u = p
      BY <1>7, <3>5, <3>6
    <3> QED
      BY <3>1, <3>4, <3>7
  <2>4. sorted \in SortBy(t, Before)
    <3> DEFINE r == [i \in D |-> CHOOSE k \in D : q[k] = p[i]]
    <3>1. r \in [D -> D] /\ \A i \in D : q[r[i]] = p[i]
      BY <1>8, <2>1
    <3> HIDE DEF r
    <3>2. r \in Bijection(D, D)
      <4>1. \A i, j \in D : r[i] = r[j] => i = j
        <5>1. \A i, j \in D : p[i] = p[j] => i = j
          BY <1>8
        <5> HIDE DEF D
        <5> QED
          BY <3>1, <5>1
      <4>2. ASSUME NEW k \in D PROVE \E i \in D : r[i] = k
        <5>1. PICK i \in D : p[i] = q[k]
          BY <1>8, <2>1
        <5>2. r[i] \in D /\ q[r[i]] = q[k]
          BY <3>1, <5>1
        <5> QED
          BY <2>1, <5>2
      <4> HIDE DEF D
      <4> QED
        BY <3>1, <4>1, <4>2 DEF Bijection, Injection, Surjection, IsInjective
    <3>3. \A i \in D : t[r[i]] = s[p[i]]
      BY <2>2, <3>1
    <3>4. \A i, j \in D : i < j => Before(t[r[i]], t[r[j]])
      <4> SUFFICES ASSUME NEW i \in D, NEW j \in D, i < j PROVE Before(s[p[i]], s[p[j]])
        BY <3>3
      <4> QED
        BY <1>3, <1>7, <1>8
    <3>5. sorted = [i \in D |-> t[r[i]]]
      BY <3>3
    <3> HIDE DEF sorted
    <3> QED
      BY <2>2, <3>2, <3>4, <3>5 DEF SortBy
  <2> QED
    BY <2>3, <2>4 DEF t
<1> HIDE DEF sorted
<1> QED
  BY <1>1, <1>9 DEF s

\* What a device offers of its entries.
LEMMA OffersOfEntries ==
  ASSUME NEW m, FromFiles(m)
  PROVE  /\ Offers(m.entries) \in Seq(MenuEntry)
         /\ DOMAIN Offers(m.entries) = 1 .. Len(Offers(m.entries))
         /\ \A k \in DOMAIN Offers(m.entries) : \E i \in DOMAIN m.entries :
              Offers(m.entries)[k] = m.entries[i]
         /\ \A j, k \in DOMAIN Offers(m.entries) : j < k => \E a, b \in DOMAIN m.entries :
              /\ Offers(m.entries)[j] = m.entries[a] /\ Offers(m.entries)[k] = m.entries[b] /\ a < b
         /\ \A i \in DOMAIN m.entries : Bootable(m.entries[i]) =>
              \E k \in DOMAIN Offers(m.entries) : Offers(m.entries)[k] = m.entries[i]
<1> DEFINE s == m.entries
           I == {j \in DOMAIN s : Bootable(s[j])}
           n == Cardinality(I)
<1>1. s \in Seq(MenuEntry) /\ DOMAIN s = 1 .. Len(s) /\ Len(s) \in Nat
  BY DEF FromFiles, MenuDisk
<1>2. I \in SUBSET Nat /\ IsFiniteSet(I)
  <2>1. IsFiniteSet(1 .. Len(s))
    BY <1>1, FS_Interval
  <2> QED
    BY <1>1, <2>1, FS_Subset
<1>3. Offers(s) = [k \in 1 .. n |-> s[Place(I, k)]]
  BY DEF Offers, Filtered
<1>4. I \subseteq DOMAIN s
  OBVIOUS
<1> HIDE DEF I
<1>5. /\ n \in Nat /\ \A k \in 1 .. n : Place(I, k) \in I
      /\ \A j, k \in 1 .. n : j < k => Place(I, j) < Place(I, k)
      /\ \A i \in I : \E k \in 1 .. n : Place(I, k) = i
  BY <1>2, FilteredPlaces
<1> HIDE DEF s, n
<1>6. \A k \in 1 .. n : Place(I, k) \in DOMAIN s /\ Offers(s)[k] = s[Place(I, k)]
  BY <1>3, <1>4, <1>5
<1>7. DOMAIN Offers(s) = 1 .. n
  BY <1>3
<1>8. Offers(s) \in Seq(MenuEntry) /\ Len(Offers(s)) = n
  BY <1>1, <1>3, <1>5, <1>6
<1>9. \A i \in DOMAIN s : Bootable(s[i]) => i \in I
  BY DEF I
<1> QED
  BY <1>5, <1>6, <1>7, <1>8, <1>9 DEF s

-----------------------------------------------------------------------------
(* Setup and probe. *)

\* The menus as far as they are read: those of the disks before the current one are
\* ready, and that one has what was read of its files.
Menus ==
  /\ disks \in Seq(MenuDisk) /\ \A i \in DOMAIN disks : FromFiles(disks[i])
  /\ IF pc = "probe"
     THEN /\ current \in DOMAIN disks /\ unread \subseteq Files[disks[current].disk]
          /\ \A i \in DOMAIN disks : i < current => Ready(disks[i])
          /\ Covers(disks[current], Files[disks[current].disk] \ unread)
     ELSE current = 0 /\ unread = {}
  /\ loader = "probed" /\ pc \notin {"setup", "probe"} => \A i \in DOMAIN disks : Ready(disks[i])

\* A disk that is set up has no entries yet.
LEMMA MenusSetup ==
  ASSUME Menus, NEW d \in Disk, SetupDisk(d)
  PROVE  Menus'
<1> DEFINE m == [disk |-> d, removable |-> IsRemovable(d), entries |-> <<>>]
<1>1. pc = "setup" /\ UNCHANGED <<pc, loader, current, unread>> /\ disks' \in {disks, Append(disks, m)}
  BY DEF SetupDisk
<1>2. m \in MenuDisk
  <2>1. IsRemovable(d) \in BOOLEAN
    BY Zenon DEF IsRemovable
  <2>2. <<>> \in Seq(MenuEntry)
    OBVIOUS
  <2> QED
    BY <2>1, <2>2, Zenon DEF MenuDisk
<1>3. FromFiles(m)
  <2>1. m.entries = <<>> /\ DOMAIN <<>> = {}
    OBVIOUS
  <2> HIDE DEF m
  <2> QED
    BY <1>2, <2>1 DEF FromFiles
<1> HIDE DEF m
<1>4. disks' \in Seq(MenuDisk) /\ \A i \in DOMAIN disks' : FromFiles(disks'[i])
  <2>1. disks \in Seq(MenuDisk) /\ \A i \in DOMAIN disks : FromFiles(disks[i])
    BY DEF Menus
  <2>2. CASE disks' = Append(disks, m)
    <3>1. disks' \in Seq(MenuDisk)
      BY <1>2, <2>1, <2>2
    <3>2. \A i \in DOMAIN disks' : disks'[i] = m \/ (i \in DOMAIN disks /\ disks'[i] = disks[i])
      BY <2>1, <2>2
    <3> QED
      BY <1>3, <2>1, <3>1, <3>2
  <2> QED
    BY <1>1, <2>1, <2>2
<1> QED
  BY <1>1, <1>4 DEF Menus

\* Sorting the disks moves their menus.
LEMMA MenusSortDisks ==
  ASSUME Menus, SortDisks
  PROVE  Menus'
<1>1. /\ disks \in Seq(MenuDisk) /\ DOMAIN disks = 1 .. Len(disks) /\ Len(disks) \in Nat
      /\ \A i \in DOMAIN disks : FromFiles(disks[i])
  BY DEF Menus
<1>2. PICK p \in Bijection(DOMAIN disks, DOMAIN disks) : disks' = [i \in DOMAIN disks |-> disks[p[i]]]
  BY DEF SortDisks, SortBy
<1>3. p \in [DOMAIN disks -> DOMAIN disks]
  BY <1>2 DEF Bijection, Injection
<1>4. /\ disks' \in Seq(MenuDisk) /\ DOMAIN disks' = 1 .. Len(disks') /\ Len(disks') = Len(disks)
      /\ \A i \in DOMAIN disks' : FromFiles(disks'[i])
  BY <1>1, <1>2, <1>3
<1>5. CASE disks' = <<>>
  <2>1. Turn(1)
    BY <1>5 DEF SortDisks
  <2>2. ~(1 <= Len(disks')) /\ DOMAIN disks' = {}
    BY <1>5
  <2>3. current' = 0 /\ unread' = {} /\ pc' = "shell"
    BY <2>1, <2>2 DEF Turn
  <2> QED
    BY <1>4, <2>2, <2>3 DEF Menus
<1>6. CASE disks' # <<>>
  <2>1. pc' = "probe" /\ current' = 1 /\ unread' = Files[disks'[1].disk]
    BY <1>6 DEF SortDisks
  <2>2. 1 \in DOMAIN disks' /\ \A i \in DOMAIN disks' : ~(i < 1)
    BY <1>4, <1>6
  <2>3. Covers(disks'[1], Files[disks'[1].disk] \ unread')
    BY <2>1 DEF Covers
  <2> QED
    BY <1>4, <2>1, <2>2, <2>3 DEF Menus
<1> QED
  BY <1>5, <1>6

\* A file that is read is in the menu then, or another with its name is.
LEMMA MenusVisit ==
  ASSUME Menus, NEW f \in unread, Visit(f)
  PROVE  Menus'
<1> DEFINE m == disks[current]
           known == {m.entries[i].file.name : i \in DOMAIN m.entries}
           e == Entry(m.disk, f)
           n == disks'[current]
<1>1. /\ disks \in Seq(MenuDisk) /\ \A i \in DOMAIN disks : FromFiles(disks[i])
      /\ current \in DOMAIN disks /\ unread \subseteq Files[m.disk]
      /\ \A i \in DOMAIN disks : i < current => Ready(disks[i])
      /\ Covers(m, Files[m.disk] \ unread)
  BY DEF Menus, Visit
<1>2. /\ pc = "probe" /\ unread' = unread \ {f} /\ UNCHANGED <<pc, loader, current>>
      /\ IF f.name \notin known \cup {None} /\ f.arch # "other"
         THEN disks' = [disks EXCEPT ![current].entries = Append(@, e)]
         ELSE disks' = disks
  BY DEF Visit
<1>3. f \in Files[m.disk] /\ m \in MenuDisk /\ m.disk \in Disk /\ f \in EntryFile
  <2>1. FromFiles(m)
    BY <1>1
  <2>2. m \in MenuDisk
    BY <2>1 DEF FromFiles
  <2>3. m.disk \in Disk
    BY <2>2 DEF MenuDisk
  <2>4. f \in Files[m.disk]
    BY <1>1
  <2> QED
    BY <2>2, <2>3, <2>4, MenuAssumption
<1>4. CASE f.name \notin known \cup {None} /\ f.arch # "other"
  <2>1. /\ e \in MenuEntry /\ e.file = f
    <3>1. (f.name = Default[m.disk]) \in BOOLEAN
      OBVIOUS
    <3> QED
      BY <1>3, <3>1, Zenon DEF Entry, MenuEntry
  <2> HIDE DEF e
  <2>2. m.entries \in Seq(MenuEntry)
    BY <1>3 DEF MenuDisk
  <2> DEFINE longer == Append(m.entries, e)
  <2>3. longer \in Seq(MenuEntry)
    BY <2>1, <2>2
  <2>4. disks' = [disks EXCEPT ![current].entries = longer]
    BY <1>2, <1>4
  <2>5. /\ DOMAIN longer = DOMAIN m.entries \cup {Len(m.entries) + 1}
        /\ longer[Len(m.entries) + 1] = e
        /\ \A i \in DOMAIN m.entries : longer[i] = m.entries[i] /\ i # Len(m.entries) + 1
    BY <2>1, <2>2
  <2> HIDE DEF longer, known
  <2>6. /\ DOMAIN disks' = DOMAIN disks /\ n = [m EXCEPT !.entries = longer]
        /\ \A i \in DOMAIN disks : i # current => disks'[i] = disks[i]
    BY <1>1, <2>4 DEF MenuDisk
  <2> HIDE DEF n
  <2>7. n \in MenuDisk
    BY <1>3, <2>3, <2>6, Zenon DEF MenuDisk
  <2>8. n.disk = m.disk /\ n.entries = longer
    BY <1>3, <2>6, Zenon DEF MenuDisk
  <2> HIDE DEF m
  <2>9. FromFiles(n)
    <3>1. f.name # None /\ f.arch = "this"
      BY <1>3, <1>4 DEF EntryFile
    <3>2. FromFiles(m)
      BY <1>1 DEF m
    <3>3. \A j \in DOMAIN m.entries : m.entries[j].file.name # f.name
      BY <1>4 DEF known
    <3>4. \A j \in DOMAIN longer :
            longer[j].file \in Files[m.disk] /\ longer[j].file.name # None /\ longer[j].file.arch = "this"
      BY <1>3, <2>1, <2>5, <3>1, <3>2 DEF FromFiles
    <3>5. \A j, k \in DOMAIN longer : j # k => longer[j].file.name # longer[k].file.name
      BY <2>1, <2>5, <3>2, <3>3 DEF FromFiles
    <3> QED
      BY <2>7, <2>8, <3>4, <3>5 DEF FromFiles
  <2>10. Covers(n, Files[n.disk] \ unread')
    <3> SUFFICES ASSUME NEW g \in Files[m.disk] \ unread', g.name # None /\ g.arch = "this"
                 PROVE  \E j \in DOMAIN longer : longer[j].file.name = g.name
      BY <2>8 DEF Covers
    <3>1. CASE g = f
      BY <2>1, <2>5, <3>1
    <3>2. CASE g # f
      <4>1. g \in Files[m.disk] \ unread
        BY <1>2, <3>2
      <4>2. PICK j \in DOMAIN m.entries : m.entries[j].file.name = g.name
        BY <1>1, <4>1 DEF Covers
      <4> QED
        BY <2>5, <4>2
    <3> QED
      BY <3>1, <3>2
  <2>11. disks' \in Seq(MenuDisk) /\ \A i \in DOMAIN disks' : FromFiles(disks'[i])
    <3>1. \A i \in DOMAIN disks' : disks'[i] \in MenuDisk /\ FromFiles(disks'[i])
      BY <1>1, <2>6, <2>7, <2>9 DEF n
    <3> QED
      BY <1>1, <2>4, <3>1, <2>6
  <2>12. \A i \in DOMAIN disks' : i < current => Ready(disks'[i])
    <3>1. \A i \in DOMAIN disks : i < current => i # current
      BY <1>1
    <3> QED
      BY <1>1, <2>6, <3>1
  <2> QED
    BY <1>1, <1>2, <2>6, <2>8, <2>10, <2>11, <2>12 DEF Menus, n
<1>5. CASE ~(f.name \notin known \cup {None} /\ f.arch # "other")
  <2>1. disks' = disks
    BY <1>2, <1>5
  <2>2. Covers(m, Files[m.disk] \ unread')
    <3> SUFFICES ASSUME NEW g \in Files[m.disk] \ unread', g.name # None /\ g.arch = "this"
                 PROVE  \E j \in DOMAIN m.entries : m.entries[j].file.name = g.name
      BY DEF Covers
    <3>1. CASE g = f
      BY <1>5, <3>1
    <3>2. CASE g # f
      BY <1>1, <1>2, <3>2 DEF Covers
    <3> QED
      BY <3>1, <3>2
  <2> HIDE DEF known
  <2> QED
    BY <1>1, <1>2, <2>1, <2>2 DEF Menus
<1> QED
  BY <1>4, <1>5

\* A menu that is read and sorted is ready, and the next disk is the current one, if any.
LEMMA MenusSortEntries ==
  ASSUME Menus, SortEntries
  PROVE  Menus'
<1> DEFINE m == disks[current]
           n == disks'[current]
<1>1. /\ disks \in Seq(MenuDisk) /\ DOMAIN disks = 1 .. Len(disks) /\ Len(disks) \in Nat
      /\ \A i \in DOMAIN disks : FromFiles(disks[i])
      /\ current \in DOMAIN disks /\ unread = {} /\ pc = "probe"
      /\ \A i \in DOMAIN disks : i < current => Ready(disks[i])
      /\ Covers(m, Files[m.disk] \ unread)
  BY DEF Menus, SortEntries
<1>2. PICK sorted \in SortBy(m.entries, Before) : disks' = [disks EXCEPT ![current].entries = sorted]
  BY DEF SortEntries
<1>3. FromFiles(m) /\ m \in MenuDisk
  BY <1>1 DEF FromFiles
<1>4. /\ DOMAIN disks' = DOMAIN disks /\ n = [m EXCEPT !.entries = sorted]
      /\ \A i \in DOMAIN disks : i # current => disks'[i] = disks[i]
  BY <1>1, <1>2 DEF MenuDisk
<1>5. /\ FromFiles(n) /\ n.disk = m.disk /\ Ordered(n)
      /\ \A files : Covers(m, files) => Covers(n, files)
  <2> HIDE DEF m, n
  <2> QED
    BY <1>3, <1>4, EntriesSorted
<1>6. Ready(n)
  <2>1. Files[m.disk] \ unread = Files[m.disk]
    BY <1>1
  <2> HIDE DEF m, n
  <2> QED
    BY <1>1, <1>5, <2>1 DEF Ready
<1>7. /\ disks' \in Seq(MenuDisk) /\ Len(disks') = Len(disks)
      /\ \A i \in DOMAIN disks' : FromFiles(disks'[i])
  <2>1. \A i \in DOMAIN disks' : FromFiles(disks'[i])
    BY <1>1, <1>4, <1>5
  <2>2. \A i \in DOMAIN disks' : disks'[i] \in MenuDisk
    BY <2>1 DEF FromFiles
  <2> QED
    BY <1>1, <1>2, <1>4, <2>1, <2>2
<1>8. \A i \in DOMAIN disks' : i < current + 1 => Ready(disks'[i])
  <2> TAKE i \in DOMAIN disks'
  <2>1. i < current + 1 => i < current \/ i = current
    BY <1>1, <1>4
  <2>2. i < current => i # current
    BY <1>1, <1>4
  <2> HIDE DEF n
  <2> QED
    BY <1>1, <1>4, <1>6, <2>1, <2>2 DEF n
<1>9. Turn(current + 1)
  BY DEF SortEntries
<1> HIDE DEF m, n
<1>10. CASE current + 1 <= Len(disks')
  <2>1. current' = current + 1 /\ unread' = Files[disks'[current + 1].disk] /\ pc' = "probe"
    BY <1>1, <1>9, <1>10 DEF Turn
  <2>2. current + 1 \in DOMAIN disks'
    BY <1>1, <1>4, <1>7, <1>10
  <2>3. Covers(disks'[current'], Files[disks'[current'].disk] \ unread')
    BY <2>1 DEF Covers
  <2> QED
    BY <1>7, <1>8, <2>1, <2>2, <2>3 DEF Menus
<1>11. CASE ~(current + 1 <= Len(disks'))
  <2>1. current' = 0 /\ unread' = {} /\ pc' = "shell"
    BY <1>9, <1>11 DEF Turn
  <2>2. \A i \in DOMAIN disks' : i < current + 1
    BY <1>1, <1>4, <1>7, <1>11
  <2> QED
    BY <1>7, <1>8, <2>1, <2>2 DEF Menus
<1> QED
  BY <1>10, <1>11

\* The steps that are not part of a probe leave the menus or drop them.
LEMMA MenusElsewhere ==
  ASSUME Menus,
         BeginSetup \/ NewLoader \/ PowerOn \/ Answer \/ Dmesg \/ End \/ List \/ Boot
           \/ UNCHANGED <<pc, loader, probing>>
  PROVE  Menus'
<1>1. CASE BeginSetup
  <2>1. pc = "shell" /\ pc' = "setup" /\ UNCHANGED <<disks, current, unread>>
    BY <1>1 DEF BeginSetup
  <2> QED
    BY <2>1 DEF Menus
<1>2. CASE NewLoader
  <2>1. pc = "shell" /\ pc' = "shell" /\ disks' = <<>> /\ UNCHANGED <<current, unread>>
    BY <1>2 DEF NewLoader
  <2>2. <<>> \in Seq(MenuDisk) /\ DOMAIN <<>> = {}
    OBVIOUS
  <2> QED
    BY <2>1, <2>2 DEF Menus
<1>3. CASE PowerOn \/ Answer \/ Dmesg \/ End \/ List \/ Boot
  <2>1. /\ pc \in {"off", "shell"} /\ pc' \in {"shell", "over", "aborted"}
        /\ UNCHANGED <<loader, disks, current, unread>>
    BY <1>3 DEF PowerOn, Answer, Dmesg, End, List, Boot, probing
  <2> QED
    BY <2>1 DEF Menus
<1>4. CASE UNCHANGED <<pc, loader, probing>>
  BY <1>4 DEF Menus, probing
<1> QED
  BY <1>1, <1>2, <1>3, <1>4

LEMMA MenusInvariant == Spec => []Menus
<1>1. Init => Menus
  <2>1. <<>> \in Seq(MenuDisk) /\ DOMAIN <<>> = {}
    OBVIOUS
  <2> QED
    BY <2>1 DEF Init, Menus
<1>2. Menus /\ [Next]_vars => Menus'
  <2> SUFFICES ASSUME Menus, [Next]_vars PROVE Menus'
    OBVIOUS
  <2>1. CASE \E d \in Disk : SetupDisk(d)
    BY <2>1, MenusSetup
  <2>2. CASE SortDisks
    BY <2>2, MenusSortDisks
  <2>3. CASE \E f \in unread : Visit(f)
    BY <2>3, MenusVisit
  <2>4. CASE SortEntries
    BY <2>4, MenusSortEntries
  <2>5. CASE BeginSetup \/ NewLoader \/ PowerOn \/ Answer \/ Dmesg \/ End \/ List \/ Boot
    BY <2>5, MenusElsewhere
  <2>6. CASE \/ \E d \in Disk, fs \in {"vfat", "iso9660", "ext4"} : Format(d, fs)
             \/ \E line \in Lines, newline \in BOOLEAN : Type(line, newline)
             \/ UNCHANGED vars
    <3>1. UNCHANGED <<pc, loader, probing>>
      BY <2>6 DEF Format, Type, vars
    <3> QED
      BY <3>1, MenusElsewhere
  <2> QED
    BY <2>1, <2>2, <2>3, <2>4, <2>5, <2>6 DEF Next
<1> QED
  BY <1>1, <1>2, PTL DEF Spec

\* At any time the entries read so far have one order, whatever order the directory was read
\* in: what "list" prints depends on the files alone, and sorting never fails.
THEOREM EntriesSortedOneWay ==
  Spec => [](\A i \in DOMAIN disks :
               LET s == disks[i].entries
               IN  \E sorted : \A q \in Bijection(DOMAIN s, DOMAIN s) :
                     SortBy([k \in DOMAIN s |-> s[q[k]]], Before) = {sorted})
<1>1. Menus => \A i \in DOMAIN disks :
                 LET s == disks[i].entries
                 IN  \E sorted : \A q \in Bijection(DOMAIN s, DOMAIN s) :
                       SortBy([k \in DOMAIN s |-> s[q[k]]], Before) = {sorted}
  BY OneSorting DEF Menus
<1> QED
  BY <1>1, MenusInvariant, PTL

\* After any number of probes of any disks, in whatever order directories are read, every
\* device offers each bootable entry of its disk once, the newest generation first.
THEOREM ListingsComplete == Spec => []ListingComplete
<1>1. Menus => ListingComplete
  <2> SUFFICES ASSUME Menus, loader = "probed", pc = "shell", NEW i \in DOMAIN BootDevices
               PROVE  LET offered == BootDevices[i].entries
                          files == {f \in Files[BootDevices[i].disk] : f.name # None /\ f.arch = "this"}
                      IN  /\ \A f \in files :
                               (\A g \in files : g.name = f.name => g.linux /\ g.left # 0) =>
                                  \E j \in DOMAIN offered : offered[j].file.name = f.name
                          /\ \A j, k \in DOMAIN offered : j < k =>
                               LET a == offered[j].file  b == offered[k].file
                               IN  /\ a.name # b.name
                                   /\ a.version # None /\ b.version # None /\ Width(a.version) = Width(b.version) =>
                                        a.version >= b.version
    BY DEF ListingComplete
  <2> DEFINE m == disks[i]
             offered == Offers(m.entries)
             files == {f \in Files[m.disk] : f.name # None /\ f.arch = "this"}
  <2>1. i \in DOMAIN disks /\ BootDevices[i].entries = offered /\ BootDevices[i].disk = m.disk
    BY DEF BootDevices
  <2>2. FromFiles(m) /\ Ready(m) /\ m.disk \in Disk /\ DOMAIN m.entries \subseteq Nat
    BY <2>1 DEF Menus, FromFiles, MenuDisk
  <2> HIDE DEF m
  <2>3. /\ \A j, k \in DOMAIN offered : j < k => \E a, b \in DOMAIN m.entries :
             offered[j] = m.entries[a] /\ offered[k] = m.entries[b] /\ a < b
        /\ \A j \in DOMAIN m.entries : Bootable(m.entries[j]) =>
             \E k \in DOMAIN offered : offered[k] = m.entries[j]
    BY <2>2, OffersOfEntries
  <2> HIDE DEF offered
  <2>4. ASSUME NEW f \in files, \A g \in files : g.name = f.name => g.linux /\ g.left # 0
        PROVE  \E j \in DOMAIN offered : offered[j].file.name = f.name
    <3>1. PICK j \in DOMAIN m.entries : m.entries[j].file.name = f.name
      BY <2>2 DEF Ready, Covers
    <3>2. m.entries[j].file \in files
      BY <2>2 DEF FromFiles
    <3>3. Bootable(m.entries[j])
      BY <2>4, <3>1, <3>2, Zenon DEF Bootable
    <3> QED
      BY <2>3, <3>1, <3>3
  <2>5. ASSUME NEW j \in DOMAIN offered, NEW k \in DOMAIN offered, j < k
        PROVE  LET a == offered[j].file  b == offered[k].file
               IN  /\ a.name # b.name
                   /\ a.version # None /\ b.version # None /\ Width(a.version) = Width(b.version) =>
                        a.version >= b.version
    <3>1. PICK x, y \in DOMAIN m.entries : offered[j] = m.entries[x] /\ offered[k] = m.entries[y] /\ x < y
      BY <2>3, <2>5
    <3> DEFINE e == m.entries[x]  f == m.entries[y]
    <3>2. ~Before(f, e) /\ e.file.name # f.file.name
      <4>1. x # y
        BY <2>2, <3>1
      <4> QED
        BY <2>2, <3>1, <4>1 DEF Ready, Ordered, FromFiles
    <3>3. e.file \in Files[m.disk] /\ f.file \in Files[m.disk]
      BY <2>2 DEF FromFiles
    <3>4. e.file \in EntryFile /\ f.file \in EntryFile
      BY <2>2, <3>3, MenuAssumption
    <3> HIDE DEF e, f
    <3>5. ASSUME e.file.version # None, f.file.version # None,
                 Width(e.file.version) = Width(f.file.version)
          PROVE  e.file.version >= f.file.version
      <4>1. e.file.version \in Nat /\ f.file.version \in Nat
        BY <3>4, <3>5 DEF EntryFile
      <4>2. ~(e.file.version < f.file.version)
        BY <2>2, <3>2, <3>3, <3>5, NewerBefore
      <4> QED
        BY <4>1, <4>2
    <3> QED
      BY <3>1, <3>2, <3>5 DEF e, f
  <2> QED
    BY <2>1, <2>4, <2>5
<1> QED
  BY <1>1, MenusInvariant, PTL

-----------------------------------------------------------------------------
(* What "boot" selects. *)

\* A line that begins with "boot" is an error or the command with its arguments.
LEMMA BootParsed ==
  ASSUME NEW line, line.verb = "boot"
  PROVE  \/ Parsed(line) = Failed
         \/ /\ Parsed(line) = [cmd |-> "boot", device |-> Arg(line, 1), entry |-> Arg(line, 2)]
            /\ Parsed(line).cmd = "boot" /\ Parsed(line) # Nothing
            /\ Parsed(line).device = Arg(line, 1) /\ Parsed(line).entry = Arg(line, 2)
<1>1. Parsed(line) = ParseBoot(line)
  BY DEF Parsed, Nothing, Failed, Plain
<1> DEFINE boot == [cmd |-> "boot", device |-> Arg(line, 1), entry |-> Arg(line, 2)]
<1>2. boot.cmd = "boot" /\ boot.device = Arg(line, 1) /\ boot.entry = Arg(line, 2)
  OBVIOUS
<1>3. ParseBoot(line) \in {boot, Failed}
  BY DEF ParseBoot
<1> HIDE DEF boot
<1>4. boot # Nothing
  BY <1>2 DEF Nothing
<1> QED
  BY <1>1, <1>2, <1>3, <1>4 DEF boot

\* find, of the default entry: there is one, or none is.
LEMMA DefaultFound ==
  ASSUME NEW entries, DOMAIN entries \subseteq Nat
  PROVE  \/ DefaultOf(entries) = None /\ \A j \in DOMAIN entries : ~entries[j].is_default
         \/ \E j \in DOMAIN entries : DefaultOf(entries) = entries[j] /\ entries[j].is_default
<1> DEFINE found == {i \in DOMAIN entries : entries[i].is_default}
<1>1. CASE found = {}
  BY <1>1 DEF DefaultOf
<1>2. CASE found # {}
  <2> DEFINE least == CHOOSE i \in found : \A j \in found : i <= j
  <2>1. found \in SUBSET Nat
    OBVIOUS
  <2>2. least \in found
    <3> HIDE DEF found
    <3> QED
      BY <1>2, <2>1, LeastNumber
  <2>3. DefaultOf(entries) = entries[least]
    BY <1>2 DEF DefaultOf
  <2> HIDE DEF least
  <2> QED
    BY <2>2, <2>3
<1> QED
  BY <1>1, <1>2

\* The devices the shell numbers are no Options.
LEMMA DevicesNumbered ==
  ASSUME Menus
  PROVE  /\ Len(BootDevices) \in Nat /\ DOMAIN BootDevices = 1 .. Len(BootDevices)
         /\ \A i \in DOMAIN BootDevices :
              /\ BootDevices[i] # None
              /\ Len(BootDevices[i].entries) \in Nat
              /\ DOMAIN BootDevices[i].entries = 1 .. Len(BootDevices[i].entries)
<1> DEFINE Device == [disk : Disk, entries : Seq(MenuEntry)]
<1>1. /\ disks \in Seq(MenuDisk) /\ DOMAIN disks = 1 .. Len(disks) /\ Len(disks) \in Nat
      /\ \A i \in DOMAIN disks : FromFiles(disks[i])
  BY DEF Menus
<1>2. ASSUME NEW i \in DOMAIN disks
      PROVE  /\ BootDevices[i] \in Device
             /\ DOMAIN BootDevices[i].entries = 1 .. Len(BootDevices[i].entries)
  <2>1. disks[i] \in MenuDisk /\ FromFiles(disks[i])
    BY <1>1
  <2>2. disks[i].disk \in Disk
    BY <2>1 DEF MenuDisk
  <2> DEFINE offered == Offers(disks[i].entries)
  <2>3. offered \in Seq(MenuEntry) /\ DOMAIN offered = 1 .. Len(offered)
    BY <2>1, OffersOfEntries
  <2> HIDE DEF offered
  <2>4. BootDevices[i] = [disk |-> disks[i].disk, entries |-> offered]
    BY DEF BootDevices, offered
  <2> QED
    BY <2>2, <2>3, <2>4
<1>3. DOMAIN BootDevices = 1 .. Len(disks) /\ BootDevices \in Seq(Device)
  <2>1. BootDevices = [i \in 1 .. Len(disks) |-> BootDevices[i]]
    BY <1>1 DEF BootDevices
  <2> QED
    BY <1>1, <1>2, <2>1
<1>4. \A i \in DOMAIN BootDevices : BootDevices[i] # None /\ BootDevices[i].entries \in Seq(MenuEntry)
  BY <1>1, <1>2, <1>3, MenuAssumption
<1> QED
  BY <1>1, <1>2, <1>3, <1>4

\* What the arguments of a line select is what they mean.
LEMMA SelectedMeant ==
  ASSUME Menus, NEW line
  PROVE  Means(line.args, BootDevices, Selected(BootDevices, Arg(line, 1), Arg(line, 2)))
<1> DEFINE args == line.args
           number(i) == IF Len(args) >= i /\ args[i] # 0 THEN args[i] ELSE None
           device == IF number(1) = None THEN 1 ELSE number(1)
           dev == Get(BootDevices, device)
           entries == IF device \in DOMAIN BootDevices THEN BootDevices[device].entries ELSE <<>>
           selected == Selected(BootDevices, Arg(line, 1), Arg(line, 2))
<1>1. /\ \A i \in {1, 2} : (Arg(line, i) \in {None, 0} <=> number(i) = None)
      /\ \A i \in {1, 2} : number(i) # None => Arg(line, i) = number(i)
  BY DEF Arg
<1>2. selected = IF dev = None THEN None
                 ELSE IF number(2) = None THEN DefaultOf(dev.entries)
                 ELSE Get(dev.entries, number(2))
  <2>1. dev = IF Arg(line, 1) \in {None, 0} THEN Get(BootDevices, 1) ELSE Get(BootDevices, Arg(line, 1))
    BY <1>1
  <2> HIDE DEF dev, number
  <2> QED
    BY <1>1, <2>1 DEF Selected
<1> HIDE DEF selected, number
<1>3. CASE device \in DOMAIN BootDevices
  <2>1. /\ dev = BootDevices[device] /\ dev # None /\ entries = dev.entries
        /\ Len(entries) \in Nat /\ DOMAIN entries = 1 .. Len(entries)
    <3> HIDE DEF device
    <3> QED
      BY <1>3, DevicesNumbered DEF Get
  <2> HIDE DEF dev, entries
  <2>2. CASE number(2) = None
    <3>1. selected = DefaultOf(entries)
      BY <1>2, <2>1, <2>2
    <3>2. DOMAIN entries \subseteq Nat
      BY <2>1
    <3>3. \/ selected = None /\ \A j \in DOMAIN entries : ~entries[j].is_default
          \/ \E j \in DOMAIN entries : selected = entries[j] /\ entries[j].is_default
      BY <3>1, <3>2, DefaultFound
    <3> QED
      BY <2>2, <3>3, Zenon DEF Means, number, entries, selected
  <2>3. CASE number(2) # None
    <3>1. selected = IF number(2) \in DOMAIN entries THEN entries[number(2)] ELSE None
      BY <1>2, <2>1, <2>3 DEF Get
    <3> QED
      BY <2>3, <3>1, Zenon DEF Means, number, entries, selected
  <2> QED
    BY <2>2, <2>3
<1>4. CASE device \notin DOMAIN BootDevices
  <2>1. dev = None /\ entries = <<>>
    <3> HIDE DEF device
    <3> QED
      BY <1>4, DevicesNumbered DEF Get
  <2>2. selected = None /\ DOMAIN entries = {}
    BY <1>2, <2>1
  <2> HIDE DEF entries
  <2>3. \/ number(2) # None /\ selected = IF number(2) \in DOMAIN entries THEN entries[number(2)] ELSE None
        \/ number(2) = None /\ selected = None /\ \A j \in DOMAIN entries : ~entries[j].is_default
    BY <2>2
  <2> QED
    BY <2>3, Zenon DEF Means, number, entries, selected
<1> QED
  BY <1>3, <1>4 DEF selected

\* What was printed is what there is, unless the disks are about to be read again; and a
\* command is that of the line, and has not selected anything yet.
Conversation ==
  /\ printed # <<>> =>
       \/ pc \notin {"setup", "probe"} /\ loader = "probed" /\ printed = BootDevices
       \/ pc \in {"setup", "probe"} /\ command.cmd = "rescan"
  /\ command # Nothing =>
       command = Parsed(TakenLine(typed.line, typed.newline)) /\ command # Failed /\ chosen = None
  /\ SelectedAsListed

\* While disks are set up and read, nothing is said.
LEMMA ConversationProbing ==
  ASSUME Conversation,
         BeginSetup \/ SortDisks \/ SortEntries \/ (\E d \in Disk : SetupDisk(d)) \/ \E f \in unread : Visit(f)
  PROVE  Conversation'
<1>1. CASE BeginSetup
  <2>1. /\ pc = "shell" /\ pc' = "setup" /\ UNCHANGED user
        /\ loader = "unstarted" \/ command.cmd = "rescan"
    BY <1>1 DEF BeginSetup
  <2>2. printed # <<>> => command.cmd = "rescan"
    BY <2>1 DEF Conversation
  <2> QED
    BY <2>1, <2>2 DEF Conversation, SelectedAsListed, user
<1>2. CASE (\E d \in Disk : SetupDisk(d)) \/ \E f \in unread : Visit(f)
  <2>1. pc \in {"setup", "probe"} /\ UNCHANGED <<pc, user>>
    BY <1>2 DEF SetupDisk, Visit
  <2> QED
    BY <2>1 DEF Conversation, SelectedAsListed, user
<1>3. CASE SortDisks \/ SortEntries
  <2>1. pc \in {"setup", "probe"} /\ UNCHANGED <<typed, chosen>>
    BY <1>3 DEF SortDisks, SortEntries
  <2>2. \/ pc' \in {"setup", "probe"} /\ UNCHANGED <<command, printed>>
        \/ printed' = <<>> /\ command' \in {Nothing, command}
    BY <1>3, <2>1 DEF SortDisks, SortEntries, Turn
  <2> QED
    BY <2>1, <2>2 DEF Conversation, SelectedAsListed
<1> QED
  BY <1>1, <1>2, <1>3

\* A line that is typed has selected nothing.
LEMMA ConversationType ==
  ASSUME Conversation, NEW line, NEW newline \in BOOLEAN, Type(line, newline)
  PROVE  Conversation'
<1> DEFINE parsed == Parsed(TakenLine(line, newline))
<1>1. /\ typed' = [line |-> line, newline |-> newline] /\ chosen' = None
      /\ command' = IF parsed = Failed THEN Nothing ELSE parsed
      /\ UNCHANGED <<pc, loader, disks, printed>> /\ pc = "shell"
  BY DEF Type, probing
<1>2. typed'.line = line /\ typed'.newline = newline
  BY <1>1
<1>3. BootDevices' = BootDevices
  BY <1>1 DEF BootDevices
<1>4. newline => TakenLine(line, newline) = line
  BY DEF TakenLine
<1>5. SelectedAsListed'
  <2> SUFFICES ASSUME line.verb = "boot", newline, command' = Nothing PROVE Parsed(line) = Failed
    BY <1>1, <1>2 DEF SelectedAsListed
  <2> QED
    BY <1>1, <1>4, BootParsed
<1> HIDE DEF parsed
<1>6. command' # Nothing => command' = parsed /\ command' # Failed
  BY <1>1
<1> QED
  BY <1>1, <1>2, <1>3, <1>5, <1>6 DEF Conversation, parsed

\* The commands but "boot" select nothing either.
LEMMA ConversationOther ==
  ASSUME Conversation, Answer \/ Dmesg \/ End \/ NewLoader \/ List
  PROVE  Conversation'
<1>1. pc = "shell" /\ pc' \in {"shell", "over", "aborted"} /\ command' = Nothing /\ UNCHANGED <<typed, chosen>>
  BY DEF Answer, Dmesg, End, NewLoader, List, Done
<1>2. \/ printed' = <<>>
      \/ UNCHANGED <<printed, loader, disks>>
      \/ printed' = BootDevices /\ loader = "probed" /\ UNCHANGED <<loader, disks>>
  BY DEF Answer, Dmesg, End, NewLoader, List, probing
<1>3. disks' = disks => BootDevices' = BootDevices
  BY DEF BootDevices
<1>4. printed' # <<>> => loader = "probed"
  BY <1>1, <1>2 DEF Conversation
<1>5. SelectedAsListed'
  <2> SUFFICES ASSUME printed' # <<>>, typed.line.verb = "boot", typed.newline PROVE FALSE
    BY <1>1 DEF SelectedAsListed
  <2>1. command.cmd \in {"help", "shell", "loader", "list", "dmesg", "reboot", "poweroff", "rescan"}
    BY <1>4 DEF Answer, Dmesg, End, NewLoader, List
  <2>2. command # Nothing
    BY <2>1 DEF Nothing
  <2>3. command = Parsed(typed.line) /\ command # Failed
    BY <2>2 DEF Conversation, TakenLine
  <2> QED
    BY <2>1, <2>3, BootParsed
<1> QED
  BY <1>1, <1>2, <1>3, <1>4, <1>5 DEF Conversation

\* "boot" selects what its arguments mean of what was printed.
LEMMA ConversationBoot ==
  ASSUME Conversation, Menus, Boot
  PROVE  Conversation'
<1>1. /\ pc = "shell" /\ pc' \in {"shell", "over"} /\ command' = Nothing
      /\ command.cmd = "boot" /\ chosen' = Selected(BootDevices, command.device, command.entry)
      /\ UNCHANGED <<typed, printed, loader, disks>>
  BY DEF Boot, Done, probing
<1>2. BootDevices' = BootDevices
  BY <1>1 DEF BootDevices
<1>3. SelectedAsListed'
  <2> SUFFICES ASSUME printed # <<>>, typed.line.verb = "boot", typed.newline
               PROVE  Means(typed.line.args, printed, chosen')
    BY <1>1 DEF SelectedAsListed
  <2>1. command # Nothing
    BY <1>1 DEF Nothing
  <2>2. command = Parsed(typed.line) /\ command # Failed
    BY <2>1 DEF Conversation, TakenLine
  <2>3. command.device = Arg(typed.line, 1) /\ command.entry = Arg(typed.line, 2)
    BY <2>2, BootParsed
  <2>4. printed = BootDevices
    BY <1>1 DEF Conversation
  <2> QED
    BY <1>1, <2>3, <2>4, SelectedMeant
<1> QED
  BY <1>1, <1>2, <1>3 DEF Conversation

\* What "boot" selects is what "list" printed under the numbers of the line, or the default
\* entry where there are none, after any conversation and any number of probes.
THEOREM SelectionsAsListed == Spec => []SelectedAsListed
<1>1. Init => Conversation
  BY DEF Init, Conversation, SelectedAsListed
<1>2. Conversation /\ Menus /\ [Next]_vars => Conversation'
  <2> SUFFICES ASSUME Conversation, Menus, [Next]_vars PROVE Conversation'
    OBVIOUS
  <2>1. CASE BeginSetup \/ SortDisks \/ SortEntries \/ (\E d \in Disk : SetupDisk(d)) \/ \E f \in unread : Visit(f)
    BY <2>1, ConversationProbing
  <2>2. CASE \E line \in Lines, newline \in BOOLEAN : Type(line, newline)
    BY <2>2, ConversationType
  <2>3. CASE Answer \/ Dmesg \/ End \/ NewLoader \/ List
    BY <2>3, ConversationOther
  <2>4. CASE Boot
    BY <2>4, ConversationBoot
  <2>5. CASE \/ \E d \in Disk, fs \in {"vfat", "iso9660", "ext4"} : Format(d, fs)
             \/ PowerOn
             \/ UNCHANGED vars
    <3>1. /\ pc' = pc \/ (pc = "off" /\ pc' = "shell")
          /\ UNCHANGED <<loader, disks, typed, command, chosen, printed>>
      BY <2>5 DEF Format, PowerOn, probing, user, vars
    <3>2. BootDevices' = BootDevices
      BY <3>1 DEF BootDevices
    <3> QED
      BY <3>1, <3>2 DEF Conversation, SelectedAsListed
  <2> QED
    BY <2>1, <2>2, <2>3, <2>4, <2>5 DEF Next
<1>3. Conversation => SelectedAsListed
  BY DEF Conversation
<1> QED
  BY <1>1, <1>2, <1>3, MenusInvariant, PTL DEF Spec

-----------------------------------------------------------------------------
(* Types. *)

Rest ==
  /\ formats \in 0 .. FormatMax
  /\ \A l \in links : l[2] \in Disk /\ l[3] \in Nat
  /\ pc \in {"off", "shell", "setup", "probe", "over", "aborted"}
  /\ loader \in {"none", "unstarted", "probed"}
  /\ todo \subseteq Disk
  /\ typed.line \in Lines \cup {Empty} /\ typed.newline \in BOOLEAN

LEMMA RestNext ==
  ASSUME Rest, [Next]_vars
  PROVE  Rest'
<1>1. CASE \E d \in Disk, fs \in {"vfat", "iso9660", "ext4"} : Format(d, fs)
  <2>1. /\ formats < FormatMax /\ formats' = formats + 1
        /\ UNCHANGED <<links, pc, loader, todo, typed>>
    BY <1>1 DEF Format, probing, user
  <2>2. formats' \in 0 .. FormatMax
    BY <2>1, MenuAssumption DEF Rest
  <2> QED
    BY <2>1, <2>2 DEF Rest
<1>2. CASE PowerOn
  <2>1. PICK S \in SUBSET Disk : links' = UNION {LinksOf(d, d \in S) : d \in Disk}
    BY <1>2 DEF PowerOn
  <2>2. \A d \in Disk : \A l \in LinksOf(d, d \in S) : l[2] = d /\ l[3] \in 0 .. Len(Table[d].types)
    BY DEF LinksOf
  <2>3. \A l \in links' : l[2] \in Disk /\ l[3] \in Nat
    BY <2>1, <2>2, MenuAssumption
  <2>4. pc' = "shell" /\ UNCHANGED <<formats, loader, todo, typed>>
    BY <1>2 DEF PowerOn, probing, user
  <2> QED
    BY <2>3, <2>4 DEF Rest
<1>3. CASE BeginSetup \/ SortDisks \/ SortEntries \/ (\E d \in Disk : SetupDisk(d)) \/ \E f \in unread : Visit(f)
  <2>1. UNCHANGED <<formats, links, typed>>
    BY <1>3 DEF BeginSetup, SortDisks, SortEntries, SetupDisk, Visit, storage, user
  <2>2. pc' \in {pc, "setup", "probe", "shell"} /\ loader' \in {loader, "probed"}
    BY <1>3 DEF BeginSetup, SortDisks, SortEntries, SetupDisk, Visit, Turn
  <2>3. todo' \subseteq todo \/ todo' = Disk
    BY <1>3 DEF BeginSetup, SortDisks, SortEntries, SetupDisk, Visit
  <2> QED
    BY <2>1, <2>2, <2>3 DEF Rest
<1>4. CASE \E line \in Lines, newline \in BOOLEAN : Type(line, newline)
  <2>1. PICK line \in Lines, newline \in BOOLEAN : Type(line, newline)
    BY <1>4
  <2>2. typed' = [line |-> line, newline |-> newline]
    BY <2>1 DEF Type
  <2>3. typed'.line = line /\ typed'.newline = newline
    BY <2>2
  <2>4. typed'.line \in Lines /\ typed'.newline \in BOOLEAN
    BY <2>1, <2>3, Zenon
  <2>5. UNCHANGED <<formats, links, pc, loader, todo>>
    BY <2>1 DEF Type, storage, probing
  <2> QED
    BY <2>4, <2>5 DEF Rest
<1>5. CASE Answer \/ Dmesg \/ End \/ NewLoader \/ List \/ Boot \/ UNCHANGED vars
  <2>1. UNCHANGED <<formats, links, todo, typed>>
    BY <1>5 DEF Answer, Dmesg, End, NewLoader, List, Boot, storage, probing, user, vars
  <2>2. pc' \in {pc, "shell", "over", "aborted"} /\ loader' \in {loader, "unstarted"}
    BY <1>5 DEF Answer, Dmesg, End, NewLoader, List, Boot, vars
  <2> QED
    BY <2>1, <2>2 DEF Rest
<1> QED
  BY <1>1, <1>2, <1>3, <1>4, <1>5 DEF Next

\* The types, and with them that unread files are those of the disk whose turn it is.
THEOREM MenuTypes == Spec => []TypeOK
<1>1. Init => Rest
  <2> SUFFICES ASSUME Init PROVE Rest
    OBVIOUS
  <2>1. typed.line = Empty /\ typed.newline = TRUE
    BY DEF Init
  <2>2. formats \in 0 .. FormatMax
    BY MenuAssumption DEF Init
  <2> QED
    BY <2>1, <2>2 DEF Init, Rest
<1>2. Rest /\ Menus /\ Recognised => TypeOK
  <2> SUFFICES ASSUME Rest, Menus, Recognised PROVE TypeOK
    OBVIOUS
  <2>1. /\ disks \in Seq(MenuDisk) /\ DOMAIN disks = 1 .. Len(disks) /\ Len(disks) \in Nat
        /\ \A i \in DOMAIN disks : FromFiles(disks[i])
    BY DEF Menus
  <2>2. \A i \in DOMAIN disks :
          /\ disks[i].disk \in Disk /\ disks[i].removable \in BOOLEAN
          /\ \A j \in DOMAIN disks[i].entries : disks[i].entries[j].file \in Files[disks[i].disk]
    <3> TAKE i \in DOMAIN disks
    <3>1. disks[i] \in MenuDisk /\ FromFiles(disks[i])
      BY <2>1
    <3>2. disks[i].disk \in Disk /\ disks[i].removable \in BOOLEAN
      BY <3>1, Zenon DEF MenuDisk
    <3> QED
      BY <3>1, <3>2, Zenon DEF FromFiles
  <2>3. current \in 0 .. Len(disks) /\ (current > 0 <=> pc = "probe")
    BY <2>1 DEF Menus
  <2>4. unread # {} => unread \subseteq Files[disks[current].disk]
    BY DEF Menus
  <2> QED
    BY <2>2, <2>3, <2>4 DEF Rest, Recognised, TypeOK
<1>3. Rest /\ [Next]_vars => Rest'
  BY RestNext
<1> QED
  BY <1>1, <1>2, <1>3, MenusInvariant, RecognisedInvariant, PTL DEF Spec

-----------------------------------------------------------------------------
(* The order of disks. *)

\* The attribute is compared with a text that still has its newline.
LEMMA NoneRemovable == \A d : ~IsRemovable(d)
<1> SUFFICES ASSUME NEW d PROVE ~IsRemovable(d)
  OBVIOUS
<1> DEFINE x == IF d \in Removable THEN "1" ELSE "0"
           text == <<x, "newline">>
<1>1. text # <<>> /\ Last(text) = "newline" /\ Front(text) # <<"1", "newline">>
  <2>1. Len(text) = 2 /\ text[2] = "newline"
    OBVIOUS
  <2>2. Len(Front(text)) = 1
    BY <2>1 DEF Front
  <2>3. Len(<<"1", "newline">>) = 2
    OBVIOUS
  <2> QED
    BY <2>1, <2>2, <2>3 DEF Last
<1>2. IsRemovable(d) <=> Trimmed(text) = <<"1", "newline">>
  BY DEF IsRemovable
<1> QED
  BY <1>1, <1>2 DEF Trimmed

NotRemovable == \A i \in DOMAIN disks : disks[i].removable = FALSE

LEMMA NotRemovableInvariant == Spec => []NotRemovable
<1>1. Init => NotRemovable
  BY DEF Init, NotRemovable
<1>2. NotRemovable /\ Menus /\ [Next]_vars => NotRemovable'
  <2> SUFFICES ASSUME NotRemovable, Menus, [Next]_vars PROVE NotRemovable'
    OBVIOUS
  <2>1. disks \in Seq(MenuDisk) /\ DOMAIN disks = 1 .. Len(disks) /\ Len(disks) \in Nat
    BY DEF Menus
  <2>2. ASSUME NEW d \in Disk, SetupDisk(d)
        PROVE  NotRemovable'
    <3> DEFINE m == [disk |-> d, removable |-> IsRemovable(d), entries |-> <<>>]
    <3>1. m.removable = FALSE
      <4>1. IsRemovable(d) = FALSE
        BY NoneRemovable, Zenon DEF IsRemovable
      <4> QED
        BY <4>1
    <3>2. disks' \in {disks, Append(disks, m)}
      BY <2>2 DEF SetupDisk
    <3> HIDE DEF m
    <3> QED
      BY <2>1, <3>1, <3>2 DEF NotRemovable
  <2>3. CASE SortDisks
    <3>1. PICK p \in Bijection(DOMAIN disks, DOMAIN disks) : disks' = [i \in DOMAIN disks |-> disks[p[i]]]
      BY <2>3 DEF SortDisks, SortBy
    <3>2. p \in [DOMAIN disks -> DOMAIN disks]
      BY <3>1 DEF Bijection, Injection
    <3> QED
      BY <3>1, <3>2 DEF NotRemovable
  <2>4. ASSUME NEW entries, pc = "probe", disks' = [disks EXCEPT ![current].entries = entries]
        PROVE  NotRemovable'
    <3>1. current \in DOMAIN disks
      BY <2>4 DEF Menus
    <3>2. /\ DOMAIN disks' = DOMAIN disks
          /\ disks'[current] = [disks[current] EXCEPT !.entries = entries]
          /\ \A i \in DOMAIN disks : i # current => disks'[i] = disks[i]
      BY <2>1, <2>4, <3>1 DEF MenuDisk
    <3>3. disks[current] \in MenuDisk
      BY <2>1, <3>1
    <3>4. disks'[current].removable = disks[current].removable
      BY <3>2, <3>3, Zenon DEF MenuDisk
    <3> QED
      BY <3>1, <3>2, <3>4 DEF NotRemovable
  <2>5. CASE disks' \in {disks, <<>>}
    BY <2>5 DEF NotRemovable
  <2>6. ASSUME NEW f \in unread, Visit(f) PROVE NotRemovable'
    <3>1. pc = "probe" /\ (disks' = disks \/ \E e : disks' = [disks EXCEPT ![current].entries = e])
      BY <2>6 DEF Visit
    <3> QED
      BY <2>4, <2>5, <3>1
  <2>7. CASE SortEntries
    <3>1. pc = "probe" /\ \E e : disks' = [disks EXCEPT ![current].entries = e]
      BY <2>7 DEF SortEntries
    <3> QED
      BY <2>4, <3>1
  <2>8. CASE \/ \E d \in Disk, fs \in {"vfat", "iso9660", "ext4"} : Format(d, fs)
             \/ \E line \in Lines, newline \in BOOLEAN : Type(line, newline)
             \/ PowerOn \/ BeginSetup \/ Answer \/ Dmesg \/ End \/ NewLoader \/ List \/ Boot \/ UNCHANGED vars
    <3>1. disks' \in {disks, <<>>}
      BY <2>8 DEF Format, Type, PowerOn, BeginSetup, Answer, Dmesg, End, NewLoader, List, Boot, probing, vars
    <3> QED
      BY <2>5, <3>1
  <2> QED
    BY <2>2, <2>3, <2>6, <2>7, <2>8 DEF Next
<1> QED
  BY <1>1, <1>2, MenusInvariant, PTL DEF Spec

\* Of no disk it is known that it is removable, so that sorting by that never moves one,
\* whatever is plugged in: the devices stay in the order in which they were found.
THEOREM DisksNeverMoved == Spec => [][SortDisks => disks' = disks]_vars
<1>1. Menus /\ NotRemovable /\ SortDisks => disks' = disks
  <2> SUFFICES ASSUME Menus, NotRemovable, SortDisks PROVE disks' = disks
    OBVIOUS
  <2> DEFINE n == Len(disks)
  <2>1. n \in Nat /\ DOMAIN disks = 1 .. n /\ disks = [i \in 1 .. n |-> disks[i]]
    BY DEF Menus
  <2> HIDE DEF n
  <2>2. PICK p \in Bijection(1 .. n, 1 .. n) :
          /\ \A i, j \in 1 .. n : i < j =>
               Prior(disks[p[i]], disks[p[j]]) \/ (~Prior(disks[p[j]], disks[p[i]]) /\ p[i] < p[j])
          /\ disks' = [i \in 1 .. n |-> disks[p[i]]]
    BY <2>1 DEF SortDisks, SortBy
  <2>3. p \in [1 .. n -> 1 .. n]
    BY <2>2 DEF Bijection, Injection
  <2>4. \A i, j \in 1 .. n : ~Prior(disks[p[i]], disks[p[j]])
    BY <2>1, <2>3 DEF NotRemovable, Prior
  <2>5. \A i \in 1 .. n : p[i] = i
    BY <2>1, <2>2, <2>4, MonotoneFixed
  <2> QED
    BY <2>1, <2>2, <2>5
<1> QED
  BY <1>1, MenusInvariant, NotRemovableInvariant, PTL

=============================================================================

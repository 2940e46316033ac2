------------------------- MODULE NixosInstallProofs -------------------------
(***************************************************************************)
(* What a run of the installer leaves, for any generations, closures,      *)
(* files and numbers of tries.                                             *)
(***************************************************************************)
EXTENDS NixosInstall, DataProofs

USE CounterAssumption

-----------------------------------------------------------------------------
(* The inductive invariant. *)

Copying == {"sign kernel", "initrd", "sign initrd", "entry"}
Installing == Copying \cup {"kernel"}
Visiting == Installing \cup {"visit", "default"}
Collecting == {"collect files", "collect entries", "done"}

\* The loop variables fit the step, and what they hold belongs to the profiles.
LoopOK ==
  /\ profiles # {} /\ todo \subseteq profiles
  /\ step \in Visiting /\ todo # profiles => gen \in profiles
  /\ step \in Installing \cup {"default"} => todo # profiles
  /\ queue # {} => step \in Visiting /\ todo # profiles
  /\ queue \subseteq {n \in Name : GenerationOf[n] = gen}
  /\ step \in Installing => at \in Name /\ GenerationOf[at] = gen
  /\ step \notin Installing => at = None
  /\ step \in Collecting => todo = {} /\ queue = {}
  /\ step \in Visiting \cup Collecting => timeout \in Nat

\* Entry n is done in this run.
Visited(n) ==
  /\ step \in Visiting \cup Collecting
  /\ GenerationOf[n] \in profiles \ todo /\ n \notin queue /\ n # at

\* Known files are there, and signed but for the one that is being copied.
FilesOK ==
  /\ \A k \in knownFiles : boot[k] # "absent"
  /\ \A k \in knownFiles :
       \/ boot[k] = "signed"
       \/ step = "sign kernel" /\ k = Kernel[at]
       \/ step = "sign initrd" /\ k = Initrd[at]
  /\ step \in Copying => Kernel[at] \in knownFiles
  /\ step \in {"initrd", "sign initrd"} => Initrd[at] # None
  /\ step = "sign initrd" => Initrd[at] \in knownFiles
  /\ step = "entry" => Needs(at) \subseteq knownFiles
  /\ \A n \in Name : Visited(n) => Needs(n) \subseteq knownFiles

\* Entries belong to generations that exist or existed; known ones are fresh.
EntriesOK ==
  /\ \A f \in entries : GenerationOf[f.name] \in profiles \cup collected
  /\ knownEntries \subseteq entries
  /\ \A f \in knownEntries :
       f = Fresh(f.name) /\ GenerationOf[f.name] \in profiles /\ Needs(f.name) \subseteq knownFiles
  /\ step = "done" => entries \subseteq knownEntries

\* What keeps entry n from being written.
Hides(n, m) == m \notin Specialised /\ Begins(GenerationOf[n], GenerationOf[m])

\* An entry that is done is known, or one from before the run or a known one hides it.
HistoryOK ==
  /\ step \in Visiting \cup {"collect files"} =>
       \A f \in entries : f.name \in before \/ f \in knownEntries
  /\ \A n \in Name : Visited(n) =>
       \/ Fresh(n) \in knownEntries
       \/ \E m \in before : Hides(n, m)
       \/ \E f \in knownEntries : Hides(n, f.name)

\* The default line of this run is there once its generation was visited.
ConfOK ==
  step \in Visiting \cup Collecting =>
    /\ todo # profiles => conf.timeout = timeout
    /\ step = "default" => Closure[gen] = default
    /\ \A g \in profiles \ todo :
         Closure[g] = default /\ ~ (step = "default" /\ gen = g) =>
           /\ conf.room = TimeoutWidth(timeout)
           /\ conf.default \in profiles /\ Closure[conf.default] = default

IInv ==
  /\ TypeOK /\ LoopOK /\ FilesOK /\ OnlyOldDangle /\ EntriesOK /\ HistoryOK /\ ConfOK

-----------------------------------------------------------------------------
(* Lemmas about the files. *)

\* The width of a timeout line is a number.
LEMMA TimeoutWidthNat ==
  ASSUME NEW t \in Nat
  PROVE  TimeoutWidth(t) \in Nat
<1> DEFINE S == {k \in 1 .. 9 : 10 ^ k <= t}
<1>1. IsFiniteSet(S)
  <2>1. IsFiniteSet(1 .. 9)
    <3>1. 1 \in Int /\ 9 \in Int
      OBVIOUS
    <3> QED
      BY <3>1, FS_Interval, Zenon
  <2> QED
    BY <2>1, FS_Subset
<1>2. Cardinality(S) \in Nat
  BY <1>1, FS_CardinalityType
<1> QED
  BY <1>2 DEF TimeoutWidth

\* A new entry is a file, and its counter is the one it was installed with.
LEMMA FreshFile ==
  ASSUME NEW n \in Name
  PROVE  Fresh(n) \in File /\ Fresh(n).name = n
  BY InstallAssumption DEF Fresh, File

\* A file that is renamed is still a file of the same entry.
LEMMA RenameKeepsName ==
  ASSUME TypeOK, NEW f \in entries, Rename(f)
  PROVE  \E g \in File : g.name = f.name /\ entries' = (entries \ {f}) \cup {g}
<1>1. f \in File
  BY DEF TypeOK
<1>2. PICK g \in {BadFile(f)} \cup (IF f.left = None THEN {} ELSE {CountedFile(f), GoodFile(f)}) :
        entries' = Renamed(entries, f, g)
  BY DEF Rename
<1>3. g \in File /\ g.name = f.name
  BY <1>1, <1>2, CountedFileType, VerdictType
<1> QED
  BY <1>2, <1>3, RenamedBound

\* loader.conf keeps its shape.
LEMMA ConfTyped ==
  ASSUME TypeOK, NEW t \in Nat, NEW g \in Generation
  PROVE  /\ TimeoutWritten(conf, t) \in [timeout : Nat \cup {None}, default : Generation \cup {None}, room : Nat]
         /\ conf.timeout = t => DefaultWritten(conf, g) \in [timeout : Nat \cup {None}, default : Generation \cup {None}, room : Nat]
<1>1. TimeoutWidth(t) \in Nat
  BY TimeoutWidthNat
<1>2. [NoConf EXCEPT !.timeout = t] \in [timeout : Nat \cup {None}, default : Generation \cup {None}, room : Nat]
  BY DEF NoConf
<1>3. TimeoutWritten(conf, t) \in [timeout : Nat \cup {None}, default : Generation \cup {None}, room : Nat]
  BY <1>2 DEF TimeoutWritten, TypeOK
<1>4. conf.timeout = t => DefaultWritten(conf, g) \in [timeout : Nat \cup {None}, default : Generation \cup {None}, room : Nat]
  BY <1>1 DEF DefaultWritten, TypeOK
<1> QED
  BY <1>3, <1>4

\* The installer copies to names of files.
LEMMA KernelOfAt ==
  ASSUME LoopOK, FilesOK, step \in Installing
  PROVE  /\ at \in Name /\ Kernel[at] \in BootFile
         /\ step \in {"initrd", "sign initrd"} => Initrd[at] \in BootFile
  BY InstallAssumption DEF LoopOK, FilesOK

\* Entries name names of files.
LEMMA NeedsAreFiles ==
  ASSUME TypeOK, NEW f \in entries
  PROVE  f.name \in Name /\ Needs(f.name) \subseteq BootFile
  BY FieldsOfFile, InstallAssumption DEF TypeOK, Needs

-----------------------------------------------------------------------------
(* One lemma per conjunct: a step keeps it. *)

\* The loop variables.
LEMMA LoopStep ==
  ASSUME TypeOK, LoopOK, [Next]_vars
  PROVE  LoopOK'
<1> USE DEF vars, esp, args, known, loop
<1>1. ASSUME NEW g \in Generation, NEW t \in Timeouts, Begin(g, t) PROVE LoopOK'
  BY <1>1, InstallAssumption DEF Begin, LoopOK, TypeOK, Visiting, Installing, Copying, Collecting, EntriesOf
<1>2. ASSUME NEW g \in Generation, Visit(g) PROVE LoopOK'
  BY <1>2 DEF Visit, LoopOK, TypeOK, Visiting, Installing, Copying, Collecting, EntriesOf
<1>3. CASE NameDefault
  BY <1>3 DEF NameDefault, LoopOK, TypeOK, Visiting, Installing, Copying, Collecting, EntriesOf
<1>4. ASSUME NEW n \in Name, Install(n) PROVE LoopOK'
  BY <1>4 DEF Install, LoopOK, TypeOK, Visiting, Installing, Copying, Collecting, EntriesOf
<1>5. CASE CopyKernel
  BY <1>5 DEF CopyKernel, Copy, LoopOK, TypeOK, Visiting, Installing, Copying, Collecting, EntriesOf
<1>6. CASE SignKernel
  BY <1>6 DEF SignKernel, Sign, LoopOK, TypeOK, Visiting, Installing, Copying, Collecting, EntriesOf
<1>7. CASE CopyInitrd
  BY <1>7 DEF CopyInitrd, Copy, LoopOK, TypeOK, Visiting, Installing, Copying, Collecting, EntriesOf
<1>8. CASE SignInitrd
  BY <1>8 DEF SignInitrd, Sign, LoopOK, TypeOK, Visiting, Installing, Copying, Collecting, EntriesOf
<1>9. CASE WriteEntry
  BY <1>9 DEF WriteEntry, LoopOK, TypeOK, Visiting, Installing, Copying, Collecting, EntriesOf
<1>10. CASE EndVisits
  BY <1>10 DEF EndVisits, LoopOK, TypeOK, Visiting, Installing, Copying, Collecting, EntriesOf
<1>11. ASSUME NEW k \in BootFile, DeleteFile(k) PROVE LoopOK'
  BY <1>11 DEF DeleteFile, LoopOK, TypeOK, Visiting, Installing, Copying, Collecting, EntriesOf
<1>12. CASE FilesCollected
  BY <1>12 DEF FilesCollected, LoopOK, TypeOK, Visiting, Installing, Copying, Collecting, EntriesOf
<1>13. ASSUME NEW f \in entries, DeleteEntry(f) PROVE LoopOK'
  BY <1>13 DEF DeleteEntry, LoopOK, TypeOK, Visiting, Installing, Copying, Collecting, EntriesOf
<1>14. CASE Finish
  BY <1>14 DEF Finish, LoopOK, TypeOK, Visiting, Installing, Copying, Collecting, EntriesOf
<1>15. CASE Abort
  BY <1>15 DEF Abort, Forgotten, LoopOK, TypeOK, Visiting, Installing, Copying, Collecting, EntriesOf
<1>16. ASSUME NEW f \in entries, Rename(f) PROVE LoopOK'
  BY <1>16 DEF Rename, Between, Forgotten, LoopOK, TypeOK, Visiting, Installing, Copying, Collecting, EntriesOf
<1>17. ASSUME NEW g \in Generation, AddGeneration(g) PROVE LoopOK'
  BY <1>17 DEF AddGeneration, Between, Forgotten, LoopOK, TypeOK, Visiting, Installing, Copying, Collecting, EntriesOf
<1>18. ASSUME NEW g \in Generation, RemoveGeneration(g) PROVE LoopOK'
  <2>1. profiles' # {} /\ step' = "idle" /\ todo' = {} /\ queue' = {} /\ at' = None
    BY <1>18 DEF RemoveGeneration, Between, Forgotten
  <2> QED
    BY <2>1 DEF LoopOK, Visiting, Installing, Copying, Collecting
<1>19. CASE UNCHANGED vars
  BY <1>19 DEF LoopOK, TypeOK, Visiting, Installing, Copying, Collecting, EntriesOf
<1> QED
  BY <1>1, <1>2, <1>3, <1>4, <1>5, <1>6, <1>7, <1>8, <1>9, <1>10, <1>11, <1>12, <1>13, <1>14, <1>15, <1>16, <1>17, <1>18, <1>19 DEF Next, Run

\* The types.
LEMMA TypeStep ==
  ASSUME TypeOK, LoopOK, FilesOK, ConfOK, [Next]_vars
  PROVE  TypeOK'
<1> USE DEF vars, esp, args, known, loop
<1>1. ASSUME NEW g \in Generation, NEW t \in Timeouts, Begin(g, t) PROVE TypeOK'
  <2>1. before' \subseteq Name
    BY <1>1, FieldsOfFile DEF Begin, TypeOK
  <2> QED
    BY <1>1, <2>1 DEF Begin, TypeOK, Steps
<1>2. ASSUME NEW g \in Generation, Visit(g) PROVE TypeOK'
  <2>1. timeout \in Nat
    BY <1>2 DEF Visit, LoopOK, Visiting
  <2>2. conf' \in [timeout : Nat \cup {None}, default : Generation \cup {None}, room : Nat]
    BY <1>2, <2>1, ConfTyped DEF Visit
  <2> QED
    BY <1>2, <2>2 DEF Visit, TypeOK, Steps, EntriesOf
<1>3. CASE NameDefault
  <2>1. gen \in Generation /\ timeout \in Nat /\ conf.timeout = timeout
    BY <1>3 DEF NameDefault, LoopOK, ConfOK, Visiting, TypeOK
  <2>2. conf' \in [timeout : Nat \cup {None}, default : Generation \cup {None}, room : Nat]
    BY <1>3, <2>1, ConfTyped DEF NameDefault
  <2> QED
    BY <1>3, <2>2 DEF NameDefault, TypeOK, Steps
<1>4. ASSUME NEW n \in Name, Install(n) PROVE TypeOK'
  BY <1>4, InstallAssumption DEF Install, TypeOK, Steps
<1>5. CASE CopyKernel
  <2>1. step \in Installing
    BY <1>5 DEF CopyKernel, Installing, Copying
  <2> QED
    BY <1>5, <2>1, KernelOfAt DEF CopyKernel, Copy, TypeOK, Steps
<1>6. CASE SignKernel
  <2>1. step \in Installing
    BY <1>6 DEF SignKernel, Installing, Copying
  <2> QED
    BY <1>6, <2>1, KernelOfAt DEF SignKernel, Sign, TypeOK, Steps
<1>7. CASE CopyInitrd
  <2>1. step \in Installing
    BY <1>7 DEF CopyInitrd, Installing, Copying
  <2> QED
    BY <1>7, <2>1, KernelOfAt DEF CopyInitrd, Copy, TypeOK, Steps
<1>8. CASE SignInitrd
  <2>1. step \in Installing
    BY <1>8 DEF SignInitrd, Installing, Copying
  <2> QED
    BY <1>8, <2>1, KernelOfAt DEF SignInitrd, Sign, TypeOK, Steps
<1>9. CASE WriteEntry
  <2>1. at \in Name
    BY <1>9 DEF WriteEntry, LoopOK, Installing, Copying
  <2> QED
    BY <1>9, <2>1, FreshFile DEF WriteEntry, TypeOK, Steps
<1>10. CASE EndVisits
  BY <1>10 DEF EndVisits, TypeOK, Steps
<1>11. ASSUME NEW k \in BootFile, DeleteFile(k) PROVE TypeOK'
  BY <1>11 DEF DeleteFile, TypeOK, Steps
<1>12. CASE FilesCollected
  BY <1>12 DEF FilesCollected, TypeOK, Steps
<1>13. ASSUME NEW f \in entries, DeleteEntry(f) PROVE TypeOK'
  BY <1>13 DEF DeleteEntry, TypeOK, Steps
<1>14. CASE Finish
  BY <1>14 DEF Finish, TypeOK, Steps
<1>15. CASE Abort
  BY <1>15 DEF Abort, Forgotten, TypeOK, Steps
<1>16. ASSUME NEW f \in entries, Rename(f) PROVE TypeOK'
  <2>1. entries' \subseteq File
    BY <1>16, RenameKeepsName DEF TypeOK
  <2> QED
    BY <1>16, <2>1 DEF Rename, Between, Forgotten, TypeOK, Steps
<1>17. ASSUME NEW g \in Generation, AddGeneration(g) PROVE TypeOK'
  BY <1>17 DEF AddGeneration, Between, Forgotten, TypeOK, Steps
<1>18. ASSUME NEW g \in Generation, RemoveGeneration(g) PROVE TypeOK'
  BY <1>18 DEF RemoveGeneration, Between, Forgotten, TypeOK, Steps
<1>19. CASE UNCHANGED vars
  BY <1>19 DEF TypeOK, Steps
<1> QED
  BY <1>1, <1>2, <1>3, <1>4, <1>5, <1>6, <1>7, <1>8, <1>9, <1>10, <1>11, <1>12, <1>13, <1>14, <1>15, <1>16, <1>17, <1>18, <1>19 DEF Next, Run

\* The entries.
LEMMA EntriesStep ==
  ASSUME IInv, [Next]_vars
  PROVE  EntriesOK'
<1> USE DEF vars, esp, args, known, loop
<1>1. ASSUME NEW g \in Generation, NEW t \in Timeouts, Begin(g, t) PROVE EntriesOK'
  BY <1>1 DEF Begin, IInv, EntriesOK, LoopOK, Visiting, Installing, Copying, Collecting
<1>2. ASSUME NEW g \in Generation, Visit(g) PROVE EntriesOK'
  BY <1>2 DEF Visit, IInv, EntriesOK, LoopOK, Visiting, Installing, Copying, Collecting
<1>3. CASE NameDefault
  BY <1>3 DEF NameDefault, IInv, EntriesOK, LoopOK, Visiting, Installing, Copying, Collecting
<1>4. ASSUME NEW n \in Name, Install(n) PROVE EntriesOK'
  BY <1>4 DEF Install, IInv, EntriesOK, LoopOK, Visiting, Installing, Copying, Collecting
<1>5. CASE CopyKernel
  BY <1>5 DEF CopyKernel, Copy, IInv, EntriesOK
<1>6. CASE SignKernel
  BY <1>6 DEF SignKernel, Sign, IInv, EntriesOK
<1>7. CASE CopyInitrd
  BY <1>7 DEF CopyInitrd, Copy, IInv, EntriesOK
<1>8. CASE SignInitrd
  BY <1>8 DEF SignInitrd, Sign, IInv, EntriesOK
<1>9. CASE WriteEntry
  <2>1. at \in Name /\ GenerationOf[at] \in profiles /\ Needs(at) \subseteq knownFiles
    BY <1>9 DEF WriteEntry, IInv, LoopOK, FilesOK, Installing, Copying, Visiting
  <2>2. Fresh(at).name = at
    BY <2>1, FreshFile
  <2> QED
    BY <1>9, <2>1, <2>2 DEF WriteEntry, IInv, EntriesOK
<1>10. CASE EndVisits
  BY <1>10 DEF EndVisits, IInv, EntriesOK, LoopOK, Visiting, Installing, Copying, Collecting
<1>11. ASSUME NEW k \in BootFile, DeleteFile(k) PROVE EntriesOK'
  BY <1>11 DEF DeleteFile, IInv, EntriesOK, LoopOK, Visiting, Installing, Copying, Collecting
<1>12. CASE FilesCollected
  BY <1>12 DEF FilesCollected, IInv, EntriesOK, LoopOK, Visiting, Installing, Copying, Collecting
<1>13. ASSUME NEW f \in entries, DeleteEntry(f) PROVE EntriesOK'
  BY <1>13 DEF DeleteEntry, IInv, EntriesOK, LoopOK, Visiting, Installing, Copying, Collecting
<1>14. CASE Finish
  BY <1>14 DEF Finish, IInv, EntriesOK
<1>15. CASE Abort
  BY <1>15 DEF Abort, Forgotten, IInv, EntriesOK, LoopOK, Visiting, Installing, Copying, Collecting
<1>16. ASSUME NEW f \in entries, Rename(f) PROVE EntriesOK'
  <2>1. PICK g \in File : g.name = f.name /\ entries' = (entries \ {f}) \cup {g}
    BY <1>16, RenameKeepsName DEF IInv
  <2> QED
    BY <1>16, <2>1 DEF Rename, Between, Forgotten, IInv, EntriesOK
<1>17. ASSUME NEW g \in Generation, AddGeneration(g) PROVE EntriesOK'
  BY <1>17 DEF AddGeneration, Between, Forgotten, IInv, EntriesOK, LoopOK, Visiting, Installing, Copying, Collecting
<1>18. ASSUME NEW g \in Generation, RemoveGeneration(g) PROVE EntriesOK'
  BY <1>18 DEF RemoveGeneration, Between, Forgotten, IInv, EntriesOK, LoopOK, Visiting, Installing, Copying, Collecting
<1>19. CASE UNCHANGED vars
  BY <1>19 DEF IInv, EntriesOK, LoopOK, Visiting, Installing, Copying, Collecting
<1> QED
  BY <1>1, <1>2, <1>3, <1>4, <1>5, <1>6, <1>7, <1>8, <1>9, <1>10, <1>11, <1>12, <1>13, <1>14, <1>15, <1>16, <1>17, <1>18, <1>19 DEF Next, Run

\* No entry of a generation that exists dangles.
LEMMA OnlyOldStep ==
  ASSUME IInv, [Next]_vars
  PROVE  OnlyOldDangle'
<1> USE DEF vars, esp, args, known, loop
<1>1. ASSUME NEW g \in Generation, NEW t \in Timeouts, Begin(g, t) PROVE OnlyOldDangle'
  BY <1>1 DEF Begin, IInv, OnlyOldDangle
<1>2. ASSUME NEW g \in Generation, Visit(g) PROVE OnlyOldDangle'
  BY <1>2 DEF Visit, IInv, OnlyOldDangle
<1>3. CASE NameDefault
  BY <1>3 DEF NameDefault, IInv, OnlyOldDangle
<1>4. ASSUME NEW n \in Name, Install(n) PROVE OnlyOldDangle'
  BY <1>4 DEF Install, IInv, OnlyOldDangle
<1>5. CASE CopyKernel
  <2>1. \A f \in entries : \A q \in Needs(f.name) : q \in BootFile
    BY NeedsAreFiles DEF IInv
  <2> QED
    BY <1>5, <2>1 DEF CopyKernel, Copy, IInv, OnlyOldDangle, TypeOK
<1>6. CASE SignKernel
  <2>1. \A f \in entries : \A q \in Needs(f.name) : q \in BootFile
    BY NeedsAreFiles DEF IInv
  <2> QED
    BY <1>6, <2>1 DEF SignKernel, Sign, IInv, OnlyOldDangle, TypeOK
<1>7. CASE CopyInitrd
  <2>1. \A f \in entries : \A q \in Needs(f.name) : q \in BootFile
    BY NeedsAreFiles DEF IInv
  <2> QED
    BY <1>7, <2>1 DEF CopyInitrd, Copy, IInv, OnlyOldDangle, TypeOK
<1>8. CASE SignInitrd
  <2>1. \A f \in entries : \A q \in Needs(f.name) : q \in BootFile
    BY NeedsAreFiles DEF IInv
  <2> QED
    BY <1>8, <2>1 DEF SignInitrd, Sign, IInv, OnlyOldDangle, TypeOK
<1>9. CASE WriteEntry
  <2>1. at \in Name /\ Needs(at) \subseteq knownFiles
    BY <1>9 DEF WriteEntry, IInv, LoopOK, FilesOK, Installing, Copying
  <2>2. \A q \in Needs(at) : boot[q] # "absent"
    BY <2>1 DEF IInv, FilesOK
  <2>3. Fresh(at).name = at
    BY <2>1, FreshFile
  <2> QED
    BY <1>9, <2>2, <2>3 DEF WriteEntry, IInv, OnlyOldDangle
<1>10. CASE EndVisits
  BY <1>10 DEF EndVisits, IInv, OnlyOldDangle
<1>11. ASSUME NEW k \in BootFile, DeleteFile(k) PROVE OnlyOldDangle'
  <2>1. ASSUME NEW f \in entries, GenerationOf[f.name] \in profiles
        PROVE  k \notin Needs(f.name)
    <3>1. f.name \in Name
      BY FieldsOfFile DEF IInv, TypeOK
    <3>2. Visited(f.name)
      BY <1>11, <2>1, <3>1 DEF DeleteFile, Visited, IInv, LoopOK, Collecting, Installing, Copying
    <3> QED
      BY <1>11, <3>1, <3>2 DEF DeleteFile, IInv, FilesOK
  <2> QED
    BY <1>11, <2>1, NeedsAreFiles DEF DeleteFile, IInv, OnlyOldDangle, TypeOK
<1>12. CASE FilesCollected
  BY <1>12 DEF FilesCollected, IInv, OnlyOldDangle
<1>13. ASSUME NEW f \in entries, DeleteEntry(f) PROVE OnlyOldDangle'
  BY <1>13 DEF DeleteEntry, IInv, OnlyOldDangle
<1>14. CASE Finish
  BY <1>14 DEF Finish, IInv, OnlyOldDangle
<1>15. CASE Abort
  BY <1>15 DEF Abort, Forgotten, IInv, OnlyOldDangle
<1>16. ASSUME NEW f \in entries, Rename(f) PROVE OnlyOldDangle'
  <2>1. PICK g \in File : g.name = f.name /\ entries' = (entries \ {f}) \cup {g}
    BY <1>16, RenameKeepsName DEF IInv
  <2> QED
    BY <1>16, <2>1 DEF Rename, Between, IInv, OnlyOldDangle
<1>17. ASSUME NEW g \in Generation, AddGeneration(g) PROVE OnlyOldDangle'
  <2>1. \A f \in entries : GenerationOf[f.name] # g
    BY <1>17 DEF AddGeneration, IInv, EntriesOK
  <2> QED
    BY <1>17, <2>1 DEF AddGeneration, Between, IInv, OnlyOldDangle
<1>18. ASSUME NEW g \in Generation, RemoveGeneration(g) PROVE OnlyOldDangle'
  BY <1>18 DEF RemoveGeneration, Between, Forgotten, IInv, OnlyOldDangle
<1>19. CASE UNCHANGED vars
  BY <1>19 DEF IInv, OnlyOldDangle
<1> QED
  BY <1>1, <1>2, <1>3, <1>4, <1>5, <1>6, <1>7, <1>8, <1>9, <1>10, <1>11, <1>12, <1>13, <1>14, <1>15, <1>16, <1>17, <1>18, <1>19 DEF Next, Run

\* The files of the run.
LEMMA FilesStep ==
  ASSUME IInv, [Next]_vars
  PROVE  FilesOK'
<1> USE DEF vars, esp, args, known, loop
<1>1. ASSUME NEW g \in Generation, NEW t \in Timeouts, Begin(g, t) PROVE FilesOK'
  BY <1>1 DEF Begin, IInv, FilesOK, Visited, Visiting, Installing, Copying, Collecting
<1>2. ASSUME NEW g \in Generation, Visit(g) PROVE FilesOK'
  <2>1. \A m \in Name : Visited(m)' => Visited(m)
    BY <1>2 DEF Visit, Visited, EntriesOf, IInv, LoopOK, Visiting, Installing, Copying, Collecting
  <2> QED
    BY <1>2, <2>1 DEF Visit, IInv, FilesOK, Visiting, Installing, Copying, Collecting
<1>3. CASE NameDefault
  <2>1. \A m \in Name : Visited(m)' => Visited(m)
    BY <1>3 DEF NameDefault, Visited, EntriesOf, IInv, LoopOK, Visiting, Installing, Copying, Collecting
  <2> QED
    BY <1>3, <2>1 DEF NameDefault, IInv, FilesOK, Visiting, Installing, Copying, Collecting
<1>4. ASSUME NEW n \in Name, Install(n) PROVE FilesOK'
  <2>1. \A m \in Name : Visited(m)' => Visited(m)
    BY <1>4 DEF Install, Visited, EntriesOf, IInv, LoopOK, Visiting, Installing, Copying, Collecting
  <2> QED
    BY <1>4, <2>1 DEF Install, IInv, FilesOK, Visiting, Installing, Copying, Collecting
<1>5. CASE CopyKernel
  <2>1. \A m \in Name : Visited(m)' => Visited(m)
    BY <1>5 DEF CopyKernel, Copy, Visited, IInv, LoopOK, Visiting, Installing, Copying, Collecting
  <2>2. Kernel[at] \in BootFile /\ Kernel[at] # None
    BY <1>5, KernelOfAt, InstallAssumption DEF CopyKernel, IInv, Installing, Copying
  <2>3. /\ knownFiles' = knownFiles \cup {Kernel[at]} /\ boot'[Kernel[at]] = "unsigned"
        /\ \A q \in knownFiles \ {Kernel[at]} : boot'[q] = boot[q]
        /\ at' = at /\ step' = "sign kernel"
    BY <1>5, <2>2 DEF CopyKernel, Copy, IInv, TypeOK
  <2> QED
    BY <1>5, <2>1, <2>2, <2>3 DEF CopyKernel, IInv, FilesOK, Visiting, Installing, Copying, Collecting
<1>6. CASE SignKernel
  <2>1. \A m \in Name : Visited(m)' => Visited(m)
    BY <1>6 DEF SignKernel, Sign, Visited, IInv, LoopOK, Visiting, Installing, Copying, Collecting
  <2>2. Kernel[at] \in BootFile
    BY <1>6, KernelOfAt DEF SignKernel, IInv, Installing, Copying
  <2>3. /\ knownFiles' = knownFiles /\ boot'[Kernel[at]] = "signed" /\ at' = at
        /\ \A q \in knownFiles \ {Kernel[at]} : boot'[q] = boot[q]
    BY <1>6, <2>2 DEF SignKernel, Sign, IInv, TypeOK
  <2> QED
    BY <1>6, <2>1, <2>3 DEF SignKernel, Needs, IInv, FilesOK, Visiting, Installing, Copying, Collecting
<1>7. CASE CopyInitrd
  <2>1. \A m \in Name : Visited(m)' => Visited(m)
    BY <1>7 DEF CopyInitrd, Copy, Visited, IInv, LoopOK, Visiting, Installing, Copying, Collecting
  <2>2. Initrd[at] \in BootFile /\ Initrd[at] # None
    BY <1>7, KernelOfAt, InstallAssumption DEF CopyInitrd, IInv, Installing, Copying
  <2>3. /\ knownFiles' = knownFiles \cup {Initrd[at]} /\ boot'[Initrd[at]] = "unsigned"
        /\ \A q \in knownFiles \ {Initrd[at]} : boot'[q] = boot[q]
        /\ at' = at /\ step' = "sign initrd"
    BY <1>7, <2>2 DEF CopyInitrd, Copy, IInv, TypeOK
  <2> QED
    BY <1>7, <2>1, <2>2, <2>3 DEF CopyInitrd, IInv, FilesOK, Visiting, Installing, Copying, Collecting
<1>8. CASE SignInitrd
  <2>1. \A m \in Name : Visited(m)' => Visited(m)
    BY <1>8 DEF SignInitrd, Sign, Visited, IInv, LoopOK, Visiting, Installing, Copying, Collecting
  <2>2. Initrd[at] \in BootFile
    BY <1>8, KernelOfAt DEF SignInitrd, IInv, Installing, Copying
  <2>3. /\ knownFiles' = knownFiles /\ boot'[Initrd[at]] = "signed" /\ at' = at
        /\ \A q \in knownFiles \ {Initrd[at]} : boot'[q] = boot[q]
    BY <1>8, <2>2 DEF SignInitrd, Sign, IInv, TypeOK
  <2> QED
    BY <1>8, <2>1, <2>3 DEF SignInitrd, Needs, IInv, FilesOK, Visiting, Installing, Copying, Collecting
<1>9. CASE WriteEntry
  <2>1. \A m \in Name : Visited(m)' => Visited(m) \/ m = at
    BY <1>9 DEF WriteEntry, Visited, IInv, LoopOK, Visiting, Installing, Copying, Collecting
  <2> QED
    BY <1>9, <2>1 DEF WriteEntry, IInv, FilesOK, Visiting, Installing, Copying, Collecting
<1>10. CASE EndVisits
  <2>1. \A m \in Name : Visited(m)' => Visited(m)
    BY <1>10 DEF EndVisits, Visited, EntriesOf, IInv, LoopOK, Visiting, Installing, Copying, Collecting
  <2> QED
    BY <1>10, <2>1 DEF EndVisits, IInv, FilesOK, Visiting, Installing, Copying, Collecting
<1>11. ASSUME NEW k \in BootFile, DeleteFile(k) PROVE FilesOK'
  <2>1. \A m \in Name : Visited(m)' => Visited(m)
    BY <1>11 DEF DeleteFile, Visited, IInv, LoopOK, Visiting, Installing, Copying, Collecting
  <2>2. \A q \in knownFiles : boot'[q] = boot[q]
    BY <1>11 DEF DeleteFile, IInv, TypeOK
  <2> QED
    BY <1>11, <2>1, <2>2 DEF DeleteFile, IInv, FilesOK, Visiting, Installing, Copying, Collecting
<1>12. CASE FilesCollected
  <2>1. \A m \in Name : Visited(m)' => Visited(m)
    BY <1>12 DEF FilesCollected, Visited, EntriesOf, IInv, LoopOK, Visiting, Installing, Copying, Collecting
  <2> QED
    BY <1>12, <2>1 DEF FilesCollected, IInv, FilesOK, Visiting, Installing, Copying, Collecting
<1>13. ASSUME NEW f \in entries, DeleteEntry(f) PROVE FilesOK'
  <2>1. \A m \in Name : Visited(m)' => Visited(m)
    BY <1>13 DEF DeleteEntry, Visited, EntriesOf, IInv, LoopOK, Visiting, Installing, Copying, Collecting
  <2> QED
    BY <1>13, <2>1 DEF DeleteEntry, IInv, FilesOK, Visiting, Installing, Copying, Collecting
<1>14. CASE Finish
  <2>1. \A m \in Name : Visited(m)' => Visited(m)
    BY <1>14 DEF Finish, Visited, EntriesOf, IInv, LoopOK, Visiting, Installing, Copying, Collecting
  <2> QED
    BY <1>14, <2>1 DEF Finish, IInv, FilesOK, Visiting, Installing, Copying, Collecting
<1>15. CASE Abort
  BY <1>15 DEF Abort, Forgotten, IInv, FilesOK, Visited, Visiting, Installing, Copying, Collecting
<1>16. ASSUME NEW f \in entries, Rename(f) PROVE FilesOK'
  BY <1>16 DEF Rename, Between, Forgotten, IInv, FilesOK, Visited, Visiting, Installing, Copying, Collecting
<1>17. ASSUME NEW g \in Generation, AddGeneration(g) PROVE FilesOK'
  BY <1>17 DEF AddGeneration, Between, Forgotten, IInv, FilesOK, Visited, Visiting, Installing, Copying, Collecting
<1>18. ASSUME NEW g \in Generation, RemoveGeneration(g) PROVE FilesOK'
  BY <1>18 DEF RemoveGeneration, Between, Forgotten, IInv, FilesOK, Visited, Visiting, Installing, Copying, Collecting
<1>19. CASE UNCHANGED vars
  BY <1>19 DEF IInv, FilesOK, Visited, Visiting, Installing, Copying, Collecting
<1> QED
  BY <1>1, <1>2, <1>3, <1>4, <1>5, <1>6, <1>7, <1>8, <1>9, <1>10, <1>11, <1>12, <1>13, <1>14, <1>15, <1>16, <1>17, <1>18, <1>19 DEF Next, Run

\* What became of the entries of this run.
LEMMA HistoryStep ==
  ASSUME IInv, [Next]_vars
  PROVE  HistoryOK'
<1> USE DEF vars, esp, args, known, loop
<1>1. ASSUME NEW g \in Generation, NEW t \in Timeouts, Begin(g, t) PROVE HistoryOK'
  <2>1. \A f \in entries : f.name \in before'
    BY <1>1 DEF Begin
  <2> QED
    BY <1>1, <2>1 DEF Begin, Visited, IInv, HistoryOK, Visiting, Installing, Copying, Collecting
<1>2. ASSUME NEW g \in Generation, Visit(g) PROVE HistoryOK'
  <2>1. \A m \in Name : Visited(m)' => Visited(m)
    BY <1>2 DEF Visit, Visited, EntriesOf, IInv, LoopOK, Visiting, Installing, Copying, Collecting
  <2> QED
    BY <1>2, <2>1 DEF Visit, IInv, HistoryOK, Hides, Fresh, Visiting, Installing, Copying, Collecting
<1>3. CASE NameDefault
  <2>1. \A m \in Name : Visited(m)' => Visited(m)
    BY <1>3 DEF NameDefault, Visited, EntriesOf, IInv, LoopOK, Visiting, Installing, Copying, Collecting
  <2> QED
    BY <1>3, <2>1 DEF NameDefault, IInv, HistoryOK, Hides, Fresh, Visiting, Installing, Copying, Collecting
<1>4. ASSUME NEW n \in Name, Install(n) PROVE HistoryOK'
  <2>1. \A m \in Name : Visited(m)' => Visited(m)
    BY <1>4 DEF Install, Visited, EntriesOf, IInv, LoopOK, Visiting, Installing, Copying, Collecting
  <2> QED
    BY <1>4, <2>1 DEF Install, IInv, HistoryOK, Hides, Fresh, Visiting, Installing, Copying, Collecting
<1>5. CASE CopyKernel
  <2>1. \A m \in Name : Visited(m)' => Visited(m)
    BY <1>5 DEF CopyKernel, Copy, Visited, EntriesOf, IInv, LoopOK, Visiting, Installing, Copying, Collecting
  <2> QED
    BY <1>5, <2>1 DEF CopyKernel, Copy, IInv, HistoryOK, Hides, Fresh, Visiting, Installing, Copying, Collecting
<1>6. CASE SignKernel
  <2>1. \A m \in Name : Visited(m)' => Visited(m)
    BY <1>6 DEF SignKernel, Sign, Visited, EntriesOf, IInv, LoopOK, Visiting, Installing, Copying, Collecting
  <2> QED
    BY <1>6, <2>1 DEF SignKernel, Sign, IInv, HistoryOK, Hides, Fresh, Visiting, Installing, Copying, Collecting
<1>7. CASE CopyInitrd
  <2>1. \A m \in Name : Visited(m)' => Visited(m)
    BY <1>7 DEF CopyInitrd, Copy, Visited, EntriesOf, IInv, LoopOK, Visiting, Installing, Copying, Collecting
  <2> QED
    BY <1>7, <2>1 DEF CopyInitrd, Copy, IInv, HistoryOK, Hides, Fresh, Visiting, Installing, Copying, Collecting
<1>8. CASE SignInitrd
  <2>1. \A m \in Name : Visited(m)' => Visited(m)
    BY <1>8 DEF SignInitrd, Sign, Visited, EntriesOf, IInv, LoopOK, Visiting, Installing, Copying, Collecting
  <2> QED
    BY <1>8, <2>1 DEF SignInitrd, Sign, IInv, HistoryOK, Hides, Fresh, Visiting, Installing, Copying, Collecting
<1>9. CASE WriteEntry
  <2>1. \A m \in Name : Visited(m)' => Visited(m) \/ m = at
    BY <1>9 DEF WriteEntry, Visited, IInv, LoopOK, Visiting, Installing, Copying, Collecting
  <2>2. at \in Name /\ Fresh(at).name = at
    BY <1>9, FreshFile DEF WriteEntry, IInv, LoopOK, Installing, Copying
  <2>3. /\ knownEntries \subseteq knownEntries' /\ before' = before /\ step = "entry"
        /\ \A f \in entries' : f \in entries \/ f \in knownEntries'
    BY <1>9 DEF WriteEntry
  <2>4. ASSUME Existing(at) # {}
        PROVE  (\E m \in before : Hides(at, m)) \/ (\E f \in knownEntries : Hides(at, f.name))
    <3>1. PICK f \in entries : Hides(at, f.name)
      BY <2>4 DEF Existing, Hides
    <3> QED
      BY <2>3, <3>1 DEF IInv, HistoryOK, Visiting, Installing, Copying, Collecting
  <2>5. Existing(at) = {} => Fresh(at) \in knownEntries'
    BY <1>9 DEF WriteEntry
  <2>6. \A m \in Name : Fresh(m)' = Fresh(m)
    BY DEF Fresh
  <2> QED
    BY <2>1, <2>2, <2>3, <2>4, <2>5, <2>6 DEF IInv, HistoryOK, Hides, Visiting, Installing, Copying, Collecting
<1>10. CASE EndVisits
  <2>1. \A m \in Name : Visited(m)' => Visited(m)
    BY <1>10 DEF EndVisits, Visited, EntriesOf, IInv, LoopOK, Visiting, Installing, Copying, Collecting
  <2> QED
    BY <1>10, <2>1 DEF EndVisits, IInv, HistoryOK, Hides, Fresh, Visiting, Installing, Copying, Collecting
<1>11. ASSUME NEW k \in BootFile, DeleteFile(k) PROVE HistoryOK'
  <2>1. \A m \in Name : Visited(m)' => Visited(m)
    BY <1>11 DEF DeleteFile, Visited, EntriesOf, IInv, LoopOK, Visiting, Installing, Copying, Collecting
  <2> QED
    BY <1>11, <2>1 DEF DeleteFile, IInv, HistoryOK, Hides, Fresh, Visiting, Installing, Copying, Collecting
<1>12. CASE FilesCollected
  <2>1. \A m \in Name : Visited(m)' => Visited(m)
    BY <1>12 DEF FilesCollected, Visited, EntriesOf, IInv, LoopOK, Visiting, Installing, Copying, Collecting
  <2> QED
    BY <1>12, <2>1 DEF FilesCollected, IInv, HistoryOK, Hides, Fresh, Visiting, Installing, Copying, Collecting
<1>13. ASSUME NEW f \in entries, DeleteEntry(f) PROVE HistoryOK'
  <2>1. \A m \in Name : Visited(m)' => Visited(m)
    BY <1>13 DEF DeleteEntry, Visited, IInv, LoopOK, Visiting, Installing, Copying, Collecting
  <2> QED
    BY <1>13, <2>1 DEF DeleteEntry, IInv, HistoryOK, Hides, Fresh, Visiting, Installing, Copying, Collecting
<1>14. CASE Finish
  <2>1. \A m \in Name : Visited(m)' => Visited(m)
    BY <1>14 DEF Finish, Visited, EntriesOf, IInv, LoopOK, Visiting, Installing, Copying, Collecting
  <2> QED
    BY <1>14, <2>1 DEF Finish, IInv, HistoryOK, Hides, Fresh, Visiting, Installing, Copying, Collecting
<1>15. CASE Abort
  BY <1>15 DEF Abort, Forgotten, HistoryOK, Visited, Visiting, Installing, Copying, Collecting
<1>16. ASSUME NEW f \in entries, Rename(f) PROVE HistoryOK'
  BY <1>16 DEF Rename, Between, Forgotten, HistoryOK, Visited, Visiting, Installing, Copying, Collecting
<1>17. ASSUME NEW g \in Generation, AddGeneration(g) PROVE HistoryOK'
  BY <1>17 DEF AddGeneration, Between, Forgotten, HistoryOK, Visited, Visiting, Installing, Copying, Collecting
<1>18. ASSUME NEW g \in Generation, RemoveGeneration(g) PROVE HistoryOK'
  BY <1>18 DEF RemoveGeneration, Between, Forgotten, HistoryOK, Visited, Visiting, Installing, Copying, Collecting
<1>19. CASE UNCHANGED vars
  BY <1>19 DEF IInv, HistoryOK, Visited, Visiting, Installing, Copying, Collecting
<1> QED
  BY <1>1, <1>2, <1>3, <1>4, <1>5, <1>6, <1>7, <1>8, <1>9, <1>10, <1>11, <1>12, <1>13, <1>14, <1>15, <1>16, <1>17, <1>18, <1>19 DEF Next, Run

\* loader.conf.
LEMMA ConfStep ==
  ASSUME IInv, [Next]_vars
  PROVE  ConfOK'
<1> USE DEF vars, esp, args, known, loop
<1>1. ASSUME NEW g \in Generation, NEW t \in Timeouts, Begin(g, t) PROVE ConfOK'
  BY <1>1 DEF Begin, ConfOK, Visiting, Installing, Copying, Collecting
<1>2. ASSUME NEW g \in Generation, Visit(g) PROVE ConfOK'
  <2> DEFINE W == TimeoutWidth(timeout)
  <2>1. timeout \in Nat /\ W \in Nat
    BY <1>2, TimeoutWidthNat DEF Visit, IInv, LoopOK, Visiting
  <2>2. conf' = TimeoutWritten(conf, timeout) /\ timeout' = timeout /\ profiles' = profiles /\ default' = default
    BY <1>2 DEF Visit
  <2>3. conf'.timeout = timeout
    BY <2>2 DEF TimeoutWritten, NoConf, IInv, TypeOK
  <2>4. conf.room = W => conf'.room = W /\ conf'.default = conf.default
    BY <2>1, <2>2 DEF TimeoutWritten, IInv, TypeOK
  <2>5. TimeoutWidth(timeout)' = W
    BY <2>2 DEF TimeoutWidth
  <2> HIDE DEF W
  <2> QED
    BY <1>2, <2>2, <2>3, <2>4, <2>5 DEF Visit, W, IInv, ConfOK, LoopOK, Visiting, Installing, Copying, Collecting
<1>3. CASE NameDefault
  <2>1. conf' = DefaultWritten(conf, gen) /\ timeout' = timeout /\ profiles' = profiles
    BY <1>3 DEF NameDefault
  <2>2. gen \in profiles /\ Closure[gen] = default /\ conf.timeout = timeout
    BY <1>3 DEF NameDefault, IInv, LoopOK, ConfOK, Visiting
  <2>3. /\ conf'.timeout = timeout /\ conf'.default = gen /\ conf'.room = TimeoutWidth(timeout)
    BY <2>1, <2>2 DEF DefaultWritten, IInv, TypeOK
  <2>4. TimeoutWidth(timeout)' = TimeoutWidth(timeout)
    BY <2>1 DEF TimeoutWidth
  <2> QED
    BY <1>3, <2>2, <2>3, <2>4 DEF NameDefault, ConfOK
<1>4. ASSUME NEW n \in Name, Install(n) PROVE ConfOK'
  <2>1. TimeoutWidth(timeout)' = TimeoutWidth(timeout)
    BY <1>4 DEF Install, TimeoutWidth
  <2> QED
    BY <1>4, <2>1 DEF Install, IInv, ConfOK, LoopOK, Visiting, Installing, Copying, Collecting
<1>5. CASE CopyKernel
  <2>1. TimeoutWidth(timeout)' = TimeoutWidth(timeout)
    BY <1>5 DEF CopyKernel, Copy, TimeoutWidth
  <2> QED
    BY <1>5, <2>1 DEF CopyKernel, Copy, IInv, ConfOK, LoopOK, Visiting, Installing, Copying, Collecting
<1>6. CASE SignKernel
  <2>1. TimeoutWidth(timeout)' = TimeoutWidth(timeout)
    BY <1>6 DEF SignKernel, Sign, TimeoutWidth
  <2> QED
    BY <1>6, <2>1 DEF SignKernel, Sign, IInv, ConfOK, LoopOK, Visiting, Installing, Copying, Collecting
<1>7. CASE CopyInitrd
  <2>1. TimeoutWidth(timeout)' = TimeoutWidth(timeout)
    BY <1>7 DEF CopyInitrd, Copy, TimeoutWidth
  <2> QED
    BY <1>7, <2>1 DEF CopyInitrd, Copy, IInv, ConfOK, LoopOK, Visiting, Installing, Copying, Collecting
<1>8. CASE SignInitrd
  <2>1. TimeoutWidth(timeout)' = TimeoutWidth(timeout)
    BY <1>8 DEF SignInitrd, Sign, TimeoutWidth
  <2> QED
    BY <1>8, <2>1 DEF SignInitrd, Sign, IInv, ConfOK, LoopOK, Visiting, Installing, Copying, Collecting
<1>9. CASE WriteEntry
  <2>1. TimeoutWidth(timeout)' = TimeoutWidth(timeout)
    BY <1>9 DEF WriteEntry, TimeoutWidth
  <2> QED
    BY <1>9, <2>1 DEF WriteEntry, IInv, ConfOK, LoopOK, Visiting, Installing, Copying, Collecting
<1>10. CASE EndVisits
  <2>1. TimeoutWidth(timeout)' = TimeoutWidth(timeout)
    BY <1>10 DEF EndVisits, TimeoutWidth
  <2> QED
    BY <1>10, <2>1 DEF EndVisits, IInv, ConfOK, LoopOK, Visiting, Installing, Copying, Collecting
<1>11. ASSUME NEW k \in BootFile, DeleteFile(k) PROVE ConfOK'
  <2>1. TimeoutWidth(timeout)' = TimeoutWidth(timeout)
    BY <1>11 DEF DeleteFile, TimeoutWidth
  <2> QED
    BY <1>11, <2>1 DEF DeleteFile, IInv, ConfOK, LoopOK, Visiting, Installing, Copying, Collecting
<1>12. CASE FilesCollected
  <2>1. TimeoutWidth(timeout)' = TimeoutWidth(timeout)
    BY <1>12 DEF FilesCollected, TimeoutWidth
  <2> QED
    BY <1>12, <2>1 DEF FilesCollected, IInv, ConfOK, LoopOK, Visiting, Installing, Copying, Collecting
<1>13. ASSUME NEW f \in entries, DeleteEntry(f) PROVE ConfOK'
  <2>1. TimeoutWidth(timeout)' = TimeoutWidth(timeout)
    BY <1>13 DEF DeleteEntry, TimeoutWidth
  <2> QED
    BY <1>13, <2>1 DEF DeleteEntry, IInv, ConfOK, LoopOK, Visiting, Installing, Copying, Collecting
<1>14. CASE Finish
  <2>1. TimeoutWidth(timeout)' = TimeoutWidth(timeout)
    BY <1>14 DEF Finish, TimeoutWidth
  <2> QED
    BY <1>14, <2>1 DEF Finish, IInv, ConfOK, LoopOK, Visiting, Installing, Copying, Collecting
<1>15. CASE Abort
  BY <1>15 DEF Abort, Forgotten, ConfOK, Visiting, Installing, Copying, Collecting
<1>16. ASSUME NEW f \in entries, Rename(f) PROVE ConfOK'
  BY <1>16 DEF Rename, Between, Forgotten, ConfOK, Visiting, Installing, Copying, Collecting
<1>17. ASSUME NEW g \in Generation, AddGeneration(g) PROVE ConfOK'
  BY <1>17 DEF AddGeneration, Between, Forgotten, ConfOK, Visiting, Installing, Copying, Collecting
<1>18. ASSUME NEW g \in Generation, RemoveGeneration(g) PROVE ConfOK'
  BY <1>18 DEF RemoveGeneration, Between, Forgotten, ConfOK, Visiting, Installing, Copying, Collecting
<1>19. CASE UNCHANGED vars
  BY <1>19 DEF IInv, ConfOK, LoopOK, Visiting, Installing, Copying, Collecting
<1> QED
  BY <1>1, <1>2, <1>3, <1>4, <1>5, <1>6, <1>7, <1>8, <1>9, <1>10, <1>11, <1>12, <1>13, <1>14, <1>15, <1>16, <1>17, <1>18, <1>19 DEF Next, Run

-----------------------------------------------------------------------------
(* The invariant, and what follows from it. *)

LEMMA Initially == Init => IInv
<1> SUFFICES ASSUME Init PROVE IInv
  OBVIOUS
<1> USE DEF Init
<1>1. TypeOK
  BY DEF TypeOK, Steps, NoConf
<1>2. LoopOK
  <2>1. step \notin Visiting \cup Installing \cup Collecting \cup {"default"}
    BY DEF Visiting, Installing, Copying, Collecting
  <2>2. profiles # {} /\ todo = {} /\ queue = {} /\ at = None
    OBVIOUS
  <2> QED
    BY ONLY <2>1, <2>2 DEF LoopOK
<1>3. FilesOK
  BY DEF FilesOK, Visited, Visiting, Installing, Copying, Collecting
<1>4. OnlyOldDangle
  BY DEF OnlyOldDangle
<1>5. EntriesOK
  BY DEF EntriesOK
<1>6. HistoryOK
  BY DEF HistoryOK, Visited, Visiting, Installing, Copying, Collecting
<1>7. ConfOK
  BY DEF ConfOK, Visiting, Installing, Copying, Collecting
<1> QED
  BY <1>1, <1>2, <1>3, <1>4, <1>5, <1>6, <1>7 DEF IInv

LEMMA Inductive == IInv /\ [Next]_vars => IInv'
<1> SUFFICES ASSUME IInv, [Next]_vars PROVE IInv'
  OBVIOUS
<1>1. TypeOK' /\ LoopOK'
  BY TypeStep, LoopStep DEF IInv
<1>2. FilesOK' /\ OnlyOldDangle' /\ EntriesOK'
  BY FilesStep, OnlyOldStep, EntriesStep
<1>3. HistoryOK' /\ ConfOK'
  BY HistoryStep, ConfStep
<1> QED
  BY <1>1, <1>2, <1>3 DEF IInv

LEMMA Invariant == Spec => []IInv
  BY Initially, Inductive, PTL DEF Spec

\* The state keeps its shape, for any generations and entries.
THEOREM TypeCorrect == Spec => []TypeOK
<1>1. IInv => TypeOK
  BY DEF IInv
<1> QED
  BY <1>1, Invariant, PTL

\* The kernel and the initrd of an entry go only after its generation did.
THEOREM FilesOutliveGenerations == Spec => []OnlyOldDangle
<1>1. IInv => OnlyOldDangle
  BY DEF IInv
<1> QED
  BY <1>1, Invariant, PTL

\* A run that completes leaves fresh entries with signed files, and nothing else.
THEOREM InstallsFresh == Spec => []InstalledIsFresh
<1>1. ASSUME IInv, step = "done", NEW f \in entries
      PROVE  /\ f = Fresh(f.name) /\ GenerationOf[f.name] \in profiles
             /\ \A q \in Needs(f.name) : boot[q] = "signed"
  BY <1>1 DEF IInv, EntriesOK, FilesOK
<1>2. IInv => InstalledIsFresh
  BY <1>1 DEF InstalledIsFresh
<1> QED
  BY <1>2, Invariant, PTL

\* An entry that is missing after a run was hidden by another one.
THEOREM AbsencesExplained == Spec => []AbsenceExplained
<1>1. ASSUME IInv, step = "done", NEW n \in Name, GenerationOf[n] \in profiles,
             \A f \in entries : f.name # n
      PROVE  \E m \in (before \cup {f.name : f \in entries}) \ Specialised :
               Begins(GenerationOf[n], GenerationOf[m])
  <2>1. Visited(n)
    BY <1>1 DEF Visited, IInv, LoopOK, Collecting, Installing, Copying
  <2>2. Fresh(n) \notin knownEntries
    BY <1>1, FreshFile DEF IInv, EntriesOK
  <2>3. \/ \E m \in before : Hides(n, m)
        \/ \E f \in entries : Hides(n, f.name)
    BY <1>1, <2>1, <2>2 DEF IInv, HistoryOK, EntriesOK
  <2> QED
    BY <2>3 DEF Hides
<1>2. IInv => AbsenceExplained
  BY <1>1 DEF AbsenceExplained
<1> QED
  BY <1>2, Invariant, PTL

\* loader.conf names the default that was asked for.
THEOREM DefaultNamed == Spec => []ConfNamesDefault
<1>1. IInv => ConfNamesDefault
  BY DEF IInv, ConfOK, LoopOK, Collecting, ConfNamesDefault
<1> QED
  BY <1>1, Invariant, PTL

=============================================================================

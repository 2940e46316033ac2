------------------------ MODULE BootCountingProofs -------------------------
(* Theorems about BootCounting, for every set of entries and every MaxTries. *)
EXTENDS BootCounting, DataProofs

USE CounterAssumption, BootAssumption

-----------------------------------------------------------------------------
(* What discovery returns. *)

\* Discovery only adds files that are there; an offer is a part of what is known;
\* autoboot chooses among what is offered.
LEMMA ChoiceBound ==
  ASSUME NEW known, NEW S
  PROVE  /\ known \subseteq Discovered(known, S)
         /\ Discovered(known, S) \subseteq known \cup S
         /\ Offered(known) \subseteq known
         /\ \A f \in Offered(known) : f.left # 0
         /\ AutoChoice(S) \subseteq S
  BY DEF Discovered, Offered, AutoChoice, Firsts

-----------------------------------------------------------------------------
(* Types. *)

LEMMA TypeInit == Init => TypeOK
<1> SUFFICES ASSUME Init PROVE TypeOK
  OBVIOUS
<1>1. \A n \in Name : Fresh(n) \subseteq File
  BY DEF Fresh, File, Counter
<1>2. entries \subseteq File
  BY <1>1 DEF Init
<1> QED
  BY <1>2 DEF Init, TypeOK, Stages, Selection

\* Selecting an entry the loader knows.
LEMMA TypeSelect ==
  ASSUME TypeOK, NEW f \in File, Select(f)
  PROVE  /\ entries' \subseteq File /\ durable' \subseteq File
         /\ stage' = "loading" /\ inShell' \in BOOLEAN
         /\ selected' \in File
         /\ attempts' \in [Name -> Nat] /\ uncounted' \in [Name -> Nat]
<1> USE DEF TypeOK
<1>1. f.name \in Name /\ (f.left # None => CountedFile(f) \in File)
  BY CountedFileType DEF File
<1>2. entries' \subseteq File
  BY <1>1, RenamedBound DEF Select, BootCount
<1>3. uncounted' \in [Name -> Nat]
  BY <1>1 DEF Select, BootCount
<1> QED
  BY <1>2, <1>3 DEF Select

LEMMA TypeNext == TypeOK /\ [Next]_vars => TypeOK'
<1> SUFFICES ASSUME TypeOK, [Next]_vars PROVE TypeOK'
  OBVIOUS
<1> USE DEF TypeOK, Stages, Selection
<1>1. CASE PowerOn
  BY <1>1 DEF PowerOn, ghosts
<1>2. CASE AutoProbe
  BY <1>2, ChoiceBound DEF AutoProbe, ghosts
<1>3. CASE NothingToBoot
  BY <1>3 DEF NothingToBoot, DropLoader, ghosts
<1>4. CASE AutoSelect
  <2>1. PICK f \in AutoChoice(Offered(cache)) : Select(f)
    BY <1>4 DEF AutoSelect
  <2>2. f \in File
    BY ChoiceBound
  <2> QED
    BY <1>4, <2>1, <2>2, TypeSelect DEF AutoSelect
<1>5. CASE LoadSucceeds
  BY <1>5 DEF LoadSucceeds, ghosts
<1>6. CASE Kexec
  <2>1. attempts' \in [Name -> Nat]
    BY <1>6 DEF Kexec, File
  <2> QED
    BY <1>6, <2>1 DEF Kexec, DropLoader, ghosts
<1>7. CASE DiskMissing
  BY <1>7 DEF DiskMissing, ghosts
<1>8. CASE LoadFails
  BY <1>8 DEF LoadFails, DropLoader, ghosts
<1>9. CASE UserInterrupts
  BY <1>9 DEF UserInterrupts, DropLoader, ghosts
<1>10. CASE UserEnters
  BY <1>10 DEF UserEnters, ghosts
<1>11. CASE ShellLoader
  BY <1>11 DEF ShellLoader, ghosts
<1>12. CASE ShellProbe
  BY <1>12, ChoiceBound DEF ShellProbe, ghosts
<1>13. CASE ShellBoot
  <2>1. cache' \subseteq File
    BY <1>13, ChoiceBound DEF ShellBoot
  <2>2. PICK f \in Offered(cache') : Select(f)
    BY <1>13 DEF ShellBoot
  <2>3. f \in File
    BY <2>1, ChoiceBound
  <2> QED
    BY <1>13, <2>1, <2>2, <2>3, TypeSelect DEF ShellBoot
<1>14. CASE ShellQuits
  BY <1>14 DEF ShellQuits, DropLoader, ghosts
<1>15. CASE BlessGood
  <2>1. PICK f \in Booted : entries' = IF f.left # None THEN Renamed(entries, f, GoodFile(f)) ELSE entries
    BY <1>15 DEF BlessGood
  <2>2. entries' \subseteq File
    BY <2>1, VerdictType, RenamedBound DEF Booted
  <2> QED
    BY <1>15, <2>2 DEF BlessGood, ghosts
<1>16. CASE BlessBad
  <2>1. PICK f \in Booted : entries' = Renamed(entries, f, BadFile(f))
    BY <1>16 DEF BlessBad
  <2>2. entries' \subseteq File
    BY <2>1, VerdictType, RenamedBound DEF Booted
  <2> QED
    BY <1>16, <2>2 DEF BlessBad, ghosts
<1>17. CASE Shutdown
  BY <1>17 DEF Shutdown, ghosts
<1>18. CASE Writeback
  BY <1>18 DEF Writeback, ghosts
<1>19. CASE PowerLoss
  BY <1>19 DEF PowerLoss, ghosts
<1>20. CASE UNCHANGED vars
  BY <1>20 DEF vars
<1> QED
  BY <1>1, <1>2, <1>3, <1>4, <1>5, <1>6, <1>7, <1>8, <1>9, <1>10, <1>11, <1>12,
     <1>13, <1>14, <1>15, <1>16, <1>17, <1>18, <1>19, <1>20 DEF Next, Autoboot, Shell

\* The state always has the shape of its stage: a loader, a list of entries and a
\* selection exist exactly while prepare_boot or handle_commands hold them.
THEOREM TypeCorrect == Spec => []TypeOK
  BY TypeInit, TypeNext, PTL DEF Spec


-----------------------------------------------------------------------------
(* The ledger.  TriesAccounting alone is not inductive: a start must have been *)
(* paid for while its kernel was loaded, possibly through a stale list of      *)
(* entries, and a rename must replace the one file of its name.                *)

IInv == TypeOK /\ OneFilePerName /\ TriesAccounting /\ StaleIsPaid /\ StartsBounded

\* Replacing a file by one of the same name.
LEMMA ReplaceOne ==
  ASSUME NEW S \in SUBSET File, OneEach(S), NEW f \in S, NEW g \in File, g.name = f.name
  PROVE  /\ OneEach((S \ {f}) \cup {g})
         /\ \A h \in (S \ {f}) \cup {g} : h = g \/ (h \in S /\ h.name # f.name)
<1>1. f.name \in Name
  BY DEF File
<1>2. \A h \in S : h.name = f.name => h = f
  BY <1>1 DEF OneEach
<1>3. \A h \in (S \ {f}) \cup {g} : h = g \/ (h \in S /\ h.name # f.name)
  BY <1>2
<1>4. ASSUME NEW n \in Name
      PROVE  \E h \in (S \ {f}) \cup {g} :
                h.name = n /\ \A k \in (S \ {f}) \cup {g} : k.name = n => k = h
  <2>1. CASE n = f.name
    BY <2>1, <1>3
  <2>2. CASE n # f.name
    <3>1. PICK h \in S : h.name = n /\ \A k \in S : k.name = n => k = h
      BY DEF OneEach
    <3> QED
      BY <3>1, <2>2
  <2> QED
    BY <2>1, <2>2
<1> QED
  BY <1>3, <1>4 DEF OneEach

\* What a selection leaves in the ledger: its start is paid for, and nothing that
\* was paid for is lost.
LEMMA SelectPays ==
  ASSUME IInv, NEW f \in File, f.left # 0, Select(f),
         f.left # None /\ f \notin entries => Paid(f.name)
  PROVE  /\ OneFilePerName' /\ TriesAccounting' /\ StartsBounded'
         /\ f.left # None => Paid(f.name)'
         /\ \A n \in Name : Paid(n) => Paid(n)'
         /\ \A g \in entries : g \in entries' \/ Paid(g.name)'
<1> USE DEF IInv, TypeOK
<1>0. f.name \in Name /\ durable' = durable /\ attempts' = attempts /\ BootCount(f)
  BY FieldsOfFile DEF Select
<1>1. CASE f.left = None \/ (f.left # None /\ f \notin entries /\ UNCHANGED <<entries, uncounted>>)
  <2>1. entries' = entries /\ uncounted' = uncounted
    BY <1>0, <1>1 DEF BootCount
  <2> QED
    BY <1>0, <1>1, <2>1
    DEF OneFilePerName, TriesAccounting, Owed, StartsBounded, Paid
<1>2. CASE f.left # None /\ f \in entries /\ entries' = Renamed(entries, f, CountedFile(f))
           /\ uncounted' = uncounted
  <2> DEFINE g == CountedFile(f)
  <2>1. g \in File /\ g.name = f.name /\ g.left # None /\ g.left = f.left - 1
    BY <1>2, CountedFileType
  <2>2. f.left \in Nat /\ attempts[f.name] + f.left =< MaxTries + uncounted[f.name]
    BY <1>2, FieldsOfFile DEF TriesAccounting, Owed, Counter
  <2>3. entries' = (entries \ {f}) \cup {g}
    BY <1>2, RenamedBound
  <2> HIDE DEF g
  <2>4. /\ OneEach(entries')
        /\ \A h \in entries' : h = g \/ (h \in entries /\ h.name # f.name)
    BY <1>2, <2>1, <2>3, ReplaceOne DEF OneFilePerName
  <2>5. attempts[f.name] \in Nat /\ uncounted[f.name] \in Nat
    BY <1>0
  <2>6. attempts[f.name] + 1 + g.left =< MaxTries + uncounted[f.name]
    BY <2>1, <2>2, <2>5
  <2>7. attempts[f.name] + 1 =< MaxTries + uncounted[f.name]
    <3>1. f.left >= 1
      BY <1>2, FieldsOfFile DEF Counter
    <3> QED
      BY <3>1, <2>2, <2>5
  <2>8. Paid(f.name)'
    BY <1>0, <1>2, <2>4, <2>6, <2>7 DEF Paid
  <2>9. attempts[g.name] + g.left =< MaxTries + uncounted[g.name]
    BY <2>1, <2>2, <2>5
  <2>10. TriesAccounting'
    BY <1>0, <1>2, <2>4, <2>9 DEF TriesAccounting, Owed
  <2>11. \A n \in Name : Paid(n) => Paid(n)'
    <3> SUFFICES ASSUME NEW n \in Name, Paid(n), n # f.name PROVE Paid(n)'
      BY <2>8
    <3> QED
      BY <1>0, <1>2, <2>1, <2>4 DEF Paid
  <2>12. OneFilePerName' /\ StartsBounded'
    BY <1>0, <1>2, <2>4 DEF OneFilePerName, OneEach, StartsBounded
  <2> QED
    BY <2>3, <2>8, <2>10, <2>11, <2>12
<1>3. CASE f.left # None /\ f \in entries /\ entries' = entries
           /\ uncounted' = [uncounted EXCEPT ![f.name] = @ + 1]
  <2>1. \A n \in Name : uncounted'[n] \in Nat /\ attempts[n] \in Nat /\ uncounted[n] \in Nat
                        /\ uncounted'[n] >= uncounted[n]
    BY <1>0, <1>3
  <2>2. uncounted'[f.name] = uncounted[f.name] + 1
    BY <1>0, <1>3
  <2>3. \A h \in entries \cup durable : h.name \in Name /\ (h.left # None => h.left \in Nat)
    BY FieldsOfFile DEF Counter
  <2>4. TriesAccounting' /\ StartsBounded'
    BY <1>0, <1>3, <2>1, <2>3 DEF TriesAccounting, Owed, StartsBounded
  <2>5. Paid(f.name)'
    BY <1>0, <1>3, <2>1, <2>2, <2>3 DEF Paid, TriesAccounting, Owed, StartsBounded
  <2>6. \A n \in Name : Paid(n) => Paid(n)'
    BY <1>0, <1>3, <2>1, <2>3 DEF Paid
  <2>7. OneFilePerName'
    BY <1>0, <1>3 DEF OneFilePerName, OneEach
  <2> QED
    BY <1>3, <2>4, <2>5, <2>6, <2>7
<1> QED
  BY <1>0, <1>1, <1>2, <1>3, RenamedBound DEF BootCount


\* The parts of the ledger at a step that leaves the directory, the starts and the
\* refusals alone, and neither discovers nor selects anything new.
LEMMA LedgerIdle ==
  ASSUME IInv, UNCHANGED <<entries, attempts, uncounted>>,
         durable' \in {durable, entries},
         cache' \subseteq cache \cup entries,
         stage' \in {"loading", "loaded"} => stage \in {"loading", "loaded"} /\ selected' = selected
  PROVE  OneFilePerName' /\ TriesAccounting' /\ StartsBounded' /\ StaleIsPaid'
<1> USE DEF IInv
<1>1. OneFilePerName' /\ TriesAccounting' /\ StartsBounded'
  BY DEF OneFilePerName, OneEach, TriesAccounting, Owed, StartsBounded
<1>2. \A n : Paid(n) => Paid(n)'
  BY DEF Paid
<1>3. StaleIsPaid'
  BY <1>2 DEF StaleIsPaid
<1> QED
  BY <1>1, <1>3

\* A verdict on a file of the running system: the ledger forgets its tries.
LEMMA LedgerJudged ==
  ASSUME IInv, NEW f \in entries, NEW g \in File, g.name = f.name, g.left \in {None, 0},
         entries' = Renamed(entries, f, g),
         UNCHANGED <<durable, attempts, uncounted, cache, stage>>, stage = "os", cache = {}
  PROVE  OneFilePerName' /\ TriesAccounting' /\ StartsBounded' /\ StaleIsPaid'
<1> USE DEF IInv, TypeOK
<1>1. /\ OneEach(entries')
      /\ \A h \in entries' : h = g \/ h \in entries
  BY ReplaceOne, RenamedBound DEF OneFilePerName
<1>2. attempts[g.name] \in Nat /\ uncounted[g.name] \in Nat
      /\ attempts[g.name] =< MaxTries + uncounted[g.name]
  BY FieldsOfFile DEF StartsBounded
<1>3. g.left # None => attempts[g.name] + g.left =< MaxTries + uncounted[g.name]
  BY <1>2
<1>4. TriesAccounting'
  BY <1>1, <1>3 DEF TriesAccounting, Owed
<1> QED
  BY <1>1, <1>4 DEF OneFilePerName, OneEach, StartsBounded, StaleIsPaid

LEMMA LedgerInit == Init => IInv
<1> SUFFICES ASSUME Init PROVE IInv
  OBVIOUS
<1>1. TypeOK
  BY TypeInit
<1>2. PICK pick : /\ \A n \in Name : pick[n] \in Fresh(n)
                  /\ entries = {pick[n] : n \in Name}
  BY DEF Init
<1>3. \A n \in Name : pick[n].name = n /\ pick[n].left \in {None, MaxTries}
  <2>1. \A n \in Name : \A f \in Fresh(n) : f.name = n /\ f.left \in {None, MaxTries}
    BY DEF Fresh
  <2> QED
    BY <1>2, <2>1
<1>4. OneEach(entries)
  <2>1. ASSUME NEW n \in Name
        PROVE  \E f \in entries : f.name = n /\ \A g \in entries : g.name = n => g = f
    <3>1. pick[n] \in entries /\ pick[n].name = n
      BY <1>2, <1>3
    <3>2. \A g \in entries : \E m \in Name : g = pick[m] /\ g.name = m
      BY <1>2, <1>3
    <3> QED
      BY <3>1, <3>2
  <2> QED
    BY <2>1 DEF OneEach
<1>5. TriesAccounting
  <2>1. durable = entries /\ \A n \in Name : attempts[n] = 0 /\ uncounted[n] = 0
    BY DEF Init
  <2>2. \A f \in entries : f.name \in Name /\ f.left \in {None, MaxTries}
    BY <1>2, <1>3
  <2> QED
    BY <2>1, <2>2 DEF TriesAccounting, Owed
<1> QED
  BY <1>1, <1>4, <1>5 DEF Init, IInv, OneFilePerName, StartsBounded, StaleIsPaid

LEMMA LedgerNext == IInv /\ [Next]_vars => IInv'
<1> SUFFICES ASSUME IInv, [Next]_vars
             PROVE  OneFilePerName' /\ TriesAccounting' /\ StartsBounded' /\ StaleIsPaid'
  BY TypeNext DEF IInv
<1>1. CASE PowerOn
  BY <1>1, LedgerIdle DEF PowerOn, ghosts
<1>2. CASE AutoProbe
  BY <1>2, LedgerIdle, ChoiceBound DEF AutoProbe, ghosts
<1>3. CASE NothingToBoot
  BY <1>3, LedgerIdle DEF NothingToBoot, DropLoader, ghosts
<1>4. CASE AutoSelect
  <2>1. PICK f \in AutoChoice(Offered(cache)) : Select(f)
    BY <1>4 DEF AutoSelect
  <2>2. f \in cache /\ f \in File /\ f.left # 0
    <3>1. f \in Offered(cache)
      BY ChoiceBound
    <3> QED
      BY <3>1, ChoiceBound DEF IInv, TypeOK
  <2>3. f.left # None /\ f \notin entries => Paid(f.name)
    BY <2>2 DEF IInv, StaleIsPaid
  <2>4. StaleIsPaid'
    <3>1. selected' = f /\ cache' = cache /\ \A g \in cache : g.name \in Name
      BY <1>4, <2>1, FieldsOfFile DEF AutoSelect, Select, IInv, TypeOK
    <3> QED
      BY <2>1, <2>2, <2>3, <3>1, SelectPays DEF IInv, StaleIsPaid
  <2> QED
    BY <2>1, <2>2, <2>3, <2>4, SelectPays
<1>5. CASE LoadSucceeds
  BY <1>5, LedgerIdle DEF LoadSucceeds, ghosts
<1>6. CASE Kexec
  <2> USE DEF IInv, TypeOK
  <2>1. /\ entries' = entries /\ uncounted' = uncounted /\ cache' = {} /\ stage' = "os"
        /\ durable' \in {durable, entries} /\ selected.name \in Name
    BY <1>6, FieldsOfFile DEF Kexec, DropLoader, Selection
  <2>2. CASE selected.left = None
    BY <1>6, <2>1, <2>2, LedgerIdle DEF Kexec
  <2>3. CASE selected.left # None
    <3>1. attempts' = [attempts EXCEPT ![selected.name] = @ + 1] /\ Paid(selected.name)
      BY <1>6, <2>3 DEF Kexec, StaleIsPaid
    <3>2. durable' = entries
      BY <1>6 DEF Kexec, DropLoader
    <3>3. TriesAccounting' /\ StartsBounded'
      BY <2>1, <3>1, <3>2 DEF Paid, TriesAccounting, Owed, StartsBounded
    <3> QED
      BY <2>1, <3>2, <3>3 DEF OneFilePerName, OneEach, StaleIsPaid
  <2> QED
    BY <2>2, <2>3
<1>7. CASE DiskMissing
  BY <1>7, LedgerIdle DEF DiskMissing, ghosts
<1>8. CASE LoadFails
  BY <1>8, LedgerIdle DEF LoadFails, DropLoader, ghosts
<1>9. CASE UserInterrupts
  BY <1>9, LedgerIdle DEF UserInterrupts, DropLoader, ghosts
<1>10. CASE UserEnters
  BY <1>10, LedgerIdle DEF UserEnters, ghosts
<1>11. CASE ShellLoader
  BY <1>11, LedgerIdle DEF ShellLoader, ghosts
<1>12. CASE ShellProbe
  BY <1>12, LedgerIdle, ChoiceBound DEF ShellProbe, ghosts
<1>13. CASE ShellBoot
  <2>1. cache' \subseteq cache \cup entries
    BY <1>13, ChoiceBound DEF ShellBoot
  <2>2. PICK f \in Offered(cache') : Select(f)
    BY <1>13 DEF ShellBoot
  <2>3. f \in cache' /\ f \in File /\ f.left # 0
    BY <2>1, ChoiceBound DEF IInv, TypeOK
  <2>4. f.left # None /\ f \notin entries => Paid(f.name)
    BY <2>1, <2>3 DEF IInv, StaleIsPaid
  <2>5. StaleIsPaid'
    <3>1. selected' = f /\ \A g \in cache' : g.name \in Name
      BY <2>1, <2>2, FieldsOfFile DEF Select, IInv, TypeOK
    <3> QED
      BY <2>1, <2>2, <2>3, <2>4, <3>1, SelectPays DEF IInv, StaleIsPaid
  <2> QED
    BY <2>2, <2>3, <2>4, <2>5, SelectPays
<1>14. CASE ShellQuits
  BY <1>14, LedgerIdle DEF ShellQuits, DropLoader, ghosts
<1>15. CASE BlessGood
  <2>1. PICK f \in Booted : entries' = IF f.left # None THEN Renamed(entries, f, GoodFile(f)) ELSE entries
    BY <1>15 DEF BlessGood
  <2>2. f \in entries /\ f \in File /\ cache = {}
    BY <1>15 DEF Booted, BlessGood, IInv, TypeOK
  <2>3. CASE f.left # None
    BY <1>15, <2>1, <2>2, <2>3, VerdictType, LedgerJudged DEF BlessGood, ghosts
  <2>4. CASE f.left = None
    BY <1>15, <2>1, <2>4, LedgerIdle DEF BlessGood, ghosts
  <2> QED
    BY <2>3, <2>4
<1>16. CASE BlessBad
  <2>1. PICK f \in Booted : entries' = Renamed(entries, f, BadFile(f))
    BY <1>16 DEF BlessBad
  <2>2. f \in entries /\ f \in File /\ cache = {}
    BY <1>16 DEF Booted, BlessBad, IInv, TypeOK
  <2> QED
    BY <1>16, <2>1, <2>2, VerdictType, LedgerJudged DEF BlessBad, ghosts
<1>17. CASE Shutdown
  BY <1>17, LedgerIdle DEF Shutdown, ghosts
<1>18. CASE Writeback
  BY <1>18, LedgerIdle DEF Writeback, ghosts
<1>19. CASE PowerLoss
  BY <1>19 DEF PowerLoss, ghosts, IInv, OneFilePerName, OneEach, TriesAccounting, Owed,
               StartsBounded, StaleIsPaid
<1>20. CASE UNCHANGED vars
  BY <1>20, LedgerIdle DEF vars
<1> QED
  BY <1>1, <1>2, <1>3, <1>4, <1>5, <1>6, <1>7, <1>8, <1>9, <1>10, <1>11, <1>12,
     <1>13, <1>14, <1>15, <1>16, <1>17, <1>18, <1>19, <1>20 DEF Next, Autoboot, Shell

LEMMA LedgerInvariant == Spec => []IInv
  BY LedgerInit, LedgerNext, PTL DEF Spec

\* Boot counting keeps its books, whatever the entries, the number of tries, the
\* refused renames, the failed loads, the user's commands and the power cuts.
THEOREM TriesAccounted == Spec => []TriesAccounting
<1>1. IInv => TriesAccounting
  BY DEF IInv
<1> QED
  BY <1>1, LedgerInvariant, PTL

\* The loader's stale list of entries never leads to a start that was not paid for.
THEOREM StaleStartsPaid == Spec => []StaleIsPaid
<1>1. IInv => StaleIsPaid
  BY DEF IInv
<1> QED
  BY <1>1, LedgerInvariant, PTL

\* No rename of the boot loader or the assessment tool loses or doubles an entry.
THEOREM FilesStayUnique == Spec => []OneFilePerName
<1>1. IInv => OneFilePerName
  BY DEF IInv
<1> QED
  BY <1>1, LedgerInvariant, PTL


-----------------------------------------------------------------------------
(* The DONE counter.  Like the tries, it runs ahead of the starts while a kernel *)
(* is loaded or a listed entry is stale; where it stops at u32::MAX, the bound   *)
(* on starts takes over.                                                         *)

\* The next start of n is in its done counter already.
DoneAhead(n) ==
  \A h \in entries : h.name = n /\ h.done # None => attempts[n] + 1 =< h.done + uncounted[n]

DoneInv ==
  /\ DoneCoversStarts
  /\ \A f \in cache : f.left # None /\ f \notin entries => DoneAhead(f.name)
  /\ stage \in {"loading", "loaded"} /\ selected.left # None => DoneAhead(selected.name)

\* Counting a boot adds it to the done counter unless that is full.
LEMMA CountedFileDone ==
  ASSUME NEW f \in File, f.left # None
  PROVE  /\ f.done = None => CountedFile(f).done = None
         /\ f.done # None => /\ CountedFile(f).done \in Nat /\ f.done \in Nat
                             /\ \/ CountedFile(f).done = f.done + 1
                                \/ CountedFile(f).done = CounterMax /\ f.done = CounterMax
<1> DEFINE l == IF f.left > 0 THEN f.left - 1 ELSE f.left
           d == IF f.done # None /\ f.done # CounterMax THEN f.done + 1 ELSE f.done
<1>1. f.done \in Counter \cup {None}
  BY FieldsOfFile
<1>2. CountedFile(f) = [f EXCEPT !.left = l, !.done = d]
  BY DEF CountedFile
<1>3. /\ f.done = None => d = None
      /\ f.done # None => /\ d \in Nat /\ f.done \in Nat
                          /\ d = f.done + 1 \/ (d = CounterMax /\ f.done = CounterMax)
  BY <1>1 DEF Counter
<1> HIDE DEF l, d
<1>4. CountedFile(f).done = d
  BY <1>2 DEF File
<1> QED
  BY <1>3, <1>4

\* A selection records the start it is about to make.
LEMMA SelectCounts ==
  ASSUME IInv, DoneInv, NEW f \in File, Select(f),
         f.left # None => Paid(f.name)',
         f.left # None /\ f \notin entries => DoneAhead(f.name)
  PROVE  /\ DoneCoversStarts'
         /\ f.left # None => DoneAhead(f.name)'
         /\ \A n \in Name : DoneAhead(n) => DoneAhead(n)'
         /\ \A g \in entries : g \in entries' \/ (g = f /\ f.left # None)
<1> USE DEF IInv, TypeOK, DoneInv
<1>0. f.name \in Name /\ durable' = durable /\ attempts' = attempts /\ BootCount(f)
  BY FieldsOfFile DEF Select
<1>1. CASE f.left = None \/ (f.left # None /\ f \notin entries /\ UNCHANGED <<entries, uncounted>>)
  <2>1. entries' = entries /\ uncounted' = uncounted
    BY <1>0, <1>1 DEF BootCount
  <2> QED
    BY <1>0, <1>1, <2>1 DEF DoneCoversStarts, DoneAhead
<1>2. CASE f.left # None /\ f \in entries /\ entries' = Renamed(entries, f, CountedFile(f))
           /\ uncounted' = uncounted
  <2> DEFINE g == CountedFile(f)
  <2>1. g \in File /\ g.name = f.name /\ g.left # None
    BY <1>2, CountedFileType
  <2>2. /\ f.done = None => g.done = None
        /\ f.done # None => /\ g.done \in Nat /\ f.done \in Nat
                            /\ g.done = f.done + 1 \/ (g.done = CounterMax /\ f.done = CounterMax)
    BY <1>2, CountedFileDone
  <2>3. entries' = (entries \ {f}) \cup {g}
    BY <1>2, RenamedBound
  <2> HIDE DEF g
  <2>4. \A h \in entries' : h = g \/ (h \in entries /\ h.name # f.name)
    BY <1>2, <2>1, <2>3, ReplaceOne DEF OneFilePerName
  <2>5. attempts[f.name] \in Nat /\ uncounted[f.name] \in Nat
    BY <1>0
  <2>6. f.done # None => attempts[f.name] =< f.done + uncounted[f.name]
    BY <1>2 DEF DoneCoversStarts
  <2>7. attempts[f.name] + 1 =< MaxTries + uncounted[f.name]
    BY <1>0, <1>2 DEF Paid
  <2>8. g.done # None => attempts[f.name] + 1 =< g.done + uncounted[f.name]
    BY <2>2, <2>5, <2>6, <2>7
  <2>9. DoneAhead(f.name)'
    BY <1>0, <1>2, <2>4, <2>8 DEF DoneAhead
  <2>10. g.done # None => attempts[g.name] =< g.done + uncounted[g.name]
    BY <2>1, <2>2, <2>5, <2>8
  <2>11. DoneCoversStarts'
    BY <1>0, <1>2, <2>4, <2>10 DEF DoneCoversStarts
  <2>12. \A n \in Name : DoneAhead(n) => DoneAhead(n)'
    <3> SUFFICES ASSUME NEW n \in Name, DoneAhead(n), n # f.name PROVE DoneAhead(n)'
      BY <2>9
    <3> QED
      BY <1>0, <1>2, <2>1, <2>4 DEF DoneAhead
  <2> QED
    BY <1>2, <2>3, <2>9, <2>11, <2>12
<1>3. CASE f.left # None /\ f \in entries /\ entries' = entries
           /\ uncounted' = [uncounted EXCEPT ![f.name] = @ + 1]
  <2>1. \A n \in Name : uncounted'[n] \in Nat /\ attempts[n] \in Nat /\ uncounted[n] \in Nat
                        /\ uncounted'[n] >= uncounted[n]
    BY <1>0, <1>3
  <2>2. uncounted'[f.name] = uncounted[f.name] + 1
    BY <1>0, <1>3
  <2>3. \A h \in entries \cup durable : h.name \in Name /\ (h.done # None => h.done \in Nat)
    BY FieldsOfFile DEF Counter
  <2>4. DoneCoversStarts'
    BY <1>0, <1>3, <2>1, <2>3 DEF DoneCoversStarts
  <2>5. DoneAhead(f.name)'
    BY <1>0, <1>3, <2>1, <2>2, <2>3 DEF DoneAhead, DoneCoversStarts
  <2>6. \A n \in Name : DoneAhead(n) => DoneAhead(n)'
    BY <1>0, <1>3, <2>1, <2>3 DEF DoneAhead
  <2> QED
    BY <1>3, <2>4, <2>5, <2>6
<1> QED
  BY <1>0, <1>1, <1>2, <1>3, RenamedBound DEF BootCount

\* Steps that leave the directory and the counters alone.
LEMMA DoneIdle ==
  ASSUME DoneInv, UNCHANGED <<entries, attempts, uncounted>>,
         durable' \in {durable, entries},
         cache' \subseteq cache \cup entries,
         stage' \in {"loading", "loaded"} => stage \in {"loading", "loaded"} /\ selected' = selected
  PROVE  DoneInv'
<1>1. \A n : DoneAhead(n) => DoneAhead(n)'
  BY DEF DoneAhead
<1>2. DoneCoversStarts'
  BY DEF DoneInv, DoneCoversStarts
<1> QED
  BY <1>1, <1>2 DEF DoneInv

\* A verdict leaves the done counter as it is, or takes it away.
LEMMA DoneJudged ==
  ASSUME IInv, DoneInv, NEW f \in entries, NEW g, g.name = f.name, g.done \in {None, f.done},
         entries' = Renamed(entries, f, g),
         UNCHANGED <<durable, attempts, uncounted, cache, stage>>, stage = "os", cache = {}
  PROVE  DoneInv'
<1>1. \A h \in entries' : h = g \/ h \in entries
  BY RenamedBound
<1>2. DoneCoversStarts'
  BY <1>1 DEF DoneInv, DoneCoversStarts
<1> QED
  BY <1>2 DEF DoneInv

LEMMA DoneInit == Init => DoneInv
<1> SUFFICES ASSUME Init PROVE DoneInv
  OBVIOUS
<1>1. \A f \in entries : f.name \in Name /\ f.done \in {None, 0}
  BY DEF Init, Fresh
<1>2. DoneCoversStarts
  BY <1>1 DEF Init, DoneCoversStarts
<1> QED
  BY <1>2 DEF Init, DoneInv

LEMMA DoneNext == IInv /\ DoneInv /\ [Next]_vars => DoneInv'
<1> SUFFICES ASSUME IInv, IInv', DoneInv, [Next]_vars PROVE DoneInv'
  BY LedgerNext
<1>1. CASE AutoSelect \/ ShellBoot
  <2>1. PICK f \in Offered(cache') : Select(f) /\ cache' \subseteq cache \cup entries
    <3>1. CASE AutoSelect
      BY <3>1, ChoiceBound DEF AutoSelect
    <3>2. CASE ShellBoot
      BY <3>2, ChoiceBound DEF ShellBoot
    <3> QED
      BY <1>1, <3>1, <3>2
  <2>2. f \in cache' /\ f \in File
    BY <2>1, ChoiceBound DEF IInv, TypeOK
  <2>3. f.left # None => Paid(f.name)'
    BY <2>1 DEF Select, IInv, StaleIsPaid
  <2>4. f.left # None /\ f \notin entries => DoneAhead(f.name)
    BY <2>1, <2>2 DEF DoneInv
  <2>5. selected' = f /\ \A g \in cache' : g.name \in Name
    BY <2>1, FieldsOfFile DEF Select, IInv, TypeOK
  <2> QED
    BY <2>1, <2>2, <2>3, <2>4, <2>5, SelectCounts DEF DoneInv
<1>2. CASE Kexec
  <2> USE DEF IInv, TypeOK
  <2>1. /\ entries' = entries /\ uncounted' = uncounted /\ cache' = {} /\ stage' = "os"
        /\ durable' \in {durable, entries} /\ selected.name \in Name
    BY <1>2, FieldsOfFile DEF Kexec, DropLoader, Selection
  <2>2. CASE selected.left = None
    BY <1>2, <2>1, <2>2, DoneIdle DEF Kexec
  <2>3. CASE selected.left # None
    <3>1. attempts' = [attempts EXCEPT ![selected.name] = @ + 1] /\ DoneAhead(selected.name)
      BY <1>2, <2>3 DEF Kexec, DoneInv
    <3>2. durable' = entries
      BY <1>2 DEF Kexec, DropLoader
    <3>3. DoneCoversStarts'
      BY <2>1, <3>1, <3>2 DEF DoneAhead, DoneInv, DoneCoversStarts
    <3> QED
      BY <2>1, <3>3 DEF DoneInv
  <2> QED
    BY <2>2, <2>3
<1>3. CASE BlessGood
  <2>1. PICK f \in Booted : entries' = IF f.left # None THEN Renamed(entries, f, GoodFile(f)) ELSE entries
    BY <1>3 DEF BlessGood
  <2>2. f \in entries /\ f \in File /\ cache = {}
    BY <1>3 DEF Booted, BlessGood, IInv, TypeOK
  <2>3. GoodFile(f).name = f.name /\ GoodFile(f).done = None
    BY <2>2 DEF GoodFile, File
  <2>4. CASE f.left # None
    BY <1>3, <2>1, <2>2, <2>3, <2>4, DoneJudged DEF BlessGood, ghosts
  <2>5. CASE f.left = None
    BY <1>3, <2>1, <2>5, DoneIdle DEF BlessGood, ghosts
  <2> QED
    BY <2>4, <2>5
<1>4. CASE BlessBad
  <2>1. PICK f \in Booted : entries' = Renamed(entries, f, BadFile(f))
    BY <1>4 DEF BlessBad
  <2>2. f \in entries /\ f \in File /\ cache = {}
    BY <1>4 DEF Booted, BlessBad, IInv, TypeOK
  <2>3. BadFile(f).name = f.name /\ BadFile(f).done = f.done
    BY <2>2 DEF BadFile, File
  <2> QED
    BY <1>4, <2>1, <2>2, <2>3, DoneJudged DEF BlessBad, ghosts
<1>5. CASE AutoProbe \/ ShellProbe
  BY <1>5, DoneIdle, ChoiceBound DEF AutoProbe, ShellProbe, ghosts
<1>6. CASE NothingToBoot \/ LoadFails \/ UserInterrupts \/ ShellQuits
  BY <1>6, DoneIdle DEF NothingToBoot, LoadFails, UserInterrupts, ShellQuits, DropLoader, ghosts
<1>7. CASE PowerOn \/ LoadSucceeds \/ DiskMissing \/ UserEnters \/ ShellLoader
  BY <1>7, DoneIdle DEF PowerOn, LoadSucceeds, DiskMissing, UserEnters, ShellLoader, ghosts
<1>8. CASE Shutdown \/ Writeback
  BY <1>8, DoneIdle DEF Shutdown, Writeback, ghosts
<1>9. CASE PowerLoss
  BY <1>9 DEF PowerLoss, ghosts, DoneInv, DoneCoversStarts
<1>10. CASE UNCHANGED vars
  BY <1>10, DoneIdle DEF vars
<1> QED
  BY <1>1, <1>2, <1>3, <1>4, <1>5, <1>6, <1>7, <1>8, <1>9, <1>10 DEF Next, Autoboot, Shell

\* The DONE counter misses no start that was recorded, up to the counter's maximum
\* and beyond, since an entry has no more tries than the counter can hold.
THEOREM StartsAreCounted == Spec => []DoneCoversStarts
<1>1. DoneInv => DoneCoversStarts
  BY DEF DoneInv
<1> QED
  BY <1>1, DoneInit, DoneNext, LedgerInvariant, PTL DEF Spec

-----------------------------------------------------------------------------
(* Verdicts last. *)

\* A rename leaves every file alone but its source.
LEMMA CountingSpares ==
  ASSUME NEW f, Select(f), NEW g \in entries, g.left = None
  PROVE  g \in entries'
  BY DEF Select, BootCount, Renamed

\* One step takes an uncounted entry away only by "bad" or by losing power.
LEMMA GoodStaysGoodStep ==
  ASSUME [Next]_vars, NEW g \in entries, g.left = None
  PROVE  g \in entries' \/ PowerLoss \/ BlessBad
<1>1. CASE AutoSelect \/ ShellBoot
  BY <1>1, CountingSpares DEF AutoSelect, ShellBoot
<1>2. CASE BlessGood
  BY <1>2 DEF BlessGood, Renamed
<1>3. CASE UNCHANGED entries
  BY <1>3
<1> QED
  BY <1>1, <1>2, <1>3
  DEF Next, Autoboot, Shell, vars, PowerOn, AutoProbe, NothingToBoot, LoadSucceeds, Kexec,
      DiskMissing, LoadFails, UserInterrupts, UserEnters, ShellLoader, ShellProbe,
      ShellQuits, Shutdown, Writeback

\* An entry once found good is never counted again by the boot loader.
THEOREM BlessedStaysBlessed == Spec => GoodStaysGood
<1>1. [Next]_vars =>
        [\A f \in entries : f.left = None => f \in entries' \/ PowerLoss \/ BlessBad]_vars
  BY GoodStaysGoodStep
<1> QED
  BY <1>1, PTL DEF Spec, GoodStaysGood

=============================================================================

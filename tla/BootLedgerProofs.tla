-------------------------- MODULE BootLedgerProofs --------------------------
(***************************************************************************)
(* BootCounting implements BootAssessment: seen through the medium, every  *)
(* step of boot loader, booted system and power supply is a step of the    *)
(* ledger, or leaves it alone.                                             *)
(***************************************************************************)
EXTENDS BootCountingProofs

USE CounterAssumption, BootAssumption

-----------------------------------------------------------------------------
(* What the medium may lag behind by: while the loader runs, tries that were *)
(* spent; while a system runs, the verdict on that system's entry.           *)

Lag(f, g) ==
  \/ f.left = g.left
  \/ IF stage = "os"
     THEN f.name = selected.name /\ f.left \in {None, 0}
     ELSE f.left # None /\ g.left # None /\ f.left =< g.left

Pending == \A f \in entries, g \in durable : f.name = g.name => Lag(f, g)

\* The loader's copies of uncounted entries never go stale.
UncountedHeld ==
  /\ \A f \in cache : f.left = None => f \in entries
  /\ stage \in {"loading", "loaded"} /\ selected.left = None => selected \in entries

RInv == IInv /\ Pending /\ UncountedHeld

\* In a directory with one file per name, two files of one name are one.
LEMMA SameFile ==
  ASSUME NEW S \in SUBSET File, OneEach(S), NEW f \in S, NEW g \in S, f.name = g.name
  PROVE  f = g
  BY FieldsOfFile DEF OneEach

\* ... and the ledger reads the tries off that file.
LEMMA TriesOnFile ==
  ASSUME NEW S \in SUBSET File, OneEach(S), NEW f \in S
  PROVE  TriesOn(S)[f.name] = f.left
<1>1. f.name \in Name
  BY FieldsOfFile
<1>2. TriesOn(S)[f.name] = (CHOOSE g \in S : g.name = f.name).left
  BY <1>1 DEF TriesOn
<1>3. (CHOOSE g \in S : g.name = f.name) \in S /\ (CHOOSE g \in S : g.name = f.name).name = f.name
  OBVIOUS
<1>4. (CHOOSE g \in S : g.name = f.name) = f
  BY <1>3, SameFile
<1> QED
  BY <1>2, <1>4

\* Every entry has a file that the ledger reads.
LEMMA FileOf ==
  ASSUME NEW S \in SUBSET File, OneEach(S), NEW n \in Name
  PROVE  \E f \in S : f.name = n /\ TriesOn(S)[n] = f.left
<1>1. PICK f \in S : f.name = n
  BY DEF OneEach
<1> QED
  BY <1>1, TriesOnFile

-----------------------------------------------------------------------------
(* The invariant. *)

\* The medium catches up, or nothing moves; uncounted copies are as before.
LEMMA LagIdle ==
  ASSUME RInv, entries' = entries, durable' \in {durable, entries},
         stage' = "os" => (stage = "os" /\ selected' = selected) \/ durable' = entries,
         stage = "os" => stage' = "os" \/ durable' = entries,
         \A f \in cache' : f \in cache \/ f \in entries,
         stage' \in {"loading", "loaded"} => stage \in {"loading", "loaded"} /\ selected' = selected
  PROVE  Pending' /\ UncountedHeld'
<1> USE DEF RInv, IInv, TypeOK, OneFilePerName
<1>1. Pending'
  <2>1. CASE durable' = entries
    <3>1. \A f, g \in entries : f.name = g.name => f = g
      BY SameFile
    <3> QED
      BY <2>1, <3>1 DEF Pending, Lag
  <2>2. CASE durable' = durable /\ durable # entries
    BY <2>2 DEF Pending, Lag
  <2> QED
    BY <2>1, <2>2
<1>2. UncountedHeld'
  BY DEF UncountedHeld
<1> QED
  BY <1>1, <1>2

\* A selection spends a try that the medium still has.
LEMMA LagSelect ==
  ASSUME RInv, NEW f \in File, Select(f), stage # "os",
         \A h \in cache' : h \in cache \/ h \in entries,
         f.left # 0, f.left = None => f \in entries
  PROVE  Pending' /\ UncountedHeld'
<1> USE DEF RInv, IInv, TypeOK, OneFilePerName
<1>1. durable' = durable /\ stage' = "loading" /\ selected' = f /\ BootCount(f)
  BY DEF Select
<1>2. \A h \in entries : h.left = None => h \in entries'
  BY CountingSpares
<1>3. UncountedHeld'
  BY <1>1, <1>2 DEF UncountedHeld
<1>4. CASE entries' = entries
  BY <1>1, <1>3, <1>4 DEF Pending, Lag
<1>5. CASE f \in entries /\ f.left # None /\ entries' = (entries \ {f}) \cup {CountedFile(f)}
  <2> DEFINE c == CountedFile(f)
  <2>1. c.name = f.name /\ c.left # None /\ c.left = f.left - 1 /\ f.left \in Nat
    BY <1>5, CountedFileType, FieldsOfFile DEF Counter
  <2> HIDE DEF c
  <2>2. \A h \in entries' : h = c \/ h \in entries
    BY <1>5 DEF c
  <2>3. ASSUME NEW g \in durable, g.name = f.name
        PROVE  g.left # None /\ g.left \in Nat /\ f.left =< g.left
    <3>1. Lag(f, g)
      BY <1>5, <2>3 DEF Pending
    <3>2. g.left # None
      BY <3>1, <1>5 DEF Lag
    <3>3. g.left \in Nat
      BY <3>2, FieldsOfFile DEF Counter
    <3> QED
      BY <2>1, <3>1, <3>2, <3>3 DEF Lag
  <2>4. ASSUME NEW g \in durable, g.name = f.name PROVE c.left =< g.left /\ g.left # None
    BY <2>1, <2>3, <2>4
  <2>5. Pending'
    BY <1>1, <2>1, <2>2, <2>4 DEF Pending, Lag
  <2> QED
    BY <1>3, <2>5
<1> QED
  BY <1>1, <1>3, <1>4, <1>5, RenamedBound DEF BootCount

\* A verdict is on the entry that runs.
LEMMA LagJudged ==
  ASSUME RInv, stage = "os", UNCHANGED <<durable, stage, selected, cache>>,
         NEW f \in Booted, NEW g \in File, g.name = f.name, g.left \in {None, 0},
         entries' = Renamed(entries, f, g)
  PROVE  Pending' /\ UncountedHeld'
<1>1. \A h \in entries' : h = g \/ h \in entries
  BY RenamedBound DEF Booted
<1>2. g.name = selected.name /\ cache = {}
  BY DEF Booted, RInv, IInv, TypeOK
<1> QED
  BY <1>1, <1>2 DEF RInv, Pending, Lag, UncountedHeld

LEMMA RInit == Init => RInv
<1> SUFFICES ASSUME Init PROVE RInv
  OBVIOUS
<1>1. IInv
  BY LedgerInit
<1>2. \A f, g \in entries : f.name = g.name => f = g
  BY <1>1, SameFile DEF IInv, TypeOK, OneFilePerName
<1> QED
  BY <1>1, <1>2 DEF Init, RInv, Pending, Lag, UncountedHeld

LEMMA RNext == RInv /\ [Next]_vars => RInv'
<1> SUFFICES ASSUME RInv, [Next]_vars PROVE Pending' /\ UncountedHeld'
  BY LedgerNext DEF RInv
<1>1. CASE PowerOn \/ AutoProbe \/ LoadSucceeds \/ DiskMissing \/ UserEnters \/ ShellProbe
  BY <1>1, LagIdle, ChoiceBound
  DEF PowerOn, AutoProbe, LoadSucceeds, DiskMissing, UserEnters, ShellProbe
<1>2. CASE NothingToBoot \/ LoadFails \/ UserInterrupts \/ ShellLoader \/ ShellQuits
  BY <1>2, LagIdle
  DEF NothingToBoot, LoadFails, UserInterrupts, ShellLoader, ShellQuits, DropLoader
<1>3. CASE AutoSelect
  <2>1. PICK f \in AutoChoice(Offered(cache)) : Select(f)
    BY <1>3 DEF AutoSelect
  <2>2. f \in Offered(cache)
    BY ChoiceBound
  <2>3. f \in cache /\ f \in File /\ f.left # 0
    BY <2>2, ChoiceBound DEF RInv, IInv, TypeOK
  <2>4. f.left = None => f \in entries
    BY <2>3 DEF RInv, UncountedHeld
  <2> QED
    BY <1>3, <2>1, <2>3, <2>4, LagSelect DEF AutoSelect
<1>4. CASE ShellBoot
  <2>1. \A h \in cache' : h \in cache \/ h \in entries
    BY <1>4, ChoiceBound DEF ShellBoot
  <2>2. PICK f \in Offered(cache') : Select(f)
    BY <1>4 DEF ShellBoot
  <2>3. f \in cache' /\ f \in File /\ f.left # 0
    BY <2>1, ChoiceBound DEF RInv, IInv, TypeOK
  <2>4. f.left = None => f \in entries
    BY <2>1, <2>3 DEF RInv, UncountedHeld
  <2> QED
    BY <1>4, <2>1, <2>2, <2>3, <2>4, LagSelect DEF ShellBoot
<1>5. CASE Kexec
  <2>1. durable' = entries /\ entries' = entries /\ stage' = "os" /\ cache' = {}
    BY <1>5 DEF Kexec, DropLoader, RInv, IInv, TypeOK
  <2> QED
    BY <2>1, <1>5, LagIdle DEF Kexec
<1>6. CASE BlessGood
  <2>1. PICK f \in Booted : entries' = IF f.left # None THEN Renamed(entries, f, GoodFile(f)) ELSE entries
    BY <1>6 DEF BlessGood
  <2>2. f \in File
    BY DEF Booted, RInv, IInv, TypeOK
  <2>3. CASE f.left # None
    BY <1>6, <2>1, <2>2, <2>3, VerdictType, LagJudged DEF BlessGood
  <2>4. CASE f.left = None
    BY <1>6, <2>1, <2>4, LagIdle DEF BlessGood
  <2> QED
    BY <2>3, <2>4
<1>7. CASE BlessBad
  <2>1. PICK f \in Booted : entries' = Renamed(entries, f, BadFile(f))
    BY <1>7 DEF BlessBad
  <2>2. f \in File
    BY DEF Booted, RInv, IInv, TypeOK
  <2> QED
    BY <1>7, <2>1, <2>2, VerdictType, LagJudged DEF BlessBad
<1>8. CASE Shutdown \/ Writeback
  BY <1>8, LagIdle DEF Shutdown, Writeback
<1>9. CASE PowerLoss
  <2>1. \A f, g \in durable : f.name = g.name => f = g
    BY SameFile DEF RInv, IInv, TypeOK, OneFilePerName
  <2> QED
    BY <1>9, <2>1 DEF PowerLoss, Pending, Lag, UncountedHeld
<1>10. CASE UNCHANGED vars
  BY <1>10, LagIdle DEF vars
<1> QED
  BY <1>1, <1>2, <1>3, <1>4, <1>5, <1>6, <1>7, <1>8, <1>9, <1>10 DEF Next, Autoboot, Shell

-----------------------------------------------------------------------------
(* Steps of the machine as steps of the ledger. *)

\* Who runs, for the ledger.
Running == IF stage = "os" THEN selected.name ELSE None
Allowed == [n \in Name |-> MaxTries + uncounted[n]]

\* When the medium catches up outside a running system, tries are only spent.
LEMMA CatchesUp ==
  ASSUME RInv, stage # "os", NEW n \in Name
  PROVE  \/ TriesOn(entries)[n] = TriesOn(durable)[n]
         \/ /\ TriesOn(durable)[n] # None
            /\ TriesOn(entries)[n] \in 0 .. TriesOn(durable)[n]
<1> USE DEF RInv, IInv, TypeOK, OneFilePerName
<1>1. PICK f \in entries : f.name = n /\ TriesOn(entries)[n] = f.left
  BY FileOf
<1>2. PICK g \in durable : g.name = n /\ TriesOn(durable)[n] = g.left
  BY FileOf
<1>3. Lag(f, g)
  BY <1>1, <1>2 DEF Pending
<1>4. f.left \in Counter \cup {None} /\ g.left \in Counter \cup {None}
  BY FieldsOfFile
<1> QED
  BY <1>1, <1>2, <1>3, <1>4 DEF Lag, Counter

\* When it catches up under a running system, that system is judged.
LEMMA CatchesVerdict ==
  ASSUME RInv, stage = "os"
  PROVE  \/ TriesOn(entries) = TriesOn(durable)
         \/ \E verdict \in {None, 0} :
              TriesOn(entries) = [TriesOn(durable) EXCEPT ![selected.name] = verdict]
<1> USE DEF RInv, IInv, TypeOK, OneFilePerName
<1>1. selected.name \in Name
  BY FieldsOfFile DEF Selection
<1> DEFINE verdict == TriesOn(entries)[selected.name]
<1>2. ASSUME NEW n \in Name
      PROVE  \/ TriesOn(entries)[n] = TriesOn(durable)[n]
             \/ n = selected.name /\ TriesOn(entries)[n] \in {None, 0}
  <2>1. PICK f \in entries : f.name = n /\ TriesOn(entries)[n] = f.left
    BY FileOf
  <2>2. PICK g \in durable : g.name = n /\ TriesOn(durable)[n] = g.left
    BY FileOf
  <2> QED
    BY <2>1, <2>2 DEF Pending, Lag
<1>3. /\ TriesOn(entries) = [n \in Name |-> TriesOn(entries)[n]]
      /\ TriesOn(durable) = [n \in Name |-> TriesOn(durable)[n]]
  BY DEF TriesOn
<1>4. CASE verdict = TriesOn(durable)[selected.name]
  <2>1. \A n \in Name : TriesOn(entries)[n] = TriesOn(durable)[n]
    BY <1>2, <1>4
  <2> QED
    BY ONLY <1>3, <2>1
<1>5. CASE verdict # TriesOn(durable)[selected.name]
  <2>1. verdict \in {None, 0}
    BY <1>1, <1>2, <1>5
  <2> HIDE DEF verdict
  <2>2. \A n \in Name : n # selected.name => TriesOn(entries)[n] = TriesOn(durable)[n]
    BY <1>2
  <2>3. [TriesOn(durable) EXCEPT ![selected.name] = verdict]
          = [n \in Name |-> IF n = selected.name THEN verdict ELSE TriesOn(durable)[n]]
    BY <1>3
  <2>4. TriesOn(entries) = [n \in Name |-> IF n = selected.name THEN verdict ELSE TriesOn(durable)[n]]
    <3>1. \A n \in Name : TriesOn(entries)[n] = IF n = selected.name THEN verdict ELSE TriesOn(durable)[n]
      BY <2>2 DEF verdict
    <3> HIDE DEF verdict
    <3> QED
      BY <1>3, <3>1
  <2> QED
    BY <2>1, <2>3, <2>4
<1> QED
  BY <1>4, <1>5

\* The initial states map to initial states of the ledger.
LEMMA LedgerStarts == Init => Ledger!Init
<1> SUFFICES ASSUME Init PROVE Ledger!Init
  OBVIOUS
<1>1. RInv
  BY RInit
<1>2. \A f \in durable : f.left \in {MaxTries, None}
  BY DEF Init, Fresh
<1>3. TriesOn(durable) \in [Name -> {MaxTries, None}]
  <2>1. \A n \in Name : TriesOn(durable)[n] \in {MaxTries, None}
    BY <1>1, <1>2, FileOf DEF RInv, IInv, TypeOK, OneFilePerName
  <2> QED
    BY <2>1 DEF TriesOn
<1>4. Allowed = [n \in Name |-> MaxTries]
  BY DEF Init, Allowed
<1> QED
  BY <1>3, <1>4 DEF Init, Ledger!Init, Allowed

\* Every step maps to a step of the ledger or to a stutter.
LEMMA LedgerSteps == RInv /\ RInv' /\ [Next]_vars => [Ledger!Next]_(Ledger!ledger)
<1> SUFFICES ASSUME RInv, RInv', [Next]_vars PROVE [Ledger!Next]_(Ledger!ledger)
  OBVIOUS
<1> DEFINE Idle == UNCHANGED <<TriesOn(durable), attempts, Allowed, Running>>
<1>0. Idle => UNCHANGED Ledger!ledger
  BY DEF Ledger!ledger, Allowed, Running
<1>1. ASSUME stage # "os", stage' # "os", UNCHANGED ghosts, durable' \in {durable, entries}
      PROVE  [Ledger!Next]_(Ledger!ledger)
  <2>1. CASE durable' = durable
    BY <1>0, <1>1, <2>1 DEF ghosts, Allowed, Running
  <2>2. CASE durable' = entries
    <3>1. Ledger!OnlySpent
      BY <1>1, <2>2, CatchesUp DEF Ledger!OnlySpent
    <3> QED
      BY <1>1, <3>1 DEF Ledger!Next, Ledger!Spend, ghosts
  <2> QED
    BY <1>1, <2>1, <2>2
<1>2. ASSUME stage = "os", UNCHANGED ghosts,
             (stage' = "os" /\ selected' = selected) \/ stage' # "os",
             durable' \in {durable, entries}
      PROVE  [Ledger!Next]_(Ledger!ledger)
  <2>1. selected.name \in Name /\ selected.name # None
    BY <1>2, FieldsOfFile DEF RInv, IInv, TypeOK, Selection
  <2>2. CASE TriesOn(durable') = TriesOn(durable)
    <3>1. TriesOn(durable)' = TriesOn(durable)
      BY <2>2 DEF TriesOn
    <3>2. CASE stage' = "os"
      BY <1>0, <1>2, <3>1, <3>2 DEF ghosts, Allowed, Running
    <3>3. CASE stage' # "os"
      BY <1>2, <3>1, <3>3 DEF ghosts, Ledger!Next, Ledger!Stop
    <3> QED
      BY <3>2, <3>3
  <2>3. CASE durable' = entries /\ TriesOn(entries) # TriesOn(durable)
    <3>1. PICK verdict \in {None, 0} :
            TriesOn(entries) = [TriesOn(durable) EXCEPT ![selected.name] = verdict]
      BY <1>2, <2>3, CatchesVerdict
    <3>2. TriesOn(durable)' = [TriesOn(durable) EXCEPT ![selected.name] = verdict]
      BY <2>3, <3>1 DEF TriesOn
    <3> QED
      BY <1>2, <2>1, <3>2 DEF ghosts, Ledger!Next, Ledger!Judge
  <2> QED
    BY <1>2, <2>2, <2>3
<1>3. ASSUME NEW f \in File, Select(f), stage # "os" PROVE [Ledger!Next]_(Ledger!ledger)
  <2>1. UNCHANGED <<durable, attempts>> /\ stage' = "loading" /\ f.name \in Name
    BY <1>3, FieldsOfFile DEF Select
  <2>2. CASE UNCHANGED uncounted
    BY <1>0, <1>3, <2>1, <2>2 DEF Allowed, Running
  <2>3. CASE uncounted' = [uncounted EXCEPT ![f.name] = @ + 1]
    <3>1. uncounted \in [Name -> Nat]
      BY DEF RInv, IInv, TypeOK
    <3>2. Allowed' = [Allowed EXCEPT ![f.name] = @ + 1]
      BY <2>1, <2>3, <3>1 DEF Allowed
    <3> QED
      BY <1>3, <2>1, <3>2 DEF Allowed, Ledger!Next, Ledger!Refuse
  <2> QED
    BY <1>3, <2>2, <2>3 DEF Select, BootCount
<1>4. CASE Kexec
  <2> USE DEF RInv, IInv, TypeOK
  <2>1. /\ selected \in File /\ selected.name \in Name /\ stage' = "os" /\ stage # "os"
        /\ selected' = selected /\ durable' = entries /\ entries' = entries /\ uncounted' = uncounted
    BY <1>4, FieldsOfFile DEF Kexec, DropLoader, Selection
  <2>2. Ledger!OnlySpent
    BY <2>1, CatchesUp DEF Ledger!OnlySpent
  <2>3. attempts' \in {attempts, [attempts EXCEPT ![selected.name] = @ + 1]}
    BY <1>4 DEF Kexec
  <2>4. attempts' = attempts => TriesOn(durable)[selected.name] = None
    <3> SUFFICES ASSUME attempts' = attempts PROVE TriesOn(durable)[selected.name] = None
      OBVIOUS
    <3>1. selected.left = None
      BY <1>4, <2>1 DEF Kexec
    <3>2. selected \in entries
      BY <1>4, <3>1 DEF UncountedHeld, Kexec
    <3>3. PICK g \in durable : g.name = selected.name /\ TriesOn(durable)[selected.name] = g.left
      BY <2>1, FileOf DEF OneFilePerName
    <3> QED
      BY <2>1, <3>1, <3>2, <3>3 DEF Pending, Lag
  <2>5. (\A d \in Name : Ledger!InBalance(d))'
    <3>1. ASSUME NEW d \in Name PROVE Ledger!InBalance(d)'
      <4>1. PICK f \in durable' : f.name = d /\ TriesOn(durable')[d] = f.left
        BY FileOf DEF OneFilePerName
      <4>2. f.left # None => attempts'[d] + f.left =< MaxTries + uncounted'[d]
        BY <4>1 DEF TriesAccounting, Owed
      <4> QED
        BY <4>1, <4>2 DEF Ledger!InBalance, TriesOn
    <3> QED
      BY <3>1
  <2> QED
    BY <2>1, <2>2, <2>3, <2>4, <2>5 DEF Ledger!Next, Ledger!Start, Running
<1>5. CASE PowerLoss
  <2>1. CASE stage = "os"
    BY <1>2, <1>5, <2>1 DEF PowerLoss
  <2>2. CASE stage # "os"
    BY <1>1, <1>5, <2>2 DEF PowerLoss
  <2> QED
    BY <2>1, <2>2
<1>6. CASE AutoSelect
  <2>1. PICK f \in AutoChoice(Offered(cache)) : Select(f)
    BY <1>6 DEF AutoSelect
  <2>2. f \in File
    BY ChoiceBound DEF RInv, IInv, TypeOK
  <2> QED
    BY <1>3, <1>6, <2>1, <2>2 DEF AutoSelect
<1>7. CASE ShellBoot
  <2>1. PICK f \in Offered(cache') : Select(f)
    BY <1>7 DEF ShellBoot
  <2>2. f \in File
    BY ChoiceBound DEF RInv, IInv, TypeOK
  <2> QED
    BY <1>3, <1>7, <2>1, <2>2 DEF ShellBoot
<1>8. CASE PowerOn \/ AutoProbe \/ LoadSucceeds \/ DiskMissing \/ UserEnters \/ ShellProbe
  BY <1>1, <1>8 DEF PowerOn, AutoProbe, LoadSucceeds, DiskMissing, UserEnters, ShellProbe
<1>9. CASE NothingToBoot \/ LoadFails \/ UserInterrupts \/ ShellLoader \/ ShellQuits
  BY <1>1, <1>9
  DEF NothingToBoot, LoadFails, UserInterrupts, ShellLoader, ShellQuits, DropLoader, ghosts
<1>10. CASE BlessGood \/ BlessBad \/ Shutdown
  BY <1>2, <1>10 DEF BlessGood, BlessBad, Shutdown
<1>11. CASE Writeback
  <2>1. CASE stage = "os"
    BY <1>2, <1>11, <2>1 DEF Writeback
  <2>2. CASE stage # "os"
    BY <1>1, <1>11, <2>2 DEF Writeback
  <2> QED
    BY <2>1, <2>2
<1>12. CASE UNCHANGED vars
  BY <1>0, <1>12 DEF vars, Allowed, Running
<1> QED
  BY <1>4, <1>5, <1>6, <1>7, <1>8, <1>9, <1>10, <1>11, <1>12 DEF Next, Autoboot, Shell

\* Boot counting keeps what boot assessment promises, for all entries, tries, refusals,
\* power cuts and user commands: seen through the medium, BootCounting is the ledger.
THEOREM LedgerImplemented == Spec => ImplementsLedger
<1>1. Spec => []RInv
  BY RInit, RNext, PTL DEF Spec
<1> QED
  BY <1>1, LedgerStarts, LedgerSteps, PTL DEF Spec, ImplementsLedger, Ledger!Spec

=============================================================================

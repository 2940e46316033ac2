-------------------------- MODULE DiskLoaderProofs --------------------------
(***************************************************************************)
(* Proofs about DiskLoader: for every set of disks, a shutdown deletes no  *)
(* file of an ESP, nothing stays mounted, and what is offered is mounted.  *)
(***************************************************************************)
EXTENDS DiskLoader, TLAPS

\* The loader's list and the mount table agree, and every mount has its mountpoint.
Books ==
  /\ disks = mounted /\ mounted \subseteq dirs
  /\ bootDevices \subseteq disks \cap WithConf

\* A loader that was not set up owns nothing.
Clean == ~inSetup /\ state \in {"none", "Unstarted"} => dirs = {}

\* Setup runs only where there is a loader.
Owner == inSetup => state # "none"

\* What setup is expected to find is still ahead of it or mounted, nothing stands in
\* the way of a first setup, and what it found is on offer.
Found ==
  /\ expected \subseteq Ready
  /\ inSetup /\ fresh => expected \subseteq todo \cup mounted /\ todo \cap dirs = {}
  /\ ~inSetup /\ fresh /\ state = "Probed" => expected \subseteq bootDevices

IInv == TypeOK /\ NeverWipes /\ Books /\ Clean /\ Owner /\ Found

\* The initial states satisfy the invariant: there is no loader's work yet.
LEMMA InitInv == Init => IInv
  BY DEF Init, InitDevices, IInv, TypeOK, States, NeverWipes, Books, Clean, Owner, Found, Ready

\* Shutting a loader down with the books in order leaves nothing, and wipes nothing.
LEMMA TeardownLeavesNothing ==
  ASSUME IInv, Teardown, ~inSetup
  PROVE  mounted' = {} /\ dirs' = {} /\ wiped' = {}
<1>1. CASE state = "Probed"
  BY <1>1 DEF IInv, Teardown, Books, NeverWipes
<1>2. CASE state # "Probed"
  BY <1>2 DEF IInv, TypeOK, States, Teardown, Books, Clean, NeverWipes
<1> QED BY <1>1, <1>2

\* Every step of loader, disks and device thread keeps the invariant.
LEMMA StepInv == IInv /\ [Next]_vars => IInv'
<1> SUFFICES ASSUME IInv, [Next]_vars PROVE IInv'
  OBVIOUS
<1> USE DEF IInv
<1>1. ASSUME NEW force \in BOOLEAN, BeginSetup(force) PROVE IInv'
  <2> USE <1>1 DEF BeginSetup, hardware, tree
  <2>1. TypeOK' /\ NeverWipes' /\ Books'
    BY DEF TypeOK, States, NeverWipes, Books, Ready
  <2>2. Clean' /\ Owner'
    BY DEF Clean, Owner
  <2>3. Found'
    <3>1. expected' \subseteq Ready'
      BY DEF Ready
    <3>2. fresh' => expected' \subseteq todo' \cup mounted' /\ todo' \cap dirs' = {}
      BY DEF Clean, Ready
    <3> QED BY <3>1, <3>2 DEF Found
  <2> QED BY <2>1, <2>2, <2>3
<1>2. ASSUME NEW d \in Disk, SetupDisk(d) PROVE IInv'
  <2> USE <1>2 DEF SetupDisk, Unread, hardware
  <2>1. TypeOK' /\ NeverWipes'
    BY DEF TypeOK, NeverWipes
  <2>2. Books' /\ Clean' /\ Owner'
    BY DEF Books, Clean, Owner
  <2>3. Found'
    <3>1. expected' \subseteq Ready'
      BY DEF Found, Ready
    <3>2. ASSUME fresh PROVE expected' \subseteq todo' \cup mounted' /\ todo' \cap dirs' = {}
      BY <3>2 DEF Found, Ready
    <3> QED BY <3>1, <3>2 DEF Found
  <2> QED BY <2>1, <2>2, <2>3
<1>3. ASSUME NEW d \in Disk, MissDisk(d) PROVE IInv'
  <2> USE <1>3 DEF MissDisk, hardware
  <2>1. TypeOK' /\ NeverWipes'
    BY DEF TypeOK, NeverWipes
  <2>2. Books' /\ Clean' /\ Owner'
    BY DEF Books, Clean, Owner
  <2>3. Found'
    BY DEF Found, Ready
  <2> QED BY <2>1, <2>2, <2>3
<1>4. CASE FinishProbe
  <2> USE <1>4 DEF FinishProbe, hardware, tree
  <2>1. PICK cached \in SUBSET (disks \ plugged) :
          bootDevices' = disks \cap mounted \cap WithConf \cap (plugged \cup cached)
    OBVIOUS
  <2>2. TypeOK' /\ NeverWipes'
    BY <2>1 DEF TypeOK, States, NeverWipes
  <2>3. Books' /\ Clean' /\ Owner'
    BY <2>1 DEF Books, Clean, Owner
  <2>4. Found'
    BY <2>1 DEF Found, Ready, Books
  <2> QED BY <2>2, <2>3, <2>4
<1>5. CASE NewLoader
  <2> USE <1>5 DEF NewLoader, hardware
  <2>1. mounted' = {} /\ dirs' = {} /\ wiped' = {}
    BY TeardownLeavesNothing
  <2> QED BY <2>1 DEF TypeOK, States, NeverWipes, Books, Clean, Owner, Found
<1>6. CASE DropLoader
  <2> USE <1>6 DEF DropLoader, hardware
  <2>1. mounted' = {} /\ dirs' = {} /\ wiped' = {}
    BY TeardownLeavesNothing
  <2> QED BY <2>1 DEF TypeOK, States, NeverWipes, Books, Clean, Owner, Found
<1>7. ASSUME NEW d \in Disk, Plug(d) \/ Unplug(d) \/ Link(d) \/ Unlink(d), DeviceStep PROVE IInv'
  <2> USE <1>7 DEF Plug, Unplug, Link, Unlink, DeviceStep, tree
  <2>1. TypeOK' /\ NeverWipes'
    BY DEF TypeOK, NeverWipes
  <2>2. Books' /\ Clean' /\ Owner'
    BY DEF Books, Clean, Owner
  <2>3. Found'
    <3>1. linked \cap plugged' \subseteq linked'
      BY DEF TypeOK
    <3>2. expected' \subseteq Ready'
      BY <3>1 DEF Found, Ready
    <3> QED BY <3>2 DEF Found
  <2> QED BY <2>1, <2>2, <2>3
<1>8. CASE DeviceStep
  BY <1>7, <1>8 DEF DeviceStep, NextDevices
<1>9. CASE UNCHANGED vars
  BY <1>9 DEF vars, hardware, TypeOK, States, NeverWipes, Books, Clean, Owner, Found, Ready
<1> QED
  BY <1>1, <1>2, <1>3, <1>4, <1>5, <1>6, <1>7, <1>8, <1>9
  DEF Next, ListDevices, Rescan

\* The invariant holds in every reachable state.
LEMMA AlwaysInv == Spec => []IInv
  BY InitInv, StepInv, PTL DEF Spec

\* Type correctness, for every set of disks.
THEOREM TypeCorrect == Spec => []TypeOK
<1>1. IInv => TypeOK
  BY DEF IInv
<1> QED BY <1>1, AlwaysInv, PTL

\* remove_dir_all in teardown never deletes files of an ESP: every disk mounted
\* under /mnt/disk is in the list teardown unmounts first.
THEOREM FilesSpared == Spec => []NeverWipes
<1>1. IInv => NeverWipes
  BY DEF IInv
<1> QED BY <1>1, AlwaysInv, PTL

\* Between loaders, and when main goes on to kexec or reboot, nothing is mounted.
THEOREM LoadersCleanUp == Spec => []NothingLeftMounted
<1>1. IInv => NothingLeftMounted
  BY DEF IInv, Books, Clean, NothingLeftMounted
<1> QED BY <1>1, AlwaysInv, PTL

\* Whatever was unplugged, rescanned or replaced, an offered device is mounted.
THEOREM OffersHold == Spec => []OffersAreMounted
<1>1. IInv => OffersAreMounted
  BY DEF IInv, Books, OffersAreMounted
<1> QED BY <1>1, AlwaysInv, PTL

\* A new loader finds every disk that was ready and stayed, whatever its
\* predecessors left behind.
THEOREM NewLoadersFindAll == Spec => []FreshProbeFindsAll
<1>1. IInv => FreshProbeFindsAll
  BY DEF IInv, Found, FreshProbeFindsAll
<1> QED BY <1>1, AlwaysInv, PTL

\* A rescan keeps the devices that are still there.
THEOREM RescansKeep == Spec => RescanKeepsDevices
<1>1. IInv /\ [Next]_vars => [FinishProbe => bootDevices \cap plugged \subseteq bootDevices']_vars
  BY DEF IInv, Books, FinishProbe
<1> QED BY <1>1, AlwaysInv, PTL DEF Spec, RescanKeepsDevices

=============================================================================

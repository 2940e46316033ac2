----------------------------- MODULE DevManager -----------------------------
(***************************************************************************)
(* The device manager thread (tboot/src/dev.rs) and main up to             *)
(* prepare_boot, over a kernel that registers devices, makes and deletes   *)
(* their nodes (CONFIG_DEVTMPFS) and announces both by uevents.  The       *)
(* thread links what it finds in /sys/class/block, then binds its socket   *)
(* and follows the uevents; main loads the verification key and waits for  *)
(* the devices to settle.  A panic in either aborts init.  What the scan   *)
(* and the listener read in the properties of a device is in Uevents.      *)
(***************************************************************************)
EXTENDS Naturals, Sequences

CONSTANTS
  Device,      \* the devices that may appear; block devices by diskseq and partition
  Block,       \* the block devices among them
  Fixed,       \* those that cannot be unplugged
  NameOf,      \* NameOf[d]: its name in /dev, which a later device may have again
  QueueMax,    \* messages the socket's receive buffer holds
  ChangeMax    \* bound: uevents besides add and remove

DevName == {NameOf[d] : d \in Device}
Event == [kind : {"add", "remove", "change"}, device : Device]
NoEvent == [kind |-> "none"]

ASSUME DeviceAssumption ==
  /\ Block \subseteq Device /\ Fixed \subseteq Device /\ NameOf \in [Device -> DevName]
  /\ QueueMax \in Nat /\ ChangeMax \in Nat

VARIABLES
  present,   \* registered devices; the block devices are in /sys/class/block
  gone,      \* devices that were there: their diskseq is not used again
  node,      \* node[n]: who made /dev/n, "kernel", "thread", or "none"
  announce,  \* uevents the kernel has not sent yet
  changes,   \* "change" uevents so far
  bound,     \* the thread's socket is bound
  queue,     \* its receive buffer
  unheard,   \* history: uevents sent before the bind, or when the buffer was full
  heard,     \* history: those the buffer took
  pc,        \* where the thread is; "aborted", "unbound": init is dead
  listed,    \* the block devices readdir found
  todo,      \* those the scan has not reached
  event,     \* the uevent being handled
  links,     \* block devices with their link in /dev/disk or /dev/part
  news,      \* messages in the channel to main
  main,      \* where main is
  key,       \* the public key is in the _ima keyring
  policy,    \* the IMA policy is installed
  reported   \* what main told the user about boot verification

kernel == <<present, gone, node, announce, changes>>
socket == <<bound, queue, unheard, heard>>
thread == <<pc, listed, todo, event, links>>
keys == <<key, policy, reported>>
vars == <<kernel, socket, thread, news, main, keys>>

Adds(devices) == {[kind |-> "add", device |-> d] : d \in devices}

Init ==
  /\ present \in SUBSET Device /\ gone = {}
  /\ \A d, e \in present : NameOf[d] = NameOf[e] => d = e
  /\ node = [n \in DevName |-> IF \E d \in present : NameOf[d] = n THEN "kernel" ELSE "none"]
  /\ announce \in SUBSET Adds(present)
  /\ changes = 0
  /\ bound = FALSE /\ queue = <<>> /\ unheard = Adds(present) \ announce /\ heard = {}
  /\ pc = "list" /\ listed = {} /\ todo = {} /\ event = NoEvent /\ links = {}
  /\ news = 0 /\ main = "keys"
  /\ key = FALSE /\ policy = FALSE /\ reported = "nothing"

-----------------------------------------------------------------------------
(* The kernel.  A name is free again once the removal was announced. *)

Register(d) ==
  /\ d \notin present \cup gone
  /\ \A e \in present \cup {u.device : u \in announce} : NameOf[e] # NameOf[d]
  /\ present' = present \cup {d}
  /\ node' = [node EXCEPT ![NameOf[d]] = IF @ = "none" THEN "kernel" ELSE @]
  /\ announce' = announce \cup {[kind |-> "add", device |-> d]}
  /\ UNCHANGED <<gone, changes, socket, thread, news, main, keys>>

\* devtmpfs deletes only nodes it made.
Unregister(d) ==
  /\ d \in present \ Fixed /\ \A u \in announce : u.device # d
  /\ present' = present \ {d} /\ gone' = gone \cup {d}
  /\ node' = [node EXCEPT ![NameOf[d]] = IF @ = "kernel" THEN "none" ELSE @]
  /\ announce' = announce \cup {[kind |-> "remove", device |-> d]}
  /\ UNCHANGED <<changes, socket, thread, news, main, keys>>

Change(d) ==
  /\ d \in present \cap Block /\ \A u \in announce : u.device # d
  /\ changes < ChangeMax /\ changes' = changes + 1
  /\ announce' = announce \cup {[kind |-> "change", device |-> d]}
  /\ UNCHANGED <<present, gone, node, socket, thread, news, main, keys>>

\* recv_from_full reports what did not fit as ENOBUFS, which the thread logs.
Announce(u) ==
  /\ u \in announce /\ announce' = announce \ {u}
  /\ IF bound /\ Len(queue) < QueueMax
     THEN queue' = Append(queue, u) /\ heard' = heard \cup {u} /\ UNCHANGED unheard
     ELSE unheard' = unheard \cup {u} /\ UNCHANGED <<queue, heard>>
  /\ UNCHANGED <<present, gone, node, changes, bound, thread, news, main, keys>>

-----------------------------------------------------------------------------
(* The thread: scan_and_create_devices, then listen_and_create_devices. *)

\* symlink, whose failure is unwrapped: a link that exists aborts init.
AddLink(d, next) ==
  IF d \in links
  THEN pc' = "aborted" /\ UNCHANGED links
  ELSE links' = links \cup {d} /\ pc' = next

List ==
  /\ pc = "list" /\ pc' = "scan"
  /\ listed' = present \cap Block /\ todo' = listed'
  /\ UNCHANGED <<kernel, socket, event, links, news, main, keys>>

\* The uevent file of a device that went may have been read before or not.
Scan(d) ==
  /\ pc = "scan" /\ d \in todo /\ todo' = todo \ {d}
  /\ \/ AddLink(d, "scan")
     \/ d \in gone /\ UNCHANGED <<pc, links>>
  /\ UNCHANGED <<kernel, socket, listed, event, news, main, keys>>

\* A socket that cannot be made or bound is an error, on which the closure of main panics.
Bind ==
  /\ pc = "scan" /\ todo = {} /\ pc' \in {"recv", "unbound"}
  /\ bound' = (pc' = "recv")
  /\ UNCHANGED <<kernel, queue, unheard, heard, listed, todo, event, links, news, main, keys>>

\* main is told first.  Any uevent but add and remove is then ignored.
Receive ==
  /\ pc = "recv" /\ queue # <<>>
  /\ queue' = Tail(queue)
  /\ news' = news + 1
  /\ IF Head(queue).kind = "change"
     THEN UNCHANGED <<pc, event>>
     ELSE pc' = Head(queue).kind /\ event' = Head(queue)
  /\ UNCHANGED <<kernel, bound, unheard, heard, listed, todo, links, main, keys>>

\* A character device has a node and no link.
LinkEvent ==
  /\ event' = NoEvent
  /\ IF event.device \in Block THEN AddLink(event.device, "recv") ELSE pc' = "recv" /\ UNCHANGED links

\* Mutation of HandleAdd: nothing is left to do for a node that exists.
HandleAddNodeOnly ==
  /\ pc = "add"
  /\ IF node[NameOf[event.device]] = "none"
     THEN pc' = "mknod" /\ UNCHANGED event
     ELSE pc' = "recv" /\ event' = NoEvent
  /\ UNCHANGED <<kernel, socket, listed, todo, links, news, main, keys>>

\* path.exists().  The link follows in the same step: no other actor touches links.
HandleAdd ==
  /\ pc = "add"
  /\ IF node[NameOf[event.device]] = "none"
     THEN pc' = "mknod" /\ UNCHANGED <<event, links>>
     ELSE LinkEvent
  /\ UNCHANGED <<kernel, socket, listed, todo, news, main, keys>>

\* A node that was made meanwhile is an error, and nothing is linked then.
MakeNode ==
  /\ pc = "mknod"
  /\ IF node[NameOf[event.device]] = "none"
     THEN node' = [node EXCEPT ![NameOf[event.device]] = "thread"] /\ LinkEvent
     ELSE pc' = "recv" /\ event' = NoEvent /\ UNCHANGED <<node, links>>
  /\ UNCHANGED <<present, gone, announce, changes, socket, listed, todo, news, main, keys>>

\* Mutations of HandleRemove: a node that is gone already aborts; the directory of the
\* links is removed.
HandleRemoveAll ==
  /\ pc = "remove" /\ pc' = "recv" /\ event' = NoEvent
  /\ node' = [node EXCEPT ![NameOf[event.device]] = "none"]
  /\ links' = {}
  /\ UNCHANGED <<present, gone, announce, changes, socket, listed, todo, news, main, keys>>
HandleRemoveUnwraps ==
  /\ pc = "remove"
  /\ pc' = IF node[NameOf[event.device]] = "none" THEN "aborted" ELSE "recv"
  /\ event' = NoEvent
  /\ node' = [node EXCEPT ![NameOf[event.device]] = "none"]
  /\ links' = links \ {event.device}
  /\ UNCHANGED <<present, gone, announce, changes, socket, listed, todo, news, main, keys>>

\* The node may be gone already, or be that of a later device with the name.
HandleRemove ==
  /\ pc = "remove" /\ pc' = "recv" /\ event' = NoEvent
  /\ node' = [node EXCEPT ![NameOf[event.device]] = "none"]
  /\ links' = links \ {event.device}
  /\ UNCHANGED <<present, gone, announce, changes, socket, listed, todo, news, main, keys>>

-----------------------------------------------------------------------------
(* main: load_verification_key, wait_for_settle. *)

MainRuns == pc \notin {"aborted", "unbound"}

\* Mutation of LoadVerificationKey: the policy is installed before the key is added.
LoadVerificationKeyPolicyFirst ==
  /\ MainRuns /\ main = "keys" /\ main' = "settle"
  /\ \/ reported' = "off" /\ UNCHANGED <<key, policy>>
     \/ reported' = "off" /\ policy' = TRUE /\ UNCHANGED key
     \/ reported' = "on" /\ key' = TRUE /\ policy' = TRUE
  /\ UNCHANGED <<kernel, socket, thread, news>>

\* load_verification_key: no public key, or a call that fails, ends it; the calls before
\* it have been made.
LoadVerificationKey ==
  /\ MainRuns /\ main = "keys" /\ main' = "settle"
  /\ \/ reported' = "off" /\ UNCHANGED <<key, policy>>
     \/ reported' = "off" /\ key' = TRUE /\ UNCHANGED policy
     \/ reported' = "on" /\ key' = TRUE /\ policy' = TRUE
  /\ UNCHANGED <<kernel, socket, thread, news>>

\* Mutation of HearNews: it does not wait for a message.
HearNewsAlways ==
  /\ MainRuns /\ main = "settle" /\ news' = news - 1
  /\ UNCHANGED <<kernel, socket, thread, main, keys>>

HearNews ==
  /\ MainRuns /\ main = "settle" /\ news > 0 /\ news' = news - 1
  /\ UNCHANGED <<kernel, socket, thread, main, keys>>

\* Mutation of Settle: it waits for a message, not for silence.
SettleOnNews ==
  /\ MainRuns /\ main = "settle" /\ news > 0 /\ main' = "boot"
  /\ UNCHANGED <<kernel, socket, thread, news, keys>>

\* Two seconds without a message.  prepare_boot follows.
Settle ==
  /\ MainRuns /\ main = "settle" /\ news = 0 /\ main' = "boot"
  /\ UNCHANGED <<kernel, socket, thread, news, keys>>

Kernel ==
  \/ \E d \in Device : Register(d) \/ Unregister(d) \/ Change(d)
  \/ \E u \in announce : Announce(u)
Thread ==
  \/ List \/ Bind \/ Receive \/ HandleAdd \/ MakeNode \/ HandleRemove
  \/ \E d \in todo : Scan(d)
Main == LoadVerificationKey \/ HearNews \/ Settle

Next == Kernel \/ Thread \/ Main
Spec == Init /\ [][Next]_vars
FairSpec == Spec /\ WF_vars(\E u \in announce : Announce(u)) /\ WF_vars(Thread) /\ WF_vars(Main)

-----------------------------------------------------------------------------
(* Properties. *)

TypeOK ==
  /\ present \subseteq Device /\ gone \subseteq Device /\ present \cap gone = {}
  /\ node \in [DevName -> {"none", "kernel", "thread"}]
  /\ announce \subseteq Event /\ changes \in Nat
  /\ bound \in BOOLEAN /\ queue \in Seq(Event)
  /\ unheard \subseteq Event /\ heard \subseteq Event
  /\ pc \in {"list", "scan", "recv", "add", "remove", "mknod", "aborted", "unbound"}
  /\ listed \subseteq Block /\ todo \subseteq listed /\ event \in Event \cup {NoEvent}
  /\ links \subseteq Block /\ news \in Nat
  /\ main \in {"keys", "settle", "boot"}
  /\ key \in BOOLEAN /\ policy \in BOOLEAN
  /\ reported \in {"nothing", "on", "off"}

\* The thread has handled what the kernel announced.
Drained == pc = "recv" /\ queue = <<>> /\ announce = {}

\* Then every block device has its link and its node, but for one that came after the
\* listing and whose uevent nobody heard; and a link without a device is one whose removal
\* nobody heard.  Names that are used again, nodes the kernel deletes or the thread makes,
\* and devices that come and go during the scan make no difference.
LinksMatch ==
  Drained =>
    /\ \A d \in present \cap Block :
         \/ d \in links /\ node[NameOf[d]] # "none"
         \/ d \notin listed /\ [kind |-> "add", device |-> d] \in unheard
    /\ \A d \in links \ present : [kind |-> "remove", device |-> d] \in unheard

\* Once the socket is there, init dies in the thread only over a device that the scan
\* found and linked and whose add uevent the socket took all the same, as it was sent only
\* after the bind.  Neither the scan by itself, nor removes, nor nodes that others made or
\* deleted, nor names that are used again kill it.
AbortExplained ==
  pc = "aborted" =>
    \E d \in listed \cap links : [kind |-> "add", device |-> d] \in heard

\* The comment at the installation of the policy, and what the user is told: a policy is
\* never there without the key, and it is there when, and only when, verification is
\* reported on.
VerificationAsReported ==
  /\ policy => key
  /\ reported # "nothing" => (reported = "on" <=> policy)

\* main boots, when no more devices come: no burst of uevents and no failure of the keys
\* keeps it waiting, unless init died.
Settles == <>(main = "boot" \/ ~MainRuns)

\* What DiskLoader relies on.
Devices == INSTANCE BlockDevices WITH
  Disk <- Block, plugged <- present \cap Block, gone <- gone \cap Block, linked <- links

ImplementsDevices == Devices!DevicesSpec

=============================================================================

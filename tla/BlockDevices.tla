---------------------------- MODULE BlockDevices ----------------------------
(***************************************************************************)
(* What the rest of tinyboot may rely on about block devices: they come    *)
(* and go, and their links under /dev/disk and /dev/part appear some time  *)
(* after they do, perhaps when they are gone again, and at most once.      *)
(* DevManager implements this; DiskLoader is written over it.  A device    *)
(* that is plugged in again has a new diskseq: it is another element.      *)
(***************************************************************************)
CONSTANT Disk  \* the devices that may appear, by diskseq

VARIABLES
  plugged,  \* devices in /sys/class/block
  gone,     \* devices that were there: their diskseq is not used again
  linked    \* devices with their links

hardware == <<plugged, gone, linked>>

InitDevices == plugged \in SUBSET Disk /\ gone = {} /\ linked \in SUBSET plugged

Plug(d) ==
  /\ d \notin plugged \cup gone
  /\ plugged' = plugged \cup {d}
  /\ UNCHANGED <<gone, linked>>

Unplug(d) ==
  /\ d \in plugged
  /\ plugged' = plugged \ {d} /\ gone' = gone \cup {d}
  /\ UNCHANGED linked

Link(d) ==
  /\ d \in (plugged \cup gone) \ linked
  /\ linked' = linked \cup {d}
  /\ UNCHANGED <<plugged, gone>>

Unlink(d) ==
  /\ d \in linked \cap gone
  /\ linked' = linked \ {d}
  /\ UNCHANGED <<plugged, gone>>

NextDevices == \E d \in Disk : Plug(d) \/ Unplug(d) \/ Link(d) \/ Unlink(d)

DevicesSpec == InitDevices /\ [][NextDevices]_hardware

=============================================================================

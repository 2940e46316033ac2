-------------------------- MODULE DevManagerProofs --------------------------
(***************************************************************************)
(* What the device manager keeps, for any devices, names and buffer: links *)
(* and nodes match the devices once the uevents are handled, and it is an  *)
(* implementation of BlockDevices.                                         *)
(***************************************************************************)
EXTENDS DevManager, TLAPS

-----------------------------------------------------------------------------
(* The inductive invariant. *)

Add(d) == [kind |-> "add", device |-> d]
Rem(d) == [kind |-> "remove", device |-> d]

Queued(u) == \E i \in 1 .. Len(queue) : queue[i] = u
Later(i, u) == \E j \in 1 .. Len(queue) : j > i /\ queue[j] = u
SameName(d, e) == NameOf[d] = NameOf[e]

\* Uevents, the listing and the links are of devices that are or were there.
Origin ==
  /\ \A u \in announce \cup unheard : u.device \in present \cup gone
  /\ \A i \in 1 .. Len(queue) : queue[i].device \in present \cup gone
  /\ event # NoEvent => event.device \in present \cup gone
  /\ \A d \in Device : Rem(d) \in announce \/ Queued(Rem(d)) \/ event = Rem(d) => d \in gone
  /\ listed \subseteq present \cup gone /\ links \subseteq present \cup gone

\* The thread: the scan, then one uevent at a time.
Phases ==
  /\ pc \in {"list", "scan", "unbound"} => ~bound
  /\ pc \in {"recv", "add", "remove", "mknod", "aborted"} => bound
  /\ ~bound => queue = <<>>
  /\ pc \in {"add", "mknod"} => event \in Event /\ event.kind = "add"
  /\ pc = "remove" => event \in Event /\ event.kind = "remove"
  /\ pc \in {"list", "scan", "recv", "aborted", "unbound"} => event = NoEvent
  /\ pc = "list" => listed = {} /\ links = {}
  /\ pc = "scan" => links \subseteq listed \ todo
  /\ pc # "scan" => todo = {}

\* A name belongs to one device, whose predecessor's uevents are sent.
Names ==
  /\ \A d, e \in present : SameName(d, e) => d = e
  /\ \A d \in present : \A u \in announce : SameName(u.device, d) => u.device = d

\* The uevent of a new device is in one place at a time.
Once ==
  \A d \in Device :
    /\ Add(d) \in announce => ~Queued(Add(d)) /\ event # Add(d) /\ Add(d) \notin unheard
    /\ Queued(Add(d)) => event # Add(d) /\ Add(d) \notin unheard
    /\ event = Add(d) => Add(d) \notin unheard
    /\ \A i, j \in 1 .. Len(queue) : queue[i] = Add(d) /\ queue[j] = Add(d) => i = j

\* A removal comes after the addition: what was linked will be unlinked.
RemovalFollows ==
  \A d \in gone \cap Device :
    /\ Add(d) \notin announce
    /\ \A i \in 1 .. Len(queue) :
         queue[i] = Add(d) => Rem(d) \in announce \cup unheard \/ Later(i, Rem(d))
    /\ event = Add(d) => Rem(d) \in announce \cup unheard \/ Queued(Rem(d))
    /\ d \in links => Rem(d) \in announce \cup unheard \/ Queued(Rem(d)) \/ event = Rem(d)
    /\ ~bound => Rem(d) \in announce \cup unheard

\* A device that takes over a name is announced after the removal of the one before.
AdditionFollows ==
  \A d \in present : \A e \in Device : SameName(d, e) =>
    /\ \A i \in 1 .. Len(queue) :
         queue[i] = Rem(e) => Add(d) \in announce \cup unheard \/ Later(i, Add(d))
    /\ event = Rem(e) => Add(d) \in announce \cup unheard \/ Queued(Add(d))

\* Nodes: of devices the scan found, or may find, they stay; others may be missing until
\* the uevent is handled.
Nodes ==
  /\ \A d \in present :
       \/ node[NameOf[d]] # "none"
       \/ Add(d) \in announce \cup unheard \/ Queued(Add(d)) \/ event = Add(d)
       \/ pc = "aborted"
  /\ \A d \in present : d \in listed \/ ~bound =>
       /\ node[NameOf[d]] # "none"
       /\ \A e \in Device : SameName(d, e) => ~Queued(Rem(e)) /\ event # Rem(e)
  /\ pc = "mknod" /\ event.device \in present => node[NameOf[event.device]] = "none"

\* Links: what the scan found is linked, what came later is linked when it is handled.
Links ==
  /\ \A d \in present \cap listed : d \in todo \/ d \in links
  /\ pc # "list" => \A d \in (present \cap Block) \ listed :
       \/ d \in links \/ pc = "aborted"
       \/ Add(d) \in announce \cup unheard \/ Queued(Add(d)) \/ event = Add(d)
  /\ \A d \in links \ listed : Add(d) \notin announce /\ ~Queued(Add(d)) /\ event # Add(d)

\* What the thread handles went through the buffer.
Heard ==
  /\ \A i \in 1 .. Len(queue) : queue[i] \in heard
  /\ event # NoEvent => event \in heard

\* What aborts is a second link.
Aborts == pc = "aborted" => \E d \in listed \cap links : Add(d) \in heard

\* Before the keys are loaded there is no policy.
KeysFirst == main = "keys" => ~policy

IInv ==
  /\ TypeOK /\ Origin /\ Phases /\ Names /\ Once /\ RemovalFollows /\ AdditionFollows
  /\ Nodes /\ Links /\ Heard /\ Aborts /\ KeysFirst /\ VerificationAsReported

-----------------------------------------------------------------------------
(* The buffer. *)

\* What a uevent that is sent does to the buffer.
LEMMA Sent ==
  ASSUME TypeOK, NEW u \in announce, Announce(u)
  PROVE  /\ u \in Event
         /\ \/ queue' = queue /\ unheard' = unheard \cup {u}
            \/ /\ bound /\ unheard' = unheard /\ Len(queue') = Len(queue) + 1
               /\ queue'[Len(queue) + 1] = u
               /\ \A i \in 1 .. Len(queue) : queue'[i] = queue[i]
  BY DEF TypeOK, Announce

\* What is in the buffer then.
LEMMA SentQueued ==
  ASSUME TypeOK, NEW u \in announce, Announce(u)
  PROVE  /\ \A v : Queued(v) => Queued(v)'
         /\ \A v : Queued(v)' => Queued(v) \/ v = u
         /\ Queued(u)' \/ u \in unheard'
         /\ \A v : \A i \in 1 .. Len(queue) : Later(i, v) => Later(i, v)'
         /\ \A i \in 1 .. Len(queue) : Later(i, u)' \/ u \in unheard'
         /\ \A i \in 1 .. Len(queue') :
              \/ i \in 1 .. Len(queue) /\ queue'[i] = queue[i]
              \/ i = Len(queue) + 1 /\ queue'[i] = u
<1>1. Len(queue) \in Nat
  BY DEF TypeOK
<1>2. CASE queue' = queue /\ unheard' = unheard \cup {u}
  <2>1. \A v : Queued(v)' <=> Queued(v)
    BY <1>2 DEF Queued
  <2>2. \A v : \A i \in 1 .. Len(queue) : Later(i, v)' <=> Later(i, v)
    BY <1>2 DEF Later
  <2> QED
    BY <1>2, <2>1, <2>2
<1>3. CASE /\ bound /\ unheard' = unheard /\ Len(queue') = Len(queue) + 1
           /\ queue'[Len(queue) + 1] = u
           /\ \A i \in 1 .. Len(queue) : queue'[i] = queue[i]
  <2>1. /\ 1 .. Len(queue) \subseteq 1 .. Len(queue') /\ Len(queue) + 1 \in 1 .. Len(queue')
        /\ \A i \in 1 .. Len(queue') : i \in 1 .. Len(queue) \/ i = Len(queue) + 1
        /\ \A i \in 1 .. Len(queue) : Len(queue) + 1 > i
    BY <1>1, <1>3
  <2>2. \A v : Queued(v) => Queued(v)'
    BY <1>3, <2>1 DEF Queued
  <2>3. \A v : Queued(v)' => Queued(v) \/ v = u
    BY <1>3, <2>1 DEF Queued
  <2>4. Queued(u)'
    BY <1>3, <2>1 DEF Queued
  <2>5. ASSUME NEW v, NEW i \in 1 .. Len(queue), Later(i, v) PROVE Later(i, v)'
    BY <1>3, <2>1, <2>5 DEF Later
  <2>6. ASSUME NEW i \in 1 .. Len(queue) PROVE Later(i, u)'
    BY <1>3, <2>1 DEF Later
  <2> QED
    BY <1>3, <2>1, <2>2, <2>3, <2>4, <2>5, <2>6
<1> QED
  BY <1>2, <1>3, Sent

\* What receiving does to the buffer.
LEMMA Received ==
  ASSUME TypeOK, Receive
  PROVE  /\ Len(queue) \in Nat \ {0} /\ Len(queue') = Len(queue) - 1 /\ queue[1] \in Event
         /\ \A i \in 1 .. Len(queue') : queue'[i] = queue[i + 1]
         /\ \/ queue[1].kind = "change" /\ pc' = pc /\ event' = event
            \/ queue[1].kind # "change" /\ pc' = queue[1].kind /\ event' = queue[1]
<1>1. queue \in Seq(Event) /\ queue # <<>> /\ queue' = Tail(queue)
  BY DEF TypeOK, Receive
<1>2. Len(queue) \in Nat \ {0} /\ Len(queue') = Len(queue) - 1
  BY <1>1
<1>3. Head(queue) = queue[1] /\ queue[1] \in Event
  BY <1>1, <1>2
<1>4. \A i \in 1 .. Len(queue') : queue'[i] = queue[i + 1]
  BY <1>1, <1>2
<1> QED
  BY <1>2, <1>3, <1>4 DEF Receive

\* What is in the buffer then.
LEMMA ReceivedQueued ==
  ASSUME TypeOK, Receive
  PROVE  /\ \A v : Queued(v)' => Queued(v)
         /\ \A v : Queued(v) => Queued(v)' \/ v = queue[1]
         /\ Queued(queue[1])
         /\ \A v : Later(1, v) => Queued(v)'
         /\ \A v : \A i \in 1 .. Len(queue') : Later(i + 1, v) => Later(i, v)'
         /\ \A i \in 1 .. Len(queue') : i + 1 \in 1 .. Len(queue) /\ queue'[i] = queue[i + 1]
<1>1. /\ Len(queue) \in Nat \ {0} /\ Len(queue') = Len(queue) - 1
      /\ \A i \in 1 .. Len(queue') : queue'[i] = queue[i + 1]
  BY Received
<1>2. ASSUME NEW v, NEW i \in 1 .. Len(queue), queue[i] = v
      PROVE  i = 1 \/ (i - 1 \in 1 .. Len(queue') /\ queue'[i - 1] = v)
  BY <1>1, <1>2
<1>3. ASSUME NEW v, Queued(v) PROVE Queued(v)' \/ v = queue[1]
  BY <1>2, <1>3 DEF Queued
<1>4. ASSUME NEW v, Later(1, v) PROVE Queued(v)'
  BY <1>1, <1>2, <1>4 DEF Queued, Later
<1>5. ASSUME NEW v, NEW i \in 1 .. Len(queue'), Later(i + 1, v) PROVE Later(i, v)'
  <2>1. PICK j \in 1 .. Len(queue) : j > i + 1 /\ queue[j] = v
    BY <1>5 DEF Later
  <2>2. j - 1 \in 1 .. Len(queue') /\ j - 1 > i /\ queue'[j - 1] = v
    BY <1>1, <2>1
  <2> QED
    BY <2>2 DEF Later
<1>6. ASSUME NEW v, Queued(v)' PROVE Queued(v)
  BY <1>1, <1>6 DEF Queued
<1>7. Queued(queue[1])
  BY <1>1 DEF Queued
<1>8. \A i \in 1 .. Len(queue') : i + 1 \in 1 .. Len(queue)
  BY <1>1
<1> QED
  BY <1>1, <1>3, <1>4, <1>5, <1>6, <1>7, <1>8

-----------------------------------------------------------------------------
(* One lemma per conjunct: a step keeps it. *)

\* Uevents are told apart by their kind and device.
LEMMA Kinds ==
  /\ \A d \in Device : Add(d) \in Event /\ Rem(d) \in Event
  /\ \A d : Add(d).kind = "add" /\ Add(d).device = d /\ Rem(d).kind = "remove" /\ Rem(d).device = d
  /\ \A d, e : Add(d) # Rem(e) /\ Add(d) # NoEvent /\ Rem(d) # NoEvent
  /\ \A d, e : (Add(d) = Add(e) => d = e) /\ (Rem(d) = Rem(e) => d = e)
  /\ \A u \in Event : /\ u.device \in Device /\ u # NoEvent
                      /\ (u.kind = "add" => u = Add(u.device))
                      /\ (u.kind = "remove" => u = Rem(u.device))
  BY DEF Add, Rem, Event, NoEvent

\* The types.
LEMMA TypeStep ==
  ASSUME IInv, [Next]_vars
  PROVE  TypeOK'
<1> USE DEF vars, kernel, socket, thread, keys, IInv
<1>1. ASSUME NEW d \in Device, Register(d) PROVE TypeOK'
  <2>1. [kind |-> "add", device |-> d] \in Event
    BY DEF Event
  <2>2. NameOf[d] \in DevName
    BY DEF DevName
  <2> QED
    BY <1>1, <2>1, <2>2 DEF Register, TypeOK
<1>2. ASSUME NEW d \in Device, Unregister(d) PROVE TypeOK'
  <2>1. [kind |-> "remove", device |-> d] \in Event
    BY DEF Event
  <2>2. NameOf[d] \in DevName
    BY DEF DevName
  <2> QED
    BY <1>2, <2>1, <2>2 DEF Unregister, TypeOK
<1>3. ASSUME NEW d \in Device, Change(d) PROVE TypeOK'
  <2>1. [kind |-> "change", device |-> d] \in Event
    BY DEF Event
  <2> QED
    BY <1>3, <2>1 DEF Change, TypeOK
<1>4. ASSUME NEW u \in announce, Announce(u) PROVE TypeOK'
  BY <1>4, Sent DEF Announce, TypeOK
<1>5. CASE List
  BY <1>5 DEF List, TypeOK
<1>6. ASSUME NEW d \in todo, Scan(d) PROVE TypeOK'
  BY <1>6 DEF Scan, AddLink, TypeOK
<1>7. CASE Bind
  BY <1>7 DEF Bind, TypeOK
<1>8. CASE Receive
  <2>1. queue' \in Seq(Event) /\ Head(queue) \in Event /\ news' \in Nat
    BY <1>8 DEF Receive, TypeOK
  <2>2. Head(queue).kind \in {"add", "remove", "change"}
    BY <2>1 DEF Event
  <2> QED
    BY <1>8, <2>1, <2>2 DEF Receive, TypeOK
<1>9. CASE HandleAdd
  BY <1>9 DEF HandleAdd, LinkEvent, AddLink, TypeOK
<1>10. CASE MakeNode
  BY <1>10 DEF MakeNode, LinkEvent, AddLink, TypeOK
<1>11. CASE HandleRemove
  BY <1>11 DEF HandleRemove, TypeOK
<1>12. CASE LoadVerificationKey
  BY <1>12 DEF LoadVerificationKey, TypeOK
<1>13. CASE HearNews
  BY <1>13 DEF HearNews, TypeOK
<1>14. CASE Settle
  BY <1>14 DEF Settle, TypeOK
<1>15. CASE UNCHANGED vars
  BY <1>15 DEF TypeOK
<1> QED
  BY <1>1, <1>2, <1>3, <1>4, <1>5, <1>6, <1>7, <1>8, <1>9, <1>10, <1>11, <1>12, <1>13, <1>14, <1>15 DEF Next, Kernel, Thread, Main

\* Uevents are of devices that are or were there.
LEMMA OriginStep ==
  ASSUME IInv, [Next]_vars
  PROVE  Origin'
<1> USE DEF vars, kernel, socket, thread, keys, IInv
<1>1. ASSUME NEW d \in Device, Register(d) PROVE Origin'
  BY <1>1 DEF Register, Origin, TypeOK, Phases, Add, Rem, Queued
<1>2. ASSUME NEW d \in Device, Unregister(d) PROVE Origin'
  BY <1>2 DEF Unregister, Origin, TypeOK, Phases, Add, Rem, Queued
<1>3. ASSUME NEW d \in Device, Change(d) PROVE Origin'
  BY <1>3 DEF Change, Origin, TypeOK, Phases, Add, Rem, Queued
<1>4. ASSUME NEW u \in announce, Announce(u) PROVE Origin'
  BY <1>4, SentQueued, Sent DEF Announce, Origin, TypeOK, Phases, Add, Rem, Queued
<1>5. CASE List
  BY <1>5 DEF List, Origin, TypeOK, Phases, Add, Rem, Queued
<1>6. ASSUME NEW d \in todo, Scan(d) PROVE Origin'
  BY <1>6 DEF Scan, AddLink, Origin, TypeOK, Phases, Add, Rem, Queued
<1>7. CASE Bind
  BY <1>7 DEF Bind, Origin, TypeOK, Phases, Add, Rem, Queued
<1>8. CASE Receive
  BY <1>8, Received, ReceivedQueued, Kinds DEF Receive, Origin, TypeOK, Phases, Add, Rem, Queued
<1>9. CASE HandleAdd
  <2>1. event = Add(event.device) /\ event # NoEvent
    BY <1>9, Kinds DEF HandleAdd, Phases
  <2>2. /\ event' \in {event, NoEvent} /\ links' \in {links, links \cup {event.device}}
        /\ UNCHANGED <<present, gone, announce, queue, unheard, listed>>
    BY <1>9 DEF HandleAdd, LinkEvent, AddLink
  <2>3. \A d \in Device : event' # Rem(d)
    BY <2>1, <2>2, Kinds
  <2> QED
    BY <2>1, <2>2, <2>3 DEF Origin, Queued
<1>10. CASE MakeNode
  <2>1. event = Add(event.device) /\ event # NoEvent
    BY <1>10, Kinds DEF MakeNode, Phases
  <2>2. /\ event' \in {event, NoEvent} /\ links' \in {links, links \cup {event.device}}
        /\ UNCHANGED <<present, gone, announce, queue, unheard, listed>>
    BY <1>10 DEF MakeNode, LinkEvent, AddLink
  <2>3. \A d \in Device : event' # Rem(d)
    BY <2>1, <2>2, Kinds
  <2> QED
    BY <2>1, <2>2, <2>3 DEF Origin, Queued
<1>11. CASE HandleRemove
  BY <1>11, Kinds DEF HandleRemove, Origin, TypeOK, Phases, Add, Rem, Queued
<1>12. CASE LoadVerificationKey
  BY <1>12 DEF LoadVerificationKey, Origin, TypeOK, Phases, Add, Rem, Queued
<1>13. CASE HearNews
  BY <1>13 DEF HearNews, Origin, TypeOK, Phases, Add, Rem, Queued
<1>14. CASE Settle
  BY <1>14 DEF Settle, Origin, TypeOK, Phases, Add, Rem, Queued
<1>15. CASE UNCHANGED vars
  BY <1>15 DEF Origin, TypeOK, Phases, Add, Rem, Queued
<1> QED
  BY <1>1, <1>2, <1>3, <1>4, <1>5, <1>6, <1>7, <1>8, <1>9, <1>10, <1>11, <1>12, <1>13, <1>14, <1>15 DEF Next, Kernel, Thread, Main

\* The phases of the thread.
LEMMA PhasesStep ==
  ASSUME IInv, [Next]_vars
  PROVE  Phases'
<1> USE DEF vars, kernel, socket, thread, keys, IInv
<1>1. ASSUME NEW d \in Device, Register(d) PROVE Phases'
  BY <1>1 DEF Register, Phases, TypeOK
<1>2. ASSUME NEW d \in Device, Unregister(d) PROVE Phases'
  BY <1>2 DEF Unregister, Phases, TypeOK
<1>3. ASSUME NEW d \in Device, Change(d) PROVE Phases'
  BY <1>3 DEF Change, Phases, TypeOK
<1>4. ASSUME NEW u \in announce, Announce(u) PROVE Phases'
  BY <1>4, Sent DEF Announce, Phases, TypeOK
<1>5. CASE List
  BY <1>5 DEF List, Phases, TypeOK
<1>6. ASSUME NEW d \in todo, Scan(d) PROVE Phases'
  BY <1>6 DEF Scan, AddLink, Phases, TypeOK
<1>7. CASE Bind
  BY <1>7 DEF Bind, Phases, TypeOK
<1>8. CASE Receive
  <2>1. queue[1] \in Event /\ queue[1].kind \in {"add", "remove", "change"}
    BY <1>8, Received DEF Event
  <2>2. /\ pc = "recv" /\ bound /\ todo = {} /\ event = NoEvent
        /\ UNCHANGED <<bound, listed, todo, links>>
    BY <1>8 DEF Receive, Phases
  <2> QED
    BY <1>8, <2>1, <2>2, Received DEF Phases
<1>9. CASE HandleAdd
  BY <1>9 DEF HandleAdd, LinkEvent, AddLink, Phases, TypeOK
<1>10. CASE MakeNode
  BY <1>10 DEF MakeNode, LinkEvent, AddLink, Phases, TypeOK
<1>11. CASE HandleRemove
  BY <1>11 DEF HandleRemove, Phases, TypeOK
<1>12. CASE LoadVerificationKey
  BY <1>12 DEF LoadVerificationKey, Phases, TypeOK
<1>13. CASE HearNews
  BY <1>13 DEF HearNews, Phases, TypeOK
<1>14. CASE Settle
  BY <1>14 DEF Settle, Phases, TypeOK
<1>15. CASE UNCHANGED vars
  BY <1>15 DEF Phases, TypeOK
<1> QED
  BY <1>1, <1>2, <1>3, <1>4, <1>5, <1>6, <1>7, <1>8, <1>9, <1>10, <1>11, <1>12, <1>13, <1>14, <1>15 DEF Next, Kernel, Thread, Main

\* One device has a name.
LEMMA NamesStep ==
  ASSUME IInv, [Next]_vars
  PROVE  Names'
<1> USE DEF vars, kernel, socket, thread, keys, IInv
<1>1. ASSUME NEW d \in Device, Register(d) PROVE Names'
  BY <1>1 DEF Register, Names, TypeOK, SameName, Origin
<1>2. ASSUME NEW d \in Device, Unregister(d) PROVE Names'
  BY <1>2 DEF Unregister, Names, TypeOK, SameName, Origin
<1>3. ASSUME NEW d \in Device, Change(d) PROVE Names'
  BY <1>3 DEF Change, Names, TypeOK, SameName, Origin
<1>4. ASSUME NEW u \in announce, Announce(u) PROVE Names'
  BY <1>4 DEF Announce, Names, TypeOK, SameName, Origin
<1>5. CASE List
  BY <1>5 DEF List, Names, TypeOK, SameName, Origin
<1>6. ASSUME NEW d \in todo, Scan(d) PROVE Names'
  BY <1>6 DEF Scan, AddLink, Names, TypeOK, SameName, Origin
<1>7. CASE Bind
  BY <1>7 DEF Bind, Names, TypeOK, SameName, Origin
<1>8. CASE Receive
  BY <1>8 DEF Receive, Names, TypeOK, SameName, Origin
<1>9. CASE HandleAdd
  BY <1>9 DEF HandleAdd, LinkEvent, AddLink, Names, TypeOK, SameName, Origin
<1>10. CASE MakeNode
  BY <1>10 DEF MakeNode, LinkEvent, AddLink, Names, TypeOK, SameName, Origin
<1>11. CASE HandleRemove
  BY <1>11 DEF HandleRemove, Names, TypeOK, SameName, Origin
<1>12. CASE LoadVerificationKey
  BY <1>12 DEF LoadVerificationKey, Names, TypeOK, SameName, Origin
<1>13. CASE HearNews
  BY <1>13 DEF HearNews, Names, TypeOK, SameName, Origin
<1>14. CASE Settle
  BY <1>14 DEF Settle, Names, TypeOK, SameName, Origin
<1>15. CASE UNCHANGED vars
  BY <1>15 DEF Names, TypeOK, SameName, Origin
<1> QED
  BY <1>1, <1>2, <1>3, <1>4, <1>5, <1>6, <1>7, <1>8, <1>9, <1>10, <1>11, <1>12, <1>13, <1>14, <1>15 DEF Next, Kernel, Thread, Main

\* The uevent of a new device.
LEMMA OnceStep ==
  ASSUME IInv, [Next]_vars
  PROVE  Once'
<1> USE DEF vars, kernel, socket, thread, keys
<1>1. ASSUME UNCHANGED <<announce, queue, event, unheard>> PROVE Once'
  BY <1>1 DEF IInv, Once, Queued, Later
<1>2. ASSUME NEW d \in Device, Register(d) PROVE Once'
  <2>1. announce' = announce \cup {Add(d)} /\ UNCHANGED <<queue, event, unheard>>
    BY <1>2 DEF Register, Add
  <2>2. Add(d) \notin unheard /\ ~Queued(Add(d)) /\ event # Add(d)
    BY <1>2, Kinds DEF Register, IInv, Origin, Queued
  <2> QED
    BY <2>1, <2>2, Kinds DEF IInv, Once, Queued
<1>3. ASSUME NEW d \in Device, Unregister(d) PROVE Once'
  <2>1. announce' = announce \cup {Rem(d)} /\ UNCHANGED <<queue, event, unheard>>
    BY <1>3 DEF Unregister, Rem
  <2> QED
    BY <2>1, Kinds DEF IInv, Once, Queued
<1>4. ASSUME NEW d \in Device, Change(d) PROVE Once'
  <2>1. UNCHANGED <<queue, event, unheard>> /\ \A e : Add(e) \in announce' => Add(e) \in announce
    BY <1>4 DEF Change, Add
  <2> QED
    BY <2>1 DEF IInv, Once, Queued
<1>5. ASSUME NEW u \in announce, Announce(u) PROVE Once'
  <2>1. announce' = announce \ {u} /\ event' = event /\ unheard' \in {unheard, unheard \cup {u}}
    BY <1>5 DEF Announce
  <2>2. ASSUME NEW e \in Device, Add(e) # u
        PROVE  /\ Add(e) \in announce' <=> Add(e) \in announce
               /\ Queued(Add(e))' <=> Queued(Add(e))
               /\ Add(e) \in unheard' <=> Add(e) \in unheard
    BY <1>5, <2>1, <2>2, SentQueued DEF IInv
  <2>3. Len(queue) \in Nat
    BY DEF IInv, TypeOK
  <2>4. ASSUME NEW e \in Device, NEW i \in 1 .. Len(queue'), NEW j \in 1 .. Len(queue'),
               queue'[i] = Add(e), queue'[j] = Add(e)
        PROVE  i = j
    <3>1. CASE Add(e) # u
      BY <1>5, <2>4, <3>1, SentQueued DEF IInv, Once
    <3>2. CASE Add(e) = u
      <4>1. ~Queued(u)
        BY <3>2 DEF IInv, Once
      <4> QED
        BY <1>5, <2>3, <2>4, <3>2, <4>1, SentQueued DEF IInv, Queued
    <3> QED
      BY <3>1, <3>2
  <2>5. ASSUME NEW e \in Device, Add(e) = u
        PROVE  /\ Add(e) \notin announce' /\ event' # Add(e)
               /\ Queued(Add(e))' => Add(e) \notin unheard'
    BY <1>5, <2>1, <2>3, <2>5, Sent DEF IInv, Once, Queued
  <2>6. ASSUME NEW e \in Device
        PROVE  /\ Add(e) \in announce' => ~Queued(Add(e))' /\ event' # Add(e) /\ Add(e) \notin unheard'
               /\ Queued(Add(e))' => event' # Add(e) /\ Add(e) \notin unheard'
               /\ event' = Add(e) => Add(e) \notin unheard'
    BY <2>1, <2>2, <2>5 DEF IInv, Once
  <2> QED
    BY <2>4, <2>6 DEF Once
<1>6. CASE List
  BY <1>1, <1>6 DEF List
<1>7. ASSUME NEW d \in todo, Scan(d) PROVE Once'
  BY <1>1, <1>7 DEF Scan, AddLink
<1>8. CASE Bind
  BY <1>1, <1>8 DEF Bind
<1>9. CASE Receive
  <2>1. UNCHANGED <<announce, unheard>> /\ event' \in {event, queue[1]}
    BY <1>9, Received DEF Receive, IInv
  <2>2. Len(queue) \in Nat \ {0} /\ Len(queue') = Len(queue) - 1
    BY <1>9, Received DEF IInv
  <2>3. ASSUME NEW e \in Device, NEW i \in 1 .. Len(queue'), NEW j \in 1 .. Len(queue'),
               queue'[i] = Add(e), queue'[j] = Add(e)
        PROVE  i = j
    <3>1. /\ i + 1 \in 1 .. Len(queue) /\ queue[i + 1] = Add(e)
          /\ j + 1 \in 1 .. Len(queue) /\ queue[j + 1] = Add(e)
      BY <1>9, <2>3, ReceivedQueued DEF IInv
    <3>2. i + 1 = j + 1
      BY <3>1 DEF IInv, Once
    <3> QED
      BY <2>2, <3>2
  <2>4. ASSUME NEW e \in Device, event' = Add(e), event # Add(e) PROVE ~Queued(Add(e))'
    <3>1. SUFFICES ASSUME NEW i \in 1 .. Len(queue'), queue'[i] = Add(e) PROVE FALSE
      BY DEF Queued
    <3>2. /\ i + 1 \in 1 .. Len(queue) /\ queue[i + 1] = Add(e)
          /\ 1 \in 1 .. Len(queue) /\ queue[1] = Add(e)
      BY <1>9, <2>1, <2>2, <2>4, <3>1, ReceivedQueued DEF IInv
    <3>3. i + 1 = 1
      BY <3>2 DEF IInv, Once
    <3> QED
      BY <2>2, <3>3
  <2>5. \A e : Queued(Add(e))' => Queued(Add(e))
    BY <1>9, ReceivedQueued DEF IInv
  <2>6. \A e : event' = Add(e) => event = Add(e) \/ Queued(Add(e))
    BY <1>9, <2>1, ReceivedQueued DEF IInv
  <2> QED
    BY <2>1, <2>3, <2>4, <2>5, <2>6 DEF IInv, Once
<1>10. CASE HandleAdd
  <2>1. event' \in {event, NoEvent} /\ UNCHANGED <<announce, queue, unheard>>
    BY <1>10 DEF HandleAdd, LinkEvent, AddLink
  <2> QED
    BY <2>1, Kinds DEF IInv, Once, Queued
<1>11. CASE MakeNode
  <2>1. event' \in {event, NoEvent} /\ UNCHANGED <<announce, queue, unheard>>
    BY <1>11 DEF MakeNode, LinkEvent, AddLink
  <2> QED
    BY <2>1, Kinds DEF IInv, Once, Queued
<1>12. CASE HandleRemove
  <2>1. event' \in {event, NoEvent} /\ UNCHANGED <<announce, queue, unheard>>
    BY <1>12 DEF HandleRemove, LinkEvent, AddLink
  <2> QED
    BY <2>1, Kinds DEF IInv, Once, Queued
<1>13. CASE LoadVerificationKey
  BY <1>1, <1>13 DEF LoadVerificationKey
<1>14. CASE HearNews
  BY <1>1, <1>14 DEF HearNews
<1>15. CASE Settle
  BY <1>1, <1>15 DEF Settle
<1>16. CASE UNCHANGED vars
  BY <1>1, <1>16
<1> QED
  BY <1>2, <1>3, <1>4, <1>5, <1>6, <1>7, <1>8, <1>9, <1>10, <1>11, <1>12, <1>13, <1>14, <1>15, <1>16 DEF Next, Kernel, Thread, Main

\* A uevent being handled: the name of its device may be linked, or be again a later device's.
LEMMA Handling ==
  ASSUME IInv
  PROVE  /\ pc \in {"add", "mknod"} => event = Add(event.device)
         /\ pc = "remove" => event = Rem(event.device) /\ event.device \in gone
         /\ pc \in {"add", "mknod", "remove"} => event.device \in Device
         /\ pc \in {"recv", "scan", "list", "aborted", "unbound"} => event = NoEvent
<1> USE DEF IInv
<1>1. pc \in {"add", "mknod", "remove"} => event \in Event
  BY DEF Phases
<1>2. pc \in {"add", "mknod"} => event = Add(event.device)
  BY <1>1, Kinds DEF Phases
<1>3. pc = "remove" => event = Rem(event.device)
  BY <1>1, Kinds DEF Phases
<1>4. pc \in {"add", "mknod", "remove"} => event.device \in Device
  BY <1>1, Kinds
<1> QED
  BY <1>2, <1>3, <1>4 DEF Origin, Phases

\* What becomes of the device and its link at the end of an "add".
LEMMA HandlingAdd ==
  ASSUME IInv, HandleAdd \/ MakeNode
  PROVE  /\ event = Add(event.device) /\ event.device \in Device
         /\ UNCHANGED <<present, gone, announce, unheard, heard, queue, bound, listed, todo>>
         /\ \A n \in DevName : node'[n] # node[n] => node'[n] = "thread" /\ pc # "add"
         /\ \/ /\ pc' = "mknod" /\ event' = event /\ UNCHANGED <<links, node>>
               /\ node[NameOf[event.device]] = "none"
            \/ /\ pc' = "recv" /\ event' = NoEvent /\ links' = links \cup ({event.device} \cap Block)
               /\ node'[NameOf[event.device]] # "none"
            \/ /\ pc' = "aborted" /\ event' = NoEvent /\ links' = links /\ event.device \in links
               /\ node'[NameOf[event.device]] # "none"
            \/ /\ pc' = "recv" /\ event' = NoEvent /\ UNCHANGED <<links, node>>
               /\ event.device \notin present
<1>1. /\ event = Add(event.device) /\ event.device \in Device /\ NameOf[event.device] \in DevName
  BY Handling DEF HandleAdd, MakeNode, DevName
<1>2. node \in [DevName -> {"none", "kernel", "thread"}]
  BY DEF IInv, TypeOK
<1>3. CASE HandleAdd
  BY <1>1, <1>2, <1>3 DEF HandleAdd, LinkEvent, AddLink, kernel, socket
<1>4. CASE MakeNode
  <2>1. CASE node[NameOf[event.device]] = "none"
    BY <1>1, <1>2, <1>4, <2>1 DEF MakeNode, LinkEvent, AddLink, socket
  <2>2. CASE node[NameOf[event.device]] # "none"
    BY <1>1, <1>2, <1>4, <2>2 DEF MakeNode, LinkEvent, AddLink, socket, IInv, Nodes
  <2> QED
    BY <2>1, <2>2
<1> QED
  BY <1>3, <1>4

\* What was linked will be unlinked.
LEMMA RemovalStep ==
  ASSUME IInv, [Next]_vars
  PROVE  RemovalFollows'
<1> USE DEF vars, kernel, socket, thread, keys
<1>1. ASSUME UNCHANGED <<gone, announce, unheard, queue, event, links, bound>> PROVE RemovalFollows'
  BY <1>1 DEF IInv, RemovalFollows, Queued, Later
<1>2. ASSUME NEW d \in Device, Register(d) PROVE RemovalFollows'
  <2>1. announce' = announce \cup {Add(d)} /\ UNCHANGED <<gone, unheard, queue, event, links, bound>> /\ d \notin gone
    BY <1>2 DEF Register, Add
  <2> QED
    BY <2>1, Kinds DEF IInv, RemovalFollows, Queued, Later
<1>3. ASSUME NEW d \in Device, Unregister(d) PROVE RemovalFollows'
  <2>1. /\ announce' = announce \cup {Rem(d)} /\ UNCHANGED <<unheard, queue, event, links, bound>>
        /\ gone' = gone \cup {d} /\ Add(d) \notin announce
    BY <1>3, Kinds DEF Unregister, Rem
  <2> QED
    BY <2>1, Kinds DEF IInv, RemovalFollows, Queued, Later
<1>4. ASSUME NEW d \in Device, Change(d) PROVE RemovalFollows'
  <2>1. /\ UNCHANGED <<gone, unheard, queue, event, links, bound>> /\ announce \subseteq announce'
        /\ \A e : Add(e) \in announce' => Add(e) \in announce
    BY <1>4 DEF Change, Add
  <2> QED
    BY <2>1 DEF IInv, RemovalFollows, Queued, Later
<1>5. ASSUME NEW u \in announce, Announce(u) PROVE RemovalFollows'
  <2>1. /\ announce' = announce \ {u} /\ UNCHANGED <<gone, event, links, bound>> /\ unheard \subseteq unheard'
        /\ ~bound => u \in unheard'
    BY <1>5 DEF Announce
  <2>2. ASSUME NEW e \in gone \cap Device, NEW i \in 1 .. Len(queue'), queue'[i] = Add(e)
        PROVE  Rem(e) \in announce' \cup unheard' \/ Later(i, Rem(e))'
    <3>1. i \in 1 .. Len(queue) /\ queue[i] = Add(e)
      BY <1>5, <2>2, SentQueued DEF IInv, RemovalFollows
    <3> QED
      BY <1>5, <2>1, <2>2, <3>1, SentQueued DEF IInv, RemovalFollows
  <2>3. ASSUME NEW e \in gone \cap Device, Rem(e) \in announce \cup unheard \/ Queued(Rem(e))
        PROVE  Rem(e) \in announce' \cup unheard' \/ Queued(Rem(e))'
    BY <1>5, <2>1, <2>3, SentQueued DEF IInv
  <2> QED
    BY <2>1, <2>2, <2>3 DEF IInv, RemovalFollows
<1>6. CASE List
  BY <1>1, <1>6 DEF List
<1>7. ASSUME NEW d \in todo, Scan(d) PROVE RemovalFollows'
  <2>1. UNCHANGED <<gone, announce, unheard, queue, event, bound>> /\ ~bound
    BY <1>7 DEF Scan, IInv, Phases
  <2> QED
    BY <2>1 DEF IInv, RemovalFollows, Queued, Later
<1>8. CASE Bind
  <2>1. UNCHANGED <<gone, announce, unheard, queue, event, links>> /\ ~bound
    BY <1>8 DEF Bind, IInv, Phases
  <2> QED
    BY <2>1 DEF IInv, RemovalFollows, Queued, Later
<1>9. CASE Receive
  <2>1. UNCHANGED <<gone, announce, unheard, links, bound>> /\ event = NoEvent /\ bound
    BY <1>9, Handling DEF Receive, IInv, Phases
  <2>2. event' = NoEvent \/ event' = queue[1]
    BY <1>9, <2>1, Received DEF IInv
  <2>3. ASSUME NEW e \in gone \cap Device, NEW i \in 1 .. Len(queue'), queue'[i] = Add(e)
        PROVE  Rem(e) \in announce \cup unheard \/ Later(i, Rem(e))'
    BY <1>9, <2>3, ReceivedQueued DEF IInv, RemovalFollows
  <2>4. ASSUME NEW e \in gone \cap Device, event' = Add(e)
        PROVE  Rem(e) \in announce \cup unheard \/ Queued(Rem(e))'
    <3>1. 1 \in 1 .. Len(queue) /\ queue[1] = Add(e)
      BY <1>9, <2>2, <2>4, Kinds, Received DEF IInv
    <3> QED
      BY <1>9, <3>1, ReceivedQueued DEF IInv, RemovalFollows
  <2>5. ASSUME NEW e \in gone \cap Device, Queued(Rem(e))
        PROVE  Queued(Rem(e))' \/ event' = Rem(e)
    BY <1>9, <2>5, Kinds, Received, ReceivedQueued DEF IInv
  <2> QED
    BY <2>1, <2>3, <2>4, <2>5, Kinds DEF IInv, RemovalFollows
<1>10. CASE HandleAdd
  <2>1. /\ UNCHANGED <<gone, announce, unheard, queue, bound>> /\ event = Add(event.device)
        /\ event' \in {event, NoEvent} /\ links' \in {links, links \cup ({event.device} \cap Block)}
    BY <1>10, HandlingAdd
  <2> QED
    BY <2>1, Kinds DEF IInv, RemovalFollows, Queued, Later
<1>11. CASE MakeNode
  <2>1. /\ UNCHANGED <<gone, announce, unheard, queue, bound>> /\ event = Add(event.device)
        /\ event' \in {event, NoEvent} /\ links' \in {links, links \cup ({event.device} \cap Block)}
    BY <1>11, HandlingAdd
  <2> QED
    BY <2>1, Kinds DEF IInv, RemovalFollows, Queued, Later
<1>12. CASE HandleRemove
  <2>1. /\ UNCHANGED <<gone, announce, unheard, queue, bound>> /\ event = Rem(event.device)
        /\ event' = NoEvent /\ links' = links \ {event.device}
    BY <1>12, Handling DEF HandleRemove
  <2> QED
    BY <2>1, Kinds DEF IInv, RemovalFollows, Queued, Later
<1>13. CASE LoadVerificationKey
  BY <1>1, <1>13 DEF LoadVerificationKey
<1>14. CASE HearNews
  BY <1>1, <1>14 DEF HearNews
<1>15. CASE Settle
  BY <1>1, <1>15 DEF Settle
<1>16. CASE UNCHANGED vars
  BY <1>1, <1>16
<1> QED
  BY <1>2, <1>3, <1>4, <1>5, <1>6, <1>7, <1>8, <1>9, <1>10, <1>11, <1>12, <1>13, <1>14, <1>15, <1>16 DEF Next, Kernel, Thread, Main

\* A name's next device is announced after the removal.
LEMMA AdditionStep ==
  ASSUME IInv, [Next]_vars
  PROVE  AdditionFollows'
<1> USE DEF vars, kernel, socket, thread, keys
<1>1. ASSUME UNCHANGED <<present, announce, unheard, queue, event>> PROVE AdditionFollows'
  BY <1>1 DEF IInv, AdditionFollows, Queued, Later, SameName
<1>2. ASSUME NEW d \in Device, Register(d) PROVE AdditionFollows'
  <2>1. announce' = announce \cup {Add(d)} /\ UNCHANGED <<unheard, queue, event>> /\ present' = present \cup {d}
    BY <1>2 DEF Register, Add
  <2> QED
    BY <2>1, Kinds DEF IInv, AdditionFollows, Queued, Later, SameName
<1>3. ASSUME NEW d \in Device, Unregister(d) PROVE AdditionFollows'
  <2>1. announce \subseteq announce' /\ UNCHANGED <<unheard, queue, event>> /\ present' \subseteq present
    BY <1>3 DEF Unregister
  <2> QED
    BY <2>1 DEF IInv, AdditionFollows, Queued, Later, SameName
<1>4. ASSUME NEW d \in Device, Change(d) PROVE AdditionFollows'
  <2>1. announce \subseteq announce' /\ UNCHANGED <<unheard, queue, event, present>>
    BY <1>4 DEF Change
  <2> QED
    BY <2>1 DEF IInv, AdditionFollows, Queued, Later, SameName
<1>5. ASSUME NEW u \in announce, Announce(u) PROVE AdditionFollows'
  <2>1. /\ announce' = announce \ {u} /\ UNCHANGED <<present, event>> /\ unheard \subseteq unheard'
    BY <1>5 DEF Announce
  <2>2. ASSUME NEW d \in present, NEW e \in Device, SameName(d, e) PROVE u # Rem(e)
    <3>1. SUFFICES ASSUME u = Rem(e) PROVE FALSE
      OBVIOUS
    <3>2. e = d
      BY <2>2, <3>1, Kinds DEF IInv, Names, SameName
    <3> QED
      BY <3>1, <3>2 DEF IInv, Origin, TypeOK
  <2>3. ASSUME NEW d \in present, NEW e \in Device, SameName(d, e),
               NEW i \in 1 .. Len(queue'), queue'[i] = Rem(e)
        PROVE  Add(d) \in announce' \cup unheard' \/ Later(i, Add(d))'
    <3>1. i \in 1 .. Len(queue) /\ queue[i] = Rem(e)
      BY <1>5, <2>2, <2>3, SentQueued DEF IInv
    <3> QED
      BY <1>5, <2>1, <2>3, <3>1, SentQueued DEF IInv, AdditionFollows
  <2>4. ASSUME NEW d, Add(d) \in announce \cup unheard \/ Queued(Add(d))
        PROVE  Add(d) \in announce' \cup unheard' \/ Queued(Add(d))'
    BY <1>5, <2>1, <2>4, SentQueued DEF IInv
  <2> QED
    BY <2>1, <2>3, <2>4 DEF IInv, AdditionFollows, SameName
<1>6. CASE List
  BY <1>1, <1>6 DEF List
<1>7. ASSUME NEW d \in todo, Scan(d) PROVE AdditionFollows'
  BY <1>1, <1>7 DEF Scan, AddLink
<1>8. CASE Bind
  BY <1>1, <1>8 DEF Bind
<1>9. CASE Receive
  <2>1. UNCHANGED <<present, announce, unheard>> /\ event = NoEvent
    BY <1>9, Handling DEF Receive
  <2>2. event' = NoEvent \/ event' = queue[1]
    BY <1>9, <2>1, Received DEF IInv
  <2>3. ASSUME NEW d \in present, NEW e \in Device, SameName(d, e),
               NEW i \in 1 .. Len(queue'), queue'[i] = Rem(e)
        PROVE  Add(d) \in announce \cup unheard \/ Later(i, Add(d))'
    BY <1>9, <2>3, ReceivedQueued DEF IInv, AdditionFollows
  <2>4. ASSUME NEW d \in present, NEW e \in Device, SameName(d, e), event' = Rem(e)
        PROVE  Add(d) \in announce \cup unheard \/ Queued(Add(d))'
    <3>1. 1 \in 1 .. Len(queue) /\ queue[1] = Rem(e)
      BY <1>9, <2>2, <2>4, Kinds, Received DEF IInv
    <3> QED
      BY <1>9, <2>4, <3>1, ReceivedQueued DEF IInv, AdditionFollows
  <2> QED
    BY <2>1, <2>3, <2>4 DEF AdditionFollows, SameName
<1>10. CASE HandleAdd
  <2>1. /\ UNCHANGED <<present, announce, unheard, queue>> /\ event' \in {event, NoEvent}
    BY <1>10 DEF HandleAdd, LinkEvent, AddLink
  <2> QED
    BY <2>1, Kinds DEF IInv, AdditionFollows, Queued, Later, SameName
<1>11. CASE MakeNode
  <2>1. /\ UNCHANGED <<present, announce, unheard, queue>> /\ event' \in {event, NoEvent}
    BY <1>11 DEF MakeNode, LinkEvent, AddLink
  <2> QED
    BY <2>1, Kinds DEF IInv, AdditionFollows, Queued, Later, SameName
<1>12. CASE HandleRemove
  <2>1. /\ UNCHANGED <<present, announce, unheard, queue>> /\ event' \in {event, NoEvent}
    BY <1>12 DEF HandleRemove, LinkEvent, AddLink
  <2> QED
    BY <2>1, Kinds DEF IInv, AdditionFollows, Queued, Later, SameName
<1>13. CASE LoadVerificationKey
  BY <1>1, <1>13 DEF LoadVerificationKey
<1>14. CASE HearNews
  BY <1>1, <1>14 DEF HearNews
<1>15. CASE Settle
  BY <1>1, <1>15 DEF Settle
<1>16. CASE UNCHANGED vars
  BY <1>1, <1>16
<1> QED
  BY <1>2, <1>3, <1>4, <1>5, <1>6, <1>7, <1>8, <1>9, <1>10, <1>11, <1>12, <1>13, <1>14, <1>15, <1>16 DEF Next, Kernel, Thread, Main

\* The nodes.
LEMMA NodesStep ==
  ASSUME IInv, [Next]_vars
  PROVE  Nodes'
<1> USE DEF vars, kernel, socket, thread, keys
<1>1. ASSUME UNCHANGED <<present, node, announce, unheard, queue, event, pc, listed, bound>> PROVE Nodes'
  BY <1>1 DEF IInv, Nodes, Queued, SameName
<1>2. ASSUME NEW d \in Device, Register(d) PROVE Nodes'
  <2>1. /\ announce' = announce \cup {Add(d)} /\ UNCHANGED <<unheard, queue, event, pc, listed, bound>>
        /\ present' = present \cup {d} /\ d \notin present \cup gone
    BY <1>2 DEF Register, Add
  <2>2. /\ \A e \in present : NameOf[e] # NameOf[d] /\ NameOf[e] \in DevName
        /\ NameOf[d] \in DevName
    BY <1>2 DEF Register, IInv, TypeOK, DevName
  <2>3. node'[NameOf[d]] # "none" /\ \A e \in present : node'[NameOf[e]] = node[NameOf[e]]
    BY <1>2, <2>2 DEF Register, IInv, TypeOK
  <2>4. d \notin listed /\ (pc = "mknod" => event.device # d)
    BY <2>1, Handling DEF IInv, Origin, Phases, NoEvent, Event
  <2>5. ~bound => event = NoEvent /\ \A v : ~Queued(v)
    BY DEF IInv, Phases, TypeOK, Queued
  <2>6. ASSUME NEW e \in present' PROVE
          \/ node'[NameOf[e]] # "none"
          \/ Add(e) \in announce' \cup unheard \/ Queued(Add(e)) \/ event = Add(e) \/ pc = "aborted"
    BY <2>1, <2>3 DEF IInv, Nodes
  <2>7. ASSUME NEW e \in present', e \in listed \/ ~bound
        PROVE  /\ node'[NameOf[e]] # "none"
               /\ \A f \in Device : SameName(e, f) => ~Queued(Rem(f)) /\ event # Rem(f)
    BY <2>1, <2>3, <2>4, <2>5, <2>7, Kinds DEF IInv, Nodes
  <2>8. pc = "mknod" /\ event.device \in present' => node'[NameOf[event.device]] = "none"
    BY <2>1, <2>3, <2>4 DEF IInv, Nodes
  <2> QED
    BY <2>1, <2>6, <2>7, <2>8 DEF Nodes, Queued, SameName
<1>3. ASSUME NEW d \in Device, Unregister(d) PROVE Nodes'
  <2>1. /\ announce \subseteq announce' /\ UNCHANGED <<unheard, queue, event, pc, listed, bound>>
        /\ present' = present \ {d} /\ d \in present
    BY <1>3 DEF Unregister
  <2>2. \A e \in present' : NameOf[e] # NameOf[d] /\ NameOf[e] \in DevName
    BY <2>1 DEF IInv, Names, SameName, TypeOK, DevName
  <2>3. \A e \in present' : node'[NameOf[e]] = node[NameOf[e]]
    BY <1>3, <2>2 DEF Unregister, IInv, TypeOK
  <2> QED
    BY <2>1, <2>3 DEF IInv, Nodes, Queued, SameName
<1>4. ASSUME NEW d \in Device, Change(d) PROVE Nodes'
  <2>1. announce \subseteq announce' /\ UNCHANGED <<present, node, unheard, queue, event, pc, listed, bound>>
    BY <1>4 DEF Change
  <2> QED
    BY <2>1 DEF IInv, Nodes, Queued, SameName
<1>5. ASSUME NEW u \in announce, Announce(u) PROVE Nodes'
  <2>1. /\ announce' = announce \ {u} /\ UNCHANGED <<present, node, event, pc, listed, bound>> /\ unheard \subseteq unheard'
    BY <1>5 DEF Announce
  <2>2. ASSUME NEW d \in present, NEW e \in Device, SameName(d, e) PROVE u # Rem(e)
    <3>1. SUFFICES ASSUME u = Rem(e) PROVE FALSE
      OBVIOUS
    <3>2. e = d
      BY <2>2, <3>1, Kinds DEF IInv, Names, SameName
    <3> QED
      BY <3>1, <3>2 DEF IInv, Origin, TypeOK
  <2>3. ASSUME NEW d, Add(d) \in announce \cup unheard \/ Queued(Add(d))
        PROVE  Add(d) \in announce' \cup unheard' \/ Queued(Add(d))'
    BY <1>5, <2>1, <2>3, SentQueued DEF IInv
  <2>4. ASSUME NEW d \in present, NEW e \in Device, SameName(d, e), ~Queued(Rem(e)) PROVE ~Queued(Rem(e))'
    BY <1>5, <2>2, <2>4, SentQueued DEF IInv
  <2> QED
    BY <2>1, <2>3, <2>4 DEF IInv, Nodes, SameName
<1>6. CASE List
  <2>1. /\ UNCHANGED <<present, node, announce, unheard, queue, event, bound>> /\ ~bound
        /\ pc = "list" /\ pc' = "scan"
    BY <1>6 DEF List, IInv, Phases
  <2> QED
    BY <2>1 DEF IInv, Nodes, Queued, SameName
<1>7. ASSUME NEW d \in todo, Scan(d) PROVE Nodes'
  <2>1. /\ UNCHANGED <<present, node, announce, unheard, queue, event, bound, listed>>
        /\ pc = "scan" /\ pc' \in {"scan", "aborted"}
    BY <1>7 DEF Scan, AddLink
  <2> QED
    BY <2>1 DEF IInv, Nodes, Queued, SameName
<1>8. CASE Bind
  <2>1. /\ UNCHANGED <<present, node, announce, unheard, queue, event, listed>> /\ ~bound
        /\ pc = "scan" /\ pc' \in {"recv", "unbound"}
    BY <1>8 DEF Bind, IInv, Phases
  <2> QED
    BY <2>1 DEF IInv, Nodes, Queued, SameName
<1>9. CASE Receive
  <2>1. /\ UNCHANGED <<present, node, announce, unheard, bound, listed>> /\ event = NoEvent
        /\ pc = "recv"
    BY <1>9, Handling DEF Receive
  <2>2. event' = NoEvent \/ event' = queue[1]
    BY <1>9, <2>1, Received DEF IInv
  <2>3. pc' \in {"recv", "add", "remove"}
    BY <1>9, <2>1, Received DEF IInv, Event
  <2>4. ASSUME NEW d \in Device, Queued(Add(d)) PROVE Queued(Add(d))' \/ event' = Add(d)
    BY <1>9, <2>4, Kinds, Received, ReceivedQueued DEF IInv
  <2>5. ASSUME NEW e \in Device, ~Queued(Rem(e)) PROVE ~Queued(Rem(e))' /\ event' # Rem(e)
    BY <1>9, <2>2, <2>5, Kinds, ReceivedQueued DEF IInv
  <2>6. present \subseteq Device
    BY DEF IInv, TypeOK
  <2> QED
    BY <2>1, <2>3, <2>4, <2>5, <2>6, Kinds DEF IInv, Nodes, SameName
<1>10. CASE HandleAdd
  <2>1. /\ event = Add(event.device) /\ event.device \in Device /\ UNCHANGED <<present, announce, unheard, queue, bound, listed>>
        /\ pc \notin {"aborted", "list", "scan"}
    BY <1>10, HandlingAdd DEF HandleAdd
  <2>2. \A n \in DevName : node[n] # "none" => node'[n] # "none"
    BY <1>10, HandlingAdd
  <2>3. \A d \in present : NameOf[d] \in DevName
    BY DEF IInv, TypeOK, DevName
  <2>4. pc' = "mknod" => event' = event /\ node'[NameOf[event.device]] = "none"
    BY <1>10, HandlingAdd
  <2>5. \/ event' = event
        \/ event' = NoEvent /\ (event.device \in present => node'[NameOf[event.device]] # "none")
    BY <1>10, HandlingAdd
  <2>6. \A d \in present : event = Add(d) => d = event.device
    BY <2>1, Kinds
  <2>7. ASSUME NEW d \in present
        PROVE  \/ node'[NameOf[d]] # "none" \/ Add(d) \in announce \cup unheard \/ Queued(Add(d)) \/ event' = Add(d)
    BY <2>1, <2>2, <2>3, <2>5, <2>6 DEF IInv, Nodes
  <2>8. ASSUME NEW d \in present, d \in listed \/ ~bound
        PROVE  /\ node'[NameOf[d]] # "none"
               /\ \A e \in Device : SameName(d, e) => ~Queued(Rem(e)) /\ event' # Rem(e)
    BY <2>1, <2>2, <2>3, <2>5, <2>8, Kinds DEF IInv, Nodes
  <2> QED
    BY <2>1, <2>4, <2>7, <2>8 DEF Nodes, Queued, SameName
<1>11. CASE MakeNode
  <2>1. /\ event = Add(event.device) /\ event.device \in Device /\ UNCHANGED <<present, announce, unheard, queue, bound, listed>>
        /\ pc \notin {"aborted", "list", "scan"}
    BY <1>11, HandlingAdd DEF MakeNode
  <2>2. \A n \in DevName : node[n] # "none" => node'[n] # "none"
    BY <1>11, HandlingAdd
  <2>3. \A d \in present : NameOf[d] \in DevName
    BY DEF IInv, TypeOK, DevName
  <2>4. pc' = "mknod" => event' = event /\ node'[NameOf[event.device]] = "none"
    BY <1>11, HandlingAdd
  <2>5. \/ event' = event
        \/ event' = NoEvent /\ (event.device \in present => node'[NameOf[event.device]] # "none")
    BY <1>11, HandlingAdd
  <2>6. \A d \in present : event = Add(d) => d = event.device
    BY <2>1, Kinds
  <2>7. ASSUME NEW d \in present
        PROVE  \/ node'[NameOf[d]] # "none" \/ Add(d) \in announce \cup unheard \/ Queued(Add(d)) \/ event' = Add(d)
    BY <2>1, <2>2, <2>3, <2>5, <2>6 DEF IInv, Nodes
  <2>8. ASSUME NEW d \in present, d \in listed \/ ~bound
        PROVE  /\ node'[NameOf[d]] # "none"
               /\ \A e \in Device : SameName(d, e) => ~Queued(Rem(e)) /\ event' # Rem(e)
    BY <2>1, <2>2, <2>3, <2>5, <2>8, Kinds DEF IInv, Nodes
  <2> QED
    BY <2>1, <2>4, <2>7, <2>8 DEF Nodes, Queued, SameName
<1>12. CASE HandleRemove
  <2>1. /\ UNCHANGED <<present, announce, unheard, queue, bound, listed>> /\ event = Rem(event.device)
        /\ event' = NoEvent /\ event.device \in Device /\ pc = "remove" /\ pc' = "recv"
    BY <1>12, Handling DEF HandleRemove
  <2>2. \A d \in present : d \in Device /\ NameOf[d] \in DevName
    BY DEF IInv, TypeOK, DevName
  <2>3. \A d \in present : ~SameName(d, event.device) => node'[NameOf[d]] = node[NameOf[d]]
    BY <1>12, <2>2 DEF HandleRemove, IInv, TypeOK, SameName
  <2>4. ASSUME NEW d \in present, SameName(d, event.device) PROVE Add(d) \in announce \cup unheard \/ Queued(Add(d))
    BY <2>1, <2>4 DEF IInv, AdditionFollows
  <2>5. ASSUME NEW d \in present, d \in listed \/ ~bound
        PROVE  /\ node'[NameOf[d]] # "none"
               /\ \A e \in Device : SameName(d, e) => ~Queued(Rem(e))
    BY <2>1, <2>3, <2>5 DEF IInv, Nodes
  <2>6. ASSUME NEW d \in present PROVE node'[NameOf[d]] # "none" \/ Add(d) \in announce \cup unheard \/ Queued(Add(d))
    BY <2>1, <2>3, <2>4, Kinds DEF IInv, Nodes
  <2> QED
    BY <2>1, <2>5, <2>6, Kinds DEF Nodes, Queued, SameName
<1>13. CASE LoadVerificationKey
  BY <1>1, <1>13 DEF LoadVerificationKey
<1>14. CASE HearNews
  BY <1>1, <1>14 DEF HearNews
<1>15. CASE Settle
  BY <1>1, <1>15 DEF Settle
<1>16. CASE UNCHANGED vars
  BY <1>1, <1>16
<1> QED
  BY <1>2, <1>3, <1>4, <1>5, <1>6, <1>7, <1>8, <1>9, <1>10, <1>11, <1>12, <1>13, <1>14, <1>15, <1>16 DEF Next, Kernel, Thread, Main

\* The links.
LEMMA LinksStep ==
  ASSUME IInv, [Next]_vars
  PROVE  Links'
<1> USE DEF vars, kernel, socket, thread, keys
<1>1. ASSUME UNCHANGED <<present, listed, todo, links, pc, announce, unheard, queue, event>> PROVE Links'
  BY <1>1 DEF IInv, Links, Queued
<1>2. ASSUME NEW d \in Device, Register(d) PROVE Links'
  <2>1. /\ announce' = announce \cup {Add(d)} /\ UNCHANGED <<unheard, queue, event, pc, listed, todo, links>>
        /\ present' = present \cup {d} /\ d \notin links /\ d \notin listed
    BY <1>2 DEF Register, Add, IInv, Origin
  <2> QED
    BY <2>1, Kinds DEF IInv, Links, Queued
<1>3. ASSUME NEW d \in Device, Unregister(d) PROVE Links'
  <2>1. /\ announce' = announce \cup {Rem(d)} /\ UNCHANGED <<unheard, queue, event, pc, listed, todo, links>>
        /\ present' \subseteq present
    BY <1>3 DEF Unregister, Rem
  <2> QED
    BY <2>1, Kinds DEF IInv, Links, Queued
<1>4. ASSUME NEW d \in Device, Change(d) PROVE Links'
  <2>1. /\ announce \subseteq announce' /\ UNCHANGED <<present, unheard, queue, event, pc, listed, todo, links>>
        /\ \A e : Add(e) \in announce' => Add(e) \in announce
    BY <1>4 DEF Change, Add
  <2> QED
    BY <2>1 DEF IInv, Links, Queued
<1>5. ASSUME NEW u \in announce, Announce(u) PROVE Links'
  <2>1. /\ announce' = announce \ {u} /\ UNCHANGED <<present, event, pc, listed, todo, links>> /\ unheard \subseteq unheard'
    BY <1>5 DEF Announce
  <2>2. ASSUME NEW d, Add(d) \in announce \cup unheard \/ Queued(Add(d))
        PROVE  Add(d) \in announce' \cup unheard' \/ Queued(Add(d))'
    BY <1>5, <2>1, <2>2, SentQueued DEF IInv
  <2>3. ASSUME NEW d, Add(d) \notin announce, ~Queued(Add(d)) PROVE ~Queued(Add(d))'
    BY <1>5, <2>3, SentQueued DEF IInv
  <2> QED
    BY <2>1, <2>2, <2>3 DEF IInv, Links
<1>6. CASE List
  <2>1. /\ UNCHANGED <<present, announce, unheard, queue, event, links>>
        /\ listed' = present \cap Block /\ todo' = listed' /\ links = {}
    BY <1>6 DEF List, IInv, Phases
  <2> QED
    BY <2>1 DEF Links, Queued
<1>7. ASSUME NEW d \in todo, Scan(d) PROVE Links'
  <2>1. /\ UNCHANGED <<present, announce, unheard, queue, event, listed>>
        /\ todo' = todo \ {d} /\ d \in listed /\ d \in Block /\ pc = "scan" /\ pc' # "list"
    BY <1>7 DEF Scan, AddLink, IInv, TypeOK
  <2>2. d \notin links
    BY <1>7, <2>1 DEF IInv, Phases
  <2>3. links' = links \cup {d} \/ (links' = links /\ d \notin present)
    BY <1>7, <2>2 DEF Scan, AddLink, IInv, TypeOK
  <2> QED
    BY <2>1, <2>3 DEF IInv, Links, Queued
<1>8. CASE Bind
  <2>1. /\ UNCHANGED <<present, announce, unheard, queue, event, links, listed, todo>>
        /\ pc = "scan" /\ pc' \in {"recv", "unbound"}
    BY <1>8 DEF Bind
  <2> QED
    BY <2>1 DEF IInv, Links, Queued
<1>9. CASE Receive
  <2>1. /\ UNCHANGED <<present, announce, unheard, links, listed, todo>> /\ event = NoEvent
        /\ pc = "recv"
    BY <1>9, Handling DEF Receive
  <2>2. event' = NoEvent \/ event' = queue[1]
    BY <1>9, <2>1, Received DEF IInv
  <2>4. ASSUME NEW d \in Device, Queued(Add(d)) PROVE Queued(Add(d))' \/ event' = Add(d)
    BY <1>9, <2>4, Kinds, Received, ReceivedQueued DEF IInv
  <2>5. ASSUME NEW d, ~Queued(Add(d)) PROVE ~Queued(Add(d))' /\ event' # Add(d)
    BY <1>9, <2>2, <2>5, Kinds, ReceivedQueued DEF IInv
  <2>6. present \subseteq Device
    BY DEF IInv, TypeOK
  <2> QED
    BY <2>1, <2>4, <2>5, <2>6, Kinds DEF IInv, Links
<1>10. CASE HandleAdd
  <2>1. /\ event = Add(event.device) /\ event.device \in Device /\ UNCHANGED <<present, announce, unheard, queue, listed, todo>>
        /\ pc \notin {"aborted", "list"}
    BY <1>10, HandlingAdd DEF HandleAdd
  <2>2. Add(event.device) \notin announce /\ ~Queued(Add(event.device))
    BY <2>1 DEF IInv, Once
  <2>3. \A d : event = Add(d) => d = event.device
    BY <2>1, Kinds
  <2>4. present \subseteq Device
    BY DEF IInv, TypeOK
  <2>5. CASE event' = event /\ links' = links /\ pc' # "list"
    BY <2>1, <2>5 DEF IInv, Links, Queued
  <2>6. CASE event' = NoEvent /\ links' = links \cup ({event.device} \cap Block) /\ pc' # "list"
    BY <2>1, <2>2, <2>3, <2>4, <2>6, Kinds DEF IInv, Links, Queued
  <2>7. CASE event' = NoEvent /\ links' = links /\ pc' = "aborted"
    BY <2>1, <2>3, <2>7, Kinds DEF IInv, Links, Queued
  <2>8. CASE event' = NoEvent /\ links' = links /\ event.device \notin present /\ pc' # "list"
    BY <2>1, <2>3, <2>8, Kinds DEF IInv, Links, Queued
  <2> QED
    BY <1>10, <2>5, <2>6, <2>7, <2>8, HandlingAdd
<1>11. CASE MakeNode
  <2>1. /\ event = Add(event.device) /\ event.device \in Device /\ UNCHANGED <<present, announce, unheard, queue, listed, todo>>
        /\ pc \notin {"aborted", "list"}
    BY <1>11, HandlingAdd DEF MakeNode
  <2>2. Add(event.device) \notin announce /\ ~Queued(Add(event.device))
    BY <2>1 DEF IInv, Once
  <2>3. \A d : event = Add(d) => d = event.device
    BY <2>1, Kinds
  <2>4. present \subseteq Device
    BY DEF IInv, TypeOK
  <2>5. CASE event' = event /\ links' = links /\ pc' # "list"
    BY <2>1, <2>5 DEF IInv, Links, Queued
  <2>6. CASE event' = NoEvent /\ links' = links \cup ({event.device} \cap Block) /\ pc' # "list"
    BY <2>1, <2>2, <2>3, <2>4, <2>6, Kinds DEF IInv, Links, Queued
  <2>7. CASE event' = NoEvent /\ links' = links /\ pc' = "aborted"
    BY <2>1, <2>3, <2>7, Kinds DEF IInv, Links, Queued
  <2>8. CASE event' = NoEvent /\ links' = links /\ event.device \notin present /\ pc' # "list"
    BY <2>1, <2>3, <2>8, Kinds DEF IInv, Links, Queued
  <2> QED
    BY <1>11, <2>5, <2>6, <2>7, <2>8, HandlingAdd
<1>12. CASE HandleRemove
  <2>1. /\ UNCHANGED <<present, announce, unheard, queue, listed, todo>> /\ event = Rem(event.device)
        /\ event' = NoEvent /\ event.device \notin present /\ links' = links \ {event.device}
        /\ pc = "remove" /\ pc' = "recv"
    BY <1>12, Handling DEF HandleRemove, IInv, TypeOK
  <2> QED
    BY <2>1, Kinds DEF IInv, Links, Queued
<1>13. CASE LoadVerificationKey
  BY <1>1, <1>13 DEF LoadVerificationKey
<1>14. CASE HearNews
  BY <1>1, <1>14 DEF HearNews
<1>15. CASE Settle
  BY <1>1, <1>15 DEF Settle
<1>16. CASE UNCHANGED vars
  BY <1>1, <1>16
<1> QED
  BY <1>2, <1>3, <1>4, <1>5, <1>6, <1>7, <1>8, <1>9, <1>10, <1>11, <1>12, <1>13, <1>14, <1>15, <1>16 DEF Next, Kernel, Thread, Main

\* What the buffer took.
LEMMA HeardStep ==
  ASSUME IInv, [Next]_vars
  PROVE  Heard'
<1> USE DEF vars, kernel, socket, thread, keys
<1>1. ASSUME UNCHANGED <<queue, event, heard>> PROVE Heard'
  BY <1>1 DEF IInv, Heard
<1>2. ASSUME NEW d \in Device, Register(d) \/ Unregister(d) \/ Change(d) PROVE Heard'
  BY <1>1, <1>2 DEF Register, Unregister, Change
<1>3. ASSUME NEW u \in announce, Announce(u) PROVE Heard'
  <2>1. event' = event /\ heard \subseteq heard' /\ (queue' = queue \/ u \in heard')
    BY <1>3 DEF Announce
  <2>2. ASSUME NEW i \in 1 .. Len(queue') PROVE queue'[i] \in heard'
    BY <1>3, <2>1, SentQueued DEF IInv, Heard
  <2> QED
    BY <2>1, <2>2 DEF IInv, Heard
<1>4. CASE List
  BY <1>1, <1>4 DEF List
<1>5. ASSUME NEW d \in todo, Scan(d) PROVE Heard'
  BY <1>1, <1>5 DEF Scan, AddLink
<1>6. CASE Bind
  BY <1>1, <1>6 DEF Bind
<1>7. CASE Receive
  <2>1. heard' = heard /\ 1 \in 1 .. Len(queue)
    BY <1>7, Received DEF Receive, IInv
  <2>2. event' \in {event, queue[1]}
    BY <1>7, Received DEF IInv
  <2>3. ASSUME NEW i \in 1 .. Len(queue') PROVE queue'[i] \in heard
    BY <1>7, ReceivedQueued DEF IInv, Heard
  <2> QED
    BY <2>1, <2>2, <2>3 DEF IInv, Heard
<1>8. CASE HandleAdd \/ MakeNode
  <2>1. UNCHANGED <<heard, queue>> /\ event' \in {event, NoEvent}
    BY <1>8, HandlingAdd
  <2> QED
    BY <2>1 DEF IInv, Heard
<1>9. CASE HandleRemove
  <2>1. UNCHANGED <<heard, queue>> /\ event' = NoEvent
    BY <1>9 DEF HandleRemove
  <2> QED
    BY <2>1 DEF IInv, Heard
<1>10. CASE LoadVerificationKey
  BY <1>1, <1>10 DEF LoadVerificationKey
<1>11. CASE HearNews
  BY <1>1, <1>11 DEF HearNews
<1>12. CASE Settle
  BY <1>1, <1>12 DEF Settle
<1>13. CASE UNCHANGED vars
  BY <1>1, <1>13
<1> QED
  BY <1>2, <1>3, <1>4, <1>5, <1>6, <1>7, <1>8, <1>9, <1>10, <1>11, <1>12, <1>13
  DEF Next, Kernel, Thread, Main

\* What aborts.
LEMMA AbortsStep ==
  ASSUME IInv, [Next]_vars
  PROVE  Aborts'
<1> USE DEF vars, kernel, socket, thread, keys
<1>1. ASSUME UNCHANGED <<pc, listed, links>>, heard \subseteq heard' PROVE Aborts'
  BY <1>1 DEF IInv, Aborts
<1>2. ASSUME NEW d \in Device, Register(d) \/ Unregister(d) \/ Change(d) PROVE Aborts'
  BY <1>1, <1>2 DEF Register, Unregister, Change
<1>3. ASSUME NEW u \in announce, Announce(u) PROVE Aborts'
  BY <1>1, <1>3 DEF Announce
<1>4. CASE List
  BY <1>4 DEF List, Aborts
<1>5. ASSUME NEW d \in todo, Scan(d) PROVE Aborts'
  <2>1. d \notin links
    BY <1>5 DEF Scan, IInv, Phases
  <2> QED
    BY <1>5, <2>1 DEF Scan, AddLink, Aborts
<1>6. CASE Bind
  BY <1>6 DEF Bind, Aborts
<1>7. CASE Receive
  <2>1. pc' # "aborted"
    BY <1>7, Received DEF Receive, IInv, Event
  <2> QED
    BY <2>1 DEF Aborts
<1>8. CASE HandleAdd \/ MakeNode
  <2>1. UNCHANGED <<heard, listed>> /\ event = Add(event.device) /\ event # NoEvent
    BY <1>8, HandlingAdd, Kinds
  <2>2. pc' = "aborted" => event.device \in links /\ links' = links
    BY <1>8, HandlingAdd
  <2>3. Add(event.device) \in heard
    BY <2>1 DEF IInv, Heard
  <2>4. event.device \in links => event.device \in listed
    BY <2>1 DEF IInv, Links
  <2> QED
    BY <2>1, <2>2, <2>3, <2>4 DEF Aborts
<1>9. CASE HandleRemove
  BY <1>9 DEF HandleRemove, Aborts
<1>10. CASE LoadVerificationKey
  BY <1>1, <1>10 DEF LoadVerificationKey
<1>11. CASE HearNews
  BY <1>1, <1>11 DEF HearNews
<1>12. CASE Settle
  BY <1>1, <1>12 DEF Settle
<1>13. CASE UNCHANGED vars
  BY <1>1, <1>13
<1> QED
  BY <1>2, <1>3, <1>4, <1>5, <1>6, <1>7, <1>8, <1>9, <1>10, <1>11, <1>12, <1>13
  DEF Next, Kernel, Thread, Main

\* The key and the policy.
LEMMA KeysStep ==
  ASSUME IInv, [Next]_vars
  PROVE  (KeysFirst /\ VerificationAsReported)'
<1> USE DEF vars, kernel, socket, thread, keys
<1>1. ASSUME UNCHANGED <<main, key, policy, reported>> PROVE (KeysFirst /\ VerificationAsReported)'
  BY <1>1 DEF IInv, KeysFirst, VerificationAsReported
<1>2. ASSUME NEW d \in Device, Register(d) PROVE (KeysFirst /\ VerificationAsReported)'
  BY <1>1, <1>2 DEF Register
<1>3. ASSUME NEW d \in Device, Unregister(d) PROVE (KeysFirst /\ VerificationAsReported)'
  BY <1>1, <1>3 DEF Unregister
<1>4. ASSUME NEW d \in Device, Change(d) PROVE (KeysFirst /\ VerificationAsReported)'
  BY <1>1, <1>4 DEF Change
<1>5. ASSUME NEW u \in announce, Announce(u) PROVE (KeysFirst /\ VerificationAsReported)'
  BY <1>1, <1>5 DEF Announce
<1>6. CASE List
  BY <1>1, <1>6 DEF List
<1>7. ASSUME NEW d \in todo, Scan(d) PROVE (KeysFirst /\ VerificationAsReported)'
  BY <1>1, <1>7 DEF Scan, AddLink
<1>8. CASE Bind
  BY <1>1, <1>8 DEF Bind
<1>9. CASE Receive
  BY <1>1, <1>9 DEF Receive
<1>10. CASE HandleAdd
  BY <1>1, <1>10 DEF HandleAdd, LinkEvent, AddLink
<1>11. CASE MakeNode
  BY <1>1, <1>11 DEF MakeNode, LinkEvent, AddLink
<1>12. CASE HandleRemove
  BY <1>1, <1>12 DEF HandleRemove
<1>13. CASE LoadVerificationKey
  BY <1>13 DEF LoadVerificationKey, IInv, KeysFirst, VerificationAsReported
<1>14. CASE HearNews
  BY <1>14 DEF HearNews, IInv, KeysFirst, VerificationAsReported
<1>15. CASE Settle
  BY <1>15 DEF Settle, IInv, KeysFirst, VerificationAsReported
<1>16. CASE UNCHANGED vars
  BY <1>1, <1>16
<1> QED
  BY <1>2, <1>3, <1>4, <1>5, <1>6, <1>7, <1>8, <1>9, <1>10, <1>11, <1>12, <1>13, <1>14, <1>15, <1>16 DEF Next, Kernel, Thread, Main

-----------------------------------------------------------------------------
(* The invariant, and what follows from it. *)

LEMMA InitIInv == Init => IInv
<1> SUFFICES ASSUME Init PROVE IInv
  OBVIOUS
<1> USE DEF Init, Adds
<1>1. \A v : ~Queued(v)
  BY DEF Queued
<1>2. TypeOK
  <2>1. \A d \in Device : [kind |-> "add", device |-> d] \in Event
    BY DEF Event
  <2>2. announce \subseteq Event /\ unheard \subseteq Event
    BY <2>1
  <2>3. node \in [DevName -> {"none", "kernel", "thread"}]
    OBVIOUS
  <2>4. present \subseteq Device /\ queue \in Seq(Event)
    OBVIOUS
  <2> QED
    BY <2>2, <2>3, <2>4 DEF TypeOK
<1>3. Origin
  <2>1. \A u \in announce \cup unheard : u.device \in present /\ \A d \in Device : u # Rem(d)
    BY Kinds DEF Add
  <2> QED
    BY <1>1, <2>1, Kinds DEF Origin
<1>4. Phases /\ Names
  <2>1. \A u \in announce : u.device \in present
    OBVIOUS
  <2> QED
    BY <2>1 DEF Phases, Names, SameName
<1>5. Once /\ RemovalFollows /\ AdditionFollows
  BY <1>1, Kinds DEF Once, RemovalFollows, AdditionFollows
<1>6. Nodes /\ Links /\ Heard /\ Aborts
  <2>1. \A d \in present : NameOf[d] \in DevName
    BY DEF DevName
  <2> QED
    BY <1>1, <2>1, Kinds DEF Nodes, Links, Heard, Aborts
<1>7. KeysFirst /\ VerificationAsReported
  BY DEF KeysFirst, VerificationAsReported
<1> QED
  BY <1>2, <1>3, <1>4, <1>5, <1>6, <1>7 DEF IInv

LEMMA NextIInv == IInv /\ [Next]_vars => IInv'
  BY TypeStep, OriginStep, PhasesStep, NamesStep, OnceStep, RemovalStep, AdditionStep,
     NodesStep, LinksStep, HeardStep, AbortsStep, KeysStep DEF IInv

THEOREM Invariance == Spec => []IInv
  BY InitIInv, NextIInv, PTL DEF Spec

\* The types.
THEOREM TypeCorrect == Spec => []TypeOK
<1>1. IInv => TypeOK
  BY DEF IInv
<1> QED
  BY <1>1, Invariance, PTL

\* Once the uevents are handled, links and nodes are those of the devices, for any devices
\* that come and go under any names.
THEOREM LinksFollow == Spec => []LinksMatch
<1>1. IInv => LinksMatch
  <2> SUFFICES ASSUME IInv, Drained PROVE
        /\ \A d \in present \cap Block :
             \/ d \in links /\ node[NameOf[d]] # "none"
             \/ d \notin listed /\ [kind |-> "add", device |-> d] \in unheard
        /\ \A d \in links \ present : [kind |-> "remove", device |-> d] \in unheard
    BY DEF LinksMatch
  <2>1. pc = "recv" /\ announce = {} /\ event = NoEvent /\ todo = {} /\ bound
    BY Handling DEF Drained, IInv, Phases
  <2>2. \A v : ~Queued(v)
    BY DEF Drained, Queued
  <2>3. ASSUME NEW d \in present \cap Block, d \in listed PROVE d \in links /\ node[NameOf[d]] # "none"
    BY <2>1, <2>3 DEF IInv, Links, Nodes
  <2>4. ASSUME NEW d \in present \cap Block, d \notin listed
        PROVE  (d \in links /\ node[NameOf[d]] # "none") \/ Add(d) \in unheard
    BY <2>1, <2>2, <2>4, Kinds DEF IInv, Links, Nodes
  <2>5. ASSUME NEW d \in links \ present PROVE Rem(d) \in unheard
    <3>1. d \in gone \cap Device
      BY DEF IInv, Origin, TypeOK
    <3> QED
      BY <2>1, <2>2, <3>1, Kinds DEF IInv, RemovalFollows
  <2> QED
    BY <2>3, <2>4, <2>5 DEF Add, Rem
<1> QED
  BY <1>1, Invariance, PTL

\* With its socket bound, the thread aborts init only over a device that the scan linked
\* and whose add uevent the socket took as well, for any devices and any buffer.
THEOREM AbortsExplained == Spec => []AbortExplained
<1>1. IInv => AbortExplained
  BY DEF IInv, Aborts, AbortExplained, Add
<1> QED
  BY <1>1, Invariance, PTL

\* A policy is there with the key, and when verification is reported on.
THEOREM VerificationReported == Spec => []VerificationAsReported
<1>1. IInv => VerificationAsReported
  BY DEF IInv
<1> QED
  BY <1>1, Invariance, PTL

-----------------------------------------------------------------------------
(* The refinement. *)

\* What changes of the block devices and their links in a step.
LEMMA DeviceStep ==
  ASSUME IInv, [Next]_vars
  PROVE  [Devices!NextDevices]_Devices!hardware
<1> USE DEF vars, kernel, socket, thread, keys, Devices!hardware
<1>1. ASSUME UNCHANGED <<present, gone, links>> PROVE UNCHANGED Devices!hardware
  BY <1>1
<1>2. ASSUME NEW d \in Device, Register(d) PROVE [Devices!NextDevices]_Devices!hardware
  <2>1. CASE d \in Block
    <3>1. Devices!Plug(d)
      BY <1>2, <2>1 DEF Register, Devices!Plug
    <3> QED
      BY <2>1, <3>1 DEF Devices!NextDevices
  <2>2. CASE d \notin Block
    BY <1>2, <2>2 DEF Register
  <2> QED
    BY <2>1, <2>2
<1>3. ASSUME NEW d \in Device, Unregister(d) PROVE [Devices!NextDevices]_Devices!hardware
  <2>1. CASE d \in Block
    <3>1. Devices!Unplug(d)
      BY <1>3, <2>1 DEF Unregister, Devices!Unplug
    <3> QED
      BY <2>1, <3>1 DEF Devices!NextDevices
  <2>2. CASE d \notin Block
    BY <1>3, <2>2 DEF Unregister
  <2> QED
    BY <2>1, <2>2
<1>4. ASSUME NEW d \in Block, d \in present \cup gone, UNCHANGED <<present, gone>>,
             links' = links \cup {d}
      PROVE  [Devices!NextDevices]_Devices!hardware
  <2>1. CASE d \in links
    BY <1>4, <2>1
  <2>2. CASE d \notin links
    <3>1. Devices!Link(d)
      BY <1>4, <2>2 DEF Devices!Link
    <3> QED
      BY <3>1 DEF Devices!NextDevices
  <2> QED
    BY <2>1, <2>2
<1>5. ASSUME NEW d \in todo, Scan(d) PROVE [Devices!NextDevices]_Devices!hardware
  <2>1. d \in Block /\ d \in present \cup gone
    BY DEF IInv, TypeOK, Origin
  <2>2. UNCHANGED <<present, gone>> /\ (links' = links \/ links' = links \cup {d})
    BY <1>5 DEF Scan, AddLink
  <2> QED
    BY <1>1, <1>4, <2>1, <2>2
<1>6. ASSUME HandleAdd \/ MakeNode PROVE [Devices!NextDevices]_Devices!hardware
  <2>1. event.device \in present \cup gone
    <3>1. event = Add(event.device)
      BY <1>6, HandlingAdd
    <3>2. event # NoEvent
      BY <3>1, Kinds
    <3> QED
      BY <3>2 DEF IInv, Origin
  <2>2. /\ UNCHANGED <<present, gone>>
        /\ links' = links \/ links' = links \cup ({event.device} \cap Block)
    BY <1>6, HandlingAdd
  <2>3. CASE event.device \in Block
    BY <1>1, <1>4, <2>1, <2>2, <2>3
  <2>4. CASE event.device \notin Block
    BY <1>1, <2>2, <2>4
  <2> QED
    BY <2>3, <2>4
<1>7. CASE HandleRemove
  <2>1. event.device \in gone /\ UNCHANGED <<present, gone>> /\ links' = links \ {event.device}
    BY <1>7, Handling DEF HandleRemove
  <2>2. CASE event.device \in links
    <3>1. event.device \in Block
      BY <2>2 DEF IInv, TypeOK
    <3>2. Devices!Unlink(event.device)
      BY <2>1, <2>2, <3>1 DEF Devices!Unlink
    <3> QED
      BY <3>1, <3>2 DEF Devices!NextDevices
  <2>3. CASE event.device \notin links
    BY <1>1, <2>1, <2>3
  <2> QED
    BY <2>2, <2>3
<1>8. ASSUME NEW d \in Device, Change(d) PROVE UNCHANGED <<present, gone, links>>
  BY <1>8 DEF Change
<1>9. ASSUME NEW u \in announce, Announce(u) PROVE UNCHANGED <<present, gone, links>>
  BY <1>9 DEF Announce
<1>10. ASSUME List \/ Bind \/ Receive \/ LoadVerificationKey \/ HearNews \/ Settle \/ UNCHANGED vars
       PROVE  UNCHANGED <<present, gone, links>>
  BY <1>10 DEF List, Bind, Receive, LoadVerificationKey, HearNews, Settle
<1> QED
  BY <1>1, <1>2, <1>3, <1>5, <1>6, <1>7, <1>8, <1>9, <1>10 DEF Next, Kernel, Thread, Main

\* The device manager implements the devices the loaders are written over: for any devices
\* and any order of uevents a link comes after its device and goes after it.
THEOREM DevicesImplemented == Spec => ImplementsDevices
<1>1. Init => Devices!InitDevices
  BY DEF Init, Devices!InitDevices
<1>2. IInv /\ [Next]_vars => [Devices!NextDevices]_Devices!hardware
  BY DeviceStep
<1> QED
  BY <1>1, <1>2, Invariance, PTL DEF Spec, ImplementsDevices, Devices!DevicesSpec

=============================================================================

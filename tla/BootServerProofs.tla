-------------------------- MODULE BootServerProofs --------------------------
(* Theorems about BootServer, for every list of boot devices. *)
EXTENDS BootServer, TLAPS

USE ServerAssumption

-----------------------------------------------------------------------------
(* The inductive invariant says where the turn is at every moment. *)

\* The key has reached the main thread.
KeyReceived == main = "awaitPresence" \/ (main = "undecided" /\ userIsPresent)

\* Before the session only the key is on its way, once it was sent.
BeforeSession ==
  /\ main \in {"probing", "countdown", "undecided", "awaitKey", "awaitPresence", "done"}
  /\ toClient = <<>>
  /\ main \in {"probing", "countdown"} => ~userIsPresent
  /\ main \in {"probing", "countdown", "awaitKey"} => outcome = None
  /\ IF KeyReceived
     THEN presence = "gone" /\ toServer = <<>> /\ outcome = None
     ELSE toServer = IF presence = "gone" THEN <<"UserIsPresent">> ELSE <<>>

\* During the session, the places the turn can be.
AtServer ==
  /\ toServer = <<>> /\ toClient = <<>>
  /\ \/ main = "ready" /\ shell \in {"starting", "waiting"}
     \/ main = "working" /\ shell = "waiting"

TowardsShell ==
  /\ toServer = <<>>
  /\ \/ /\ main = "receiving" /\ shell \in {"starting", "waiting"}
        /\ toClient = <<"ServerIsReady">>
     \/ /\ main = "joining" /\ shell = "waiting"
        /\ toClient = <<"Stop">>

AtShell == main = "receiving" /\ shell = "prompt" /\ toServer = <<>> /\ toClient = <<>>

TowardsServer ==
  /\ main = "receiving" /\ shell = "waiting" /\ toClient = <<>>
  /\ \E cmd \in Commands : toServer = <<cmd>>

Lost ==
  /\ main = "receiving" /\ shell = "waiting" /\ toServer = <<>> /\ toClient = <<>>
  /\ readErrors > 0

Over == main \in {"joining", "done"} /\ shell = "gone" /\ toServer = <<>> /\ toClient = <<>>

InSession == AtServer \/ TowardsShell \/ AtShell \/ TowardsServer \/ Lost \/ Over

Talk == IF shell = "none" THEN BeforeSession ELSE presence = "gone" /\ InSession

IInv == TypeOK /\ Talk /\ ChannelsHold

-----------------------------------------------------------------------------
(* Types. *)

LEMMA StringsDiffer ==
  /\ Mains = {"probing", "countdown", "undecided", "awaitKey", "awaitPresence",
              "ready", "receiving", "working", "joining", "done"}
  /\ None \notin Outcomes /\ None \notin Commands
  /\ \A cmd \in Commands : Results(cmd) \subseteq Outcomes \cup {None}
  BY DEF Mains, None, Outcomes, Commands, Results

LEMMA DeviceFields ==
  ASSUME NEW d \in Device
  PROVE  d.timeout \in Nat /\ d.bootable \in BOOLEAN /\ d.loads \subseteq BOOLEAN
  BY DEF Device

\* The two flags, apart from the numbers.
LEMMA FlagsNext == Flags /\ [Next]_vars => Flags'
<1> SUFFICES ASSUME Flags, [Next]_vars PROVE Flags'
  OBVIOUS
<1>1. CASE Hear
  BY <1>1 DEF Hear, Flags
<1>2. CASE SendPresence
  BY <1>2 DEF SendPresence, Flags
<1>3. CASE UNCHANGED <<userIsPresent, early>>
  BY <1>3 DEF Flags
<1> QED
  BY <1>1, <1>2, <1>3
  DEF Next, Main, User, Ended, vars, autoboot, Probe, Tick, AutobootDevice, Decide,
      ReceiveKey, SpawnShell, SendReady, ReceiveCommand, FinishCommand, JoinShell,
      KeyPressed, PresenceReadFails, ShellReceive, UserTypes, ShellReadFails, ShellExits

LEMMA TypeInit == Init => TypeOK
<1> SUFFICES ASSUME Init PROVE TypeOK
  OBVIOUS
<1>1. Flags
  BY DEF Init, Flags
<1> QED
  BY <1>1 DEF Init, TypeOK, Mains

LEMMA TypeNext == TypeOK /\ [Next]_vars => TypeOK'
<1> SUFFICES ASSUME TypeOK, [Next]_vars, Flags' PROVE TypeOK'
  BY FlagsNext DEF TypeOK
<1> USE DEF TypeOK, Mains
<1>1. CASE Probe
  <2>1. CASE StartDevice(1) /\ UNCHANGED devices
    BY <1>1, <2>1, DeviceFields DEF Probe, StartDevice, fates
  <2>2. CASE devices' = <<>> /\ main' = "undecided" /\ UNCHANGED <<dev, timeLeft>>
    BY <1>1, <2>2 DEF Probe, fates
  <2>3. CASE panicked' = "work" /\ UNCHANGED <<main, devices, dev, timeLeft>>
    BY <1>1, <2>3 DEF Probe
  <2> QED
    BY <1>1, <2>1, <2>2, <2>3 DEF Probe
<1>2. CASE Tick
  BY <1>2 DEF Tick, fates
<1>3. CASE Hear
  BY <1>3 DEF Hear, fates
<1>4. CASE AutobootDevice
  <2>1. CASE ~devices[dev].bootable
    BY <1>4, <2>1, DeviceFields DEF AutobootDevice, StartDevice, fates
  <2>2. CASE devices[dev].bootable
    <3>1. outcome' \in {"kexec", None}
      BY <1>4, <2>2 DEF AutobootDevice
    <3> QED
      BY <1>4, <2>2, <3>1 DEF AutobootDevice, fates, Outcomes
  <2> QED
    BY <2>1, <2>2
<1>5. CASE Decide
  BY <1>5 DEF Decide, autoboot, fates
<1>6. CASE ReceiveKey
  BY <1>6 DEF ReceiveKey, autoboot
<1>7. CASE SpawnShell
  BY <1>7 DEF SpawnShell, autoboot, fates
<1>8. CASE SendReady
  <2>1. toClient' \in Seq(ToClient)
    <3>1. toClient' \in {toClient, Append(toClient, "ServerIsReady")}
      BY <1>8 DEF SendReady
    <3>2. "ServerIsReady" \in ToClient
      BY DEF ToClient
    <3>3. Append(toClient, "ServerIsReady") \in Seq(ToClient)
      BY <3>2
    <3> QED
      BY <3>1, <3>3
  <2> QED
    BY <1>8, <2>1 DEF SendReady, autoboot
<1>9. CASE ReceiveCommand
  <2>1. Head(toServer) \in ToServer /\ toServer' \in Seq(ToServer)
    BY <1>9 DEF ReceiveCommand
  <2> QED
    BY <1>9, <2>1, StringsDiffer DEF ReceiveCommand, autoboot, fates, ToServer
<1>10. CASE FinishCommand
  <2>1. main' \in {main, "ready", "joining"} /\ main # "countdown"
        /\ serving' \in {serving, None}
    BY <1>10 DEF FinishCommand
  <2>2. toClient' \in Seq(ToClient)
    <3>1. toClient' \in {toClient, Append(toClient, "Stop")}
      BY <1>10 DEF FinishCommand
    <3>2. "Stop" \in ToClient
      BY DEF ToClient
    <3>3. Append(toClient, "Stop") \in Seq(ToClient)
      BY <3>2
    <3> QED
      BY <3>1, <3>3
  <2>3. outcome' \in Outcomes \cup {None} /\ panicked' \in {panicked, "main", "work"}
    <3>1. serving = None => outcome' \in {outcome, "kexec", None} \cup Outcomes
      BY <1>10 DEF FinishCommand, Fallible, Results, None
    <3> QED
      BY <1>10, <3>1, StringsDiffer DEF FinishCommand, Outcomes
  <2> QED
    BY <1>10, <2>1, <2>2, <2>3 DEF FinishCommand, autoboot
<1>11. CASE JoinShell
  BY <1>11 DEF JoinShell, autoboot, fates
<1>12. CASE KeyPressed
  BY <1>12 DEF KeyPressed, autoboot, fates
<1>13. CASE PresenceReadFails
  BY <1>13 DEF PresenceReadFails, autoboot
<1>14. CASE SendPresence
  <2>1. toServer' \in {toServer, Append(toServer, "UserIsPresent")}
    BY <1>14 DEF SendPresence
  <2>2. toServer' \in Seq(ToServer)
    <3>1. "UserIsPresent" \in ToServer
      BY DEF ToServer
    <3>2. Append(toServer, "UserIsPresent") \in Seq(ToServer)
      BY <3>1
    <3> QED
      BY <2>1, <3>2
  <2> QED
    BY <1>14, <2>2 DEF SendPresence
<1>15. CASE ShellReceive
  <2>1. toClient' = toClient \/ (toClient # <<>> /\ toClient' = Tail(toClient))
    BY <1>15 DEF ShellReceive
  <2>2. toClient' \in Seq(ToClient)
    <3>1. toClient \in Seq(ToClient)
      BY DEF TypeOK
    <3>2. toClient # <<>> => Tail(toClient) \in Seq(ToClient)
      BY ONLY <3>1
    <3> QED
      BY ONLY <2>1, <3>1, <3>2
  <2> QED
    BY <1>15, <2>2 DEF ShellReceive, autoboot
<1>16. CASE UserTypes
  <2>1. toServer' \in Seq(ToServer)
    BY <1>16 DEF UserTypes, ToServer
  <2> QED
    BY <1>16, <2>1 DEF UserTypes, autoboot
<1>17. CASE ShellReadFails
  BY <1>17 DEF ShellReadFails, autoboot
<1>18. CASE ShellExits
  BY <1>18 DEF ShellExits, autoboot, fates
<1>19. CASE UNCHANGED vars
  BY <1>19 DEF vars
<1> QED
  BY <1>1, <1>2, <1>3, <1>4, <1>5, <1>6, <1>7, <1>8, <1>9, <1>10, <1>11, <1>12,
     <1>13, <1>14, <1>15, <1>16, <1>17, <1>18, <1>19 DEF Next, Main, User, Ended

\* Every variable keeps its type; in particular the countdown never looks past the
\* end of the device list.
THEOREM TypeCorrect == Spec => []TypeOK
  BY TypeInit, TypeNext, PTL DEF Spec


-----------------------------------------------------------------------------
(* The conversation. *)

LEMMA TalkInit == Init => Talk /\ ChannelsHold
  BY DEF Init, Talk, BeforeSession, KeyReceived, ChannelsHold, None

\* Before the session only prepare_boot and the presence thread run.
LEMMA TalkBefore ==
  ASSUME IInv, shell = "none", Running, Main \/ User \/ SendPresence \/ ShellReceive
  PROVE  Talk' /\ ChannelsHold'
<1> USE DEF IInv, Talk, BeforeSession, ChannelsHold
<1>1. CASE Probe
  BY <1>1 DEF Probe, StartDevice, fates, KeyReceived
<1>2. CASE Tick
  BY <1>2 DEF Tick, fates, KeyReceived
<1>3. CASE Hear
  <2>1. toServer = <<"UserIsPresent">> /\ presence = "gone"
    BY <1>3 DEF Hear, KeyReceived
  <2>2. Head(toServer) = "UserIsPresent" /\ Tail(toServer) = <<>>
    BY <2>1
  <2> QED
    BY <1>3, <2>1, <2>2 DEF Hear, fates, KeyReceived
<1>4. CASE AutobootDevice
  BY <1>4 DEF AutobootDevice, StartDevice, fates, KeyReceived
<1>5. CASE Decide
  BY <1>5 DEF Decide, autoboot, fates, KeyReceived
<1>6. CASE ReceiveKey
  <2>1. toServer = <<"UserIsPresent">> /\ presence = "gone"
    BY <1>6 DEF ReceiveKey, KeyReceived
  <2>2. Head(toServer) = "UserIsPresent" /\ Tail(toServer) = <<>>
    BY <2>1
  <2> QED
    BY <1>6, <2>1, <2>2 DEF ReceiveKey, autoboot, KeyReceived
<1>7. CASE SpawnShell
  <2>1. toServer = <<>> /\ toClient = <<>> /\ presence = "gone"
    BY <1>7 DEF SpawnShell, KeyReceived
  <2>2. AtServer' /\ presence' = "gone" /\ shell' # "none" /\ panicked' = panicked
    BY <1>7, <2>1 DEF SpawnShell, AtServer, fates
  <2> QED
    BY <2>2 DEF InSession
<1>8. CASE KeyPressed
  BY <1>8 DEF KeyPressed, autoboot, fates, KeyReceived
<1>9. CASE PresenceReadFails
  BY <1>9 DEF PresenceReadFails, autoboot, KeyReceived
<1>10. CASE SendPresence
  <2>1. toServer = <<>> /\ ~KeyReceived
    BY <1>10 DEF SendPresence, KeyReceived
  <2>2. Append(toServer, "UserIsPresent") = <<"UserIsPresent">>
    BY <2>1
  <2>3. main' = main /\ shell' = shell /\ toClient' = toClient /\ outcome' = outcome
        /\ userIsPresent' = userIsPresent /\ ~KeyReceived'
    BY <1>10, <2>1 DEF SendPresence, KeyReceived
  <2>4. CASE ServerAlive
    <3>1. toServer' = <<"UserIsPresent">> /\ presence' = "gone" /\ panicked' = panicked
      BY <1>10, <2>2, <2>4 DEF SendPresence
    <3> QED
      BY <2>3, <3>1
  <2>5. CASE ~ServerAlive
    <3>1. toServer' = toServer /\ presence' = "sending" /\ panicked' = "presence"
      BY <1>10, <2>5 DEF SendPresence
    <3> QED
      BY <2>1, <2>3, <3>1
  <2> QED
    BY <2>4, <2>5
<1> QED
  BY <1>1, <1>2, <1>3, <1>4, <1>5, <1>6, <1>7, <1>8, <1>9, <1>10
  DEF Main, User, SendReady, ReceiveCommand, FinishCommand, JoinShell, ShellReceive,
      UserTypes, ShellReadFails, ShellExits

\* In a session the server and the shell pass the turn to each other.
LEMMA TalkDuring ==
  ASSUME IInv, shell # "none", Running, Main \/ User \/ SendPresence \/ ShellReceive
  PROVE  Talk' /\ ChannelsHold'
<1> USE DEF IInv, Talk, ChannelsHold
<1>0. presence = "gone" /\ InSession
  OBVIOUS
<1>1. CASE SendReady
  <2>1. AtServer /\ main = "ready"
    BY <1>0, <1>1 DEF SendReady, InSession, AtServer, TowardsShell, AtShell, TowardsServer, Lost, Over
  <2>2. Append(toClient, "ServerIsReady") = <<"ServerIsReady">>
    BY <2>1 DEF AtServer
  <2>3. TowardsShell'
    BY <1>1, <2>1, <2>2 DEF SendReady, AtServer, TowardsShell, autoboot
  <2> QED
    BY <1>0, <1>1, <2>1, <2>3 DEF SendReady, AtServer, InSession
<1>2. CASE ReceiveCommand
  <2>1. TowardsServer
    BY <1>0, <1>2 DEF ReceiveCommand, InSession, AtServer, TowardsShell, AtShell, TowardsServer, Lost, Over
  <2>2. PICK cmd \in Commands : toServer = <<cmd>>
    BY <2>1 DEF TowardsServer
  <2>3. Head(toServer) # "UserIsPresent" /\ Tail(toServer) = <<>>
    BY <2>2 DEF Commands
  <2>4. AtServer'
    BY <1>2, <2>1, <2>3 DEF ReceiveCommand, TowardsServer, AtServer
  <2> QED
    BY <1>0, <1>2, <2>1, <2>4 DEF ReceiveCommand, TowardsServer, InSession, fates
<1>3. CASE FinishCommand
  <2>1. AtServer /\ main = "working" /\ shell = "waiting"
    BY <1>0, <1>3 DEF FinishCommand, InSession, AtServer, TowardsShell, AtShell, TowardsServer, Lost, Over
  <2>2. Append(toClient, "Stop") = <<"Stop">>
    BY <2>1 DEF AtServer
  <2>3. AtServer' \/ TowardsShell'
    BY <1>3, <2>1, <2>2 DEF FinishCommand, AtServer, TowardsShell
  <2> QED
    BY <1>0, <1>3, <2>1, <2>3 DEF FinishCommand, InSession
<1>4. CASE JoinShell
  <2>1. Over'
    BY <1>0, <1>4 DEF JoinShell, InSession, AtServer, TowardsShell, AtShell, TowardsServer, Lost, Over
  <2> QED
    BY <1>0, <1>4, <2>1 DEF JoinShell, InSession, fates
<1>5. CASE ShellReceive
  <2>1. CASE TowardsShell
    <3>0. PICK m : toClient = <<m>>
      BY <2>1 DEF TowardsShell
    <3>1. toClient # <<>> /\ Tail(toClient) = <<>>
      BY <3>0
    <3>2. AtShell' \/ Over'
      BY <1>5, <2>1, <3>1 DEF ShellReceive, TowardsShell, AtShell, Over
    <3> QED
      BY <1>0, <1>5, <3>1, <3>2 DEF ShellReceive, InSession, AtShell, Over
  <2>2. CASE ~TowardsShell
    BY <1>0, <1>5, <2>2
    DEF ShellReceive, InSession, AtServer, AtShell, TowardsServer, Lost, Over, ServerAlive
  <2> QED
    BY <2>1, <2>2
<1>6. CASE UserTypes
  <2>1. AtShell /\ ServerAlive
    BY <1>0, <1>6
    DEF UserTypes, InSession, AtServer, TowardsShell, AtShell, TowardsServer, Lost, Over, ServerAlive
  <2>2. \A cmd : Append(toServer, cmd) = <<cmd>>
    BY <2>1 DEF AtShell
  <2>3. TowardsServer' \/ (AtShell' /\ panicked' = "work")
    BY <1>6, <2>1, <2>2 DEF UserTypes, AtShell, TowardsServer
  <2> QED
    BY <1>0, <1>6, <2>1, <2>3 DEF UserTypes, InSession, TowardsServer, AtShell
<1>7. CASE ShellReadFails
  <2>1. AtShell
    BY <1>0, <1>7
    DEF ShellReadFails, InSession, AtServer, TowardsShell, AtShell, TowardsServer, Lost, Over
  <2>2. Lost'
    BY <1>7, <2>1 DEF ShellReadFails, AtShell, Lost, TypeOK
  <2> QED
    BY <1>0, <1>7, <2>2 DEF ShellReadFails, InSession, Lost
<1>8. CASE ShellExits
  <2>1. AtServer /\ shell = "waiting"
    BY <1>0, <1>8
    DEF ShellExits, InSession, AtServer, TowardsShell, AtShell, TowardsServer, Lost, Over
  <2>2. AtServer'
    BY <1>8, <2>1 DEF ShellExits, AtServer
  <2> QED
    BY <1>0, <1>8, <2>1, <2>2 DEF ShellExits, InSession, fates
<1> QED
  BY <1>0, <1>1, <1>2, <1>3, <1>4, <1>5, <1>6, <1>7, <1>8
  DEF Main, User, InSession, AtServer, TowardsShell, AtShell, TowardsServer, Lost, Over,
      Probe, Tick, Hear, AutobootDevice, Decide, ReceiveKey, SpawnShell, KeyPressed,
      PresenceReadFails, SendPresence

LEMMA TalkNext == IInv /\ [Next]_vars => IInv'
<1> SUFFICES ASSUME IInv, [Next]_vars PROVE Talk' /\ ChannelsHold'
  BY TypeNext DEF IInv
<1>1. CASE UNCHANGED vars
  BY <1>1 DEF vars, IInv, Talk, BeforeSession, KeyReceived, ChannelsHold, InSession, AtServer,
              TowardsShell, AtShell, TowardsServer, Lost, Over
<1>2. CASE Running /\ (Main \/ User \/ SendPresence \/ ShellReceive)
  BY <1>2, TalkBefore, TalkDuring
<1> QED
  BY <1>1, <1>2 DEF Next, Ended

LEMMA TalkInvariant == Spec => []IInv
<1>1. Init => IInv
  BY TypeInit, TalkInit DEF IInv
<1> QED
  BY <1>1, TalkNext, PTL DEF Spec

\* The server and the shell take turns for the whole session.
THEOREM TurnsAreTaken == Spec => []OneTurn
<1>1. IInv => OneTurn
  <2> SUFFICES ASSUME IInv, shell # "none" PROVE Turns =< 1 /\ (Turns = 0 => shell = "gone" \/ readErrors > 0)
    BY DEF OneTurn
  <2>1. InSession
    BY DEF IInv, Talk
  <2>2. \A m : Len(<<m>>) = 1
    OBVIOUS
  <2>3. Len(<<>>) = 0
    OBVIOUS
  <2>4. CASE AtServer
    BY <2>3, <2>4 DEF AtServer, Turns
  <2>5. CASE TowardsShell
    <3>1. Len(toServer) = 0 /\ Len(toClient) = 1
      BY <2>2, <2>3, <2>5 DEF TowardsShell
    <3> QED
      BY <2>5, <3>1 DEF TowardsShell, Turns
  <2>6. CASE AtShell
    BY <2>3, <2>6 DEF AtShell, Turns
  <2>7. CASE TowardsServer
    BY <2>2, <2>3, <2>7 DEF TowardsServer, Turns
  <2>8. CASE Lost \/ Over
    BY <2>3, <2>8 DEF Lost, Over, Turns
  <2> QED
    BY <2>1, <2>4, <2>5, <2>6, <2>7, <2>8 DEF InSession
<1> QED
  BY <1>1, TalkInvariant, PTL

\* Without a failed read the threads never all wait for each other: whom the main thread
\* waits for can go on.
THEOREM NobodyStuck == Spec => []NoMutualWait
<1>1. IInv => NoMutualWait
  <2> SUFFICES ASSUME IInv, readErrors = 0 PROVE NoMutualWait
    BY DEF NoMutualWait
  <2>1. CASE shell = "none"
    <3>1. BeforeSession
      BY <2>1 DEF IInv, Talk
    <3>2. <<"UserIsPresent">> # <<>>
      OBVIOUS
    <3> QED
      BY <3>1, <3>2 DEF BeforeSession, KeyReceived, NoMutualWait
  <2>2. CASE shell # "none"
    <3>1. InSession
      BY <2>2 DEF IInv, Talk
    <3>2. \A m : <<m>> # <<>>
      OBVIOUS
    <3>3. ~Lost
      BY DEF Lost
    <3> QED
      BY <3>1, <3>2, <3>3 DEF InSession, AtServer, TowardsShell, AtShell, TowardsServer, Over,
                              NoMutualWait, ShellGoesOn
  <2> QED
    BY <2>1, <2>2
<1> QED
  BY <1>1, TalkInvariant, PTL

\* What the main and the shell thread do with the channels never fails: no send, receive
\* or join, nor the assertion on the key.
THEOREM ConversationHolds == Spec => []ChannelsHold
<1>1. IInv => ChannelsHold
  BY DEF IInv
<1> QED
  BY <1>1, TalkInvariant, PTL

-----------------------------------------------------------------------------
(* The key. *)

\* A key that was sent in time finds the countdown it was sent to still running,
\* so that the message is heard before the device's turn comes.
KeyHeard ==
  early /\ shell = "none" =>
    /\ presence = "gone" /\ outcome = None /\ main # "probing"
    /\ main = "countdown" => timeLeft # 0

LEMMA KeyNext == IInv /\ KeyHeard /\ [Next]_vars => KeyHeard'
<1> SUFFICES ASSUME IInv, KeyHeard, [Next]_vars, early', shell' = "none" PROVE KeyHeard'
  BY DEF KeyHeard
<1>1. CASE UNCHANGED vars
  BY <1>1 DEF vars, KeyHeard
<1>2. CASE Running /\ (Main \/ User \/ SendPresence \/ ShellReceive)
  <2>1. shell = "none"
    <3>1. CASE SpawnShell \/ ShellReceive \/ UserTypes \/ ShellReadFails \/ ShellExits
      BY <3>1 DEF SpawnShell, ShellReceive, UserTypes, ShellReadFails, ShellExits
    <3>2. CASE FinishCommand
      BY <3>2 DEF FinishCommand
    <3>3. CASE UNCHANGED shell
      BY <3>3
    <3> QED
      BY <1>2, <3>1, <3>2, <3>3
      DEF Main, User, Probe, Tick, Hear, AutobootDevice, Decide, ReceiveKey, SendReady,
          ReceiveCommand, JoinShell, KeyPressed, PresenceReadFails, SendPresence
  <2>2. BeforeSession
    BY <2>1 DEF IInv, Talk
  <2>3. CASE SendPresence
    <3>1. ~early
      BY <2>1, <2>3 DEF SendPresence, KeyHeard
    <3>2. main = "countdown" /\ timeLeft > 0
      BY <2>3, <3>1, Zenon DEF SendPresence
    <3>3. timeLeft # 0
      BY <3>2
    <3>4. outcome = None
      BY <2>2, <3>2 DEF BeforeSession
    <3>5. ServerAlive
      BY <3>2 DEF ServerAlive
    <3>6. presence' = "gone" /\ outcome' = outcome /\ main' = main /\ timeLeft' = timeLeft
      BY <2>3, <3>5 DEF SendPresence
    <3> QED
      BY <3>2, <3>3, <3>4, <3>6 DEF KeyHeard
  <2>4. CASE ~SendPresence
    <3>1. early' = early
      BY <1>2, <2>4
      DEF Main, User, Probe, Tick, Hear, AutobootDevice, Decide, ReceiveKey, SpawnShell,
          SendReady, ReceiveCommand, FinishCommand, JoinShell, KeyPressed, PresenceReadFails,
          ShellReceive, UserTypes, ShellReadFails, ShellExits, autoboot
    <3>2. presence = "gone" /\ outcome = None /\ main # "probing"
          /\ (main = "countdown" => timeLeft # 0)
      BY <2>1, <3>1 DEF KeyHeard
    <3>3. main = "countdown" => toServer = <<"UserIsPresent">>
      BY <2>2, <3>2 DEF BeforeSession, KeyReceived
    <3>4. main' # "probing" /\ presence' = "gone" /\ outcome' = None
          /\ (main' = "countdown" => main = "countdown" /\ timeLeft' = timeLeft)
      <4>1. ~Probe /\ ~AutobootDevice
        BY <3>2 DEF Probe, AutobootDevice
      <4>3. main = "countdown" => toServer # <<>>
        BY <3>3
      <4>4. ~Tick
        BY <4>3 DEF Tick
      <4>2. CASE Hear
        <5>1. Head(toServer) = "UserIsPresent"
          BY <3>3, <4>2 DEF Hear
        <5> QED
          BY <3>2, <4>2, <5>1 DEF Hear
      <4> QED
        BY <1>2, <2>2, <2>4, <3>2, <4>1, <4>2, <4>4
        DEF Main, User, Decide, ReceiveKey, SpawnShell, SendReady, ReceiveCommand,
            FinishCommand, JoinShell, KeyPressed, PresenceReadFails, ShellReceive,
            UserTypes, ShellReadFails, ShellExits, autoboot, BeforeSession
    <3> QED
      BY <3>2, <3>4 DEF KeyHeard
  <2> QED
    BY <2>3, <2>4
<1> QED
  BY <1>1, <1>2 DEF Next, Ended

\* Autoboot loads no kernel once a key was sent while a countdown ran.
THEOREM KeysAreHeard == Spec => []KeyStopsAutoboot
<1>1. Init => KeyHeard
  BY DEF Init, KeyHeard
<1>2. KeyHeard => KeyStopsAutoboot
  BY DEF KeyHeard, KeyStopsAutoboot
<1> QED
  BY <1>1, <1>2, KeyNext, TalkInvariant, PTL DEF Spec

=============================================================================

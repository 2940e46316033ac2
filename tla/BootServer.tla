----------------------------- MODULE BootServer -----------------------------
(***************************************************************************)
(* The threads of tboot-loader and the two mpsc channels between them      *)
(* (main.rs, shell.rs).  The main thread counts down over the boot devices *)
(* and then either has an outcome or serves commands; the presence thread  *)
(* waits for one key; the shell thread reads commands once the main thread *)
(* started it.  What a command does to disks is left to DiskLoader and     *)
(* BootCounting: here it matters whether it ends the session, gives the    *)
(* turn back or panics.  Writing to the terminal is taken to succeed.      *)
(***************************************************************************)
EXTENDS Naturals, Sequences

CONSTANTS
  DeviceLists,    \* the lists of boot devices the loader may find
  MaxReadErrors   \* bound: reads from the terminal that fail

\* A boot device: its countdown in ticks, whether it offers an entry, and the
\* results kexec_load can have for the entry autoboot selects.
Device == [timeout : Nat, bootable : BOOLEAN, loads : (SUBSET BOOLEAN) \ {{}}]

ASSUME ServerAssumption ==
  /\ DeviceLists \subseteq Seq(Device)
  /\ MaxReadErrors \in Nat

None == "none"
Outcomes == {"kexec", "reboot", "poweroff"}
\* "list" stands for list, rescan and dmesg, "command" for help and loader.
Commands == {"boot", "reboot", "poweroff", "list", "shell", "command"}
\* Commands whose work can panic: setup of the disks canonicalizes paths under /sys and
\* reads uevent files that an unplugged disk takes along, and kernel_logs drops the
\* last byte of what may be empty (system.rs:196).
Fallible == {"boot", "list"}
\* The outcomes a command can end the session with, or None for the next round.
Results(cmd) == CASE cmd = "boot" -> {"kexec", None}
                  [] cmd \in {"reboot", "poweroff"} -> {cmd}
                  [] OTHER -> {None}
ToServer == Commands \cup {"UserIsPresent"}
ToClient == {"ServerIsReady", "Stop"}

VARIABLES
  main,        \* where the main thread is
  devices,     \* what loader.boot_devices() returned
  dev,         \* the device the autoboot loop is at
  timeLeft,    \* its countdown
  userIsPresent,
  outcome,     \* the Outcome of prepare_boot or handle_commands
  serving,     \* the command handle_commands works on
  presence,    \* the presence thread: waiting for a key, sending, gone
  shell,       \* the shell thread: not spawned, waiting for the server, at the prompt, gone
  toServer,    \* the ClientToServer channel
  toClient,    \* the ServerToClient channel
  readErrors,  \* failed reads so far
  panicked,    \* what panicked, which aborts the process in the release profile: a
               \* thread's use of the channels or terminal, or other "work" it does
  early        \* history: the key was sent while a countdown still ran

vars == <<main, devices, dev, timeLeft, userIsPresent, outcome, serving, presence,
          shell, toServer, toClient, readErrors, panicked, early>>
autoboot == <<devices, dev, timeLeft, userIsPresent, early>>
fates == <<readErrors, panicked>>

Init ==
  /\ main = "probing" /\ devices \in DeviceLists /\ dev = 1 /\ timeLeft = 0
  /\ userIsPresent = FALSE /\ outcome = None /\ serving = None
  /\ presence = "reading" /\ shell = "none"
  /\ toServer = <<>> /\ toClient = <<>>
  /\ readErrors = 0 /\ panicked = None /\ early = FALSE

Running == panicked = None

\* prepare_boot and handle_commands own the main thread's ends of the channels.
ServerAlive == main \notin {"joining", "done"}

-----------------------------------------------------------------------------
(* The main thread: prepare_boot. *)

\* The loop reaches device d: its countdown starts; past the last device it ends.
StartDevice(d) ==
  /\ dev' = d
  /\ IF d =< Len(devices)
     THEN main' = "countdown" /\ timeLeft' = devices[d].timeout
     ELSE main' = "undecided" /\ timeLeft' = 0

\* boot_devices() returns a list, or an error, which leaves nothing to loop over; or its
\* setup panics.
Probe ==
  /\ main = "probing"
  /\ \/ StartDevice(1) /\ UNCHANGED <<devices, panicked>>
     \/ devices' = <<>> /\ main' = "undecided" /\ UNCHANGED <<dev, timeLeft, panicked>>
     \/ panicked' = "work" /\ UNCHANGED <<main, devices, dev, timeLeft>>
  /\ UNCHANGED <<userIsPresent, early, outcome, serving, presence, shell,
                 toServer, toClient, readErrors>>

\* Mutations of Tick: the countdown runs on below zero; it does not move.
TickBelowZero ==
  /\ main = "countdown" /\ toServer = <<>>
  /\ timeLeft' = timeLeft - 1
  /\ UNCHANGED <<main, devices, dev, userIsPresent, early, outcome, serving, presence,
                 shell, toServer, toClient, fates>>
TickInPlace == main = "countdown" /\ timeLeft > 0 /\ toServer = <<>> /\ UNCHANGED vars

\* recv_timeout finds the channel empty for a whole tick.
Tick ==
  /\ main = "countdown" /\ timeLeft > 0 /\ toServer = <<>>
  /\ timeLeft' = timeLeft - 1
  /\ UNCHANGED <<main, devices, dev, userIsPresent, early, outcome, serving, presence,
                 shell, toServer, toClient, fates>>

\* Mutation of Hear: the break leaves the countdown and not 'autoboot.
HearBreaksInner ==
  /\ main = "countdown" /\ timeLeft > 0 /\ toServer # <<>>
  /\ toServer' = Tail(toServer)
  /\ IF Head(toServer) = "UserIsPresent"
     THEN userIsPresent' = TRUE /\ timeLeft' = 0
     ELSE timeLeft' = timeLeft - 1 /\ UNCHANGED userIsPresent
  /\ UNCHANGED <<main, devices, dev, early, outcome, serving, presence, shell, toClient, fates>>

\* recv_timeout returns a message: UserIsPresent breaks 'autoboot, any other costs a tick.
Hear ==
  /\ main = "countdown" /\ timeLeft > 0 /\ toServer # <<>>
  /\ toServer' = Tail(toServer)
  /\ IF Head(toServer) = "UserIsPresent"
     THEN /\ userIsPresent' = TRUE /\ main' = "undecided"
          /\ UNCHANGED timeLeft
     ELSE timeLeft' = timeLeft - 1 /\ UNCHANGED <<userIsPresent, main>>
  /\ UNCHANGED <<devices, dev, early, outcome, serving, presence, shell, toClient, fates>>

\* The countdown is over: on to the next device, or to kexec_load, whose failure
\* ends autoboot too.
AutobootDevice ==
  /\ main = "countdown" /\ timeLeft = 0
  /\ IF ~devices[dev].bootable
     THEN StartDevice(dev + 1) /\ UNCHANGED outcome
     ELSE /\ main' = "undecided"
          /\ outcome' \in {IF ok THEN "kexec" ELSE None : ok \in devices[dev].loads}
          /\ UNCHANGED <<dev, timeLeft>>
  /\ UNCHANGED <<devices, userIsPresent, early, serving, presence, shell,
                 toServer, toClient, fates>>

\* Mutation of Decide: waits for a key, also one that was received.
DecideAsksAgain ==
  /\ main = "undecided"
  /\ main' = IF outcome # None THEN "done" ELSE "awaitKey"
  /\ UNCHANGED <<autoboot, outcome, serving, presence, shell, toServer, toClient, fates>>

\* After the loop: return the outcome, or go on with a user who is here or expected.
Decide ==
  /\ main = "undecided"
  /\ main' = IF outcome # None THEN "done"
             ELSE IF userIsPresent THEN "awaitPresence" ELSE "awaitKey"
  /\ UNCHANGED <<autoboot, outcome, serving, presence, shell, toServer, toClient, fates>>

\* assert_eq!(server_rx.recv().unwrap(), UserIsPresent)
ReceiveKey ==
  /\ main = "awaitKey" /\ toServer # <<>>
  /\ toServer' = Tail(toServer)
  /\ IF Head(toServer) = "UserIsPresent"
     THEN main' = "awaitPresence" /\ UNCHANGED panicked
     ELSE panicked' = "main" /\ UNCHANGED main
  /\ UNCHANGED <<autoboot, outcome, serving, presence, shell, toClient, readErrors>>

\* Mutation of SpawnShell: the shell prompts before the server said it is ready.
SpawnShellPrompts ==
  /\ main = "awaitPresence" /\ presence = "gone"
  /\ main' = "ready" /\ shell' = "prompt"
  /\ UNCHANGED <<autoboot, outcome, serving, presence, toServer, toClient, fates>>

\* Join the presence thread, spawn the shell thread, enter handle_commands.
SpawnShell ==
  /\ main = "awaitPresence" /\ presence = "gone"
  /\ main' = "ready" /\ shell' = "starting"
  /\ UNCHANGED <<autoboot, outcome, serving, presence, toServer, toClient, fates>>

-----------------------------------------------------------------------------
(* The main thread: handle_commands. *)

\* The top of the loop: server_tx.send(ServerIsReady).unwrap()
SendReady ==
  /\ main = "ready"
  /\ IF shell = "gone"
     THEN panicked' = "main" /\ UNCHANGED <<main, toClient>>
     ELSE /\ toClient' = Append(toClient, "ServerIsReady")
          /\ main' = "receiving" /\ UNCHANGED panicked
  /\ UNCHANGED <<autoboot, outcome, serving, presence, shell, toServer, readErrors>>

\* server_rx.recv().unwrap(); UserIsPresent has an empty arm.
ReceiveCommand ==
  /\ main = "receiving" /\ toServer # <<>>
  /\ toServer' = Tail(toServer)
  /\ IF Head(toServer) = "UserIsPresent"
     THEN main' = "ready" /\ UNCHANGED serving
     ELSE main' = "working" /\ serving' = Head(toServer)
  /\ UNCHANGED <<autoboot, outcome, presence, shell, toClient, fates>>

\* Mutations of FinishCommand: the session ends without Stop; the loop goes on
\* without ServerIsReady.
FinishCommandNoStop ==
  /\ main = "working" /\ serving # "shell" /\ serving' = None
  /\ \E result \in Results(serving) :
        IF result = None
        THEN main' = "ready" /\ UNCHANGED outcome
        ELSE main' = "joining" /\ outcome' = result
  /\ UNCHANGED <<autoboot, presence, shell, toServer, toClient, fates>>
FinishCommandSilent ==
  /\ main = "working" /\ serving # "shell" /\ serving' = None
  /\ main' = "receiving"
  /\ UNCHANGED <<autoboot, outcome, presence, shell, toServer, toClient, fates>>

\* The command is done: the session ends with an outcome, or the loop goes on; or its
\* work panicked.
FinishCommand ==
  /\ main = "working" /\ serving # "shell"
  /\ \/ /\ serving' = None
        /\ \E result \in Results(serving) :
              IF result = None
              THEN main' = "ready" /\ UNCHANGED <<outcome, toClient, panicked>>
              ELSE IF shell = "gone"
              THEN panicked' = "main" /\ UNCHANGED <<main, outcome, toClient>>
              ELSE /\ toClient' = Append(toClient, "Stop")
                   /\ main' = "joining" /\ outcome' = result
                   /\ UNCHANGED panicked
     \/ /\ serving \in Fallible
        /\ panicked' = "work" /\ UNCHANGED <<main, outcome, serving, toClient>>
  /\ UNCHANGED <<autoboot, presence, shell, toServer, readErrors>>

\* busybox sh runs until the user leaves it (or could not be run at all).
ShellExits ==
  /\ main = "working" /\ serving = "shell"
  /\ main' = "ready" /\ serving' = None
  /\ UNCHANGED <<autoboot, outcome, presence, shell, toServer, toClient, fates>>

\* shell_thread.join(), and prepare_boot returns.
JoinShell ==
  /\ main = "joining" /\ shell = "gone"
  /\ main' = "done"
  /\ UNCHANGED <<autoboot, outcome, serving, presence, shell, toServer, toClient, fates>>

-----------------------------------------------------------------------------
(* The presence thread: wait_for_user_presence. *)

\* stdin.read_exact returns: a key, or an error that is unwrapped.
KeyPressed ==
  /\ presence = "reading"
  /\ presence' = "sending"
  /\ UNCHANGED <<main, autoboot, outcome, serving, shell, toServer, toClient, fates>>

PresenceReadFails ==
  /\ presence = "reading" /\ readErrors < MaxReadErrors
  /\ readErrors' = readErrors + 1 /\ panicked' = "presence"
  /\ UNCHANGED <<main, autoboot, outcome, serving, presence, shell, toServer, toClient>>

\* tx.send(UserIsPresent).unwrap()
SendPresence ==
  /\ presence = "sending"
  /\ IF ServerAlive
     THEN /\ toServer' = Append(toServer, "UserIsPresent")
          /\ presence' = "gone" /\ UNCHANGED panicked
     ELSE panicked' = "presence" /\ UNCHANGED <<toServer, presence>>
  /\ early' = IF main = "countdown" /\ timeLeft > 0 THEN TRUE ELSE early
  /\ UNCHANGED <<main, devices, dev, timeLeft, userIsPresent, outcome, serving, shell,
                 toClient, readErrors>>

-----------------------------------------------------------------------------
(* The shell thread: run_shell. *)

\* Mutation of ShellReceive: Stop is taken for ServerIsReady.
ShellReceiveNoStop ==
  /\ shell \in {"starting", "waiting"} /\ toClient # <<>>
  /\ toClient' = Tail(toClient) /\ shell' = "prompt"
  /\ UNCHANGED <<main, autoboot, outcome, serving, presence, toServer, fates>>

\* rx.recv().unwrap(), before the loop and at the end of each round: it fails
\* when the channel is empty and its sender is gone.
ShellReceive ==
  /\ shell \in {"starting", "waiting"}
  /\ \/ /\ toClient # <<>>
        /\ toClient' = Tail(toClient)
        /\ shell' = IF Head(toClient) = "Stop" THEN "gone" ELSE "prompt"
        /\ UNCHANGED panicked
     \/ /\ toClient = <<>> /\ ~ServerAlive
        /\ panicked' = "shell" /\ UNCHANGED <<shell, toClient>>
  /\ UNCHANGED <<main, autoboot, outcome, serving, presence, toServer, readErrors>>

\* Mutation of UserTypes: a line that does not parse waits for an answer, too.
UserTypesUnsent ==
  /\ shell = "prompt" /\ ServerAlive
  /\ shell' = "waiting"
  /\ toServer' \in {toServer} \cup {Append(toServer, cmd) : cmd \in Commands}
  /\ UNCHANGED <<main, autoboot, outcome, serving, presence, toClient, fates>>

\* A line that parses is sent; an empty or wrong one only brings the prompt back.  A
\* line that ends, without a newline, in a character of several bytes is truncated in
\* the middle of it, which panics.
UserTypes ==
  /\ shell = "prompt"
  /\ \/ \E cmd \in Commands :
           IF ServerAlive
           THEN /\ toServer' = Append(toServer, cmd)
                /\ shell' = "waiting" /\ UNCHANGED panicked
           ELSE panicked' = "shell" /\ UNCHANGED <<toServer, shell>>
     \/ panicked' = "work" /\ UNCHANGED <<toServer, shell>>
  /\ UNCHANGED <<main, autoboot, outcome, serving, presence, toClient, readErrors>>

\* read_line fails: the error is logged, and the round goes on to its recv.
ShellReadFails ==
  /\ shell = "prompt" /\ readErrors < MaxReadErrors
  /\ readErrors' = readErrors + 1
  /\ shell' = "waiting"
  /\ UNCHANGED <<main, autoboot, outcome, serving, presence, toServer, toClient, panicked>>

Main ==
  \/ Probe \/ Tick \/ Hear \/ AutobootDevice \/ Decide \/ ReceiveKey \/ SpawnShell
  \/ SendReady \/ ReceiveCommand \/ FinishCommand \/ JoinShell

User == KeyPressed \/ PresenceReadFails \/ UserTypes \/ ShellReadFails \/ ShellExits

\* main runs the outcome, which does not return; an abort ends everything.
Ended ==
  /\ main = "done" \/ ~Running
  /\ UNCHANGED vars

Next ==
  \/ Running /\ (Main \/ User \/ SendPresence \/ ShellReceive)
  \/ Ended

Spec == Init /\ [][Next]_vars

\* Every thread that can run does; the user need not type, nor leave busybox.
Fairness ==
  /\ WF_vars(Running /\ Main)
  /\ WF_vars(Running /\ SendPresence)
  /\ WF_vars(Running /\ ShellReceive)

FairSpec == Spec /\ Fairness

-----------------------------------------------------------------------------
(* Properties. *)

Mains == {"probing", "countdown", "undecided", "awaitKey", "awaitPresence",
          "ready", "receiving", "working", "joining", "done"}

Flags == userIsPresent \in BOOLEAN /\ early \in BOOLEAN

TypeOK ==
  /\ Flags
  /\ main \in Mains /\ devices \in Seq(Device)
  /\ dev \in Nat \ {0} /\ timeLeft \in Nat
  /\ main = "countdown" => dev \in 1 .. Len(devices)
  /\ outcome \in Outcomes \cup {None}
  /\ serving \in Commands \cup {None}
  /\ presence \in {"reading", "sending", "gone"}
  /\ shell \in {"none", "starting", "waiting", "prompt", "gone"}
  /\ toServer \in Seq(ToServer) /\ toClient \in Seq(ToClient)
  /\ readErrors \in Nat /\ panicked \in {None, "main", "shell", "presence", "work"}

\* Who may go on: the server, the shell, or a message on its way between them.
Turns ==
  (IF main \in {"ready", "working"} THEN 1 ELSE 0) + (IF shell = "prompt" THEN 1 ELSE 0)
    + Len(toServer) + Len(toClient)

\* The two channels carry one conversation: in a session at most one side acts and
\* at most one message is under way, and nobody is left to act only once the shell
\* is gone or a failed read made it wait for an answer it never asked for.
OneTurn ==
  shell # "none" =>
    /\ Turns =< 1
    /\ Turns = 0 => shell = "gone" \/ readErrors > 0

\* What the shell waits for, a line or a message, can still come: a user may type, and
\* recv returns what was sent or fails once the server is gone.
ShellGoesOn ==
  \/ shell = "prompt"
  \/ shell \in {"starting", "waiting"} /\ (toClient # <<>> \/ ~ServerAlive)

\* The threads never all wait for each other, unless a read from the terminal failed
\* (then the shell waits for the server and the server for the shell): the thread the
\* main thread waits for, in a recv or a join, can always go on itself.
NoMutualWait ==
  readErrors = 0 /\ Running =>
    /\ main = "awaitKey" /\ toServer = <<>> => presence # "gone"
    /\ (main = "receiving" /\ toServer = <<>>) \/ (main = "joining" /\ shell # "gone") => ShellGoesOn

\* The channels hold: no send, receive or join of the main or the shell thread fails,
\* and the assert_eq finds the key.  Neither thread sends to, or waits for, one that is
\* gone, however the session ends.  (Of the presence thread and of the work between two
\* messages it says nothing: their unwraps can fail.)
ChannelsHold == panicked \notin {"main", "shell"}

\* A key that was sent while a countdown ran is never overlooked: autoboot does not
\* load a kernel, on this device or a later one.
KeyStopsAutoboot == early /\ shell = "none" => outcome = None

\* ... and the user gets a prompt, as does one who answers "failed to boot".
KeyGetsPrompt ==
  shell = "none" /\ (early \/ (main = "awaitKey" /\ presence = "sending")) ~> shell = "prompt"

\* Left alone, autoboot ends: with a kernel to run or waiting for ENTER (or with
\* the presence thread's unwrap aborting the process).
AutobootDecides ==
  <>(main \in {"done", "awaitKey", "awaitPresence"} \/ shell # "none" \/ ~Running)

\* Every command is answered, with a prompt or by ending the session, as long as no
\* read failed, unless its own work panics; the shell command once the user left busybox.
CommandAnswered ==
  shell = "waiting" ~>
    \/ shell \in {"prompt", "gone"} \/ readErrors > 0
    \/ serving = "shell"
    \/ serving \in Fallible /\ panicked = "work"

\* Once there is an outcome, the session is wound up and main carries it out.
OutcomeReached == outcome # None ~> main = "done" \/ ~Running

\* What shell.rs says of the session: after the user showed up, "we can print a
\* prompt and start receiving real commands", so the prompt always comes back,
\* unless the user is in busybox or the process aborted.
PromptReturns ==
  shell = "waiting" ~> shell \in {"prompt", "gone"} \/ serving = "shell" \/ ~Running

\* What docs/boot_flow.md says of autoboot: every device of the loader is booted in
\* turn, so "failed to boot" means that none was left.
AllDevicesTried == main = "awaitKey" => dev >= Len(devices)

=============================================================================

--------------------------- MODULE ShellCommands ---------------------------
(***************************************************************************)
(* The commands of the shell (cmd.rs, shell.rs) and what "boot" selects    *)
(* (main.rs).  A line is its first word and its arguments; an argument     *)
(* that is a number is that number, any other is DiskWord or OtherWord.    *)
(***************************************************************************)
EXTENDS EntryFiles, SequencesExt

CONSTANTS DiskWord, OtherWord

U8Max == 255

Empty == [verb |-> "", args |-> <<>>]
IsNumber(arg) == arg \notin {DiskWord, OtherWord, None}

\* run_shell takes the last byte off a line as its newline.  Where input ended without
\* one it is the last digit of a number, or spoils a word.
TakenLine(line, newline) ==
  IF newline \/ line = Empty THEN line
  ELSE IF line.args = <<>> THEN [line EXCEPT !.verb = "?"]
  ELSE IF ~IsNumber(Last(line.args)) THEN [line EXCEPT !.args = Append(Front(@), OtherWord)]
  ELSE IF Last(line.args) < 10 THEN [line EXCEPT !.args = Front(@)]
  ELSE [line EXCEPT !.args = Append(Front(@), Last(@) \div 10)]

Nothing == [cmd |-> "nothing"]
Failed == [cmd |-> "error"]
Plain == {"list", "rescan", "poweroff", "reboot", "shell"}

\* parse_input: arguments after those a command takes are ignored.
Arg(line, i) == IF Len(line.args) >= i THEN line.args[i] ELSE None
Optional(arg) == arg = None \/ IsNumber(arg)

ParseBoot(line) ==
  IF Optional(Arg(line, 1)) /\ Optional(Arg(line, 2))
  THEN [cmd |-> "boot", device |-> Arg(line, 1), entry |-> Arg(line, 2)]
  ELSE Failed
ParseDmesg(line) ==
  LET level == Arg(line, 1)
  IN  IF level = None THEN [cmd |-> "dmesg", level |-> 6]
      ELSE IF level \in 0 .. U8Max THEN [cmd |-> "dmesg", level |-> level]
      ELSE Failed
ParseLoader(line) ==
  IF Arg(line, 1) \in {None, DiskWord} THEN [cmd |-> "loader", type |-> Arg(line, 1)] ELSE Failed

Parsed(line) ==
  CASE line.verb = "" -> Nothing
    [] line.verb = "boot" -> ParseBoot(line)
    [] line.verb = "dmesg" -> ParseDmesg(line)
    [] line.verb = "loader" -> ParseLoader(line)
    [] line.verb = "help" -> [cmd |-> "help", about |-> Arg(line, 1)]
    [] line.verb \in Plain -> [cmd |-> line.verb]
    [] OTHER -> Failed

\* Vec::get
Get(seq, i) == IF i \in 1 .. Len(seq) THEN seq[i] ELSE None

\* iter().find(is_default)
DefaultOf(entries) ==
  LET found == {i \in DOMAIN entries : entries[i].is_default}
  IN  IF found = {} THEN None ELSE entries[CHOOSE i \in found : \A j \in found : i <= j]

\* Mutation of Selected: a number beyond the list is taken for none.
SelectedAnyway(devices, device, entry) ==
  LET dev == IF device \in 1 .. Len(devices) THEN devices[device] ELSE Get(devices, 1)
  IN  IF dev = None THEN None
      ELSE IF entry \in 1 .. Len(dev.entries) THEN dev.entries[entry] ELSE DefaultOf(dev.entries)

\* handle_commands, "boot": zero is no number, as if none were given.
Selected(devices, device, entry) ==
  LET dev == IF device \in {None, 0} THEN Get(devices, 1) ELSE Get(devices, device)
  IN  IF dev = None THEN None
      ELSE IF entry \in {None, 0} THEN DefaultOf(dev.entries)
      ELSE Get(dev.entries, entry)

=============================================================================

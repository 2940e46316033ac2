----------------------------- MODULE LoaderConf -----------------------------
(***************************************************************************)
(* loader/loader.conf, as the installer writes it and the loader reads it. *)
(* The installer opens the file for every generation without truncating    *)
(* it, and writes the timeout line, then for the default generation the    *)
(* default line: what was there before stays where nothing covers it.      *)
(***************************************************************************)
EXTENDS EntryFiles, FiniteSets

\* The length of "timeout T\n", where T, a u32, has at most ten digits.
TimeoutWidth(t) == 10 + Cardinality({k \in 1 .. 9 : 10 ^ k <= t})

\* What the file says.  room is the number of bytes before its default line.
NoConf == [timeout |-> None, default |-> None, room |-> 0]

\* The timeout line covers the old one, and the beginning of the default line when
\* that comes too early; it is no default line then.
TimeoutWritten(conf, t) ==
  IF conf.room >= TimeoutWidth(t)
  THEN [conf EXCEPT !.timeout = t]
  ELSE [NoConf EXCEPT !.timeout = t]

\* The default line follows the timeout line at once, and covers the old one.
DefaultWritten(conf, g) ==
  [conf EXCEPT !.default = g, !.room = TimeoutWidth(conf.timeout)]

=============================================================================

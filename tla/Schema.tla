------------------------------- MODULE Schema -------------------------------
(***************************************************************************)
(* What migrate() promises about a database, stated without runs,          *)
(* transactions or the list in _migrations (packages/db/src/migrate.ts):   *)
(* its schema is the result of texts that were run one after the other.    *)
(* It only ever moves forward, by the next text in the order of the file   *)
(* names, as one of the builds has it; nothing is left out, run again or   *)
(* taken back.                                                             *)
(***************************************************************************)
EXTENDS Naturals, Sequences

CONSTANTS Builds, Size, Checksum

VARIABLE log    \* the texts that were run

Init == log = <<>>

Advance(b) ==
  /\ Len(log) < Size[b]
  /\ log' = Append(log, Checksum[b][Len(log) + 1])

Next == \E b \in Builds : Advance(b)

Spec == Init /\ [][Next]_log
=============================================================================

----------------------------- MODULE MCSessions -----------------------------
(***************************************************************************)
(* Instances of Sessions for TLC: tool x of server a, tool y of server b.  *)
(***************************************************************************)
EXTENDS Sessions, TLC

CONSTANTS s1, r1, r2, x, y, a, b

Servers == x :> a @@ y :> b
Published == {{x}, {x, y}}

OneServer == x :> a
OnOrOff == {{}, {x}}

Started(durable, oauth, cooldown, triggers) ==
    [durable |-> durable, oauth |-> oauth, cooldown |-> cooldown, triggers |-> triggers]

Sqlite == {Started(TRUE, TRUE, 0, {"success", "error"})}

\* Sessions in SQLite whose checks await I/O, or in memory with checks that
\* await nothing, a cooldown, and failures that trigger nothing, so that more
\* than MaxRecent of them may follow each other.
SqliteOrMemory == Sqlite \cup {Started(FALSE, FALSE, 1, {"success"})}
=============================================================================

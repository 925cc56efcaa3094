---------------------------- MODULE MCLogExplorer ----------------------------
(* An instance of LogExplorer for TLC. *)
EXTENDS LogExplorer

Log(timestamp, level, message) ==
  [timestamp |-> timestamp, level |-> level, service |-> "api", message |-> message]

SomeLogs == <<Log(-1, "info", {}), Log(0, "error", {"retry"}), Log(1, "info", {})>>

Ago(d) == [form |-> "ago", n |-> d]
Nothing == [form |-> "none", n |-> 0]

\* Opened without parameters.  At tick 1 the first log leaves the range.
SomeURLs ==
  {[from |-> Nothing, to |-> Nothing, levels |-> {}, services |-> {}, search |-> "",
    limit |-> 1, offset |-> 0, order |-> "desc", numeric |-> TRUE]}

LastTick == Ago(1)
SomePresets == {Ago(1)}
=============================================================================

------------------------------ MODULE MCReadSide ------------------------------
(* An instance of ReadSide for TLC. *)
EXTENDS ReadSide

Posted(id, timestamp, level, service, message, fits) ==
  [id |-> id, timestamp |-> timestamp, level |-> level, service |-> service,
   message |-> message, fits |-> fits]

\* Two logs of one id: one beside an unfit log, the other of an unknown level
\* and from too far ahead.
SomeRequests ==
  {<<Posted(1, 1, "err", "db", {"retry", "timeout"}, TRUE),
     Posted(0, NoTime, "error", "db", {"timeout"}, FALSE)>>,
   <<Posted(1, 99, "verbose", "api", {"timeout"}, TRUE)>>}

NoBound == [form |-> "none", n |-> 0]
Instant(t) == [form |-> "instant", n |-> t]
Ago(d) == [form |-> "ago", n |-> d]

Asked(from, to, levels, search, offset) ==
  [from |-> from, to |-> to, levels |-> levels, services |-> {}, search |-> search,
   limit |-> 1, offset |-> offset, order |-> "asc", numeric |-> TRUE]

\* A range of whole seconds within two minutes; errors with a word, second
\* page; a range that begins within a second and ends with the clock, refused
\* as long as it ends before it begins.
SomeParams ==
  {Asked(Instant(2), Instant(4), {}, "", 0),
   Asked(NoBound, NoBound, {"error"}, "timeout", 1),
   Asked(Instant(3), Ago(0), {"info"}, "", 0)}

Unset == [form |-> "unset", n |-> 0]
Number(n) == [form |-> "number", n |-> n]

\* The defaults, a longer retention of two seconds and a half, no workers.
SomeSettings ==
  {[batchSize |-> Unset, workers |-> Unset, retention |-> Unset, memstore |-> TRUE],
   [batchSize |-> Unset, workers |-> Unset, retention |-> Number(5), memstore |-> FALSE],
   [batchSize |-> Unset, workers |-> Number(0), retention |-> Unset, memstore |-> TRUE]}
=============================================================================

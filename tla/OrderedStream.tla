---------------------------- MODULE OrderedStream ----------------------------
(***************************************************************************)
(* What a stream of update windows promises its reader: windows arrive in  *)
(* the order of time, each once, a window that can be read is passed over  *)
(* only by a failure, and nothing follows an end.                          *)
(***************************************************************************)
EXTENDS Integers, Sequences

CONSTANTS Readable,   \* the contents that always give a chunk
          Fallible,   \* the contents whose reading may fail
          Deliverable \* the contents that can give a chunk

VARIABLES archive,    \* archive[w]: the content of window w, first to last
          delivered,  \* the windows the reader has got
          outcome     \* "open", or how the stream ended

Init == delivered = <<>> /\ outcome = "open"

Last(s) == IF s = <<>> THEN 0 ELSE s[Len(s)]

\* A failure may hide window w from a reader whose last window was `last`.
Hidden(last, w) ==
  \E f \in DOMAIN archive : last < f /\ f <= w /\ archive[f] \in Fallible

Deliver(w) ==
  /\ outcome = "open"
  /\ Last(delivered) < w /\ archive[w] \in Deliverable
  /\ \A v \in DOMAIN archive :
       Last(delivered) < v /\ v < w => archive[v] \notin Readable
  /\ delivered' = Append(delivered, w)
  /\ UNCHANGED <<archive, outcome>>

\* The end is reached: what has not come was hidden by a failure.
Exhaust ==
  /\ outcome = "open"
  /\ \A v \in DOMAIN archive :
       Last(delivered) < v /\ archive[v] \in Readable
         => Hidden(Last(delivered), v)
  /\ outcome' = "exhausted"
  /\ UNCHANGED <<archive, delivered>>

\* A failure reaches the reader.
Fail ==
  /\ outcome = "open"
  /\ \E f \in DOMAIN archive :
       Last(delivered) < f /\ archive[f] \in Fallible
  /\ outcome' = "failed"
  /\ UNCHANGED <<archive, delivered>>

\* The reader loses interest.
Abandon ==
  /\ outcome = "open"
  /\ outcome' = "abandoned"
  /\ UNCHANGED <<archive, delivered>>

Next == \/ \E w \in DOMAIN archive : Deliver(w)
        \/ Exhaust \/ Fail \/ Abandon

Spec == Init /\ [][Next]_<<archive, delivered, outcome>>
=============================================================================

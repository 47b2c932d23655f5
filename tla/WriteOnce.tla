------------------------------ MODULE WriteOnce ------------------------------
(***************************************************************************)
(* What the evidence blackboard promises for its critical keys: the first  *)
(* measurement written to a key decides its content class, and from then   *)
(* on the class changes only when a caller explicitly gives the promise    *)
(* up (the overwrite escape hatch, or clearing the whole board).           *)
(***************************************************************************)
EXTENDS Naturals

CONSTANTS Key,    \* the critical keys
          Class,  \* the content classes a value can have
          Unset   \* the class of a key nobody has written

VARIABLES class,  \* class[k]: the content class key k holds
          waived  \* waived[k]: how often the promise has been given up for k

Init == /\ class = [k \in Key |-> Unset]
        /\ waived = [k \in Key |-> 0]

Keep(k) == class'[k] = class[k] /\ waived'[k] = waived[k]

\* The first measurement of k.
Measure(k) == /\ class[k] = Unset
              /\ class'[k] \in Class
              /\ waived'[k] = waived[k]

\* A caller gives the promise for k up.
Waive(k) == /\ class'[k] \in Class \cup {Unset}
            /\ waived'[k] = waived[k] + 1

\* One operation may concern several keys.
Next == \A k \in Key : Keep(k) \/ Measure(k) \/ Waive(k)

Spec == Init /\ [][Next]_<<class, waived>>
=============================================================================

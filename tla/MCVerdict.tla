----------------------------- MODULE MCVerdict -----------------------------
(* Instances of Verdict: each threshold of the code with the value below. *)
EXTENDS Verdict

MCChurn == {[withdrawals |-> 0, announcements |-> 1000],
            [withdrawals |-> 99, announcements |-> 1000],
            [withdrawals |-> 100, announcements |-> 1000],
            [withdrawals |-> 1000, announcements |-> 100001],
            [withdrawals |-> 1000, announcements |-> 100000]}
MCDrops == {0, 49, 50}
============================================================================

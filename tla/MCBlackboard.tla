---------------------------- MODULE MCBlackboard ----------------------------
(* Two clients, one critical key and one ordinary key in its section, one key
   of a section that clear() does not know, and four payloads: two with the
   same event list and different counts, one with another event list, one
   without any list but with the first one's fingerprint. *)
EXTENDS Blackboard, TLC

CONSTANTS c1, c2, measured, recounted, other, listless

MCClients == {c1, c2}
MCCritical == {<<"traffic", "result">>}
MCPlain == {<<"traffic", "anomalies">>}
MCStray == {<<"reasoning", "result">>}
MCValues == {measured, recounted, other, listless}
MCEventList == (measured :> "A") @@ (recounted :> "A") @@ (other :> "B")
                 @@ (listless :> "-")
MCFingerprint == (measured :> 1) @@ (recounted :> 2) @@ (other :> 3)
                 @@ (listless :> 1)
Symmetry == Permutations(MCClients)
=============================================================================

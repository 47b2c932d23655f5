---------------------------- MODULE OriginHijack ----------------------------
(***************************************************************************)
(* The classification of announcements by detect_origin_hijacks and the    *)
(* prefix trie it looks covering prefixes up in                            *)
(* (detectors/hijack/hijack_detector_core.py).                             *)
(*                                                                         *)
(* A prefix is the sequence of its bits, so that one prefix covers another *)
(* when it is a proper initial part of it.  A snapshot (prefix_to_as) maps *)
(* some prefixes to the sets of their origins.  An announcement is a row   *)
(* with a prefix and an AS path whose last element is the origin.          *)
(***************************************************************************)
EXTENDS Naturals, Sequences, SequencesExt

CONSTANTS Target,   \* target_as
          ASNs      \* the numbers of autonomous systems

IPPrefixes    == Seq({0, 1})
Announcements == [prefix : IPPrefixes, path : Seq(ASNs) \ {<<>>}]

(* The elements of s that are wanted, in their order. *)
Selected(s, wanted) ==
    LET kept[n \in 0..Len(s)] ==
            IF n = 0 THEN <<>>
            ELSE IF s[n] \in wanted THEN Append(kept[n - 1], s[n]) ELSE kept[n - 1]
    IN  kept[Len(s)]

(* What the code calls a hijack of the target and a hijack by the target.  *)
Kinds == {"origin_hijacked", "origin_hijacking"}

Origin(row)  == Last(row.path)
Names(row)   == \E i \in DOMAIN row.path : row.path[i] = Target

Covers(p, q) == Len(p) < Len(q) /\ IsPrefix(p, q)

-----------------------------------------------------------------------------
(* The trie *)

(* The nodes that inserting the prefixes of stored has created.            *)
Nodes(stored) == UNION {{SubSeq(p, 1, i) : i \in 0..Len(p)} : p \in stored}

(* (None, None) of find_parent: the bits of no prefix.                     *)
NoParent == <<2>>

(* Mutant: the walk stops at the first stored prefix it meets. *)
FindParentFirst(stored, q) ==
    LET met == {i \in 0..Len(q) - 1 : SubSeq(q, 1, i) \in stored}
    IN  IF met = {} THEN NoParent
        ELSE SubSeq(q, 1, CHOOSE i \in met : \A j \in met : i <= j)

(* ParentPrefixTrie.find_parent: one step a bit, as long as there is a     *)
(* node; a stored prefix shorter than q replaces the best one so far.      *)
FindParent(stored, q) ==
    LET here(i, best) == IF i < Len(q) /\ SubSeq(q, 1, i) \in stored
                         THEN SubSeq(q, 1, i) ELSE best
        walk[i \in 0..Len(q)] ==
            IF i = 0 THEN here(0, NoParent)
            ELSE IF SubSeq(q, 1, i) \in Nodes(stored)
                 THEN here(i, walk[i - 1]) ELSE walk[i - 1]
    IN  walk[Len(q)]

(* What it promises: the longest of the stored prefixes that cover q.      *)
MostSpecific(stored, q) ==
    LET over == {p \in stored : Covers(p, q)}
    IN  IF over = {} THEN NoParent
        ELSE CHOOSE p \in over : \A o \in over : Len(o) <= Len(p)

-----------------------------------------------------------------------------
(* The classification *)

(* target_owned_prefixes, from a map of the prefixes it was given.         *)
Owned(map) == {p \in DOMAIN map : Target \in map[p]}

OwnedExact(map, row)   == row.prefix \in Owned(map)
ForeignExact(map, row) == row.prefix \in DOMAIN map \ Owned(map)

(* The parent the trie names counts only when the target owns it.          *)
OwnedParent(trie, owned, row) == FindParent(trie, row.prefix) \in owned

(* The target is the neighbour of the origin: a customer's announcement.   *)
Customer(row) ==
    /\ Len(row.path) > 1
    /\ row.path[Len(row.path) - 1] = Target
    /\ Origin(row) # Target

Transit(row) == Names(row) /\ ~Customer(row)

(* Mutant: whoever announces an exact prefix of the target is its victim   *)
(* only if the target is not on the path.                                  *)
HijackedOffPath(map, trie, owned, row) ==
    /\ Origin(row) # Target
    /\ OwnedExact(map, row) \/ OwnedParent(trie, owned, row)
    /\ ~Customer(row) /\ ~Transit(row)

Hijacked(map, trie, owned, row) ==
    /\ Origin(row) # Target
    /\ \/ OwnedExact(map, row)
       \/ /\ OwnedParent(trie, owned, row)
          /\ ~Customer(row) /\ ~Transit(row)

(* Mutant: a parent of the target's own makes the prefix a covered one. *)
HijackingCovered(map, trie, owned, row) ==
    /\ Origin(row) = Target
    /\ ~OwnedExact(map, row)
    /\ ForeignExact(map, row) \/ OwnedParent(trie, owned, row)

Hijacking(map, trie, owned, row) ==
    /\ Origin(row) = Target
    /\ ~OwnedExact(map, row) /\ ~OwnedParent(trie, owned, row)
    /\ ForeignExact(map, row)

(* detect_origin_hijacks: the alerts about rows, the victim's first.       *)
Detect(map, trie, owned, rows) ==
    LET alarming(k, row) == IF k = "origin_hijacked"
                            THEN Hijacked(map, trie, owned, row)
                            ELSE Hijacking(map, trie, owned, row)
    IN  [k \in Kinds |->
           IF DOMAIN map = {} THEN <<>>
           ELSE Selected(rows, {row \in ToSet(rows) : alarming(k, row)})]

=============================================================================

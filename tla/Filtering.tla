------------------------------ MODULE Filtering ------------------------------
(***************************************************************************)
(* Vec::retain and iter().filter(): the elements of a list that belong to  *)
(* a set, in their order.                                                  *)
(***************************************************************************)
EXTENDS Naturals, Sequences

Filter(list, keep) ==
    LET kept[i \in 0 .. Len(list)] ==
            IF i = 0 THEN << >>
            ELSE IF list[i] \in keep THEN Append(kept[i - 1], list[i])
            ELSE kept[i - 1]
    IN  kept[Len(list)]
=============================================================================

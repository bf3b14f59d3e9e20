-------------------------------- MODULE Lists --------------------------------
(***************************************************************************)
(* Vec::retain and Array.filter on the lists that are kept in files: key   *)
(* references (secure_store.rs), views, layouts, lines of known_hosts.     *)
(***************************************************************************)
EXTENDS Naturals, Sequences

\* The entries at the places keep, in their order.
Kept(list, keep) ==
    LET kept[n \in 0..Len(list)] ==
            IF n = 0 THEN <<>>
            ELSE IF n \in keep THEN Append(kept[n - 1], list[n]) ELSE kept[n - 1]
    IN kept[Len(list)]

\* Those that are, or are not, in a set.
Among(list, S) == Kept(list, {i \in DOMAIN list : list[i] \in S})
Others(list, S) == Kept(list, {i \in DOMAIN list : list[i] \notin S})

=============================================================================

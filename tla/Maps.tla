-------------------------------- MODULE Maps --------------------------------
(***************************************************************************)
(* Maps with a finite domain: HashMap::insert and HashMap::remove.         *)
(***************************************************************************)

Insert(map, k, v) == [x \in DOMAIN map \cup {k} |-> IF x = k THEN v ELSE map[x]]
Without(map, k)   == [x \in DOMAIN map \ {k} |-> map[x]]

=============================================================================

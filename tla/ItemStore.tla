----------------------------- MODULE ItemStore -----------------------------
(***************************************************************************)
(* What the storage layers promise their callers: a map from item ids to   *)
(* payloads.  Putting binds an id that was not bound, removing unbinds one *)
(* id, and no step does anything else to the map.  A page, and the page    *)
(* manager with its cache, its file and its crashes, both implement it.    *)
(***************************************************************************)

CONSTANTS Ids,       \* the ids the layer below can hand out
          Payloads   \* the payloads its callers store

VARIABLE store       \* the map: a function from the bound ids to payloads

Init == store = [i \in {} |-> {}]

Put(i, p) ==
  /\ i \notin DOMAIN store
  /\ store' = [j \in DOMAIN store \cup {i} |-> IF j = i THEN p ELSE store[j]]

Remove(i) ==
  /\ i \in DOMAIN store
  /\ store' = [j \in DOMAIN store \ {i} |-> store[j]]

Next == \E i \in Ids : Remove(i) \/ \E p \in Payloads : Put(i, p)

Spec == Init /\ [][Next]_store
=============================================================================

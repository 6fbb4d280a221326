--------------------------------- MODULE Lru ---------------------------------
(***************************************************************************)
(* The container of src/server/lru: a map whose keys are also threaded on  *)
(* a list in order of use.  "list" is lru_list, front first; "data" is the *)
(* map.  The map remembers the list node of every key, so erasing "the     *)
(* node of k" removes one position of the list.                            *)
(*                                                                         *)
(* The container itself keeps no state here: FlowTable holds the two parts *)
(* in its variables and has to keep them consistent, which is what         *)
(* Consistent says.                                                        *)
(***************************************************************************)
EXTENDS Integers, SequencesExt

\* The list node a map entry points to.
Node(list, k) == CHOOSE i \in 1 .. Len(list) : list[i] = k

\* Mutants of FindList: the old node is not erased; the key is not moved.
FindListKeepsNode(list, k) == Append(list, k)
FindListNoMove(list, k) == list

\* find() of a present key, on the list: its node moves to the back.
FindList(list, k) == Append(RemoveAt(list, Node(list, k)), k)

\* insert() of an absent key.
InsertList(list, k) == Append(list, k)
InsertData(data, k, v) ==
  [x \in DOMAIN data \cup {k} |-> IF x = k THEN v ELSE data[x]]

\* pop() called n times: the n keys at the front leave the list and the map.
PopList(list, n) == SubSeq(list, n + 1, Len(list))
PopData(list, data, n) ==
  [x \in DOMAIN data \ {list[i] : i \in 1 .. n} |-> data[x]]

\* Every key of the map is on the list exactly once, and nothing else is.
Consistent(list, data) ==
  /\ \A i \in 1 .. Len(list) : list[i] \in DOMAIN data
  /\ \A k \in DOMAIN data : \E i \in 1 .. Len(list) : list[i] = k
  /\ \A i, j \in 1 .. Len(list) : list[i] = list[j] => i = j
=============================================================================

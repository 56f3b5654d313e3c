------------------------------ MODULE OrderedDict ------------------------------
(***************************************************************************)
(* Python's collections.OrderedDict, as the two caches of the program use  *)
(* it (cache.py, multitenant.py): a sequence of records with a field       *)
(* `key', no key twice, the head being the least recently used entry.      *)
(***************************************************************************)
EXTENDS Naturals, Sequences, SequencesExt

\* The keys present in d.
KeysOf(d) == {d[i].key : i \in DOMAIN d}

\* No key occurs at two positions.
DistinctKeys(d) == \A i, j \in DOMAIN d : d[i].key = d[j].key => i = j

IndexOf(d, k) == CHOOSE i \in DOMAIN d : d[i].key = k

\* d[k]
Lookup(d, k) == d[IndexOf(d, k)]

\* d.pop(k)
Pop(d, k) == RemoveAt(d, IndexOf(d, k))

\* d.move_to_end(k)
MoveToEnd(d, k) == Append(Pop(d, k), Lookup(d, k))

\* d.popitem(last=False)
PopFirst(d) == Tail(d)
================================================================================

----------------------------- MODULE Dictionary -----------------------------
(***************************************************************************)
(* What unix_config promises: a finite map from keys to values, and what   *)
(* each operation makes of it.  Loading sets the pairs that were read one  *)
(* after the other; saving changes nothing.                                *)
(***************************************************************************)
EXTENDS Integers, Sequences

CONSTANTS Keys, Settings, NoSetting

VARIABLE dict

DictInit == dict = [k \in Keys |-> NoSetting]

\* The map after one more pair, and after all pairs of a sequence.
With(d, pair) == [d EXCEPT ![pair.key] = pair.value]

WithAll(d, pairs) ==
    LET after[n \in 0 .. Len(pairs)] == IF n = 0 THEN d ELSE With(after[n - 1], pairs[n])
    IN  after[Len(pairs)]

SetPair(pair) == dict' = With(dict, pair)

RemoveKey(k) == dict' = [dict EXCEPT ![k] = NoSetting]

LoadPairs(pairs) == dict' = WithAll(dict, pairs)

ClearAll == dict' = [k \in Keys |-> NoSetting]

SavePairs == UNCHANGED dict
=============================================================================

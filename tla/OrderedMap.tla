----------------------------- MODULE OrderedMap -----------------------------
(***************************************************************************)
(* JSON objects that keep the order of their keys:                         *)
(* internal/jsonutil/ordered.go.  A map is a list of keys and a table of   *)
(* their raw values, and every operation has to keep the two together.     *)
(* A value's text is abstracted to what its readers tell apart.            *)
(***************************************************************************)
EXTENDS Integers, SequencesExt

(* Raw values.                                                             *)
Num(n) == <<"num", n>>          \* an integer that fits into an int
Str(s) == <<"str", s>>
Bool(b) == <<"bool", b>>
List(s) == <<"list", s>>
Obj(m) == <<"obj", m>>
Null == <<"null">>

Kind(v) == v[1]

NewOrderedMap == [keys |-> <<>>, vals |-> <<>>]

Has(m, k) == k \in DOMAIN m.vals

Val(m, k) == m.vals[k]

(* Set and SetValue: a new key goes to the end, a known one keeps its place.*)
Put(m, k, v) ==
    [keys |-> IF Has(m, k) THEN m.keys ELSE Append(m.keys, k),
     vals |-> [x \in DOMAIN m.vals \cup {k} |-> IF x = k THEN v ELSE m.vals[x]]]

(* Mutant: the key stays in the list.                                      *)
DeleteValue(m, k) == [m EXCEPT !.vals = Restrict(@, DOMAIN @ \ {k})]

Delete(m, k) ==
    IF ~ Has(m, k) THEN m
    ELSE [keys |-> RemoveFirst(m.keys, k), vals |-> Restrict(m.vals, DOMAIN m.vals \ {k})]

(* Mutant: iterates over the list that Delete is shifting, and so skips    *)
(* the key after a deleted one.                                            *)
KeepOnlyLive(m, allow) ==
    FoldLeftDomain(
        LAMBDA o, i : IF i > Len(o.keys) \/ o.keys[i] \in allow THEN o
                      ELSE Delete(o, o.keys[i]),
        m, m.keys)

(* Iterates over a copy of the keys.                                       *)
KeepOnly(m, allow) ==
    FoldLeft(LAMBDA o, k : IF k \in allow THEN o ELSE Delete(o, k), m, m.keys)

(* Of a key that occurs twice, the first occurrence gives the place, the   *)
(* last one the value.                                                     *)
ParseObject(members) ==
    FoldLeft(LAMBDA o, kv : Put(o, kv[1], kv[2]), NewOrderedMap, members)

(* The keys are those of the values, each once.                            *)
WellFormed(m) ==
    /\ m.keys \in Seq(DOMAIN m.vals)
    /\ ToSet(m.keys) = DOMAIN m.vals
    /\ IsInjective(m.keys)

=============================================================================

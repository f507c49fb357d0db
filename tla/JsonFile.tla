------------------------------- MODULE JsonFile -------------------------------
(***************************************************************************)
(* JSON settings files and the jq idioms snadcat edits them with.          *)
(*                                                                         *)
(* An object is a function from keys to values (the order of the keys,     *)
(* which Encode keeps, is layout).  A value is a record with one field     *)
(* that names its kind, so that values of any two kinds can be compared.   *)
(***************************************************************************)
EXTENDS Integers, SequencesExt, TLC

Obj(o) == [obj |-> o]
Arr(a) == [arr |-> a]
Str(s) == [str |-> s]
Lit(l) == [lit |-> l]        \* "null", "true", "false" or a number

IsObj(v) == DOMAIN v = {"obj"}
IsArr(v) == DOMAIN v = {"arr"}
IsStr(v) == DOMAIN v = {"str"}

(* What a path may hold beside a value: nothing, or bytes that Parse       *)
(* rejects, such as a file whose writing was cut short.                    *)
Missing   == [file |-> "missing"]
Malformed == [file |-> "malformed"]

Exists(file) == file # Missing

(* Load succeeds only on a file whose top level is an object.              *)
Loads(file) == IsObj(file)

(* Save encodes the whole document again.                                  *)
Saved(o) == Obj(o)

With(o, key, v) == [k \in DOMAIN o \cup {key} |-> IF k = key THEN v ELSE o[k]]

(* null and false count as missing, as under jq's `//'.                    *)
Absent(o, key) == key \notin DOMAIN o \/ o[key] \in {Lit("null"), Lit("false")}

(* The object at key; anything that is not an object is replaced.          *)
EnsureObject(o, key) == IF key \in DOMAIN o /\ IsObj(o[key]) THEN o[key].obj ELSE << >>

EnsureArray(o, key) == IF key \in DOMAIN o /\ IsArr(o[key]) THEN o[key].arr ELSE << >>

SetDefault(o, key, def) == IF Absent(o, key) THEN With(o, key, def) ELSE o

(* Of equal strings the first stays; other values are never compared.      *)
UniqueStrings(arr, extra) ==
  FoldLeft(LAMBDA out, v : IF IsStr(v) /\ v \in Range(out) THEN out ELSE Append(out, v),
           << >>, arr \o extra)

(* Of elements with equal keys the first stays, whatever else they hold.   *)
UniqueBy(arr, key, extra) ==
  FoldLeft(LAMBDA out, v : IF \E i \in DOMAIN out : key[out[i]] = key[v]
                             THEN out ELSE Append(out, v),
           << >>, arr \o extra)

(* "" stands for a key that is missing or is not a string.                 *)
String(o, key) == IF key \in DOMAIN o /\ IsStr(o[key]) THEN o[key].str ELSE ""
=============================================================================

------------------------------ MODULE Attributes ------------------------------
(***************************************************************************)
(* What otelstore makes of the attributes of a record: convertAnyValue,    *)
(* mergeAttributes, extractMetadata and the columns of internal/store, and *)
(* the Redactor of internal/redact.                                        *)
(*                                                                         *)
(* A value on the wire is a record with its kind and its text, an array or *)
(* a kvlist one with its parts (of which this module allows one level).    *)
(* Text is opaque: what the standard library does with it are constants.   *)
(***************************************************************************)
EXTENDS Naturals, Sequences

CONSTANTS
    Lower,        \* strings.ToLower, on the keys and rules in use
    PrefixesOf,   \* PrefixesOf[k]: the p with strings.HasPrefix(k, p)
    Formatted,    \* fmt.Sprintf("%v", bytes)
    Rounded       \* the number a float64 can hold, for an int64 or a double

Scalar(kind, text) == [kind |-> kind, text |-> text]
Nil    == Scalar("null", "")
Str(s) == Scalar("string", s)

(* A list of KeyValues.                                                    *)
IsKvs(kvs) ==
    /\ Len(kvs) \in Nat
    /\ kvs = [i \in 1 .. Len(kvs) |-> [key |-> kvs[i].key, value |-> kvs[i].value]]

-----------------------------------------------------------------------------
(* convertAnyValue.  A KeyValue without a value is "missing", an AnyValue  *)
(* with nothing in it "unset"; bytes and unset take the default case.      *)
ConvertScalar(v) ==
    CASE v.kind = "missing" -> Nil
      [] v.kind = "unset"   -> Str("<nil>")
      [] v.kind = "bytes"   -> Str(Formatted[v.text])
      [] OTHER              -> v

Has(m, k) == k \in DOMAIN m

KeysOf(kvs) == { kvs[i].key : i \in DOMAIN kvs }

(* Of several values of one key the last one stays in the map.             *)
LastOf(kvs, k) ==
    { i \in DOMAIN kvs :
        kvs[i].key = k /\ \A j \in DOMAIN kvs : kvs[j].key = k => j <= i }

Last(kvs, k) == CHOOSE v \in { kvs[i].value : i \in LastOf(kvs, k) } : TRUE

ConvertAnyValue(v) ==
    CASE v.kind = "array"  -> [kind |-> "array",
                               items |-> [i \in DOMAIN v.items |-> ConvertScalar(v.items[i])]]
      [] v.kind = "kvlist" -> [kind |-> "map",
                               map |-> [k \in KeysOf(v.pairs) |-> ConvertScalar(Last(v.pairs, k))]]
      [] OTHER             -> ConvertScalar(v)

AsMap(kvs) == [k \in KeysOf(kvs) |-> ConvertAnyValue(Last(kvs, k))]

Override(m, n) ==
    [k \in DOMAIN m \cup DOMAIN n |-> IF Has(n, k) THEN n[k] ELSE m[k]]

(* MUTANT of MergeAttributes: the record is merged first, then its scope   *)
(* and its resource over it.                                               *)
MergeAttributesReversed(src) ==
    Override(Override(AsMap(src.attrs), AsMap(src.scope)), AsMap(src.resource))

(* The attributes of the record take precedence, then those of its scope,  *)
(* then those of its resource.                                             *)
MergeAttributes(src) ==
    Override(Override(AsMap(src.resource), AsMap(src.scope)), AsMap(src.attrs))

-----------------------------------------------------------------------------
(* The Redactor.  A rule is what is left of an element of the list after   *)
(* trimming: a text, and whether a "*" followed it.                        *)
New(rules) ==
    LET usable == { i \in DOMAIN rules : rules[i].text # "" \/ rules[i].glob }
    IN [exact    |-> { Lower[rules[i].text] : i \in { j \in usable : ~ rules[j].glob } },
        prefixes |-> { Lower[rules[i].text] : i \in { j \in usable : rules[j].glob } }]

(* MUTANT of Match: a list with an exact rule never comes to its prefixes. *)
MatchExactFirst(redactor, k) ==
    IF redactor.exact # {} THEN Lower[k] \in redactor.exact
    ELSE \E p \in redactor.prefixes : p \in PrefixesOf[Lower[k]]

Match(redactor, k) ==
    \/ Lower[k] \in redactor.exact
    \/ \E p \in redactor.prefixes : p \in PrefixesOf[Lower[k]]

Placeholder == "[REDACTED]"

Apply(redactor, m) ==
    [k \in DOMAIN m |-> IF Match(redactor, k) THEN Str(Placeholder) ELSE m[k]]

MergedAttrs(redactor, src) == Apply(redactor, MergeAttributes(src))

-----------------------------------------------------------------------------
(* The columns of a row.                                                   *)

(* extractMetadata and event.name: only a string becomes a column.         *)
Column(m, k) == IF Has(m, k) /\ m[k].kind = "string" THEN m[k].text ELSE ""

(* json.Marshal has no form for NaN and the infinities.                    *)
MarshalsScalar(v) == ~ (v.kind = "double" /\ v.text \in {"NaN", "+Inf", "-Inf"})

Marshals(v) ==
    CASE v.kind = "array" -> \A i \in DOMAIN v.items : MarshalsScalar(v.items[i])
      [] v.kind = "map"   -> \A k \in DOMAIN v.map : MarshalsScalar(v.map[k])
      [] OTHER            -> MarshalsScalar(v)

AllMarshal(m) == \A k \in DOMAIN m : Marshals(m[k])

(* MUTANT of EventAttrs: the nested map is not redacted.                   *)
EventAttrsAsSent(redactor, e) == AsMap(e.attrs)

(* The map of a span event is not merged with resource and scope.          *)
EventAttrs(redactor, e) == Apply(redactor, AsMap(e.attrs))

(* The error of json.Marshal(events) is dropped: no events at all.         *)
Events(redactor, src) ==
    LET stored == [i \in DOMAIN src.events |->
                      [name |-> src.events[i].name,
                       attributes |-> EventAttrs(redactor, src.events[i])]]
    IN IF \A i \in DOMAIN stored : AllMarshal(stored[i].attributes) THEN stored ELSE <<>>

(* A log body that is no string (an array, a map, a number) is not stored. *)
Body(src) == LET v == ConvertAnyValue(src.body)
             IN IF v.kind = "string" THEN v.text ELSE ""

(* MUTANT of RowOf: run_id and job_id are taken before redaction.          *)
RowOfExtractsFirst(redactor, src) ==
    LET attrs  == MergedAttrs(redactor, src)
        merged == MergeAttributes(src)
    IN [name |-> src.name, kind |-> src.kind, status |-> src.status,
        run_id |-> Column(merged, "run_id"), job_id |-> Column(merged, "job_id"),
        event_name |-> Column(attrs, "event.name"), body |-> Body(src),
        attributes |-> attrs, events |-> Events(redactor, src)]

(* What InsertSpans, InsertLogs and InsertMetrics bind; a signal without   *)
(* one of the columns leaves it empty.                                     *)
RowOf(redactor, src) ==
    LET attrs == MergedAttrs(redactor, src)
    IN [name |-> src.name, kind |-> src.kind, status |-> src.status,
        run_id |-> Column(attrs, "run_id"), job_id |-> Column(attrs, "job_id"),
        event_name |-> Column(attrs, "event.name"), body |-> Body(src),
        attributes |-> attrs, events |-> Events(redactor, src)]

(* MUTANT of Storable: the attributes are marshalled before redaction.     *)
StorableAsSent(redactor, src) == AllMarshal(MergeAttributes(src))

(* A record whose attributes json.Marshal refuses fails its batch.         *)
Storable(redactor, src) == AllMarshal(MergedAttrs(redactor, src))

-----------------------------------------------------------------------------
(* The way back: json.Unmarshal into any makes every number a float64.     *)
DecodeScalar(v) ==
    IF v.kind \in {"int", "double"} THEN Scalar("number", Rounded[v.text]) ELSE v

Decode(v) ==
    CASE v.kind = "array" -> [kind |-> "array",
                              items |-> [i \in DOMAIN v.items |-> DecodeScalar(v.items[i])]]
      [] v.kind = "map"   -> [kind |-> "map",
                              map |-> [k \in DOMAIN v.map |-> DecodeScalar(v.map[k])]]
      [] OTHER            -> DecodeScalar(v)

DecodeMap(m) == [k \in DOMAIN m |-> Decode(m[k])]

DecodeEvent(e) == [e EXCEPT !.attributes = DecodeMap(@)]

(* scanSpans, scanLogs, scanMetrics.                                       *)
Scan(row) ==
    [row EXCEPT !.attributes = DecodeMap(@),
                !.events = [i \in DOMAIN @ |-> DecodeEvent(@[i])]]
=============================================================================

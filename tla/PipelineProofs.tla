---------------------------- MODULE PipelineProofs ----------------------------
(***************************************************************************)
(* Proofs about Pipeline, for any keys, rules, configurations and batches. *)
(*                                                                         *)
(* First, the merge of three levels is the last value of the three lists   *)
(* one after the other (MergeKeys, MergeValue).  Then, what becomes of a   *)
(* record does not change when its withheld values are blanked (BlindRow). *)
(* The invariant is that every row was made from its record under its      *)
(* rules (RowsInv).                                                        *)
(***************************************************************************)
EXTENDS Pipeline, SequenceTheorems, TLAPS

Values(kvs, k) == { kvs[i].value : i \in LastOf(kvs, k) }

(* A list of KeyValues is a sequence; so are two of them together.         *)
LEMMA KvsSeq ==
    ASSUME NEW a, IsKvs(a)
    PROVE  /\ DOMAIN a = 1 .. Len(a) /\ Len(a) \in Nat
           /\ \A S : (\A i \in 1 .. Len(a) : a[i] \in S) => a \in Seq(S)
  <1>1. DOMAIN a = 1 .. Len(a) /\ Len(a) \in Nat
    BY DEF IsKvs
  <1>2. ASSUME NEW S, \A i \in 1 .. Len(a) : a[i] \in S
        PROVE  a \in Seq(S)
    <2>1. a = [i \in 1 .. Len(a) |-> a[i]]
      BY DEF IsKvs
    <2>2. a \in [1 .. Len(a) -> S]
      BY <2>1, <1>2
    <2> QED BY <2>2, <1>1
  <1> QED BY <1>1, <1>2

LEMMA KvsConcat ==
    ASSUME NEW a, NEW b, IsKvs(a), IsKvs(b)
    PROVE  /\ IsKvs(a \o b)
           /\ Len(a \o b) = Len(a) + Len(b)
           /\ \A i \in 1 .. Len(a) : (a \o b)[i] = a[i]
           /\ \A i \in 1 .. Len(b) : (a \o b)[Len(a) + i] = b[i]
  <1> DEFINE S == { a[i] : i \in 1 .. Len(a) } \cup { b[i] : i \in 1 .. Len(b) }
  <1>1. Len(a) \in Nat /\ Len(b) \in Nat
    BY DEF IsKvs
  <1>2. a \in Seq(S) /\ b \in Seq(S)
    BY KvsSeq
  <1> HIDE DEF S
  <1>3. /\ a \o b \in Seq(S)
        /\ Len(a \o b) = Len(a) + Len(b)
        /\ \A i \in 1 .. Len(a) + Len(b) :
              (a \o b)[i] = IF i <= Len(a) THEN a[i] ELSE b[i - Len(a)]
    BY <1>2, ConcatProperties
  <1>4. \A i \in 1 .. Len(a) : (a \o b)[i] = a[i]
    BY <1>1, <1>3
  <1>5. \A i \in 1 .. Len(b) : (a \o b)[Len(a) + i] = b[i]
    <2> SUFFICES ASSUME NEW i \in 1 .. Len(b)
                 PROVE  (a \o b)[Len(a) + i] = b[i]
      OBVIOUS
    <2>1. /\ Len(a) + i \in 1 .. Len(a) + Len(b)
          /\ ~ (Len(a) + i <= Len(a))
          /\ (Len(a) + i) - Len(a) = i
      BY <1>1
    <2> QED BY <1>3, <2>1
  <1>6. IsKvs(a \o b)
    <2>1. a \o b = [i \in 1 .. Len(a \o b) |-> (a \o b)[i]]
      <3> DEFINE c == a \o b
      <3>1. c \in Seq(S)
        BY <1>3
      <3> HIDE DEF c
      <3>2. c = [i \in 1 .. Len(c) |-> c[i]]
        BY <3>1
      <3> QED BY <3>2 DEF c
    <2>2. \A i \in 1 .. Len(a) : a[i] = [key |-> a[i].key, value |-> a[i].value]
      BY DEF IsKvs
    <2>3. \A i \in 1 .. Len(b) : b[i] = [key |-> b[i].key, value |-> b[i].value]
      BY DEF IsKvs
    <2>4. ASSUME NEW i \in 1 .. Len(a) + Len(b)
          PROVE  (a \o b)[i] = [key |-> (a \o b)[i].key, value |-> (a \o b)[i].value]
      <3>1. CASE i <= Len(a)
        BY <3>1, <1>1, <1>3, <2>2
      <3>2. CASE ~ (i <= Len(a))
        <4>1. i - Len(a) \in 1 .. Len(b)
          BY <3>2, <1>1
        <4> QED BY <3>2, <4>1, <1>3, <2>3
      <3> QED BY <3>1, <3>2
    <2> QED BY <2>1, <2>4, <1>1, <1>3 DEF IsKvs
  <1> QED BY <1>1, <1>3, <1>4, <1>5, <1>6

(* Where the second list has the key, the last value is there; where it    *)
(* has not, it is in the first.                                            *)
LEMMA LastConcat ==
    ASSUME NEW a, NEW b, IsKvs(a), IsKvs(b), NEW k
    PROVE  /\ KeysOf(a \o b) = KeysOf(a) \cup KeysOf(b)
           /\ k \in KeysOf(b) => Values(a \o b, k) = Values(b, k)
           /\ k \notin KeysOf(b) => Values(a \o b, k) = Values(a, k)
  <1> DEFINE c == a \o b
             m == Len(a)
             n == Len(b)
  <1>1. /\ m \in Nat /\ n \in Nat
        /\ DOMAIN a = 1 .. m /\ DOMAIN b = 1 .. n /\ DOMAIN c = 1 .. m + n
        /\ \A i \in 1 .. m : c[i] = a[i]
        /\ \A i \in 1 .. n : c[m + i] = b[i]
    BY KvsConcat, KvsSeq
  <1> HIDE DEF c, m, n
  <1>2. \A i \in 1 .. m + n : i \in 1 .. m \/ \E j \in 1 .. n : i = m + j
    <2> SUFFICES ASSUME NEW i \in 1 .. m + n, i \notin 1 .. m
                 PROVE  \E j \in 1 .. n : i = m + j
      OBVIOUS
    <2>1. i - m \in 1 .. n /\ i = m + (i - m)
      BY <1>1
    <2> QED BY <2>1
  <1>3. /\ \A i \in 1 .. m : i \in 1 .. m + n
        /\ \A j \in 1 .. n : m + j \in 1 .. m + n
        /\ \A i \in 1 .. m, j \in 1 .. n : i <= m + j /\ ~ (m + j <= i)
        /\ \A i, j \in 1 .. n : m + i <= m + j <=> i <= j
    BY <1>1
  <1>4. KeysOf(c) = KeysOf(a) \cup KeysOf(b)
    <2>1. /\ KeysOf(a) = { a[i].key : i \in 1 .. m }
          /\ KeysOf(b) = { b[i].key : i \in 1 .. n }
          /\ KeysOf(c) = { c[i].key : i \in 1 .. m + n }
      BY <1>1 DEF KeysOf
    <2>2. ASSUME NEW i \in 1 .. m + n
          PROVE  c[i].key \in KeysOf(a) \cup KeysOf(b)
      <3>1. CASE i \in 1 .. m
        BY <3>1, <2>1, <1>1
      <3>2. CASE \E j \in 1 .. n : i = m + j
        BY <3>2, <2>1, <1>1
      <3> QED BY <3>1, <3>2, <1>2
    <2>3. \A i \in 1 .. m : a[i].key \in KeysOf(c)
      BY <2>1, <1>1, <1>3
    <2>4. ASSUME NEW i \in 1 .. n
          PROVE  b[i].key \in KeysOf(c)
      <3>1. m + i \in 1 .. m + n /\ c[m + i].key = b[i].key
        BY <1>1, <1>3
      <3> QED BY <3>1, <2>1
    <2>5. KeysOf(c) \subseteq KeysOf(a) \cup KeysOf(b)
      BY <2>1, <2>2
    <2>6. KeysOf(a) \subseteq KeysOf(c)
      BY <2>1, <2>3
    <2>7. KeysOf(b) \subseteq KeysOf(c)
      BY <2>1, <2>4
    <2> QED BY <2>5, <2>6, <2>7
  <1>5. ASSUME k \in KeysOf(b)
        PROVE  Values(c, k) = Values(b, k)
    <2>1. PICK j \in 1 .. n : b[j].key = k
      BY <1>5, <1>1 DEF KeysOf
    <2>2. \A i \in 1 .. m : i \notin LastOf(c, k)
      BY <2>1, <1>1, <1>3 DEF LastOf
    <2>3. ASSUME NEW i \in 1 .. n
          PROVE  m + i \in LastOf(c, k) <=> i \in LastOf(b, k)
      <3>1. m + i \in DOMAIN c /\ i \in DOMAIN b /\ c[m + i].key = b[i].key
        BY <1>1, <1>3
      <3>2. (\A l \in DOMAIN c : c[l].key = k => l <= m + i)
              <=> (\A l \in DOMAIN b : b[l].key = k => l <= i)
        <4>1. ASSUME \A l \in DOMAIN c : c[l].key = k => l <= m + i,
                     NEW l \in DOMAIN b, b[l].key = k
              PROVE  l <= i
          <5>1. m + l \in DOMAIN c /\ c[m + l].key = k
            BY <4>1, <1>1, <1>3
          <5>2. m + l <= m + i
            BY <4>1, <5>1
          <5> QED BY <5>2, <1>1, <1>3
        <4>2. ASSUME \A l \in DOMAIN b : b[l].key = k => l <= i,
                     NEW l \in DOMAIN c, c[l].key = k
              PROVE  l <= m + i
          <5>1. CASE l \in 1 .. m
            BY <5>1, <1>3
          <5>2. CASE \E o \in 1 .. n : l = m + o
            <6>1. PICK o \in 1 .. n : l = m + o
              BY <5>2
            <6>2. o <= i
              BY <6>1, <4>2, <1>1
            <6> QED BY <6>1, <6>2, <1>3
          <5> QED BY <5>1, <5>2, <1>1, <1>2
        <4> QED BY <4>1, <4>2
      <3> QED BY <3>1, <3>2 DEF LastOf
    <2>4. ASSUME NEW i \in LastOf(c, k)
          PROVE  \E l \in LastOf(b, k) : c[i].value = b[l].value
      <3>1. i \in 1 .. m + n
        BY <1>1 DEF LastOf
      <3>2. PICK l \in 1 .. n : i = m + l
        BY <3>1, <2>2, <1>2
      <3> QED BY <3>2, <2>3, <1>1
    <2>5. ASSUME NEW l \in LastOf(b, k)
          PROVE  \E i \in LastOf(c, k) : c[i].value = b[l].value
      <3>1. l \in 1 .. n
        BY <1>1 DEF LastOf
      <3>2. m + l \in LastOf(c, k) /\ c[m + l].value = b[l].value
        BY <3>1, <2>3, <1>1
      <3> QED BY <3>2
    <2> QED BY <2>4, <2>5 DEF Values
  <1>6. ASSUME k \notin KeysOf(b)
        PROVE  Values(c, k) = Values(a, k)
    <2>1. \A j \in 1 .. n : c[m + j].key # k
      BY <1>6, <1>1 DEF KeysOf
    <2>2. \A l \in DOMAIN c : c[l].key = k => l \in 1 .. m
      BY <2>1, <1>1, <1>2
    <2>3. LastOf(c, k) = LastOf(a, k)
      BY <2>2, <1>1, <1>3 DEF LastOf
    <2>4. \A i \in LastOf(a, k) : c[i] = a[i]
      BY <1>1 DEF LastOf
    <2> QED BY <2>3, <2>4 DEF Values
  <1> QED BY <1>4, <1>5, <1>6 DEF c

(* What a map of a list, and one map over another, hold for a key.         *)
LEMMA AsMapAt ==
    ASSUME NEW kvs
    PROVE  /\ DOMAIN AsMap(kvs) = KeysOf(kvs)
           /\ \A k \in KeysOf(kvs) : AsMap(kvs)[k] = ConvertAnyValue(Last(kvs, k))
  BY DEF AsMap

LEMMA OverrideAt ==
    ASSUME NEW f, NEW g
    PROVE  /\ DOMAIN Override(f, g) = DOMAIN f \cup DOMAIN g
           /\ \A k \in DOMAIN g : Override(f, g)[k] = g[k]
           /\ \A k \in DOMAIN f \ DOMAIN g : Override(f, g)[k] = f[k]
  BY DEF Override, Has

(* A list laid over a map that is one of another list.                     *)
LEMMA OverrideList ==
    ASSUME NEW f, NEW a, NEW b, IsKvs(a), IsKvs(b),
           DOMAIN f = KeysOf(a),
           \A k \in KeysOf(a) : f[k] = ConvertAnyValue(Last(a, k))
    PROVE  /\ DOMAIN Override(f, AsMap(b)) = KeysOf(a \o b)
           /\ \A k \in KeysOf(a \o b) :
                  Override(f, AsMap(b))[k] = ConvertAnyValue(Last(a \o b, k))
  <1>1. KeysOf(a \o b) = KeysOf(a) \cup KeysOf(b)
    BY LastConcat
  <1>2. ASSUME NEW k
        PROVE  /\ k \in KeysOf(b) => Last(a \o b, k) = Last(b, k)
               /\ k \notin KeysOf(b) => Last(a \o b, k) = Last(a, k)
    <2> DEFINE ab == a \o b
    <2>1. /\ k \in KeysOf(b) => Values(ab, k) = Values(b, k)
          /\ k \notin KeysOf(b) => Values(ab, k) = Values(a, k)
      BY LastConcat
    <2> HIDE DEF ab
    <2>2. /\ Last(ab, k) = CHOOSE v \in Values(ab, k) : TRUE
          /\ Last(a, k) = CHOOSE v \in Values(a, k) : TRUE
          /\ Last(b, k) = CHOOSE v \in Values(b, k) : TRUE
      BY DEF Last, Values
    <2>3. /\ k \in KeysOf(b) => Last(ab, k) = Last(b, k)
          /\ k \notin KeysOf(b) => Last(ab, k) = Last(a, k)
      BY <2>1, <2>2
    <2> QED BY <2>3 DEF ab
  <1>3. /\ DOMAIN AsMap(b) = KeysOf(b)
        /\ \A k \in KeysOf(b) : AsMap(b)[k] = ConvertAnyValue(Last(b, k))
    BY AsMapAt
  <1> DEFINE g == AsMap(b)
             fg == Override(f, g)
  <1>4. /\ DOMAIN fg = DOMAIN f \cup DOMAIN g
        /\ \A k \in DOMAIN g : fg[k] = g[k]
        /\ \A k \in DOMAIN f \ DOMAIN g : fg[k] = f[k]
    BY OverrideAt
  <1> HIDE DEF g, fg
  <1>5. /\ DOMAIN g = KeysOf(b)
        /\ \A k \in KeysOf(b) : g[k] = ConvertAnyValue(Last(b, k))
    BY <1>3 DEF g
  <1>6. DOMAIN fg = KeysOf(a \o b)
    BY <1>1, <1>4, <1>5
  <1>7. ASSUME NEW k \in KeysOf(a \o b)
        PROVE  fg[k] = ConvertAnyValue(Last(a \o b, k))
    <2>1. CASE k \in KeysOf(b)
      <3>1. Last(a \o b, k) = Last(b, k)
        BY <2>1, <1>2
      <3>2. fg[k] = g[k]
        BY <1>4, <1>5, <2>1
      <3> QED BY <3>1, <3>2, <2>1, <1>5
    <2>2. CASE k \notin KeysOf(b)
      <3>1. Last(a \o b, k) = Last(a, k)
        BY <2>2, <1>2
      <3>2. k \in KeysOf(a)
        BY <1>1, <2>2
      <3>3. fg[k] = f[k]
        BY <1>4, <1>5, <2>2, <3>2
      <3> QED BY <3>1, <3>2, <3>3
    <2> QED BY <2>1, <2>2
  <1> QED BY <1>6, <1>7 DEF fg, g

(* The map that mergeAttributes builds holds, for each key, the last value *)
(* of the three lists in a row.                                            *)
IsSource(src) ==
    /\ src = [resource |-> src.resource, scope |-> src.scope,
              name |-> src.name, kind |-> src.kind, status |-> src.status,
              body |-> src.body, attrs |-> src.attrs, events |-> src.events]
    /\ IsKvs(src.resource) /\ IsKvs(src.scope) /\ IsKvs(src.attrs)
    /\ src.events = [i \in DOMAIN src.events |->
            [name |-> src.events[i].name, attrs |-> src.events[i].attrs]]
    /\ \A i \in DOMAIN src.events : IsKvs(src.events[i].attrs)

LEMMA MergeEffective ==
    ASSUME NEW src, IsSource(src)
    PROVE  /\ DOMAIN MergeAttributes(src) = KeysOf(SentAttrs(src))
           /\ \A k \in KeysOf(SentAttrs(src)) :
                  MergeAttributes(src)[k] = Effective(src, k)
  <1> DEFINE a == src.resource
             b == src.scope
             c == src.attrs
             ab == Override(AsMap(a), AsMap(b))
  <1>1. IsKvs(a) /\ IsKvs(b) /\ IsKvs(c) /\ IsKvs(a \o b)
    BY KvsConcat DEF IsSource
  <1>2. MergeAttributes(src) = Override(ab, AsMap(c))
    BY DEF MergeAttributes
  <1>3. SentAttrs(src) = (a \o b) \o c
    BY DEF SentAttrs
  <1>4. \A k : Effective(src, k) = ConvertAnyValue(Last(SentAttrs(src), k))
    BY DEF Effective
  <1> HIDE DEF a, b, c
  <1>5. /\ DOMAIN ab = KeysOf(a \o b)
        /\ \A k \in KeysOf(a \o b) : ab[k] = ConvertAnyValue(Last(a \o b, k))
    BY <1>1, AsMapAt, OverrideList
  <1> HIDE DEF ab
  <1>6. /\ DOMAIN Override(ab, AsMap(c)) = KeysOf((a \o b) \o c)
        /\ \A k \in KeysOf((a \o b) \o c) :
               Override(ab, AsMap(c))[k] = ConvertAnyValue(Last((a \o b) \o c, k))
    BY <1>1, <1>5, OverrideList
  <1> QED BY <1>2, <1>3, <1>4, <1>6

-----------------------------------------------------------------------------
(* Two maps that differ in withheld values only, and so become the same.   *)
SameBut(R, f, g) ==
    /\ DOMAIN f = DOMAIN g
    /\ \A k \in DOMAIN f : ~ Match(R, k) => f[k] = g[k]

LEMMA SameApply ==
    ASSUME NEW R, NEW f, NEW g, SameBut(R, f, g)
    PROVE  Apply(R, f) = Apply(R, g)
  BY DEF Apply, SameBut

LEMMA SameOverride ==
    ASSUME NEW R, NEW f, NEW g, NEW p, NEW q, SameBut(R, f, p), SameBut(R, g, q)
    PROVE  SameBut(R, Override(f, g), Override(p, q))
  <1>1. /\ DOMAIN Override(f, g) = DOMAIN f \cup DOMAIN g
        /\ DOMAIN Override(p, q) = DOMAIN f \cup DOMAIN g
    BY DEF Override, SameBut
  <1>2. ASSUME NEW k \in DOMAIN f \cup DOMAIN g, ~ Match(R, k)
        PROVE  Override(f, g)[k] = Override(p, q)[k]
    <2>1. CASE k \in DOMAIN g
      <3>1. k \in DOMAIN q /\ g[k] = q[k]
        BY <1>2, <2>1 DEF SameBut
      <3>2. Override(f, g)[k] = g[k]
        BY <1>2, <2>1 DEF Override, Has
      <3>3. Override(p, q)[k] = q[k]
        BY <3>1 DEF Override, Has
      <3> QED BY <3>1, <3>2, <3>3
    <2>2. CASE k \notin DOMAIN g
      <3>1. k \in DOMAIN f \ DOMAIN g /\ k \in DOMAIN p \ DOMAIN q /\ f[k] = p[k]
        BY <1>2, <2>2 DEF SameBut
      <3>2. Override(f, g)[k] = f[k]
        BY <3>1 DEF Override, Has
      <3>3. Override(p, q)[k] = p[k]
        BY <3>1 DEF Override, Has
      <3> QED BY <3>1, <3>2, <3>3
    <2> QED BY <2>1, <2>2
  <1> QED BY <1>1, <1>2 DEF SameBut

(* A list and the list with its withheld values blanked.                   *)
LEMMA BlankList ==
    ASSUME NEW R, NEW a, IsKvs(a)
    PROVE  SameBut(R, AsMap(a), AsMap(Blank(R, a)))
  <1> DEFINE b == Blank(R, a)
  <1>1. DOMAIN b = DOMAIN a
    BY DEF Blank
  <1>2. \A i \in DOMAIN a : a[i] = [key |-> a[i].key, value |-> a[i].value]
    BY KvsSeq DEF IsKvs
  <1>3. \A i \in DOMAIN a : b[i] = IF Match(R, a[i].key)
                                   THEN [a[i] EXCEPT !.value = Str(Placeholder)]
                                   ELSE a[i]
    BY DEF Blank
  <1> HIDE DEF b
  <1>4. \A i \in DOMAIN a :
            b[i].key = a[i].key /\ (~ Match(R, a[i].key) => b[i] = a[i])
    BY <1>2, <1>3
  <1>5. KeysOf(b) = KeysOf(a)
    BY <1>1, <1>4 DEF KeysOf
  <1>6. ASSUME NEW k \in KeysOf(a), ~ Match(R, k)
        PROVE  Last(b, k) = Last(a, k)
    <2>1. LastOf(b, k) = LastOf(a, k)
      BY <1>1, <1>4 DEF LastOf
    <2>2. \A i \in LastOf(a, k) : b[i] = a[i]
      BY <1>4, <1>6 DEF LastOf
    <2>3. { b[i].value : i \in LastOf(b, k) } = { a[i].value : i \in LastOf(a, k) }
      BY <2>1, <2>2
    <2> QED BY <2>3 DEF Last
  <1>7. DOMAIN AsMap(a) = KeysOf(a) /\ DOMAIN AsMap(b) = KeysOf(a)
    BY <1>5, AsMapAt
  <1>8. ASSUME NEW k \in KeysOf(a), ~ Match(R, k)
        PROVE  AsMap(a)[k] = AsMap(b)[k]
    <2>1. AsMap(a)[k] = ConvertAnyValue(Last(a, k))
      BY AsMapAt
    <2>2. AsMap(b)[k] = ConvertAnyValue(Last(b, k))
      BY <1>5, AsMapAt
    <2> QED BY <2>1, <2>2, <1>6, <1>8
  <1>9. SameBut(R, AsMap(a), AsMap(b))
    BY <1>7, <1>8 DEF SameBut
  <1> QED BY <1>9 DEF b

(* What becomes of a record does not change when its withheld values are   *)
(* blanked.                                                                *)
LEMMA BlindRow ==
    ASSUME NEW R, NEW src, IsSource(src)
    PROVE  RowOf(R, Blind(R, src)) = RowOf(R, src)
  <1> DEFINE bl == Blind(R, src)
  <1>1. /\ bl.name = src.name /\ bl.kind = src.kind /\ bl.status = src.status
        /\ bl.body = src.body
        /\ bl.resource = Blank(R, src.resource)
        /\ bl.scope = Blank(R, src.scope)
        /\ bl.attrs = Blank(R, src.attrs)
        /\ bl.events = [i \in DOMAIN src.events |->
                BlankEvent(R, src.events[i])]
    BY DEF Blind, IsSource
  <1> HIDE DEF bl
  <1>2. MergedAttrs(R, bl) = MergedAttrs(R, src)
    <2>1. /\ SameBut(R, AsMap(src.resource), AsMap(bl.resource))
          /\ SameBut(R, AsMap(src.scope), AsMap(bl.scope))
          /\ SameBut(R, AsMap(src.attrs), AsMap(bl.attrs))
      BY <1>1, BlankList DEF IsSource
    <2>2. SameBut(R, Override(AsMap(src.resource), AsMap(src.scope)),
                     Override(AsMap(bl.resource), AsMap(bl.scope)))
      BY <2>1, SameOverride
    <2>3. SameBut(R, MergeAttributes(src), MergeAttributes(bl))
      BY <2>1, <2>2, SameOverride DEF MergeAttributes
    <2> QED BY <2>3, SameApply DEF MergedAttrs
  <1>3. Events(R, bl) = Events(R, src)
    <2>1. DOMAIN bl.events = DOMAIN src.events
      BY <1>1
    <2>2. ASSUME NEW i \in DOMAIN src.events
          PROVE  /\ bl.events[i].name = src.events[i].name
                 /\ EventAttrs(R, bl.events[i]) = EventAttrs(R, src.events[i])
      <3>1. /\ bl.events[i].name = src.events[i].name
            /\ bl.events[i].attrs = Blank(R, src.events[i].attrs)
        <4>1. bl.events[i] = [src.events[i] EXCEPT !.attrs = Blank(R, src.events[i].attrs)]
          BY <1>1, <2>2 DEF BlankEvent
        <4>2. src.events[i] = [name |-> src.events[i].name, attrs |-> src.events[i].attrs]
          BY <2>2 DEF IsSource
        <4> QED BY <4>1, <4>2
      <3>2. SameBut(R, AsMap(src.events[i].attrs), AsMap(bl.events[i].attrs))
        BY <3>1, BlankList DEF IsSource
      <3> QED BY <3>1, <3>2, SameApply DEF EventAttrs
    <2>3. [i \in DOMAIN bl.events |->
              [name |-> bl.events[i].name, attributes |-> EventAttrs(R, bl.events[i])]]
          = [i \in DOMAIN src.events |->
              [name |-> src.events[i].name, attributes |-> EventAttrs(R, src.events[i])]]
      BY <2>1, <2>2
    <2> QED BY <2>3 DEF Events
  <1>4. RowOf(R, bl) = RowOf(R, src)
    BY <1>1, <1>2, <1>3 DEF RowOf, Body
  <1> QED BY <1>4 DEF bl

-----------------------------------------------------------------------------
(* The invariant: every row was made from its record under its rules, and  *)
(* the last answer is about the database as it is.                         *)
RowsInv ==
    \A w \in rows : IsSource(w.src) /\ w.row = RowOf(w.under, w.src)

FoundInv ==
    answer.code = "found" =>
        /\ answer.ask \in Asks
        /\ answer.found =
             { Shown(w) : w \in { v \in rows : v.row[answer.ask.column] = answer.ask.text } }
        /\ answer.errors = IF IsQueryJob(answer.server, answer.ask)
                           THEN Failed(answer.found) ELSE {}

StoredInv ==
    answer.code \in {"stored", "failed"} =>
        /\ answer.batch \in Batches
        /\ answer.code = "stored" <=>
             \A src \in Sources(answer.batch) : Storable(Redactor(config), src)

DoorInv ==
    answer.code # "none" =>
        /\ answer.headers \in HeaderLists
        /\ answer.code # "unauthorized" =>
               LetIn(answer.server, answer.path, answer.headers)
        /\ answer.code = "unauthorized" =>
               /\ answer.path \notin Unauthenticated
               /\ ~ LetIn(answer.server, answer.path, answer.headers)

PInv == RowsInv /\ FoundInv /\ StoredInv /\ DoorInv

(* What a batch makes is a record, and what is stored of it its row.       *)
LEMMA SourcesTyped ==
    ASSUME NEW batch \in Batches, NEW src \in Sources(batch)
    PROVE  IsSource(src)
  <1>1. PICK r \in batch.records :
          src = [resource |-> batch.resource, scope |-> batch.scope,
                 name |-> r.name, kind |-> r.kind, status |-> r.status, body |-> r.body,
                 attrs |-> r.attrs, events |-> r.events]
    BY DEF Sources, SourceOf
  <1>2. /\ src.resource = batch.resource /\ src.scope = batch.scope
        /\ src.attrs = r.attrs /\ src.events = r.events
        /\ src = [resource |-> src.resource, scope |-> src.scope,
                  name |-> src.name, kind |-> src.kind, status |-> src.status,
                  body |-> src.body, attrs |-> src.attrs, events |-> src.events]
    BY <1>1
  <1>3. /\ IsKvs(batch.resource) /\ IsKvs(batch.scope) /\ IsKvs(r.attrs)
        /\ r.events = [i \in 1 .. Len(r.events) |->
                [name |-> r.events[i].name, attrs |-> r.events[i].attrs]]
        /\ \A i \in 1 .. Len(r.events) : IsKvs(r.events[i].attrs)
    BY BatchAssumption
  <1>4. DOMAIN r.events = 1 .. Len(r.events)
    BY <1>3
  <1>5. /\ src.events = [i \in DOMAIN src.events |->
                [name |-> src.events[i].name, attrs |-> src.events[i].attrs]]
        /\ \A i \in DOMAIN src.events : IsKvs(src.events[i].attrs)
    BY <1>2, <1>3, <1>4
  <1> QED BY <1>2, <1>3, <1>5 DEF IsSource

LEMMA PipelineInit == Init => PInv
  BY DEF Init, PInv, RowsInv, FoundInv, StoredInv, DoorInv, Nothing

LEMMA PipelineNext == PInv /\ [Next]_vars => PInv'
  <1> SUFFICES ASSUME PInv, [Next]_vars
               PROVE  PInv'
    OBVIOUS
  <1>1. ASSUME NEW c \in Configs, Boot(c)
        PROVE  PInv'
    <2>1. RowsInv'
      BY <1>1 DEF Boot, PInv, RowsInv
    <2>2. answer'.code = "none"
      BY <1>1 DEF Boot, Nothing
    <2> QED BY <2>1, <2>2 DEF PInv, FoundInv, StoredInv, DoorInv
  <1>2. ASSUME Stop
        PROVE  PInv'
    <2>1. RowsInv'
      BY <1>2 DEF Stop, PInv, RowsInv
    <2>2. answer'.code = "none"
      BY <1>2 DEF Stop, Nothing
    <2> QED BY <2>1, <2>2 DEF PInv, FoundInv, StoredInv, DoorInv
  <1>3. ASSUME NEW headers \in HeaderLists, NEW server \in Servers,
               Refuse(server, "/v1", headers)
        PROVE  PInv'
    <2>1. /\ rows' = rows /\ config' = config
          /\ answer' = [code |-> "unauthorized", server |-> server, path |-> "/v1",
                        headers |-> headers]
          /\ ~ LetIn(server, "/v1", headers)
      BY <1>3 DEF Refuse
    <2>2. RowsInv'
      BY <2>1 DEF PInv, RowsInv
    <2>3. FoundInv' /\ StoredInv'
      BY <2>1 DEF FoundInv, StoredInv
    <2>4. DoorInv'
      BY <2>1, <1>3 DEF DoorInv, LetIn, Unauthenticated
    <2> QED BY <2>2, <2>3, <2>4 DEF PInv
  <1>4. ASSUME NEW headers \in HeaderLists, NEW server \in {"grpc", "ingest"},
               NEW batch \in Batches, Export(server, headers, batch)
        PROVE  PInv'
    <2> DEFINE fits == \A src \in Sources(batch) : Storable(Redactor(config), src)
    <2>1. /\ config' = config
          /\ LetIn(server, "/v1", headers)
          /\ rows' = IF fits THEN rows \cup { StoredRow(config, src) : src \in Sources(batch) }
                     ELSE rows
          /\ answer' = [code |-> IF fits THEN "stored" ELSE "failed",
                        server |-> server, path |-> "/v1", headers |-> headers,
                        batch |-> batch]
      BY <1>4 DEF Export
    <2>2. RowsInv'
      <3> SUFFICES ASSUME NEW w \in rows'
                   PROVE  IsSource(w.src) /\ w.row = RowOf(w.under, w.src)
        BY DEF RowsInv
      <3> HIDE DEF fits
      <3>1. CASE w \in rows
        BY <3>1 DEF PInv, RowsInv
      <3>2. CASE w \notin rows
        <4>1. PICK src \in Sources(batch) : w = StoredRow(config, src)
          BY <3>2, <2>1
        <4> QED BY <4>1, SourcesTyped DEF StoredRow
      <3> QED BY <3>1, <3>2
    <2>3. StoredInv'
      BY <2>1 DEF StoredInv
    <2> HIDE DEF fits
    <2>4. answer'.code \in {"stored", "failed"}
      BY <2>1
    <2>5. FoundInv'
      BY <2>4 DEF FoundInv
    <2>6. DoorInv'
      <3>1. /\ answer'.headers = headers /\ answer'.server = server /\ answer'.path = "/v1"
        BY <2>1
      <3>2. LetIn(server, "/v1", headers)'
        BY <2>1 DEF LetIn
      <3> QED BY <2>4, <3>1, <3>2, <1>4 DEF DoorInv, LetIn
    <2> QED BY <2>2, <2>3, <2>5, <2>6 DEF PInv
  <1>5. ASSUME NEW headers \in HeaderLists, NEW server \in {"query", "mcp"},
               NEW ask \in Asks, Ask(server, headers, ask)
        PROVE  PInv'
    <2> DEFINE found == { Shown(w) : w \in { v \in rows : v.row[ask.column] = ask.text } }
    <2>1. /\ rows' = rows /\ config' = config
          /\ LetIn(server, "/v1", headers)
          /\ answer' = [code |-> "found", server |-> server, path |-> "/v1",
                        headers |-> headers, ask |-> ask, found |-> found,
                        errors |-> IF IsQueryJob(server, ask) THEN Failed(found) ELSE {}]
      BY <1>5 DEF Ask
    <2>2. RowsInv'
      BY <2>1 DEF PInv, RowsInv
    <2>3. /\ answer'.ask = ask /\ answer'.server = server /\ answer'.code = "found"
          /\ answer'.found = found
          /\ answer'.errors = IF IsQueryJob(server, ask) THEN Failed(found) ELSE {}
          /\ answer'.headers = headers /\ answer'.path = "/v1"
      BY <2>1
    <2>4. FoundInv'
      BY <2>1, <2>3, <1>5 DEF FoundInv, Shown, Failed
    <2>5. StoredInv'
      BY <2>3 DEF StoredInv
    <2>6. DoorInv'
      BY <2>1, <2>3, <1>5 DEF DoorInv, LetIn
    <2> QED BY <2>2, <2>4, <2>5, <2>6 DEF PInv
  <1>6. ASSUME NEW headers \in HeaderLists, NEW path \in Unauthenticated,
               Probe(path, headers)
        PROVE  PInv'
    <2>1. /\ rows' = rows /\ config' = config
          /\ LetIn("query", path, headers)
      BY <1>6 DEF Probe
    <2>2. PICK code \in {"ready", "not ready"} :
             answer' = [code |-> code, server |-> "query", path |-> path,
                        headers |-> headers]
      BY <1>6 DEF Probe
    <2>3. RowsInv'
      BY <2>1 DEF PInv, RowsInv
    <2>4. FoundInv' /\ StoredInv'
      BY <2>2 DEF FoundInv, StoredInv
    <2>5. DoorInv'
      BY <2>1, <2>2, <1>6 DEF DoorInv, LetIn
    <2> QED BY <2>3, <2>4, <2>5 DEF PInv
  <1>7. CASE UNCHANGED vars
    BY <1>7 DEF vars, PInv, RowsInv, FoundInv, StoredInv, DoorInv, LetIn, Shown, Failed
  <1> QED BY <1>1, <1>2, <1>3, <1>4, <1>5, <1>6, <1>7 DEF Next

(* Every row of every reachable database was made from a record as sent,   *)
(* under the rules of its process, and every answer is about those rows.   *)
THEOREM PipelineInvariant == Spec => []PInv
  BY PipelineInit, PipelineNext, PTL DEF Spec

-----------------------------------------------------------------------------
(* Nothing in the database depends on a withheld value, whatever the rules *)
(* are and wherever the value was: resource, scope, record or event.       *)
THEOREM NoTrace == Spec => []WithheldLeavesNoTrace
  <1>1. RowsInv => WithheldLeavesNoTrace
    <2> SUFFICES ASSUME RowsInv, NEW v \in rows, NEW w \in rows,
                        v.under = w.under, Blind(v.under, v.src) = Blind(w.under, w.src)
                 PROVE  v.row = w.row
      BY DEF WithheldLeavesNoTrace
    <2>1. v.row = RowOf(v.under, Blind(v.under, v.src))
      BY BlindRow DEF RowsInv
    <2>2. w.row = RowOf(w.under, Blind(w.under, w.src))
      BY BlindRow DEF RowsInv
    <2> QED BY <2>1, <2>2
  <1> QED BY <1>1, PipelineInvariant, PTL DEF PInv

(* What the attributes of a row are, key by key.                           *)
LEMMA MergedVisible ==
    ASSUME NEW w, IsSource(w.src)
    PROVE  /\ DOMAIN MergedAttrs(w.under, w.src) = KeysOf(SentAttrs(w.src))
           /\ \A k \in KeysOf(SentAttrs(w.src)) :
                  MergedAttrs(w.under, w.src)[k] = Visible(w, k)
  BY MergeEffective DEF MergedAttrs, Apply, Visible

LEMMA ShownSources ==
    ASSUME NEW S
    PROVE  { w.src : w \in { Shown(v) : v \in S } } = { v.src : v \in S }
  <1>1. \A v : Shown(v).src = v.src
    BY DEF Shown
  <1>2. ASSUME NEW v \in S
        PROVE  v.src \in { w.src : w \in { Shown(u) : u \in S } }
    BY <1>1
  <1>3. ASSUME NEW w \in { Shown(v) : v \in S }
        PROVE  w.src \in { v.src : v \in S }
    BY <1>1
  <1> QED BY <1>2, <1>3

(* A reader who asks for an id finds exactly the records that have it.     *)
THEOREM Found == Spec => []FoundByKey
  <1>1. RowsInv /\ FoundInv => FoundByKey
    <2> SUFFICES ASSUME RowsInv, FoundInv, answer.code = "found"
                 PROVE  { w.src : w \in answer.found } =
                        { w.src : w \in { v \in rows :
                            /\ answer.ask.column \in KeysOf(SentAttrs(v.src))
                            /\ Visible(v, answer.ask.column).kind = "string"
                            /\ Visible(v, answer.ask.column).text = answer.ask.text } }
      BY DEF FoundByKey
    <2> DEFINE col == answer.ask.column
               text == answer.ask.text
    <2>1. /\ col \in {"run_id", "job_id"} /\ text # ""
          /\ answer.found = { Shown(w) : w \in { v \in rows : v.row[col] = text } }
      BY AskAssumption DEF FoundInv
    <2> HIDE DEF col, text
    <2>2. ASSUME NEW v \in rows
          PROVE  v.row[col] = text <=>
                   /\ col \in KeysOf(SentAttrs(v.src))
                   /\ Visible(v, col).kind = "string"
                   /\ Visible(v, col).text = text
      <3>1. v.row[col] = Column(MergedAttrs(v.under, v.src), col)
        <4>1. v.row = RowOf(v.under, v.src)
          BY DEF RowsInv
        <4>2. CASE col = "run_id"
          BY <4>1, <4>2 DEF RowOf
        <4>3. CASE col = "job_id"
          BY <4>1, <4>3 DEF RowOf
        <4> QED BY <4>2, <4>3, <2>1
      <3>2. /\ DOMAIN MergedAttrs(v.under, v.src) = KeysOf(SentAttrs(v.src))
            /\ \A k \in KeysOf(SentAttrs(v.src)) :
                   MergedAttrs(v.under, v.src)[k] = Visible(v, k)
        BY MergedVisible DEF RowsInv
      <3> QED BY <3>1, <3>2, <2>1 DEF Column, Has
    <2>3. { w.src : w \in answer.found } = { v.src : v \in { u \in rows : u.row[col] = text } }
      BY <2>1, ShownSources
    <2> QED BY <2>2, <2>3 DEF col, text
  <1> QED BY <1>1, PipelineInvariant, PTL DEF PInv

(* The events of a row, read back: all as sent and visible, or, if JSON    *)
(* cannot hold a visible value of one of them, none.                       *)
LEMMA EventsShown ==
    ASSUME NEW w, IsSource(w.src), w.row = RowOf(w.under, w.src)
    PROVE  \/ Scan(w.row).events = SentEvents(w)
           \/ Scan(w.row).events = <<>> /\ Unfit(w)
  <1> DEFINE E == w.src.events
             stored == [i \in DOMAIN E |->
                           [name |-> E[i].name, attributes |-> EventAttrs(w.under, E[i])]]
  <1>1. w.row.events = IF \A i \in DOMAIN stored : AllMarshal(stored[i].attributes)
                       THEN stored ELSE <<>>
    BY DEF RowOf, Events
  <1>2. Scan(w.row).events = [i \in DOMAIN w.row.events |-> DecodeEvent(w.row.events[i])]
    BY DEF Scan, RowOf
  <1>3. ASSUME NEW i \in DOMAIN E
        PROVE  /\ DOMAIN EventAttrs(w.under, E[i]) = KeysOf(E[i].attrs)
               /\ \A k \in KeysOf(E[i].attrs) :
                      EventAttrs(w.under, E[i])[k] = VisibleIn(w, E[i], k)
    BY AsMapAt DEF EventAttrs, Apply, VisibleIn
  <1>4. CASE \A i \in DOMAIN stored : AllMarshal(stored[i].attributes)
    <2>1. ASSUME NEW i \in DOMAIN E
          PROVE  DecodeEvent(stored[i]) =
                   [name |-> E[i].name,
                    attributes |-> [k \in KeysOf(E[i].attrs) |-> Decode(VisibleIn(w, E[i], k))]]
      <3>1. DecodeEvent(stored[i]) =
              [name |-> E[i].name, attributes |-> DecodeMap(EventAttrs(w.under, E[i]))]
        BY DEF DecodeEvent
      <3>2. DecodeMap(EventAttrs(w.under, E[i]))
              = [k \in KeysOf(E[i].attrs) |-> Decode(VisibleIn(w, E[i], k))]
        BY <1>3 DEF DecodeMap
      <3> QED BY <3>1, <3>2
    <2>2. w.row.events = stored /\ DOMAIN stored = DOMAIN E
      BY <1>1, <1>4
    <2> HIDE DEF stored
    <2>3. Scan(w.row).events = SentEvents(w)
      BY <1>2, <2>1, <2>2 DEF SentEvents
    <2> QED BY <2>3
  <1>5. CASE ~ \A i \in DOMAIN stored : AllMarshal(stored[i].attributes)
    <2>1. w.row.events = <<>>
      BY <1>1, <1>5
    <2>2. Scan(w.row).events = <<>>
      BY <1>2, <2>1
    <2>3. PICK i \in DOMAIN E : ~ AllMarshal(EventAttrs(w.under, E[i]))
      BY <1>5
    <2>4. Unfit(w)
      BY <2>3, <1>3 DEF AllMarshal, Unfit
    <2> QED BY <2>2, <2>4
  <1> QED BY <1>4, <1>5

ShownWell(w) ==
    /\ DOMAIN w.row.attributes = KeysOf(SentAttrs(w.src))
    /\ \A k \in DOMAIN w.row.attributes :
           w.row.attributes[k] = Decode(Visible(w, k))
    /\ \/ w.row.events = SentEvents(w)
       \/ w.row.events = <<>> /\ Unfit(w)
    /\ w.row.status = w.src.status

(* What a reader is shown is what was sent, as far as JSON and the rules   *)
(* let it through, and the errors are the spans that failed.               *)
THEOREM AsSent == Spec => []ShownAsSent
  <1>1. RowsInv /\ FoundInv => ShownAsSent
    <2> SUFFICES ASSUME RowsInv, FoundInv, answer.code = "found"
                 PROVE  ShownAsSent
      BY DEF ShownAsSent
    <2>1. ASSUME NEW v \in rows
          PROVE  ShownWell(Shown(v))
      <3> DEFINE w == Shown(v)
      <3>1. /\ w.src = v.src /\ w.under = v.under /\ w.row = Scan(v.row)
        BY DEF Shown
      <3>2. IsSource(v.src) /\ v.row = RowOf(v.under, v.src)
        BY DEF RowsInv
      <3>3. /\ Scan(v.row).attributes = DecodeMap(MergedAttrs(v.under, v.src))
            /\ Scan(v.row).status = v.src.status
        BY <3>2 DEF Scan, RowOf
      <3>4. /\ DOMAIN MergedAttrs(v.under, v.src) = KeysOf(SentAttrs(v.src))
            /\ \A k \in KeysOf(SentAttrs(v.src)) :
                   MergedAttrs(v.under, v.src)[k] = Visible(v, k)
        BY <3>2, MergedVisible
      <3>5. /\ DOMAIN DecodeMap(MergedAttrs(v.under, v.src)) = KeysOf(SentAttrs(v.src))
            /\ \A k \in KeysOf(SentAttrs(v.src)) :
                   DecodeMap(MergedAttrs(v.under, v.src))[k] = Decode(Visible(v, k))
        BY <3>4 DEF DecodeMap
      <3>6. \/ Scan(v.row).events = SentEvents(v)
            \/ Scan(v.row).events = <<>> /\ Unfit(v)
        BY <3>2, EventsShown
      <3> HIDE DEF w
      <3>7. /\ \A k : Visible(w, k) = Visible(v, k)
            /\ SentEvents(w) = SentEvents(v)
            /\ Unfit(w) <=> Unfit(v)
        BY <3>1 DEF Visible, SentEvents, Unfit, VisibleIn
      <3>8. ShownWell(w)
        BY <3>1, <3>3, <3>5, <3>6, <3>7 DEF ShownWell
      <3> QED BY <3>8 DEF w
    <2>2. answer.found = { Shown(w) : w \in { v \in rows : v.row[answer.ask.column] = answer.ask.text } }
      BY DEF FoundInv
    <2>3. ASSUME NEW w \in answer.found
          PROVE  ShownWell(w)
      <3>1. PICK v \in rows : w = Shown(v)
        BY <2>2
      <3> QED BY <2>1, <3>1
    <2>4. ASSUME IsQueryJob(answer.server, answer.ask)
          PROVE  { w.src : w \in answer.errors } =
                 { s \in { w.src : w \in answer.found } : s.status = "error" }
      <3>1. answer.errors = { w \in answer.found : w.row.status = "error" }
        BY <2>4 DEF FoundInv, Failed
      <3>2. \A w \in answer.found : w.row.status = w.src.status
        BY <2>3 DEF ShownWell
      <3> QED BY <3>1, <3>2
    <2> QED BY <2>3, <2>4 DEF ShownAsSent, ShownWell
  <1> QED BY <1>1, PipelineInvariant, PTL DEF PInv

(* An export fails exactly on a value that would have been stored and that *)
(* JSON cannot hold.                                                       *)
THEOREM ForCause == Spec => []FailsForCause
  <1>1. StoredInv => FailsForCause
    <2> SUFFICES ASSUME StoredInv, answer.code \in {"stored", "failed"}
                 PROVE  answer.code = "failed" <=>
                          { src \in Sources(answer.batch) :
                              \E k \in KeysOf(SentAttrs(src)) :
                                  /\ ~ Match(Redactor(config), k)
                                  /\ ~ Marshals(Effective(src, k)) } # {}
      BY DEF FailsForCause
    <2> DEFINE R == Redactor(config)
    <2> HIDE DEF R
    <2>1. ASSUME NEW src \in Sources(answer.batch)
          PROVE  ~ Storable(R, src) <=>
                   \E k \in KeysOf(SentAttrs(src)) :
                       ~ Match(R, k) /\ ~ Marshals(Effective(src, k))
      <3>1. IsSource(src)
        BY SourcesTyped DEF StoredInv
      <3>2. /\ DOMAIN MergedAttrs(R, src) = KeysOf(SentAttrs(src))
            /\ \A k \in KeysOf(SentAttrs(src)) :
                   MergedAttrs(R, src)[k] =
                      IF Match(R, k) THEN Str(Placeholder) ELSE Effective(src, k)
        BY <3>1, MergeEffective DEF MergedAttrs, Apply
      <3>3. Marshals(Str(Placeholder))
        BY DEF Marshals, MarshalsScalar, Str, Scalar
      <3> QED BY <3>2, <3>3 DEF Storable, AllMarshal
    <2>2. answer.code = "failed" <=> \E src \in Sources(answer.batch) : ~ Storable(R, src)
      BY DEF StoredInv, R
    <2> QED BY <2>1, <2>2 DEF R
  <1> QED BY <1>1, PipelineInvariant, PTL DEF PInv

(* At every server, on every header list a request may carry, a request    *)
(* passes with the token of the operator and only with it.                 *)
THEOREM Door == Spec => []OneDoor
  <1>1. DoorInv => OneDoor
    <2> SUFFICES ASSUME DoorInv
                 PROVE  OneDoor
      OBVIOUS
    <2> DEFINE h == answer.headers
               wanted == [scheme |-> "Bearer", token |-> Token(config)]
    <2>1. ASSUME h \in HeaderLists
          PROVE  TokenValid(Get(h), Token(config)) <=> Get(h) = wanted
      <3>1. Get(h) = [scheme |-> Get(h).scheme, token |-> Get(h).token]
        BY <2>1, HeaderAssumption DEF Get, NoHeader
      <3> QED BY <3>1 DEF TokenValid
    <2>2. ASSUME answer.code \notin {"none", "unauthorized"},
                 answer.path \notin Unauthenticated
          PROVE  Token(config) = "" \/ Get(h) = wanted
      <3>1. h \in HeaderLists /\ LetIn(answer.server, answer.path, h)
        BY <2>2 DEF DoorInv
      <3>2. Token(config) = "" \/ TokenValid(Get(h), Token(config))
        BY <2>2, <3>1 DEF LetIn, Admits, Interceptor, CheckAuth, Middleware, Get
      <3> QED BY <3>1, <3>2, <2>1
    <2>3. ASSUME answer.code = "unauthorized"
          PROVE  Get(h) # wanted
      <3>1. /\ h \in HeaderLists /\ answer.path \notin Unauthenticated
            /\ ~ LetIn(answer.server, answer.path, h)
        BY <2>3 DEF DoorInv
      <3>2. ~ TokenValid(Get(h), Token(config))
        BY <3>1 DEF LetIn, Admits, Interceptor, CheckAuth, Middleware, Get, NoHeader, TokenValid
      <3> QED BY <3>1, <3>2, <2>1
    <2>4. Token(config) = ""
            => /\ config.tokenFlag = "" /\ config.tokenEnv = ""
               /\ TokenFile(config) # "" => config.files[TokenFile(config)] = ""
      BY DEF Token, Given
    <2> QED BY <2>2, <2>3, <2>4 DEF OneDoor
  <1> QED BY <1>1, PipelineInvariant, PTL DEF PInv

-----------------------------------------------------------------------------
(* The emit helpers.  A list that has each key once is, to the store, the   *)
(* set of its pairs: their order does not matter.                           *)
Holds(a, S) ==
    /\ IsKvs(a)
    /\ { a[i] : i \in DOMAIN a } = S
    /\ \A i, j \in DOMAIN a : a[i].key = a[j].key => i = j

LEMMA SameMap ==
    ASSUME NEW a, NEW b, NEW S, Holds(a, S), Holds(b, S)
    PROVE  AsMap(a) = AsMap(b)
  <1>1. ASSUME NEW c, Holds(c, S)
        PROVE  /\ KeysOf(c) = { p.key : p \in S }
               /\ \A k : Values(c, k) = { p.value : p \in { q \in S : q.key = k } }
    <2>1. KeysOf(c) = { p.key : p \in S }
      BY <1>1 DEF Holds, KeysOf
    <2>2. ASSUME NEW k
          PROVE  Values(c, k) = { p.value : p \in { q \in S : q.key = k } }
      <3>1. DOMAIN c \subseteq Nat
        BY <1>1, KvsSeq DEF Holds
      <3>2. LastOf(c, k) = { i \in DOMAIN c : c[i].key = k }
        BY <1>1, <3>1 DEF Holds, LastOf
      <3>3. \A i \in LastOf(c, k) : c[i] \in S /\ c[i].key = k
        BY <3>2, <1>1 DEF Holds
      <3>4. \A q \in S : q.key = k => \E i \in LastOf(c, k) : c[i] = q
        BY <3>2, <1>1 DEF Holds
      <3> QED BY <3>3, <3>4 DEF Values
    <2> QED BY <2>1, <2>2
  <1>2. KeysOf(a) = KeysOf(b) /\ \A k : Values(a, k) = Values(b, k)
    BY <1>1
  <1>3. \A kvs, k : Last(kvs, k) = CHOOSE v \in Values(kvs, k) : TRUE
    BY DEF Last, Values
  <1>4. ASSUME NEW k
        PROVE  Last(a, k) = Last(b, k)
    <2>1. Values(a, k) = Values(b, k)
      BY <1>2
    <2> QED BY <2>1, <1>3
  <1> QED BY <1>2, <1>4 DEF AsMap

(* A pair that a list holds is the value of its key in the map of the list. *)
LEMMA HeldPair ==
    ASSUME NEW a, NEW S, NEW p \in S, Holds(a, S)
    PROVE  p.key \in KeysOf(a) /\ Last(a, p.key) = p.value
  <1>1. PICK i \in DOMAIN a : a[i] = p
    BY DEF Holds
  <1>2. DOMAIN a \subseteq Nat
    BY KvsSeq DEF Holds
  <1>3. LastOf(a, p.key) = {i}
    BY <1>1, <1>2 DEF LastOf, Holds
  <1>4. { a[j].value : j \in LastOf(a, p.key) } = {p.value}
    BY <1>1, <1>3
  <1> QED BY <1>1, <1>4 DEF KeysOf, Last

LEMMA HoldsConcat ==
    ASSUME NEW a, NEW b, NEW S, NEW T, Holds(a, S), Holds(b, T),
           \A p \in S, q \in T : p.key # q.key
    PROVE  Holds(a \o b, S \cup T)
  <1> DEFINE c == a \o b
             m == Len(a)
             n == Len(b)
  <1>1. /\ m \in Nat /\ n \in Nat /\ IsKvs(c)
        /\ DOMAIN a = 1 .. m /\ DOMAIN b = 1 .. n /\ DOMAIN c = 1 .. m + n
        /\ \A i \in 1 .. m : c[i] = a[i]
        /\ \A i \in 1 .. n : c[m + i] = b[i]
    BY KvsConcat, KvsSeq DEF Holds
  <1> HIDE DEF c, m, n
  <1>2. \A i \in 1 .. m + n : i \in 1 .. m \/ \E j \in 1 .. n : i = m + j
    <2> SUFFICES ASSUME NEW i \in 1 .. m + n, i \notin 1 .. m
                 PROVE  \E j \in 1 .. n : i = m + j
      OBVIOUS
    <2>1. i - m \in 1 .. n /\ i = m + (i - m)
      BY <1>1
    <2> QED BY <2>1
  <1>3. /\ \A i \in 1 .. m : i \in 1 .. m + n /\ a[i] \in S
        /\ \A j \in 1 .. n : m + j \in 1 .. m + n /\ b[j] \in T
    <2>1. /\ \A i \in 1 .. m : a[i] \in S
          /\ \A j \in 1 .. n : b[j] \in T
      BY <1>1 DEF Holds
    <2> QED BY <1>1, <2>1
  <1>4. { c[i] : i \in DOMAIN c } = S \cup T
    <2>1. ASSUME NEW i \in DOMAIN c
          PROVE  c[i] \in S \cup T
      <3>1. CASE i \in 1 .. m
        BY <3>1, <1>1, <1>3
      <3>2. ASSUME NEW j \in 1 .. n, i = m + j
            PROVE  c[i] \in T
        BY <3>2, <1>1, <1>3
      <3> QED BY <3>1, <3>2, <1>1, <1>2
    <2>2. ASSUME NEW p \in S
          PROVE  \E i \in DOMAIN c : c[i] = p
      <3>1. PICK i \in 1 .. m : a[i] = p
        BY <1>1 DEF Holds
      <3> QED BY <3>1, <1>1, <1>3
    <2>3. ASSUME NEW p \in T
          PROVE  \E i \in DOMAIN c : c[i] = p
      <3>1. PICK j \in 1 .. n : b[j] = p
        BY <1>1 DEF Holds
      <3>2. m + j \in DOMAIN c /\ c[m + j] = p
        BY <3>1, <1>1, <1>3
      <3> QED BY <3>2
    <2> QED BY <2>1, <2>2, <2>3
  <1>5. ASSUME NEW i \in DOMAIN c, NEW j \in DOMAIN c, c[i].key = c[j].key
        PROVE  i = j
    <2>1. CASE i \in 1 .. m /\ j \in 1 .. m
      BY <2>1, <1>1, <1>5 DEF Holds
    <2>2. CASE \E o, l \in 1 .. n : i = m + o /\ j = m + l
      <3>1. PICK o, l \in 1 .. n : i = m + o /\ j = m + l
        BY <2>2
      <3>2. b[o].key = b[l].key
        BY <3>1, <1>1, <1>5
      <3> QED BY <3>1, <3>2, <1>1 DEF Holds
    <2>3. CASE i \in 1 .. m /\ \E l \in 1 .. n : j = m + l
      BY <2>3, <1>1, <1>3, <1>5
    <2>4. CASE j \in 1 .. m /\ \E l \in 1 .. n : i = m + l
      BY <2>4, <1>1, <1>3, <1>5
    <2>5. /\ i \in 1 .. m \/ \E l \in 1 .. n : i = m + l
          /\ j \in 1 .. m \/ \E l \in 1 .. n : j = m + l
      BY <1>1, <1>2
    <2>6. CASE (\E l \in 1 .. n : i = m + l) /\ (\E l \in 1 .. n : j = m + l)
      BY <2>2, <2>6
    <2> QED BY <2>1, <2>3, <2>4, <2>5, <2>6
  <1>6. Holds(c, S \cup T)
    BY <1>1, <1>4, <1>5 DEF Holds
  <1> QED BY <1>6 DEF c

(* The lists that the helpers write down.                                   *)
IsPair(p) == p = [key |-> p.key, value |-> p.value]

LEMMA NoPairs == Holds(<<>>, {})
  BY DEF Holds, IsKvs

LEMMA OnePair ==
    ASSUME NEW p, IsPair(p)
    PROVE  Holds(<<p>>, {p})
  BY DEF Holds, IsKvs, IsPair

LEMMA TwoPairs ==
    ASSUME NEW p, NEW q, IsPair(p), IsPair(q), p.key # q.key
    PROVE  Holds(<<p, q>>, {p, q})
  BY DEF Holds, IsKvs, IsPair

LEMMA ThreePairs ==
    ASSUME NEW p, NEW q, NEW r, IsPair(p), IsPair(q), IsPair(r),
           p.key # q.key, p.key # r.key, q.key # r.key
    PROVE  Holds(<<p, q, r>>, {p, q, r})
  BY DEF Holds, IsKvs, IsPair

LEMMA FivePairs ==
    ASSUME NEW p, NEW q, NEW r, NEW s, NEW t,
           IsPair(p), IsPair(q), IsPair(r), IsPair(s), IsPair(t),
           p.key # q.key, p.key # r.key, p.key # s.key, p.key # t.key,
           q.key # r.key, q.key # s.key, q.key # t.key,
           r.key # s.key, r.key # t.key, s.key # t.key
    PROVE  Holds(<<p, q, r, s, t>>, {p, q, r, s, t})
  BY DEF Holds, IsKvs, IsPair

(* In both languages a helper sets the same pairs, each key once, the run    *)
(* and, unless it is for a workflow, the job among them.                    *)
LEMMA SamePairs ==
    ASSUME NEW call \in Calls
    PROVE  \E S : /\ Holds(GoAttrs(call), S) /\ Holds(RustAttrs(call), S)
                  /\ Pair("run_id", call.run) \in S
                  /\ call.helper # "workflow" => Pair("job_id", call.job) \in S
  <1> DEFINE run  == Pair("run_id", call.run)
             job  == Pair("job_id", call.job)
             op   == Pair("gen_ai.operation.name", Operation(call))
             prov == Option("gen_ai.provider.name", call.provider)
             mod  == Option("gen_ai.request.model", call.model)
  <1>1. \A k, text : Pair(k, text).key = k /\ IsPair(Pair(k, text))
    BY DEF Pair, IsPair
  <1>2. CASE call.helper = "workflow"
    <2> DEFINE x == Pair("workflow_name", call.label)
               y == Pair("gen_ai.workflow.name", call.label)
               z == Pair("gen_ai.conversation.id", call.run)
    <2>1. GoAttrs(call) = <<run, x, op, y, z>>
      BY <1>2 DEF GoAttrs
    <2>2. RustAttrs(call) = (<<run, op>> \o <<>>) \o <<x, y, z>>
      BY <1>2 DEF RustAttrs, RustSpine, RustOwn
    <2>3. /\ run.key = "run_id" /\ op.key = "gen_ai.operation.name"
          /\ x.key = "workflow_name" /\ y.key = "gen_ai.workflow.name"
          /\ z.key = "gen_ai.conversation.id"
          /\ \A p \in {run, op, x, y, z} : IsPair(p)
      BY <1>1
    <2>9. run = Pair("run_id", call.run)
      OBVIOUS
    <2> HIDE DEF run, op, x, y, z
    <2>4. Holds(<<run, x, op, y, z>>, {run, x, op, y, z})
      BY <2>3, FivePairs
    <2>5. Holds(<<run, op>>, {run, op}) /\ Holds(<<x, y, z>>, {x, y, z})
      BY <2>3, TwoPairs, ThreePairs
    <2>6. Holds(<<>>, {})
      BY NoPairs
    <2>7. Holds((<<run, op>> \o <<>>) \o <<x, y, z>>, ({run, op} \cup {}) \cup {x, y, z})
      <3>1. Holds(<<run, op>> \o <<>>, {run, op} \cup {})
        BY <2>5, <2>6, HoldsConcat
      <3> QED BY <3>1, <2>3, <2>5, HoldsConcat
    <2>8. ({run, op} \cup {}) \cup {x, y, z} = {run, x, op, y, z}
      OBVIOUS
    <2> QED BY <1>2, <2>1, <2>2, <2>4, <2>7, <2>8, <2>9
  <1>3. ASSUME call.helper # "workflow"
        PROVE  /\ RustAttrs(call) = (<<run, op>> \o <<job>>) \o RustOwn(call)
               /\ \A T : /\ Holds(RustOwn(call), T)
                         /\ \A p \in T : p.key \notin {"run_id", "gen_ai.operation.name", "job_id"}
                         => Holds(RustAttrs(call), {run, op, job} \cup T)
    <2>1. RustAttrs(call) = (<<run, op>> \o <<job>>) \o RustOwn(call)
      BY <1>3 DEF RustAttrs, RustSpine
    <2>2. /\ run.key = "run_id" /\ op.key = "gen_ai.operation.name" /\ job.key = "job_id"
          /\ \A p \in {run, op, job} : IsPair(p)
      BY <1>1
    <2> HIDE DEF run, op, job
    <2>3. Holds(<<run, op>>, {run, op}) /\ Holds(<<job>>, {job})
      BY <2>2, OnePair, TwoPairs
    <2>4. Holds(<<run, op>> \o <<job>>, {run, op} \cup {job})
      BY <2>2, <2>3, HoldsConcat
    <2>5. {run, op} \cup {job} = {run, op, job}
      OBVIOUS
    <2>6. ASSUME NEW T, Holds(RustOwn(call), T),
                 \A p \in T : p.key \notin {"run_id", "gen_ai.operation.name", "job_id"}
          PROVE  Holds(RustAttrs(call), {run, op, job} \cup T)
      <3>1. \A p \in {run, op, job}, q \in T : p.key # q.key
        BY <2>2, <2>6
      <3> QED BY <2>1, <2>4, <2>5, <2>6, <3>1, HoldsConcat
    <2> QED BY <2>1, <2>6
  <1>4. CASE call.helper \in {"agent", "tool"}
    <2> DEFINE x == IF call.helper = "agent" THEN Pair("agent_id", call.label)
                                             ELSE Pair("tool_name", call.label)
               y == IF call.helper = "agent" THEN Pair("gen_ai.agent.id", call.label)
                                             ELSE Pair("gen_ai.tool.name", call.label)
    <2>1. GoAttrs(call) = <<run, job, x, op, y>> /\ RustOwn(call) = <<x, y>>
      BY <1>4 DEF GoAttrs, RustOwn
    <2>2. /\ run.key = "run_id" /\ op.key = "gen_ai.operation.name" /\ job.key = "job_id"
          /\ x.key \in {"agent_id", "tool_name"}
          /\ y.key \in {"gen_ai.agent.id", "gen_ai.tool.name"}
          /\ \A p \in {run, op, job, x, y} : IsPair(p)
      BY <1>1
    <2>8. run = Pair("run_id", call.run) /\ job = Pair("job_id", call.job)
      OBVIOUS
    <2> HIDE DEF run, op, job, x, y
    <2>3. Holds(<<run, job, x, op, y>>, {run, job, x, op, y})
      BY <2>2, FivePairs
    <2>4. Holds(<<x, y>>, {x, y})
      BY <2>2, TwoPairs
    <2>5. \A p \in {x, y} : p.key \notin {"run_id", "gen_ai.operation.name", "job_id"}
      BY <2>2
    <2>6. Holds(RustAttrs(call), {run, op, job} \cup {x, y})
      BY <1>3, <1>4, <2>1, <2>4, <2>5
    <2>7. {run, op, job} \cup {x, y} = {run, job, x, op, y}
      OBVIOUS
    <2> QED BY <2>1, <2>3, <2>6, <2>7, <2>8
  <1>5. CASE call.helper \in {"plan", "model"}
    <2>1. \A k, text : \E T : Holds(Option(k, text), T) /\ \A p \in T : p.key = k
      <3> SUFFICES ASSUME NEW k, NEW text
                   PROVE  \E T : Holds(Option(k, text), T) /\ \A p \in T : p.key = k
        OBVIOUS
      <3> DEFINE p == Pair(k, text)
      <3>1. p.key = k /\ IsPair(p)
        BY <1>1
      <3>2. Option(k, text) \in {<<>>, <<p>>}
        BY DEF Option
      <3> HIDE DEF p
      <3>3. Holds(<<>>, {}) /\ Holds(<<p>>, {p})
        BY <3>1, NoPairs, OnePair
      <3> QED BY <3>1, <3>2, <3>3
    <2>2. PICK A : Holds(prov, A) /\ \A p \in A : p.key = "gen_ai.provider.name"
      BY <2>1
    <2>3. PICK B : Holds(mod, B) /\ \A p \in B : p.key = "gen_ai.request.model"
      BY <2>1
    <2>4. /\ call.helper = "plan" =>
                GoAttrs(call) = <<run, job, op>> /\ RustOwn(call) = <<>>
          /\ call.helper = "model" =>
                /\ GoAttrs(call) = (<<run, job, op>> \o prov) \o mod
                /\ RustOwn(call) = prov \o mod
      BY DEF GoAttrs, RustOwn
    <2>5. /\ run.key = "run_id" /\ op.key = "gen_ai.operation.name" /\ job.key = "job_id"
          /\ \A p \in {run, op, job} : IsPair(p)
      BY <1>1
    <2>10. run = Pair("run_id", call.run) /\ job = Pair("job_id", call.job)
      OBVIOUS
    <2> HIDE DEF run, op, job, prov, mod
    <2>6. Holds(<<>>, {}) /\ Holds(<<run, job, op>>, {run, job, op})
      BY <2>5, NoPairs, ThreePairs
    <2>7. {run, job, op} = {run, op, job}
      OBVIOUS
    <2>8. CASE call.helper = "plan"
      <3>1. Holds(RustAttrs(call), {run, op, job} \cup {})
        BY <1>3, <2>4, <2>6, <2>8
      <3> QED BY <2>4, <2>6, <2>7, <2>8, <2>10, <3>1
    <2>9. CASE call.helper = "model"
      <3>1. Holds(prov \o mod, A \cup B)
        BY <2>2, <2>3, HoldsConcat
      <3>2. \A p \in A \cup B : p.key \notin {"run_id", "gen_ai.operation.name", "job_id"}
        BY <2>2, <2>3
      <3>3. Holds(RustAttrs(call), {run, op, job} \cup (A \cup B))
        BY <1>3, <2>4, <2>9, <3>1, <3>2
      <3>4. Holds(<<run, job, op>> \o prov, {run, job, op} \cup A)
        BY <2>2, <2>5, <2>6, HoldsConcat
      <3>5. \A p \in {run, job, op} \cup A, q \in B : p.key # q.key
        BY <2>2, <2>3, <2>5
      <3>6. Holds(GoAttrs(call), ({run, job, op} \cup A) \cup B)
        <4>1. Holds((<<run, job, op>> \o prov) \o mod, ({run, job, op} \cup A) \cup B)
          BY <2>3, <3>4, <3>5, HoldsConcat
        <4> QED BY <2>4, <2>9, <4>1
      <3>7. ({run, job, op} \cup A) \cup B = {run, op, job} \cup (A \cup B)
        OBVIOUS
      <3> QED BY <2>10, <3>3, <3>6, <3>7
    <2> QED BY <1>5, <2>8, <2>9
  <1> QED BY <1>2, <1>4, <1>5, CallAssumption

(* What a record is made of, and what a row is but for some columns.        *)
LEMMA SourceShape ==
    ASSUME NEW s, NEW l, NEW r, s = SourceOf(l, r)
    PROVE  /\ s.attrs = r.attrs /\ s.name = r.name /\ s.status = r.status
           /\ s.body = r.body /\ s.resource = l.resource /\ s.scope = l.scope
           /\ s.kind = r.kind /\ s.events = r.events
  BY DEF SourceOf

SameButFor(columns, x, y) ==
    /\ DOMAIN x = DOMAIN y
    /\ \A column \in DOMAIN x \ columns : x[column] = y[column]

LEMMA RestOfRow ==
    ASSUME NEW R, NEW s, NEW t,
           MergedAttrs(R, s) = MergedAttrs(R, t), Body(s) = Body(t),
           s.name = t.name, s.status = t.status
    PROVE  SameButFor({"kind", "events"}, RowOf(R, s), RowOf(R, t))
  <1> DEFINE x == RowOf(R, s)
             y == RowOf(R, t)
  <1>1. /\ DOMAIN x = {"name", "kind", "status", "run_id", "job_id", "event_name",
                       "body", "attributes", "events"}
        /\ DOMAIN y = {"name", "kind", "status", "run_id", "job_id", "event_name",
                       "body", "attributes", "events"}
    BY DEF RowOf
  <1>2. /\ x["name"] = y["name"] /\ x["status"] = y["status"]
        /\ x["run_id"] = y["run_id"] /\ x["job_id"] = y["job_id"]
        /\ x["event_name"] = y["event_name"] /\ x["body"] = y["body"]
        /\ x["attributes"] = y["attributes"]
    BY DEF RowOf
  <1> HIDE DEF x, y
  <1>3. \A column \in DOMAIN x \ {"kind", "events"} : x[column] = y[column]
    BY <1>1, <1>2
  <1> QED BY <1>1, <1>3 DEF SameButFor, x, y

(* The one event of a failed call is stored in either language, under one  *)
(* name and with one message.                                              *)
MessageOf(R, error) ==
    IF Match(R, "exception.message") THEN Str(Placeholder) ELSE Str(error)

LEMMA HelperEvent ==
    ASSUME NEW R, NEW error, NEW kvs, NEW S,
           Holds(kvs, S), Pair("exception.message", error) \in S,
           \A p \in S : \E text : p.value = Str(text)
    PROVE  LET e == [name |-> "exception", attrs |-> kvs]
           IN  /\ AllMarshal(EventAttrs(R, e))
               /\ EventAttrs(R, e)["exception.message"] = MessageOf(R, error)
  <1> DEFINE m == AsMap(kvs)
             msg == Pair("exception.message", error)
  <1>1. \A text : ConvertAnyValue(Str(text)) = Str(text) /\ Marshals(Str(text))
    BY DEF ConvertAnyValue, ConvertScalar, Str, Scalar, Marshals, MarshalsScalar
  <1>2. ASSUME NEW k \in DOMAIN m
        PROVE  \E text : m[k] = Str(text)
    <2>1. PICK i \in DOMAIN kvs : kvs[i].key = k
      <3>1. k \in KeysOf(kvs)
        BY <1>2, AsMapAt
      <3> QED BY <3>1 DEF KeysOf
    <2>2. kvs[i] \in S
      BY DEF Holds
    <2>3. Last(kvs, kvs[i].key) = kvs[i].value
      BY <2>2, HeldPair
    <2> QED BY <1>1, <2>1, <2>2, <2>3, AsMapAt
  <1>3. msg.key = "exception.message" /\ msg.value = Str(error)
    BY DEF Pair
  <1>4. "exception.message" \in DOMAIN m /\ m["exception.message"] = Str(error)
    <2>1. msg.key \in KeysOf(kvs) /\ Last(kvs, msg.key) = msg.value
      <3> HIDE DEF msg
      <3> QED BY HeldPair DEF msg
    <2> QED BY <1>1, <1>3, <2>1, AsMapAt
  <1> HIDE DEF m, msg
  <1>5. AllMarshal(Apply(R, m))
    BY <1>1, <1>2 DEF AllMarshal, Apply
  <1>6. Apply(R, m)["exception.message"] = MessageOf(R, error)
    BY <1>4 DEF Apply, MessageOf
  <1> QED BY <1>5, <1>6 DEF EventAttrs, m

FailuresOf(R, call) ==
    [i \in (IF call.error = "" THEN {} ELSE {1}) |->
        [name |-> "exception", message |-> MessageOf(R, call.error)]]

LEMMA HelperFailures ==
    ASSUME NEW R, NEW src, NEW call,
           \/ src.events = GoEvents(call)
           \/ src.events = RustEvents(call)
    PROVE  Failures(RowOf(R, src)) = FailuresOf(R, call)
  <1> DEFINE evs == src.events
             stored == [i \in DOMAIN evs |->
                           [name |-> evs[i].name, attributes |-> EventAttrs(R, evs[i])]]
  <1>1. RowOf(R, src).events = IF \A i \in DOMAIN stored : AllMarshal(stored[i].attributes)
                               THEN stored ELSE <<>>
    BY DEF RowOf, Events
  <1>2. CASE call.error = ""
    <2>1. evs = <<>>
      BY <1>2 DEF GoEvents, RustEvents
    <2>2. DOMAIN RowOf(R, src).events = {}
      BY <1>1, <2>1
    <2> QED BY <1>2, <2>2 DEF Failures, FailuresOf
  <1>3. CASE call.error # ""
    <2> DEFINE typ == Pair("exception.type", "*errors.errorString")
               msg == Pair("exception.message", call.error)
    <2>1. PICK kvs : /\ kvs \in {<<typ, msg>>, <<msg>>}
                     /\ evs = << [name |-> "exception", attrs |-> kvs] >>
      BY <1>3 DEF GoEvents, RustEvents
    <2>2. /\ IsPair(typ) /\ IsPair(msg) /\ typ.key # msg.key
          /\ \E text : typ.value = Str(text)
          /\ \E text : msg.value = Str(text)
      BY DEF Pair, IsPair
    <2> HIDE DEF typ, evs
    <2>3. PICK S : Holds(kvs, S) /\ msg \in S /\ S \subseteq {typ, msg}
      <3> HIDE DEF msg
      <3> QED BY <2>1, <2>2, OnePair, TwoPairs
    <2>4. \A p \in S : \E text : p.value = Str(text)
      BY <2>2, <2>3
    <2> DEFINE e == [name |-> "exception", attrs |-> kvs]
    <2>5. /\ AllMarshal(EventAttrs(R, e))
          /\ EventAttrs(R, e)["exception.message"] = MessageOf(R, call.error)
      BY <2>3, <2>4, HelperEvent
    <2>6. /\ DOMAIN evs = {1} /\ evs[1] = e
      BY <2>1
    <2> HIDE DEF e, msg
    <2>7. evs[1].name = "exception"
      BY <2>6 DEF e
    <2>8. RowOf(R, src).events = stored
      BY <1>1, <2>5, <2>6
    <2>9. /\ DOMAIN stored = {1} /\ stored[1].name = "exception"
          /\ stored[1].attributes["exception.message"] = MessageOf(R, call.error)
      BY <2>5, <2>6, <2>7
    <2> HIDE DEF stored
    <2>10. \A i \in DOMAIN stored :
              /\ stored[i].name = "exception"
              /\ stored[i].attributes["exception.message"] = MessageOf(R, call.error)
      BY <2>9
    <2> QED BY <1>3, <2>8, <2>9, <2>10 DEF Failures, FailuresOf
  <1> QED BY <1>2, <1>3

(* The two languages of the emit helpers come to the same row, for any call, *)
(* resource, scope and rules.                                               *)
THEOREM GoAsRust == Spec => []HelpersAgree
  <1>1. ASSUME RowsInv, NEW call \in Calls, NEW v \in rows, NEW w \in rows,
               v.src = SourceOf(v.src, GoSpan(call)),
               w.src = SourceOf(v.src, RustSpan(call)),
               v.under = w.under
        PROVE  /\ SameButFor({"kind", "events"}, v.row, w.row)
               /\ call.helper # "model" => v.row.kind = w.row.kind
               /\ Failures(v.row) = Failures(w.row)
    <2> DEFINE go == GoSpan(call)
               rust == RustSpan(call)
               s == v.src
               t == w.src
    <2>1. v.row = RowOf(v.under, s) /\ w.row = RowOf(v.under, t)
      BY <1>1 DEF RowsInv
    <2>2. /\ go.attrs = GoAttrs(call) /\ rust.attrs = RustAttrs(call)
          /\ go.name = rust.name /\ go.status = rust.status /\ go.body = rust.body
          /\ go.events = GoEvents(call) /\ rust.events = RustEvents(call)
          /\ call.helper # "model" => go.kind = rust.kind
      BY DEF GoSpan, RustSpan, GoKind, RustKind
    <2>3. s = SourceOf(s, go) /\ t = SourceOf(s, rust)
      BY <1>1
    <2> HIDE DEF go, rust, s, t
    <2>4. /\ s.attrs = go.attrs /\ s.name = go.name /\ s.status = go.status
          /\ s.body = go.body /\ s.kind = go.kind /\ s.events = go.events
      BY <2>3, SourceShape
    <2>5. /\ t.attrs = rust.attrs /\ t.name = rust.name /\ t.status = rust.status
          /\ t.body = rust.body /\ t.resource = s.resource /\ t.scope = s.scope
          /\ t.kind = rust.kind /\ t.events = rust.events
      BY <2>3, SourceShape
    <2>6. AsMap(s.attrs) = AsMap(t.attrs)
      BY <2>2, <2>4, <2>5, SamePairs, SameMap
    <2>7. MergedAttrs(v.under, s) = MergedAttrs(v.under, t)
      BY <2>5, <2>6 DEF MergedAttrs, MergeAttributes
    <2>8. Body(s) = Body(t)
      BY <2>2, <2>4, <2>5 DEF Body
    <2>9. s.name = t.name /\ s.status = t.status
      BY <2>2, <2>4, <2>5
    <2>10. SameButFor({"kind", "events"}, v.row, w.row)
      BY <2>1, <2>7, <2>8, <2>9, RestOfRow
    <2>11. call.helper # "model" => v.row.kind = w.row.kind
      BY <2>1, <2>2, <2>4, <2>5 DEF RowOf
    <2>12. Failures(v.row) = Failures(w.row)
      <3>1. s.events = GoEvents(call) /\ t.events = RustEvents(call)
        BY <2>2, <2>4, <2>5
      <3>2. Failures(RowOf(v.under, s)) = Failures(RowOf(v.under, t))
        <4>1. Failures(RowOf(v.under, s)) = FailuresOf(v.under, call)
          BY <3>1, HelperFailures
        <4>2. Failures(RowOf(v.under, t)) = FailuresOf(v.under, call)
          BY <3>1, HelperFailures
        <4> QED BY <4>1, <4>2
      <3> QED BY <2>1, <3>2
    <2> QED BY <2>10, <2>11, <2>12
  <1>2. RowsInv => HelpersAgree
    BY <1>1 DEF HelpersAgree, SameButFor
  <1> QED BY <1>2, PipelineInvariant, PTL DEF PInv

-----------------------------------------------------------------------------
(* More rules.  What the larger set of rules makes of a map, a column and   *)
(* the events, against what the smaller one makes of them.                  *)
Weaker(Q, R) == Q.exact \subseteq R.exact /\ Q.prefixes \subseteq R.prefixes

LEMMA DimmedApply ==
    ASSUME NEW Q, NEW R, Weaker(Q, R), NEW m
    PROVE  /\ DimmedMap(Apply(R, m), Apply(Q, m))
           /\ AllMarshal(Apply(Q, m)) => AllMarshal(Apply(R, m))
  <1>1. \A k : Match(Q, k) => Match(R, k)
    BY DEF Match, Weaker
  <1>2. DOMAIN Apply(R, m) = DOMAIN m /\ DOMAIN Apply(Q, m) = DOMAIN m
    BY DEF Apply
  <1>3. \A k \in DOMAIN m : Dimmed(Apply(R, m)[k], Apply(Q, m)[k])
    BY <1>1 DEF Apply, Dimmed
  <1>4. Marshals(Str(Placeholder))
    BY DEF Marshals, MarshalsScalar, Str, Scalar
  <1>5. ASSUME AllMarshal(Apply(Q, m))
        PROVE  AllMarshal(Apply(R, m))
    BY <1>2, <1>3, <1>4, <1>5 DEF AllMarshal, Dimmed
  <1> QED BY <1>2, <1>3, <1>5 DEF DimmedMap

LEMMA DimmedColumn ==
    ASSUME NEW m, NEW n, DimmedMap(m, n), NEW k
    PROVE  Column(m, k) \in {Column(n, k), Placeholder}
  <1>1. Str(Placeholder).kind = "string" /\ Str(Placeholder).text = Placeholder
    BY DEF Str, Scalar
  <1> QED BY <1>1 DEF Column, Has, DimmedMap, Dimmed

LEMMA DimmedEvents ==
    ASSUME NEW Q, NEW R, Weaker(Q, R), NEW src, Events(Q, src) # <<>>
    PROVE  /\ DOMAIN Events(R, src) = DOMAIN Events(Q, src)
           /\ \A i \in DOMAIN Events(Q, src) :
                  DimmedMap(Events(R, src)[i].attributes, Events(Q, src)[i].attributes)
  <1> DEFINE stored(S) == [i \in DOMAIN src.events |->
                              [name |-> src.events[i].name,
                               attributes |-> EventAttrs(S, src.events[i])]]
  <1>1. \A S : Events(S, src) =
                 IF \A i \in DOMAIN stored(S) : AllMarshal(stored(S)[i].attributes)
                 THEN stored(S) ELSE <<>>
    BY DEF Events
  <1>2. \A S : /\ DOMAIN stored(S) = DOMAIN src.events
               /\ \A i \in DOMAIN src.events :
                      stored(S)[i].attributes = Apply(S, AsMap(src.events[i].attrs))
    BY DEF EventAttrs
  <1> HIDE DEF stored
  <1>3. /\ Events(Q, src) = stored(Q)
        /\ \A i \in DOMAIN src.events : AllMarshal(stored(Q)[i].attributes)
    BY <1>1, <1>2
  <1>4. \A i \in DOMAIN src.events :
            /\ DimmedMap(stored(R)[i].attributes, stored(Q)[i].attributes)
            /\ AllMarshal(stored(R)[i].attributes)
    BY <1>2, <1>3, DimmedApply
  <1>5. Events(R, src) = stored(R)
    BY <1>1, <1>2, <1>4
  <1> QED BY <1>2, <1>3, <1>4, <1>5

(* A rule that is added shows nothing that was withheld or stored otherwise *)
(* before, in an attribute, an id column or an event.                       *)
THEOREM RulesOnlyWithhold == Spec => []StricterShowsLess
  <1>1. RowsInv => StricterShowsLess
    <2> SUFFICES ASSUME RowsInv, NEW v \in rows, NEW w \in rows,
                        v.src = w.src, Weaker(v.under, w.under)
                 PROVE  /\ DimmedMap(w.row.attributes, v.row.attributes)
                        /\ \A column \in {"run_id", "job_id", "event_name"} :
                               w.row[column] \in {v.row[column], Placeholder}
                        /\ v.row.events # <<>> =>
                               /\ DOMAIN w.row.events = DOMAIN v.row.events
                               /\ \A i \in DOMAIN v.row.events :
                                      DimmedMap(w.row.events[i].attributes,
                                                v.row.events[i].attributes)
      BY DEF StricterShowsLess, Weaker
    <2> DEFINE src == v.src
               m == MergedAttrs(w.under, src)
               n == MergedAttrs(v.under, src)
    <2>1. v.row = RowOf(v.under, src) /\ w.row = RowOf(w.under, src)
      BY DEF RowsInv
    <2>2. /\ w.row.attributes = m /\ v.row.attributes = n
          /\ w.row.events = Events(w.under, src) /\ v.row.events = Events(v.under, src)
          /\ w.row["run_id"] = Column(m, "run_id") /\ v.row["run_id"] = Column(n, "run_id")
          /\ w.row["job_id"] = Column(m, "job_id") /\ v.row["job_id"] = Column(n, "job_id")
          /\ w.row["event_name"] = Column(m, "event.name")
          /\ v.row["event_name"] = Column(n, "event.name")
      BY <2>1 DEF RowOf
    <2>3. DimmedMap(m, n)
      BY DimmedApply DEF MergedAttrs
    <2> HIDE DEF m, n, src
    <2>4. \A k : Column(m, k) \in {Column(n, k), Placeholder}
      BY <2>3, DimmedColumn
    <2>5. v.row.events # <<>> =>
             /\ DOMAIN w.row.events = DOMAIN v.row.events
             /\ \A i \in DOMAIN v.row.events :
                    DimmedMap(w.row.events[i].attributes, v.row.events[i].attributes)
      BY <2>2, DimmedEvents
    <2>6. \A column \in {"run_id", "job_id", "event_name"} :
             w.row[column] \in {v.row[column], Placeholder}
      BY <2>2, <2>4
    <2> QED BY <2>2, <2>3, <2>5, <2>6
  <1> QED BY <1>1, PipelineInvariant, PTL DEF PInv

(* The attributes of a helper's span are the last word on run and job.      *)
LEMMA HelperSays ==
    ASSUME NEW call \in Calls, NEW src, IsSource(src),
           src.attrs \in {GoAttrs(call), RustAttrs(call)},
           NEW k, NEW text,
           \/ k = "run_id" /\ text = call.run
           \/ k = "job_id" /\ text = call.job /\ call.helper # "workflow"
    PROVE  k \in KeysOf(SentAttrs(src)) /\ Effective(src, k) = Str(text)
  <1> DEFINE p == Pair(k, text)
             a == src.resource
             b == src.scope
             c == src.attrs
  <1>1. p.key = k /\ p.value = Str(text)
    BY DEF Pair
  <1>2. PICK S : Holds(c, S) /\ p \in S
    BY SamePairs
  <1>3. k \in KeysOf(c) /\ Last(c, k) = Str(text)
    <2> HIDE DEF p, c
    <2> QED BY <1>1, <1>2, HeldPair
  <1>4. IsKvs(a \o b) /\ IsKvs(c)
    BY KvsConcat DEF IsSource
  <1>5. k \in KeysOf((a \o b) \o c) /\ Values((a \o b) \o c, k) = Values(c, k)
    <2> HIDE DEF a, b, c
    <2> QED BY <1>3, <1>4, LastConcat
  <1>6. Last((a \o b) \o c, k) = Last(c, k)
    BY <1>5 DEF Last, Values
  <1>7. ConvertAnyValue(Str(text)) = Str(text)
    BY DEF ConvertAnyValue, ConvertScalar, Str, Scalar
  <1>8. SentAttrs(src) = (a \o b) \o c
    BY DEF SentAttrs
  <1> QED BY <1>3, <1>5, <1>6, <1>7, <1>8 DEF Effective

(* From an agent's call to a reader's query: spans are found by the ids the *)
(* helper was given, for any levels they are sent under and any rules that  *)
(* leave the ids alone.                                                     *)
THEOREM HelperSpansFound == Spec => []EmittedFound
  <1>1. RowsInv /\ FoundInv => EmittedFound
    <2> SUFFICES ASSUME RowsInv, FoundInv, answer.code = "found",
                        NEW call \in Calls, NEW v \in rows,
                        v.src \in { SourceOf(v.src, GoSpan(call)), SourceOf(v.src, RustSpan(call)) },
                        answer.ask.column = "job_id" => call.helper # "workflow",
                        ~ Match(v.under, answer.ask.column)
                 PROVE  Shown(v) \in answer.found <=>
                          answer.ask.text = IF answer.ask.column = "run_id" THEN call.run
                                                                            ELSE call.job
      BY DEF EmittedFound
    <2> DEFINE col == answer.ask.column
               id  == IF col = "run_id" THEN call.run ELSE call.job
    <2>1. /\ col \in {"run_id", "job_id"}
          /\ answer.found = { Shown(w) : w \in { u \in rows : u.row[col] = answer.ask.text } }
      BY AskAssumption DEF FoundInv
    <2>2. IsSource(v.src) /\ v.row = RowOf(v.under, v.src)
      BY DEF RowsInv
    <2>3. v.src.attrs \in {GoAttrs(call), RustAttrs(call)}
      <3>1. GoSpan(call).attrs = GoAttrs(call) /\ RustSpan(call).attrs = RustAttrs(call)
        BY DEF GoSpan, RustSpan
      <3>2. CASE v.src = SourceOf(v.src, GoSpan(call))
        BY <3>1, <3>2, SourceShape
      <3>3. CASE v.src = SourceOf(v.src, RustSpan(call))
        BY <3>1, <3>3, SourceShape
      <3> QED BY <3>2, <3>3
    <2>4. col \in KeysOf(SentAttrs(v.src)) /\ Effective(v.src, col) = Str(id)
      BY <2>1, <2>2, <2>3, HelperSays
    <2>5. MergedAttrs(v.under, v.src)[col] = Str(id) /\ col \in DOMAIN MergedAttrs(v.under, v.src)
      BY <2>2, <2>4, MergedVisible DEF Visible
    <2>6. v.row[col] = Column(MergedAttrs(v.under, v.src), col)
      BY <2>1, <2>2 DEF RowOf
    <2>7. v.row[col] = id
      BY <2>5, <2>6 DEF Column, Has, Str, Scalar
    <2>8. ASSUME NEW u \in rows, Shown(u) = Shown(v)
          PROVE  u.row = v.row
      <3>1. u.src = v.src /\ u.under = v.under
        BY <2>8 DEF Shown
      <3> QED BY <3>1, <2>2 DEF RowsInv
    <2> HIDE DEF col, id
    <2>9. Shown(v) \in answer.found <=> v.row[col] = answer.ask.text
      BY <2>1, <2>8
    <2> QED BY <2>7, <2>9 DEF col, id
  <1> QED BY <1>1, PipelineInvariant, PTL DEF PInv
=============================================================================

------------------------- MODULE ConfigModelProofs -------------------------
(***************************************************************************)
(* What the operators of ConfigModel return, for every struct whose tags   *)
(* have the form of StructFields; and what the lemmas on sequences share   *)
(* that the proofs about the conversions and the artifacts rest on.        *)
(*                                                                         *)
(* FlattenSeq is recursive: what it computes is proved by the least place  *)
(* where its definition would fail.                                        *)
(***************************************************************************)
EXTENDS ConfigModel, SequenceTheorems, WellFoundedInduction, TLAPS

(* A set of numbers has a least one, since < is well-founded. *)
Below == {p \in Nat \X Nat : p[1] < p[2]}

LEMMA Least ==
  ASSUME NEW T \in SUBSET Nat, T # {}
  PROVE  \E m \in T : \A n \in T : m <= n
<1>1. IsWellFoundedOn(Below, Nat)
  BY NatLessThanWellFounded DEF Below, OpToRel
<1>2. PICK m \in T : \A n \in T : ~ (<<n, m>> \in Below)
  <2>1. \E m \in T : \A n \in T : ~ (<<n, m>> \in Below)
    BY <1>1, WFMin
  <2>2. QED
    BY <2>1
<1>3. ASSUME NEW n \in T PROVE m <= n
  <2>1. m \in Nat /\ n \in Nat
    OBVIOUS
  <2>2. <<n, m>> \in Nat \X Nat /\ <<n, m>>[1] = n /\ <<n, m>>[2] = m
    BY <2>1
  <2>3. ~ (n < m)
    BY <1>2, <2>2 DEF Below
  <2>4. QED
    BY <2>1, <2>3
<1>4. QED
  BY <1>3

(* What holds at the start of a segment of the numbers, and at the next number
   whenever at one, holds throughout: the least exception would have none. *)
LEMMA Throughout ==
  ASSUME NEW N \in Nat, NEW P, 0 \in P, \A n \in 0..N : n \in P /\ n < N => n + 1 \in P
  PROVE  \A n \in 0..N : n \in P
<1> DEFINE T == {n \in 0..N : n \notin P}
<1>1. SUFFICES ASSUME T # {} PROVE FALSE
  BY DEF T
<1>2. T \in SUBSET Nat
  BY DEF T
<1>3. PICK m \in T : \A n \in T : m <= n
  <2> HIDE DEF T
  <2>1. QED
    BY <1>1, <1>2, Least
<1>4. m \in 0..N /\ m # 0 /\ m - 1 \in 0..N /\ m - 1 < N /\ (m - 1) + 1 = m
  BY <1>3 DEF T
<1>5. m - 1 \in P
  BY <1>3, <1>4 DEF T
<1>6. m \in P
  BY <1>4, <1>5
<1>7. QED
  BY <1>3, <1>6 DEF T

(* Two sequences, one behind the other. *)
LEMMA TwoParts ==
  ASSUME NEW S, NEW a \in Seq(S), NEW b \in Seq(S), NEW k, k = a \o b
  PROVE  /\ k \in Seq(S)
         /\ Len(k) = Len(a) + Len(b)
         /\ \A i \in 1..Len(a) : k[i] = a[i]
         /\ \A i \in 1..Len(b) : k[Len(a) + i] = b[i]
<1>1. Len(a) \in Nat /\ Len(b) \in Nat
  OBVIOUS
<1>2. \A i \in 1..Len(b) :
        Len(a) + i \in 1..Len(a) + Len(b) /\ ~(Len(a) + i <= Len(a)) /\ (Len(a) + i) - Len(a) = i
  BY <1>1
<1>3. /\ k \in Seq(S)
      /\ Len(k) = Len(a) + Len(b)
      /\ \A i \in 1..Len(a) + Len(b) : k[i] = IF i <= Len(a) THEN a[i] ELSE b[i - Len(a)]
  BY ConcatProperties
<1>4. QED
  BY <1>1, <1>2, <1>3

(* The elements of the two are those of both. *)
Both(k, a, b) == k = a \o b

LEMMA BothParts ==
  ASSUME NEW S, NEW a \in Seq(S), NEW b \in Seq(S), NEW k, Both(k, a, b)
  PROVE  k \in Seq(S) /\ ToSet(k) = ToSet(a) \cup ToSet(b)
<1>1. /\ k \in Seq(S)
      /\ Len(k) = Len(a) + Len(b)
      /\ \A i \in 1..Len(a) : k[i] = a[i]
      /\ \A i \in 1..Len(b) : k[Len(a) + i] = b[i]
  BY TwoParts DEF Both
<1>2. Len(a) \in Nat /\ Len(b) \in Nat
  OBVIOUS
<1>3. DOMAIN a = 1..Len(a) /\ DOMAIN b = 1..Len(b) /\ DOMAIN k = 1..(Len(a) + Len(b))
  BY <1>1
<1>4. ASSUME NEW i \in DOMAIN k
      PROVE  k[i] \in ToSet(a) \cup ToSet(b)
  <2>1. CASE i <= Len(a)
    <3>1. i \in DOMAIN a /\ k[i] = a[i]
      BY <1>1, <1>2, <1>3, <2>1
    <3>2. QED
      BY <3>1 DEF ToSet
  <2>2. CASE ~(i <= Len(a))
    <3>1. i - Len(a) \in 1..Len(b) /\ Len(a) + (i - Len(a)) = i
      BY <1>2, <1>3, <2>2
    <3>2. k[i] = b[i - Len(a)]
      BY <1>1, <3>1
    <3>3. QED
      BY <1>3, <3>1, <3>2 DEF ToSet
  <2>3. QED
    BY <2>1, <2>2
<1>5. \A i \in DOMAIN a : i \in DOMAIN k /\ k[i] = a[i]
  BY <1>1, <1>2, <1>3
<1>6. \A i \in DOMAIN b : Len(a) + i \in DOMAIN k /\ k[Len(a) + i] = b[i]
  BY <1>1, <1>2, <1>3
<1>7. ToSet(k) \subseteq ToSet(a) \cup ToSet(b)
  BY <1>4 DEF ToSet
<1>8. ToSet(a) \subseteq ToSet(k)
  BY <1>5 DEF ToSet
<1>9. ToSet(b) \subseteq ToSet(k)
  BY <1>6 DEF ToSet
<1>10. QED
  BY <1>1, <1>7, <1>8, <1>9

-----------------------------------------------------------------------------
(* The recursion of FlattenSeq. *)
Flattens(f, s) == f = [i \in 1..Len(s) |-> IF i = 1 THEN s[i] ELSE f[i - 1] \o s[i]]

(* FlattenSeq is defined by that recursion. *)
LEMMA FlattenIs ==
  ASSUME NEW s, Len(s) # 0
  PROVE  FlattenSeq(s) = (CHOOSE f : Flattens(f, s))[Len(s)]
BY Zenon DEF FlattenSeq, Flattens

(* The recursion, as far as a number. *)
FlattensTo(n, f, s) == f = [i \in 1..n |-> IF i = 1 THEN s[i] ELSE f[i - 1] \o s[i]]

(* There is a function that satisfies it. *)
LEMMA FlattenExists ==
  ASSUME NEW s, Len(s) \in Nat
  PROVE  Flattens(CHOOSE f : Flattens(f, s), s)
<1> DEFINE P == {n \in Nat : \E f : FlattensTo(n, f, s)}
<1>1. 0 \in P
  <2>1. PICK f : f = [i \in {} |-> i]
    OBVIOUS
  <2>2. FlattensTo(0, f, s)
    BY <2>1 DEF FlattensTo
  <2>3. QED
    BY <2>2
<1>2. ASSUME NEW n \in 0..Len(s), n \in P, n < Len(s)
      PROVE  n + 1 \in P
  <2>1. PICK f : FlattensTo(n, f, s)
    BY <1>2
  <2>2. PICK last : last = IF n = 0 THEN s[1] ELSE f[n] \o s[n + 1]
    OBVIOUS
  <2>3. PICK g : g = [i \in 1..(n + 1) |-> IF i = n + 1 THEN last ELSE f[i]]
    OBVIOUS
  <2>4. n \in Nat /\ n + 1 \in Nat
    OBVIOUS
  <2>5. \A i \in 1..n : f[i] = IF i = 1 THEN s[i] ELSE f[i - 1] \o s[i]
    BY <2>1 DEF FlattensTo
  <2>6. \A i \in 1..n : g[i] = f[i]
    BY <2>3, <2>4
  <2>7. g[n + 1] = last
    BY <2>3, <2>4
  <2>8. ASSUME NEW i \in 1..(n + 1)
        PROVE  g[i] = IF i = 1 THEN s[i] ELSE g[i - 1] \o s[i]
    <3>1. CASE i = n + 1 /\ n = 0
      BY <2>2, <2>7, <3>1
    <3>2. CASE i = n + 1 /\ n # 0
      <4>1. g[i - 1] = f[n] /\ i # 1
        BY <2>4, <2>6, <3>2
      <4>2. QED
        BY <2>2, <2>7, <3>2, <4>1
    <3>3. CASE i # n + 1
      <4>1. i \in 1..n /\ (i # 1 => i - 1 \in 1..n)
        BY <2>4, <3>3
      <4>2. QED
        BY <2>5, <2>6, <4>1
    <3>4. QED
      BY <3>1, <3>2, <3>3
  <2>9. DOMAIN g = 1..(n + 1) /\ g = [i \in 1..(n + 1) |-> g[i]]
    BY <2>3
  <2>10. FlattensTo(n + 1, g, s)
    BY <2>8, <2>9 DEF FlattensTo
  <2>11. QED
    BY <2>4, <2>10
<1>3. Len(s) \in P
  <2> HIDE DEF P
  <2>1. \A n \in 0..Len(s) : n \in P /\ n < Len(s) => n + 1 \in P
    BY <1>2
  <2>2. \A n \in 0..Len(s) : n \in P
    BY <1>1, <2>1, Throughout
  <2>3. QED
    BY <2>2
<1>4. \E f : Flattens(f, s)
  BY <1>3 DEF Flattens, FlattensTo
<1>5. QED
  BY <1>4, Zenon

(* FlattenSeq makes of sequences a sequence with the elements of all of them. *)
LEMMA FlattenElements ==
  ASSUME NEW S, NEW s \in Seq(Seq(S))
  PROVE  /\ FlattenSeq(s) \in Seq(S)
         /\ ToSet(FlattenSeq(s)) = UNION {ToSet(s[i]) : i \in DOMAIN s}
<1>1. Len(s) \in Nat /\ DOMAIN s = 1..Len(s)
  OBVIOUS
<1>2. CASE Len(s) = 0
  <2>1. s = <<>> /\ DOMAIN s = {}
    BY <1>1, <1>2, EmptySeq
  <2>2. FlattenSeq(s) = s
    BY <1>2 DEF FlattenSeq
  <2>3. <<>> \in Seq(S) /\ ToSet(<<>>) = {}
    BY DEF ToSet
  <2>4. UNION {ToSet(s[i]) : i \in DOMAIN s} = {}
    BY <2>1
  <2>5. QED
    BY <2>1, <2>2, <2>3, <2>4
<1>3. CASE Len(s) # 0
  <2>1. PICK f : f = CHOOSE g : Flattens(g, s)
    OBVIOUS
  <2>2. Flattens(f, s) /\ FlattenSeq(s) = f[Len(s)]
    BY <1>1, <1>3, <2>1, FlattenExists, FlattenIs
  <2>3. \A i \in 1..Len(s) : f[i] = IF i = 1 THEN s[i] ELSE f[i - 1] \o s[i]
    BY <2>2 DEF Flattens
  <2> DEFINE P == {n \in Nat : n = 0 \/ /\ f[n] \in Seq(S)
                                        /\ ToSet(f[n]) = UNION {ToSet(s[i]) : i \in 1..n}}
  <2>4. 0 \in P
    OBVIOUS
  <2>5. ASSUME NEW n \in 0..Len(s), n \in P, n < Len(s)
        PROVE  n + 1 \in P
    <3>1. n \in Nat /\ n + 1 \in 1..Len(s)
      BY <1>1, <2>5
    <3>2. PICK e : e = s[n + 1]
      OBVIOUS
    <3>3. e \in Seq(S)
      BY <3>1, <3>2, ElementOfSeq
    <3>4. CASE n = 0
      <4>1. f[1] = s[1] /\ s[1] \in Seq(S) /\ n + 1 = 1
        BY <2>3, <3>1, <3>2, <3>3, <3>4
      <4>2. UNION {ToSet(s[i]) : i \in 1..1} = ToSet(s[1])
        OBVIOUS
      <4>3. QED
        BY <4>1, <4>2
    <3>5. CASE n # 0
      <4>1. PICK a, k : a = f[n] /\ k = f[n + 1]
        OBVIOUS
      <4>2. a \in Seq(S) /\ ToSet(a) = UNION {ToSet(s[i]) : i \in 1..n}
        BY <2>5, <3>5, <4>1
      <4>3. Both(k, a, e)
        <5>1. n + 1 # 1 /\ (n + 1) - 1 = n
          BY <3>1, <3>5
        <5>2. QED
          BY <2>3, <3>1, <3>2, <4>1, <5>1 DEF Both
      <4>4. k \in Seq(S) /\ ToSet(k) = ToSet(a) \cup ToSet(e)
        <5>1. a \in Seq(S) /\ e \in Seq(S)
          BY <3>3, <4>2
        <5>2. QED
          BY ONLY <4>3, <5>1, BothParts
      <4>5. ToSet(k) = UNION {ToSet(s[i]) : i \in 1..(n + 1)}
        <5>1. 1..(n + 1) = 1..n \cup {n + 1}
          BY <3>1
        <5>2. QED
          BY <3>2, <4>2, <4>4, <5>1
      <4>6. QED
        BY <3>1, <4>1, <4>4, <4>5
    <3>6. QED
      BY <3>4, <3>5
  <2>6. Len(s) \in P
    <3> HIDE DEF P
    <3>1. \A n \in 0..Len(s) : n \in P /\ n < Len(s) => n + 1 \in P
      BY <2>5
    <3>2. \A n \in 0..Len(s) : n \in P
      BY <1>1, <2>4, <3>1, Throughout
    <3>3. QED
      BY <1>1, <3>2
  <2>7. QED
    BY <1>1, <1>3, <2>2, <2>6
<1>4. QED
  BY <1>2, <1>3

(* A loop that keeps some elements of a sequence leaves a sequence of those. *)
LEMMA AmongIs ==
  ASSUME NEW X, NEW s \in Seq(X), NEW S
  PROVE  Among(s, S) \in Seq(X) /\ ToSet(Among(s, S)) = ToSet(s) \cap S
<1> DEFINE parts == [i \in DOMAIN s |-> IF s[i] \in S THEN <<s[i]>> ELSE <<>>]
<1>1. DOMAIN s = 1..Len(s) /\ Len(s) \in Nat /\ \A i \in DOMAIN s : s[i] \in X
  OBVIOUS
<1>2. \A x \in X : <<x>> \in Seq(X) /\ ToSet(<<x>>) = {x}
  BY DEF ToSet
<1>3. <<>> \in Seq(X) /\ ToSet(<<>>) = {}
  BY DEF ToSet
<1>4. \A i \in DOMAIN s : parts[i] \in Seq(X) /\ ToSet(parts[i]) = {s[i]} \cap S
  BY <1>1, <1>2, <1>3
<1>5. parts \in Seq(Seq(X)) /\ DOMAIN parts = DOMAIN s
  BY <1>1, <1>4
<1>6. Among(s, S) = FlattenSeq(parts)
  BY DEF Among
<1>7. PICK p : p = parts
  OBVIOUS
<1> HIDE DEF parts
<1>8. p \in Seq(Seq(X)) /\ DOMAIN p = DOMAIN s /\ \A i \in DOMAIN s : ToSet(p[i]) = {s[i]} \cap S
  BY <1>4, <1>5, <1>7
<1>9. FlattenSeq(p) \in Seq(X) /\ ToSet(FlattenSeq(p)) = UNION {ToSet(p[i]) : i \in DOMAIN p}
  BY <1>8, FlattenElements
<1>10. UNION {ToSet(p[i]) : i \in DOMAIN p} = ToSet(s) \cap S
  BY <1>8 DEF ToSet
<1>11. QED
  BY <1>6, <1>7, <1>9, <1>10

-----------------------------------------------------------------------------
(* A set of numbers with a bound has a greatest one, which Max returns. *)
LEMMA MaxIs ==
  ASSUME NEW N \in Nat, NEW T \in SUBSET (1..N), T # {}
  PROVE  Max(T) \in T /\ \A n \in T : n <= Max(T)
<1> DEFINE D == {N - n : n \in T}
<1>1. D \in SUBSET Nat /\ D # {}
  <2>1. \A n \in T : N - n \in Nat
    OBVIOUS
  <2>2. QED
    BY <2>1
<1>2. PICK d \in D : \A e \in D : d <= e
  <2> HIDE DEF D
  <2>1. QED
    BY <1>1, Least
<1>3. PICK m \in T : d = N - m
  BY <1>2
<1>4. ASSUME NEW n \in T
      PROVE  m >= n
  <2>1. N - m <= N - n
    BY <1>2, <1>3
  <2>2. m \in Nat /\ n \in Nat
    OBVIOUS
  <2>3. QED
    BY <2>1, <2>2
<1>5. \E x \in T : \A y \in T : x >= y
  BY <1>4
<1>6. Max(T) \in T /\ \A y \in T : Max(T) >= y
  BY <1>5, Zenon DEF Max
<1>7. QED
  BY <1>6

(* Of a tag whose segments are all pairs or blank, parseTagAttrs has the
   attributes that occur, each with the last of its values. *)
Giving(given, tag, a) == given = {i \in DOMAIN tag : tag[i].attr = a}
IsLast(i, given) == i \in given /\ \A j \in given : j <= i

LEMMA TagAttrs ==
  ASSUME NEW tag \in Seq(TagSegments), \A segment \in ToSet(tag) : ~Malformed(segment),
         NEW a, a # "", NEW given, Giving(given, tag, a)
  PROVE  /\ a \in DOMAIN ParseTagAttrs(tag) <=> given # {}
         /\ given # {} => \E i : IsLast(i, given) /\ ParseTagAttrs(tag)[a] = tag[i]
<1>1. DOMAIN tag = 1..Len(tag) /\ Len(tag) \in Nat
  BY ONLY tag \in Seq(TagSegments)
<1>2. \A i \in DOMAIN tag : tag[i].pair \in BOOLEAN /\ (tag[i].pair <=> tag[i].attr # "")
  <2>1. ASSUME NEW i \in DOMAIN tag
        PROVE  tag[i].pair \in BOOLEAN /\ (tag[i].pair <=> tag[i].attr # "")
    <3>1. tag[i] \in TagSegments
      BY <1>1, ElementOfSeq
    <3>2. tag[i].pair \in BOOLEAN
      BY <3>1 DEF TagSegments
    <3>3. tag[i].pair = (tag[i].attr # "")
      BY DEF ToSet, Malformed
    <3>4. QED
      BY <3>2, <3>3
  <2>2. QED
    BY <2>1
<1>3. given = {i \in 1..Len(tag) : tag[i].pair /\ tag[i].attr = a}
  BY <1>1, <1>2 DEF Giving
<1> DEFINE attrs == {segment.attr : segment \in {s \in ToSet(tag) : s.pair}}
<1>4. a \in attrs <=> given # {}
  BY <1>2 DEF ToSet, Giving
<1>5. ParseTagAttrs(tag) = [b \in attrs |-> tag[SelectLastInSeq(tag, LAMBDA s : s.pair /\ s.attr = b)]]
  BY DEF ParseTagAttrs
<1>6. ASSUME given # {}
      PROVE  IsLast(Max(given), given) /\ ParseTagAttrs(tag)[a] = tag[Max(given)]
  <2>1. given \in SUBSET (1..Len(tag))
    BY <1>1 DEF Giving
  <2>2. Max(given) \in given /\ \A j \in given : j <= Max(given)
    BY <1>1, <1>6, <2>1, MaxIs
  <2>3. SelectLastInSeq(tag, LAMBDA s : s.pair /\ s.attr = a) = Max(given)
    BY <1>3, <1>6 DEF SelectLastInSeq
  <2>4. a \in attrs
    BY <1>4, <1>6
  <2> HIDE DEF attrs
  <2>5. QED
    BY <1>5, <2>2, <2>3, <2>4 DEF IsLast
<1>7. DOMAIN ParseTagAttrs(tag) = attrs
  BY <1>5
<1>8. QED
  <2> HIDE DEF attrs
  <2>1. QED
    BY <1>4, <1>6, <1>7

(* The entry of a field has its key and type, and its default if it has one. *)
LEMMA EntryIs ==
  ASSUME NEW field, NEW entry, entry = BuildConfigFieldEntry(field)
  PROVE  /\ entry.key = field.key
         /\ entry.type = field.type
         /\ "default" \in DOMAIN entry <=> field.default # {}
         /\ \A v : field.default = {v} => entry["default"] = v
<1>1. PICK members :
        members = [key |-> {field.key}, type |-> {field.type}, optional |-> {field.optional},
                   default |-> field.default,
                   validation |-> Optional(field.validation # <<>>, field.validation),
                   values |-> Optional(field.values # <<>>, field.values)]
  OBVIOUS
<1>2. entry = [name \in {n \in DOMAIN members : members[n] # {}} |-> CHOOSE x \in members[name] : TRUE]
  BY <1>1 DEF BuildConfigFieldEntry
<1>3. /\ "key" \in DOMAIN members /\ members["key"] = {field.key}
      /\ "type" \in DOMAIN members /\ members["type"] = {field.type}
      /\ "default" \in DOMAIN members /\ members["default"] = field.default
  BY <1>1
<1>4. \A name, v : name \in DOMAIN members /\ members[name] = {v} =>
        name \in DOMAIN entry /\ entry[name] = v
  BY <1>2
<1>5. entry["key"] = field.key /\ entry["type"] = field.type
  BY <1>3, <1>4
<1>6. "default" \in DOMAIN entry <=> field.default # {}
  BY <1>2, <1>3
<1>7. QED
  BY <1>3, <1>4, <1>5, <1>6

(* convertDefault makes a value of the type that JSON has for the field's. *)
LEMMA DefaultIs ==
  ASSUME NEW kind, NEW type, NEW text
  PROVE  ConvertDefault(kind, type, text) =
            Value(IF type \in {"int", "float", "boolean"} THEN type ELSE "string", text)
<1>1. DOMAIN Reads = {"int", "float", "boolean"}
  BY DEF Reads
<1>2. QED
  BY <1>1 DEF ConvertDefault

(* What ParseFieldTag takes from the attributes of a tag. *)
LEMMA ParsedField ==
  ASSUME NEW field, NEW attrs, attrs = ParseTagAttrs(field.tag), NEW parsed, parsed = ParseFieldTag(field)
  PROVE  /\ "default" \notin DOMAIN attrs => parsed.default = {}
         /\ "default" \in DOMAIN attrs =>
                parsed.default = {ConvertDefault(field.kind, parsed.type, attrs["default"].value)}
BY DEF ParseFieldTag

(* A model that parses has the exported fields with a tag, all of which parse. *)
IsParsed(def, model, kind) == def = ParseConfigModel(model, kind) /\ def.ok

AreParsed(fields, model, def) ==
    /\ fields \in Seq(StructFields)
    /\ ToSet(fields) \subseteq ToSet(model.fields)
    /\ \A f \in ToSet(fields) : FieldParses(f)
    /\ def.fields = [i \in DOMAIN fields |-> ParseFieldTag(fields[i])]

LEMMA ModelIs ==
  ASSUME NEW model, model.fields \in Seq(StructFields), NEW kind,
         NEW def, IsParsed(def, model, kind)
  PROVE  def.kind = kind /\ \E fields : AreParsed(fields, model, def)
<1>1. PICK given, fields :
        given = model.fields /\ fields = Among(given, {f \in ToSet(given) : f.exported /\ f.tagged})
  OBVIOUS
<1>2. given \in Seq(StructFields)
  BY <1>1
<1>3. fields \in Seq(StructFields) /\ ToSet(fields) \subseteq ToSet(given)
  BY <1>1, <1>2, AmongIs
<1>4. def = IF model.kind = "struct" /\ \A f \in ToSet(fields) : FieldParses(f)
            THEN [ok |-> TRUE, kind |-> kind, fields |-> [i \in DOMAIN fields |-> ParseFieldTag(fields[i])]]
            ELSE Error
  BY <1>1 DEF IsParsed, ParseConfigModel
<1>5. ~Error.ok
  BY DEF Error
<1>6. /\ \A f \in ToSet(fields) : FieldParses(f)
      /\ def = [ok |-> TRUE, kind |-> kind, fields |-> [i \in DOMAIN fields |-> ParseFieldTag(fields[i])]]
  BY <1>4, <1>5 DEF IsParsed
<1>7. def.kind = kind /\ def.fields = [i \in DOMAIN fields |-> ParseFieldTag(fields[i])]
  BY <1>6
<1>8. QED
  BY <1>1, <1>3, <1>6, <1>7 DEF AreParsed

(* The default in the entry of a field that parses is of the entry's type, and
   the last that the tag gives. *)
LEMMA EntrysDefault ==
  ASSUME NEW field \in StructFields, FieldParses(field),
         NEW entry, entry = BuildConfigFieldEntry(ParseFieldTag(field)),
         NEW given, given = {i \in DOMAIN field.tag : field.tag[i].attr = "default"}
  PROVE  /\ given = {} => "default" \notin DOMAIN entry
         /\ given # {} => \E i :
                /\ IsLast(i, given)
                /\ entry["default"] =
                    Value(IF entry.type \in {"int", "float", "boolean"} THEN entry.type ELSE "string",
                          field.tag[i].value)
<1>1. PICK tag, attrs, parsed :
        tag = field.tag /\ attrs = ParseTagAttrs(tag) /\ parsed = ParseFieldTag(field)
  OBVIOUS
<1>2. tag \in Seq(TagSegments)
  BY <1>1 DEF StructFields
<1>3. \A segment \in ToSet(tag) : ~Malformed(segment)
  BY <1>1 DEF FieldParses
<1>4. /\ "default" \in DOMAIN attrs <=> given # {}
      /\ given # {} => \E i : IsLast(i, given) /\ attrs["default"] = tag[i]
  <2>1. PICK a : a = "default"
    OBVIOUS
  <2>2. a # "" /\ Giving(given, tag, a)
    BY <1>1, <2>1 DEF Giving
  <2>3. /\ a \in DOMAIN ParseTagAttrs(tag) <=> given # {}
        /\ given # {} => \E i : IsLast(i, given) /\ ParseTagAttrs(tag)[a] = tag[i]
    BY ONLY <1>2, <1>3, <2>2, TagAttrs
  <2>4. QED
    BY <1>1, <2>1, <2>3
<1>5. /\ "default" \notin DOMAIN attrs => parsed.default = {}
      /\ "default" \in DOMAIN attrs =>
            parsed.default = {ConvertDefault(field.kind, parsed.type, attrs["default"].value)}
  BY <1>1, ParsedField
<1>6. /\ entry.type = parsed.type
      /\ "default" \in DOMAIN entry <=> parsed.default # {}
      /\ \A v : parsed.default = {v} => entry["default"] = v
  BY <1>1, EntryIs
<1>7. ASSUME given # {}
      PROVE  \E i :
                /\ IsLast(i, given)
                /\ entry["default"] =
                    Value(IF entry.type \in {"int", "float", "boolean"} THEN entry.type ELSE "string",
                          field.tag[i].value)
  <2>1. PICK i : IsLast(i, given) /\ attrs["default"] = tag[i]
    BY <1>4, <1>7
  <2>2. entry["default"] = ConvertDefault(field.kind, parsed.type, tag[i].value)
    BY <1>4, <1>5, <1>6, <1>7, <2>1
  <2>3. QED
    BY <1>1, <1>6, <2>1, <2>2, DefaultIs
<1>8. QED
  BY <1>4, <1>5, <1>6, <1>7

-----------------------------------------------------------------------------
(* A sequence is a prefix of what begins with it. *)
LEMMA PrefixIs ==
  ASSUME NEW S, NEW a \in Seq(S), NEW b \in Seq(S), NEW k, Both(k, a, b)
  PROVE  IsPrefix(a, k)
<1>1. /\ k \in Seq(S)
      /\ Len(k) = Len(a) + Len(b)
      /\ \A i \in 1..Len(a) : k[i] = a[i]
  BY TwoParts DEF Both
<1>2. Len(a) \in Nat /\ Len(b) \in Nat
  OBVIOUS
<1>3. Len(a) <= Len(k)
  BY <1>1, <1>2
<1>4. SubSeq(a, 1, Len(a)) = SubSeq(k, 1, Len(a))
  <2>1. \A i \in 1..Len(a) : a[i] \in S /\ k[i] \in S
    BY <1>1
  <2>2. PICK x, y, n : x = SubSeq(a, 1, n) /\ y = SubSeq(k, 1, n) /\ n = Len(a)
    OBVIOUS
  <2>3. /\ x \in Seq(S) /\ Len(x) = (IF 1 <= n THEN n - 1 + 1 ELSE 0)
        /\ \A i \in 1..(n - 1 + 1) : x[i] = a[1 + i - 1]
    BY <1>2, <2>1, <2>2, SubSeqProperties
  <2>4. /\ y \in Seq(S) /\ Len(y) = (IF 1 <= n THEN n - 1 + 1 ELSE 0)
        /\ \A i \in 1..(n - 1 + 1) : y[i] = k[1 + i - 1]
    BY <1>2, <2>1, <2>2, SubSeqProperties
  <2>5. \A i \in 1..n : x[i] = y[i] /\ n - 1 + 1 = n
    BY <1>1, <1>2, <2>2, <2>3, <2>4
  <2>6. Len(x) = Len(y) /\ Len(x) = n
    BY <1>2, <2>2, <2>3, <2>4
  <2>7. x = y
    BY <2>3, <2>4, <2>5, <2>6, SeqEqual
  <2>8. QED
    BY <2>2, <2>7
<1>5. QED
  BY <1>3, <1>4 DEF IsPrefix

(* The system's entries name the system's variables. *)
LEMMA SystemEntries ==
  /\ SYSTEM_ENVIRONMENT_VARIABLES \in Seq(ToSet(SYSTEM_ENVIRONMENT_VARIABLES))
  /\ \A e \in ToSet(SYSTEM_ENVIRONMENT_VARIABLES) : e.name \in ToSet(SystemEnvKeys)
<1>1. DOMAIN SystemEnvKeys = 1..8
  BY DEF SystemEnvKeys
<1>2. PICK sys : sys = SYSTEM_ENVIRONMENT_VARIABLES
  OBVIOUS
<1>3. sys = [i \in 1..8 |-> [name |-> SystemEnvKeys[i], set |-> "system"]]
  BY <1>1, <1>2 DEF SYSTEM_ENVIRONMENT_VARIABLES
<1>4. \A i \in 1..8 : sys[i] \in ToSet(sys) /\ sys[i].name \in ToSet(SystemEnvKeys)
  BY <1>1, <1>3 DEF ToSet
<1>5. sys \in [1..8 -> ToSet(sys)] /\ DOMAIN sys = 1..8
  BY <1>3, <1>4
<1>6. sys \in Seq(ToSet(sys))
  <2>1. PICK S, n : S = ToSet(sys) /\ n = 8
    OBVIOUS
  <2>2. n \in Nat /\ sys \in [1..n -> S]
    BY <1>5, <2>1
  <2>3. sys \in Seq(S)
    BY ONLY <2>2
  <2>4. QED
    BY <2>1, <2>3
<1>7. \A e \in ToSet(sys) : e.name \in ToSet(SystemEnvKeys)
  BY <1>4, <1>5 DEF ToSet
<1>8. QED
  BY <1>2, <1>6, <1>7

OfSystem(e) == e.name \in ToSet(SystemEnvKeys)

(* The entries of the boot file: the system's, then those of the configuration
   that name none of the system's variables. *)
LEMMA EnvironmentIs ==
  ASSUME NEW meta, NEW model, NEW def, NEW fields, AreParsed(fields, model, def),
         NEW keys, keys = {PluginEntry(entry.key) : entry \in ToSet(ConfigFieldEntries(def))},
         NEW env, env = BuildBootYAMLEnvironment(GenerateBootYAMLData(meta, def).environment)
  PROVE  /\ IsPrefix(SYSTEM_ENVIRONMENT_VARIABLES, env)
         /\ \A i \in DOMAIN env \ DOMAIN SYSTEM_ENVIRONMENT_VARIABLES : ~OfSystem(env[i])
         /\ {e \in ToSet(env) : ~OfSystem(e)} = {key \in keys : ~OfSystem(key)}
<1>1. PICK sys, own, all, tail, E :
        /\ sys = SYSTEM_ENVIRONMENT_VARIABLES
        /\ own = [i \in DOMAIN def.fields |-> PluginEntry(def.fields[i].key)]
        /\ all = sys \o own
        /\ tail = Among(all, {e \in ToSet(all) : ~OfSystem(e)})
        /\ E = ToSet(sys) \cup keys
  OBVIOUS
<1>2. sys \in Seq(E) /\ \A e \in ToSet(sys) : OfSystem(e)
  <2>1. ToSet(sys) \subseteq E
    BY <1>1
  <2>2. sys \in Seq(ToSet(sys)) /\ \A e \in ToSet(sys) : OfSystem(e)
    BY <1>1, SystemEntries DEF OfSystem
  <2>3. QED
    BY <2>1, <2>2, SeqMonotonic
<1>3. own \in Seq(E) /\ ToSet(own) = keys
  <2>1. DOMAIN def.fields = DOMAIN fields /\ DOMAIN fields = 1..Len(fields) /\ Len(fields) \in Nat
    BY DEF AreParsed
  <2>2. PICK entries : entries = ConfigFieldEntries(def)
    OBVIOUS
  <2>3. /\ DOMAIN entries = DOMAIN own
        /\ \A i \in DOMAIN own : PluginEntry(entries[i].key) = own[i]
    <3>1. \A i \in DOMAIN def.fields : BuildConfigFieldEntry(def.fields[i]).key = def.fields[i].key
      BY EntryIs
    <3>2. entries = [i \in DOMAIN def.fields |-> BuildConfigFieldEntry(def.fields[i])]
      BY <2>2 DEF ConfigFieldEntries
    <3>3. QED
      BY <1>1, <3>1, <3>2
  <2>8. keys = {PluginEntry(entry.key) : entry \in ToSet(entries)}
    BY <2>2
  <2>9. ToSet(own) = keys
    <3>1. \A i \in DOMAIN entries : entries[i] \in ToSet(entries)
      BY DEF ToSet
    <3>2. \A i \in DOMAIN own : own[i] \in keys
      BY <2>3, <2>8, <3>1
    <3>3. ASSUME NEW entry \in ToSet(entries)
          PROVE  PluginEntry(entry.key) \in ToSet(own)
      BY <2>3 DEF ToSet
    <3>4. QED
      BY <2>8, <3>2, <3>3 DEF ToSet
  <2>4. \A i \in DOMAIN own : own[i] \in E
    BY <1>1, <2>9 DEF ToSet
  <2>5. DOMAIN own = 1..Len(fields) /\ own = [i \in 1..Len(fields) |-> own[i]]
    BY <1>1, <2>1
  <2>6. own \in Seq(E)
    BY <2>1, <2>4, <2>5
  <2>7. QED
    BY <2>6, <2>9
<1>4. all \in Seq(E) /\ ToSet(all) = ToSet(sys) \cup keys
  <2>1. Both(all, sys, own) /\ sys \in Seq(E) /\ own \in Seq(E)
    BY <1>1, <1>2, <1>3 DEF Both
  <2>2. all \in Seq(E) /\ ToSet(all) = ToSet(sys) \cup ToSet(own)
    BY ONLY <2>1, BothParts
  <2>3. QED
    BY <1>3, <2>2
<1>5. tail \in Seq(E) /\ ToSet(tail) = {key \in keys : ~OfSystem(key)}
  <2>1. PICK T : T = {e \in ToSet(all) : ~OfSystem(e)}
    OBVIOUS
  <2>2. tail = Among(all, T)
    BY <1>1, <2>1
  <2>3. tail \in Seq(E) /\ ToSet(tail) = ToSet(all) \cap T
    BY <1>4, <2>2, AmongIs
  <2>4. ToSet(all) \cap T = {key \in keys : ~OfSystem(key)}
    BY <1>2, <1>4, <2>1
  <2>5. QED
    BY <2>3, <2>4
<1>6. Both(env, sys, tail)
  <2>1. GenerateBootYAMLData(meta, def).environment = all
    BY <1>1 DEF GenerateBootYAMLData
  <2>2. BuildBootYAMLEnvironment(all) = sys \o tail
    BY <1>1 DEF BuildBootYAMLEnvironment, OfSystem
  <2>3. QED
    BY <2>1, <2>2 DEF Both
<1>7. IsPrefix(sys, env)
  BY <1>2, <1>5, <1>6, PrefixIs
<1>8. env \in Seq(E) /\ ToSet(env) = ToSet(sys) \cup ToSet(tail)
  <2>1. sys \in Seq(E) /\ tail \in Seq(E)
    BY <1>2, <1>5
  <2>2. QED
    BY ONLY <1>6, <2>1, BothParts
<1>9. ASSUME NEW i \in DOMAIN env \ DOMAIN sys
      PROVE  ~OfSystem(env[i])
  <2>1. /\ Len(env) = Len(sys) + Len(tail)
        /\ \A j \in 1..Len(tail) : env[Len(sys) + j] = tail[j]
    BY <1>2, <1>5, <1>6, TwoParts DEF Both
  <2>2. DOMAIN env = 1..Len(env) /\ DOMAIN sys = 1..Len(sys) /\ Len(sys) \in Nat /\ Len(tail) \in Nat
        /\ DOMAIN tail = 1..Len(tail)
    BY <1>2, <1>5, <1>8
  <2>3. i - Len(sys) \in 1..Len(tail) /\ Len(sys) + (i - Len(sys)) = i
    BY <2>1, <2>2
  <2>4. env[i] = tail[i - Len(sys)]
    BY <2>1, <2>3
  <2>5. env[i] \in ToSet(tail)
    BY <2>2, <2>3, <2>4 DEF ToSet
  <2>6. QED
    BY <1>5, <2>5
<1>10. {e \in ToSet(env) : ~OfSystem(e)} = {key \in keys : ~OfSystem(key)}
  BY <1>2, <1>5, <1>8
<1>11. QED
  BY <1>1, <1>7, <1>9, <1>10
=============================================================================

---------------------------- MODULE ConfigProofs ----------------------------
(***************************************************************************)
(* Theorems about Config and ConfigGetters, for every set of texts, every  *)
(* limit on keys and every width of ints.                                  *)
(***************************************************************************)
EXTENDS ConfigGetters, SequenceTheorems, FiniteSetTheorems, WellFoundedInduction, TLAPS

\* The places of the loop of config_load.
InLoop == pc \in {"parse", "copy"}

\* The parser: the line is that of the place, no error is noted yet, and a key
\* that is followed by something fits.
Parsing ==
  InLoop =>
    /\ ps.p <= Len(text) + 1
    /\ ps.line = 1 + Newlines(SubSeq(text, 1, ps.p - 1))
    /\ line_error = 0
    /\ ps.state \in {"key_sp", "value", "qt_value", "copy_value"} => Len(ps.key) <= KeyMax

\* The copy loop: at an entry of the map under the prefix, the parser at the
\* semicolon.
Copying ==
  pc = "copy" =>
    /\ index \in DOMAIN data /\ IsPrefix(ps.value, index)
    /\ ps.state = "copy_value"
    /\ ps.p <= Len(text) /\ text[ps.p] = SEMI

\* The map: finite, and without values missing while it can still be handed to a
\* caller.
Kept ==
  /\ IsFiniteSet(DOMAIN data)
  /\ mode # "test" /\ pc # "end" /\ (pc = "return" => ret = OK) =>
       \A k \in DOMAIN data : data[k] # Null

\* Which places are whose.
Callers ==
  /\ pc = "next" => mode = "test"
  /\ pc = "ready" => mode # "test"
  /\ pc = "crash" => mode = "test"

\* The line that a syntax error has left behind.
ErrorInv ==
  pc = "return" /\ line_error # 0 =>
    /\ ret = ERROR
    /\ ps.p <= Len(text)
    /\ line_error = 1 + Newlines(SubSeq(text, 1, ps.p - 1))

IInv == TypeOK /\ Parsing /\ Copying /\ Kept /\ Callers /\ ErrorInv

\* The newlines that strtok has passed in config_test.
Ended == {i \in 1 .. tok - 1 : i <= Len(input.text) /\ input.text[i] = NL}

\* config_test: each line that has been taken ended in a newline; the last may
\* have no result yet.
Noted ==
  mode = "test" /\ input.text # <<>> /\ input.text[Len(input.text)] = NL =>
    /\ Len(str_err) + (IF pc \in {"load", "parse", "copy", "return"} THEN 1 ELSE 0)
         <= Cardinality(Ended)
    /\ tok <= Len(input.text) + 1
-----------------------------------------------------------------------------
(* Strings and their order *)

\* Characters are numbers.
LEMMA CharIs ==
  ASSUME NEW s \in Seq(Char)
  PROVE  \A j \in 1 .. Len(s) : s[j] \in Char /\ s[j] \in Nat
<1>1. \A j \in 1 .. Len(s) : s[j] \in Char
  BY ElementOfSeq
<1>2. Char \subseteq Nat
  BY DEF Char
<1> QED BY <1>1, <1>2

\* Where two strings part: after n equal characters the first ends, or has the
\* smaller character.
Parts(a, b, n) ==
  /\ n <= Len(a) /\ n < Len(b)
  /\ \A j \in 1 .. n : a[j] = b[j]
  /\ n = Len(a) \/ a[n + 1] < b[n + 1]

\* A prefix has the same characters.
LEMMA PrefixIs ==
  ASSUME NEW S, NEW a \in Seq(S), NEW b \in Seq(S)
  PROVE  IsPrefix(a, b) <=> Len(a) <= Len(b) /\ \A j \in 1 .. Len(a) : a[j] = b[j]
<1>1. CASE Len(a) <= Len(b)
  <2>1. SubSeq(a, 1, Len(a)) = a
    BY SubSeqFull
  <2>2. /\ SubSeq(b, 1, Len(a)) \in Seq(S) /\ Len(SubSeq(b, 1, Len(a))) = Len(a)
        /\ \A j \in 1 .. Len(a) : SubSeq(b, 1, Len(a))[j] = b[j]
    <3>1. Len(a) \in Nat /\ Len(b) \in Nat
      OBVIOUS
    <3>2. \A j \in 1 .. Len(a) : b[j] \in S
      BY <1>1, <3>1
    <3> QED BY <3>1, <3>2, SubSeqProperties
  <2>3. (\A j \in 1 .. Len(a) : a[j] = b[j]) <=> a = SubSeq(b, 1, Len(a))
    <3> DEFINE d == SubSeq(b, 1, Len(a))
    <3>1. d \in Seq(S) /\ Len(d) = Len(a) /\ \A j \in 1 .. Len(a) : d[j] = b[j]
      BY <2>2
    <3> HIDE DEF d
    <3>2. (\A j \in 1 .. Len(a) : a[j] = d[j]) => a = d
      BY <3>1, SeqEqual
    <3>3. (\A j \in 1 .. Len(a) : a[j] = b[j]) <=> a = d
      BY <3>1, <3>2
    <3> QED BY <3>3 DEF d
  <2> QED BY <1>1, <2>1, <2>3 DEF IsPrefix
<1>2. CASE ~(Len(a) <= Len(b))
  BY <1>2 DEF IsPrefix
<1> QED BY <1>1, <1>2

\* strcmp finds one string before another where they part.
LEMMA BeforeAt ==
  ASSUME NEW a \in Seq(Char), NEW b \in Seq(Char)
  PROVE  Before(a, b) <=> \E n \in Nat : Parts(a, b, n)
<1>0. Len(a) \in Nat /\ Len(b) \in Nat
  OBVIOUS
<1>1. ASSUME Before(a, b) PROVE \E n \in Nat : Parts(a, b, n)
  <2>1. CASE Len(a) < Len(b) /\ IsPrefix(a, b)
    <3>1. Parts(a, b, Len(a))
      BY <1>0, <2>1, PrefixIs DEF Parts
    <3> QED BY <1>0, <3>1
  <2>2. ASSUME NEW i \in 1 .. Len(a), i <= Len(b), a[i] < b[i], \A j \in 1 .. i - 1 : a[j] = b[j]
        PROVE  \E n \in Nat : Parts(a, b, n)
    <3>1. i - 1 \in Nat /\ (i - 1) + 1 = i /\ i - 1 <= Len(a) /\ i - 1 < Len(b)
      BY <1>0, <2>2
    <3>2. Parts(a, b, i - 1)
      BY <2>2, <3>1 DEF Parts
    <3> QED BY <3>1, <3>2
  <2> QED BY <1>1, <2>1, <2>2 DEF Before
<1>2. ASSUME NEW n \in Nat, Parts(a, b, n) PROVE Before(a, b)
  <2>1. CASE n = Len(a)
    BY <1>0, <1>2, <2>1, PrefixIs DEF Before, Parts
  <2>2. CASE n # Len(a)
    <3>1. /\ n + 1 \in 1 .. Len(a) /\ n + 1 <= Len(b) /\ a[n + 1] < b[n + 1]
          /\ \A j \in 1 .. (n + 1) - 1 : a[j] = b[j]
      BY <1>0, <1>2, <2>2 DEF Parts
    <3> QED BY <3>1 DEF Before
  <2> QED BY <2>1, <2>2
<1> QED BY <1>1, <1>2

\* No string is before itself.
LEMMA BeforeIrreflexive ==
  ASSUME NEW a \in Seq(Char)
  PROVE  ~Before(a, a)
<1>1. ASSUME NEW n \in Nat, Parts(a, a, n) PROVE FALSE
  <2>1. Len(a) \in Nat /\ n < Len(a) /\ a[n + 1] < a[n + 1]
    BY <1>1 DEF Parts
  <2>2. a[n + 1] \in Int
    BY <2>1, CharIs
  <2> QED BY <2>1, <2>2
<1> QED BY <1>1, BeforeAt

LEMMA BeforeTransitive ==
  ASSUME NEW a \in Seq(Char), NEW b \in Seq(Char), NEW d \in Seq(Char),
         Before(a, b), Before(b, d)
  PROVE  Before(a, d)
<1>0. Len(a) \in Nat /\ Len(b) \in Nat /\ Len(d) \in Nat
  OBVIOUS
<1>t. /\ \A j \in 1 .. Len(a) : a[j] \in Int
      /\ \A j \in 1 .. Len(b) : b[j] \in Int
      /\ \A j \in 1 .. Len(d) : d[j] \in Int
  BY CharIs
<1>1. PICK n \in Nat : Parts(a, b, n)
  BY BeforeAt
<1>2. PICK m \in Nat : Parts(b, d, m)
  BY BeforeAt
<1>3. CASE n < m
  <2>1. Parts(a, d, n)
    BY <1>0, <1>1, <1>2, <1>3 DEF Parts
  <2> QED BY <2>1, BeforeAt
<1>4. CASE n = m
  <2>1. n = Len(a) \/ a[n + 1] < d[n + 1]
    <3>1. CASE n # Len(a)
      <4>1. n + 1 \in 1 .. Len(a) /\ n + 1 \in 1 .. Len(b) /\ n + 1 \in 1 .. Len(d)
        BY <1>0, <1>1, <1>2, <1>4, <3>1 DEF Parts
      <4>2. a[n + 1] < b[n + 1] /\ b[n + 1] < d[n + 1]
        BY <1>0, <1>1, <1>2, <1>4, <3>1 DEF Parts
      <4> QED BY <1>t, <4>1, <4>2
    <3> QED BY <3>1
  <2>2. Parts(a, d, n)
    BY <1>0, <1>1, <1>2, <1>4, <2>1 DEF Parts
  <2> QED BY <2>2, BeforeAt
<1>5. CASE m < n
  <2>1. Parts(a, d, m)
    BY <1>0, <1>1, <1>2, <1>5 DEF Parts
  <2> QED BY <2>1, BeforeAt
<1> QED BY <1>3, <1>4, <1>5

\* A set of numbers that has an element has a least one.
LEMMA LeastExists ==
  ASSUME NEW S, S \subseteq Nat, S # {}
  PROVE  \E i \in S : \A j \in S : i <= j
<1>1. IsWellFoundedOn(OpToRel(<, Nat), Nat)
  BY NatLessThanWellFounded
<1>2. PICK i \in S : \A j \in S : ~ (<<j, i>> \in OpToRel(<, Nat))
  BY <1>1, WFMin
<1>3. \A j \in S : ~ (j < i)
  BY <1>2 DEF OpToRel
<1>4. \A j \in S : i <= j
  BY <1>3
<1> QED BY <1>4

\* Of two different strings one is before the other.
LEMMA BeforeTotal ==
  ASSUME NEW a \in Seq(Char), NEW b \in Seq(Char), a # b
  PROVE  Before(a, b) \/ Before(b, a)
<1>0. Len(a) \in Nat /\ Len(b) \in Nat
  OBVIOUS
<1> DEFINE D == {n \in Nat : n >= Len(a) \/ n >= Len(b) \/ a[n + 1] # b[n + 1]}
<1>1. Len(a) \in D
  BY <1>0
<1>2. PICK n \in D : \A m \in D : n <= m
  <2> HIDE DEF D
  <2>1. D \subseteq Nat
    BY DEF D
  <2> QED BY <1>1, <2>1, LeastExists
<1>3. n \in Nat /\ n <= Len(a) /\ n <= Len(b)
  <2>1. Len(b) \in D
    BY <1>0
  <2> QED BY <1>1, <1>2, <2>1
<1>4. \A j \in 1 .. n : a[j] = b[j]
  <2>1. ASSUME NEW j \in 1 .. n, a[j] # b[j] PROVE FALSE
    <3>1. j - 1 \in D
      BY <1>3, <2>1
    <3> QED BY <1>2, <1>3, <3>1
  <2> QED BY <2>1
<1>5. CASE n = Len(a)
  <2>1. n # Len(b)
    <3>1. CASE n = Len(b)
      <4>1. Len(a) = Len(b) /\ \A j \in 1 .. Len(a) : a[j] = b[j]
        BY <1>4, <1>5, <3>1
      <4> QED BY <4>1, SeqEqual
    <3> QED BY <3>1
  <2>2. Parts(a, b, n)
    BY <1>0, <1>3, <1>4, <1>5, <2>1 DEF Parts
  <2> QED BY <1>3, <2>2, BeforeAt
<1>6. CASE n = Len(b) /\ n # Len(a)
  <2>1. Parts(b, a, n)
    BY <1>0, <1>3, <1>4, <1>6 DEF Parts
  <2> QED BY <1>3, <2>1, BeforeAt
<1>7. CASE n # Len(a) /\ n # Len(b)
  <2>1. a[n + 1] # b[n + 1] /\ n + 1 \in 1 .. Len(a) /\ n + 1 \in 1 .. Len(b)
    BY <1>0, <1>2, <1>3, <1>7
  <2>2. a[n + 1] \in Int /\ b[n + 1] \in Int
    BY <2>1, CharIs
  <2>3. Parts(a, b, n) \/ Parts(b, a, n)
    BY <1>0, <1>3, <1>4, <1>7, <2>1, <2>2 DEF Parts
  <2> QED BY <1>3, <2>3, BeforeAt
<1> QED BY <1>5, <1>6, <1>7

\* What JSLF and JSLN find exists: a set of strings that is finite has a first.
LEMMA FirstIs ==
  ASSUME NEW S, IsFiniteSet(S), S \subseteq Seq(Char), S # {}
  PROVE  First(S) \in S /\ \A l \in S : l = First(S) \/ Before(First(S), l)
<1> DEFINE Below(k) == {l \in S : Before(l, k)}
<1> DEFINE Sizes == {Cardinality(Below(k)) : k \in S}
<1>1. \A k \in S : Below(k) \in SUBSET S
  OBVIOUS
<1>2. \A k \in S : IsFiniteSet(Below(k)) /\ Cardinality(Below(k)) \in Nat
  <2> TAKE k \in S
  <2> HIDE DEF Below
  <2>1. IsFiniteSet(Below(k))
    BY <1>1, FS_Subset
  <2> QED BY <2>1, FS_CardinalityType
<1>3. PICK k \in S : \A l \in S : Cardinality(Below(k)) <= Cardinality(Below(l))
  <2>1. Sizes \subseteq Nat /\ Sizes # {}
    BY <1>2
  <2>2. PICK n \in Sizes : \A m \in Sizes : n <= m
    <3> HIDE DEF Sizes
    <3> QED BY <2>1, LeastExists
  <2> QED BY <2>2
<1>4. ASSUME NEW l \in S, l # k, ~Before(k, l) PROVE FALSE
  <2>1. Before(l, k)
    BY <1>4, BeforeTotal
  <2>2. Below(l) \subseteq Below(k)
    <3>1. ASSUME NEW m \in S, Before(m, l) PROVE Before(m, k)
      BY <2>1, <3>1, BeforeTransitive
    <3> QED BY <3>1
  <2>3. l \in Below(k) /\ l \notin Below(l)
    BY <2>1, BeforeIrreflexive
  <2> HIDE DEF Below
  <2>4. /\ Cardinality(Below(l)) <= Cardinality(Below(k))
        /\ Cardinality(Below(k)) = Cardinality(Below(l)) => Below(k) = Below(l)
    BY <1>2, <2>2, FS_Subset
  <2> QED BY <1>2, <1>3, <2>3, <2>4
<1>5. \E f \in S : \A l \in S : l = f \/ Before(f, l)
  BY <1>4
<1> QED BY <1>5 DEF First
-----------------------------------------------------------------------------
(* Lines *)

\* One character more is one newline more, or none.
LEMMA NewlineNext ==
  ASSUME NEW s \in Seq(Char), NEW n \in 1 .. Len(s)
  PROVE  /\ Newlines(SubSeq(s, 1, n - 1)) \in Nat
         /\ Newlines(SubSeq(s, 1, n)) =
              IF s[n] = NL THEN Newlines(SubSeq(s, 1, n - 1)) + 1 ELSE Newlines(SubSeq(s, 1, n - 1))
<1> DEFINE Ends(m) == {i \in 1 .. m : s[i] = NL}
<1>0. Len(s) \in Nat /\ n \in Nat /\ n - 1 \in Nat
  OBVIOUS
<1>1. ASSUME NEW m \in 0 .. Len(s) PROVE Newlines(SubSeq(s, 1, m)) = Cardinality(Ends(m))
  <2>1. Len(SubSeq(s, 1, m)) = m /\ \A i \in 1 .. m : SubSeq(s, 1, m)[i] = s[i]
    <3>1. \A i \in 1 .. m : s[i] \in Char
      BY CharIs, <1>0
    <3> QED BY <1>0, <3>1, SubSeqProperties
  <2>2. {i \in 1 .. Len(SubSeq(s, 1, m)) : SubSeq(s, 1, m)[i] = NL} = Ends(m)
    BY <2>1
  <2> QED BY <2>2 DEF Newlines
<1>2. ASSUME NEW m \in 0 .. Len(s) PROVE IsFiniteSet(Ends(m)) /\ Cardinality(Ends(m)) \in Nat
  <2>1. IsFiniteSet(1 .. m)
    BY <1>0, FS_Interval
  <2>2. Ends(m) \subseteq 1 .. m
    OBVIOUS
  <2> HIDE DEF Ends
  <2>3. IsFiniteSet(Ends(m))
    BY <2>1, <2>2, FS_Subset
  <2> QED BY <2>3, FS_CardinalityType
<1>3. Newlines(SubSeq(s, 1, n)) = Cardinality(Ends(n)) /\ Newlines(SubSeq(s, 1, n - 1)) = Cardinality(Ends(n - 1))
  <2>1. n \in 0 .. Len(s) /\ n - 1 \in 0 .. Len(s)
    BY <1>0
  <2> HIDE DEF Ends
  <2> QED BY <1>1, <2>1
<1>4. IsFiniteSet(Ends(n - 1)) /\ Cardinality(Ends(n - 1)) \in Nat /\ n \notin Ends(n - 1)
  <2>1. n - 1 \in 0 .. Len(s)
    BY <1>0
  <2>2. n \notin Ends(n - 1)
    BY <1>0
  <2> HIDE DEF Ends
  <2> QED BY <1>2, <2>1, <2>2
<1>5. CASE s[n] = NL
  <2>1. Ends(n) = Ends(n - 1) \cup {n}
    BY <1>0, <1>5
  <2> HIDE DEF Ends
  <2>2. Cardinality(Ends(n)) = Cardinality(Ends(n - 1)) + 1
    BY <1>4, <2>1, FS_AddElement
  <2> QED BY <1>3, <1>4, <1>5, <2>2
<1>6. CASE s[n] # NL
  <2>1. Ends(n) = Ends(n - 1)
    BY <1>0, <1>6
  <2> QED BY <1>3, <1>4, <1>6, <2>1
<1> QED BY <1>5, <1>6
-----------------------------------------------------------------------------
(* The map *)

\* What JSLI leaves: one key more, or another value of one.
LEMMA PutIs ==
  ASSUME NEW m, NEW k, NEW v
  PROVE  /\ DOMAIN Put(m, k, v) = DOMAIN m \cup {k}
         /\ \A l \in DOMAIN m \cup {k} : Put(m, k, v)[l] = IF l = k THEN v ELSE m[l]
BY DEF Put

\* A map of strings, and finite.
Strings(m) ==
  /\ IsFiniteSet(DOMAIN m)
  /\ \A k \in DOMAIN m : k \in Seq(Char) /\ m[k] \in Seq(Byte)

LEMMA PutFits ==
  ASSUME NEW m, Strings(m), NEW k \in Seq(Char), NEW v \in Seq(Byte)
  PROVE  Strings(Put(m, k, v))
<1>1. IsFiniteSet(DOMAIN m \cup {k})
  <2> DEFINE D == DOMAIN m
  <2>1. IsFiniteSet(D)
    BY DEF Strings
  <2> HIDE DEF D
  <2>2. IsFiniteSet(D \cup {k})
    BY <2>1, FS_AddElement
  <2> QED BY <2>2 DEF D
<1>2. DOMAIN Put(m, k, v) = DOMAIN m \cup {k}
  BY PutIs
<1>3. ASSUME NEW l \in DOMAIN m \cup {k}
      PROVE  l \in Seq(Char) /\ Put(m, k, v)[l] \in Seq(Byte)
  <2>1. Put(m, k, v)[l] = IF l = k THEN v ELSE m[l]
    BY DEF Put
  <2> QED BY <2>1 DEF Strings
<1> QED BY <1>1, <1>2, <1>3 DEF Strings

\* A value that has been copied is a string, and not missing.
LEMMA StrIs ==
  ASSUME NEW s \in Seq(Char)
  PROVE  Str(s) \in Seq(Byte) /\ Str(s) # Null
<1>1. Char \subseteq Byte /\ 0 \in Byte
  BY DEF Char, Byte
<1>2. s \in Seq(Byte)
  BY <1>1, SeqMonotonic
<1>3. Append(s, 0) \in Seq(Byte) /\ Len(Append(s, 0)) = Len(s) + 1 /\ Len(s) \in Nat
  BY <1>1, <1>2, AppendProperties
<1>4. Append(s, 0) # <<>>
  BY <1>3, EmptySeq
<1> QED BY <1>3, <1>4 DEF Str, Null

LEMMA NullIs == Null \in Seq(Byte)
BY EmptySeq DEF Null
-----------------------------------------------------------------------------
(* Steps of the parser *)

\* The character the parser is at.
LEMMA CharAt ==
  ASSUME TypeOK, NEW s \in States, At(s)
  PROVE  c \in Char /\ ps.p \in 1 .. Len(text)
<1>1. Len(text) \in Nat /\ ps.p \in 1 .. Len(text)
  BY DEF TypeOK, At
<1> QED BY <1>1, CharIs DEF TypeOK, c

\* The parser goes on to the next character, with a state, a key and a value.
On(s, k, v) ==
  /\ ps' = [state |-> s, p |-> ps.p + 1, line |-> IF c = NL THEN ps.line + 1 ELSE ps.line,
            key |-> k, value |-> v]
  /\ UNCHANGED <<pc, data, index, ret, line_error, heap>> /\ Frame

\* States that do not need a key that fits, and those that do.
Free == {"space", "comment", "key", "value_skip"}
Keyed == {"key_sp", "value", "qt_value", "copy_value"}

Advance ==
  /\ pc = "parse" /\ ps.p \in 1 .. Len(text)
  /\ \/ \E s \in Free, k \in Seq(Char) : On(s, k, ps.value)
     \/ \E s \in Keyed, v \in Seq(Char) :
          (ps.state \in Keyed \/ Len(ps.key) <= KeyMax) /\ On(s, ps.key, v)

\* The parser takes an escaped quote.
Escape ==
  /\ pc = "parse" /\ ps.state = "qt_value" /\ ps.p \in 1 .. Len(text) /\ ps.p + 1 \in 1 .. Len(text)
  /\ text[ps.p] # NL /\ text[ps.p + 1] # NL
  /\ \E v \in Seq(Char) :
       ps' = [state |-> ps.state, p |-> ps.p + 2, line |-> ps.line, key |-> ps.key, value |-> v]
  /\ UNCHANGED <<pc, data, index, ret, line_error, heap>> /\ Frame

Refuse == pc = "parse" /\ ps.p \in 1 .. Len(text) /\ Fail(ps.line)

Inserting ==
  /\ pc = "parse" /\ ps.p \in 1 .. Len(text) /\ ps.state \in Keyed /\ c # NL
  /\ \E s \in Free : Insert(s)

CopyStarts ==
  /\ At("copy_value") /\ ps.p \in 1 .. Len(text) /\ c = SEMI
  /\ Reach(NotBefore(data, ps.value)) /\ UNCHANGED <<data, ret, line_error, heap>> /\ Frame

\* The moves of the parser are steps to the next character.
LEMMA Moves ==
  ASSUME TypeOK
  PROVE  /\ \A s \in States : Goto(s) /\ c # NL => On(s, ps.key, ps.value)
         /\ NextLine /\ c = NL => On("space", ps.key, ps.value)
         /\ \A s \in States, v \in Seq(Char) : Value(s, v) /\ c # NL => On(s, ps.key, v)
<1>1. ps \in [state : States, p : Nat \ {0}, line : Nat \ {0}, key : Seq(Char), value : Seq(Char)]
  BY DEF TypeOK
<1>2. ASSUME NEW s \in States, Goto(s), c # NL PROVE On(s, ps.key, ps.value)
  BY <1>1, <1>2 DEF Goto, On
<1>3. ASSUME NextLine, c = NL PROVE On("space", ps.key, ps.value)
  BY <1>1, <1>3 DEF NextLine, On
<1>4. ASSUME NEW s \in States, NEW v \in Seq(Char), Value(s, v), c # NL PROVE On(s, ps.key, v)
  BY <1>1, <1>4 DEF Value, On
<1> QED BY <1>2, <1>3, <1>4

\* A step of the parser does one of these.
LEMMA ParserStep ==
  ASSUME TypeOK, Parse
  PROVE  Advance \/ Escape \/ Refuse \/ Inserting \/ CopyStarts \/ ParseEnds
<1>r. ps \in [state : States, p : Nat \ {0}, line : Nat \ {0}, key : Seq(Char), value : Seq(Char)]
  BY DEF TypeOK
<1>n. /\ QT # NL /\ BSL # NL /\ SEMI # NL /\ SP # NL /\ TAB # NL /\ CR # NL /\ HASH # NL /\ AT # NL
      /\ NL \notin AChar
  BY DEF QT, NL, BSL, SEMI, SP, TAB, CR, HASH, AT, AChar
<1>s. Free \subseteq States /\ Keyed \subseteq States /\ "space" \in Free /\ "comment" \in Free /\ "key" \in Free
      /\ "value_skip" \in Free /\ "key_sp" \in Keyed /\ "value" \in Keyed /\ "qt_value" \in Keyed
      /\ "copy_value" \in Keyed
  BY DEF Free, Keyed, States
<1> SUFFICES ASSUME NEW z \in States, At(z), ps.state = z
             PROVE  \/ Space \/ Comment \/ Key \/ KeySp \/ PlainValue \/ QtValue \/ ValueSkip \/ CopyValue
                    => Advance \/ Escape \/ Refuse \/ Inserting \/ CopyStarts
  BY <1>s DEF Parse, Space, Comment, Key, KeySp, PlainValue, QtValue, ValueSkip, CopyValue, At, Free, Keyed
<1>c. pc = "parse" /\ c \in Char /\ ps.p \in 1 .. Len(text)
  BY CharAt DEF At
<1>m. /\ \A s \in States : Goto(s) /\ c # NL => On(s, ps.key, ps.value)
      /\ NextLine /\ c = NL => On("space", ps.key, ps.value)
      /\ \A s \in States, v \in Seq(Char) : Value(s, v) /\ c # NL => On(s, ps.key, v)
  BY Moves
<1>f. /\ \A s \in Free, k \in Seq(Char) : On(s, k, ps.value) => Advance
      /\ Fail(ps.line) => Refuse
      /\ z \in Keyed => \A s \in Keyed, v \in Seq(Char) : On(s, ps.key, v) => Advance
  BY <1>c DEF Advance, Refuse
<1>1. CASE Space
  <2>1. CASE /\ c \in AChar /\ ps' = [ps EXCEPT !.state = "key", !.p = @ + 1, !.key = <<c>>]
             /\ UNCHANGED <<pc, data, index, ret, line_error, heap>> /\ Frame
    <3>1. <<c>> \in Seq(Char)
      BY <1>c
    <3>2. On("key", <<c>>, ps.value)
      BY <1>r, <1>n, <2>1 DEF On
    <3> QED BY <1>f, <1>s, <3>1, <3>2
  <2>2. CASE c \in {SP, TAB, CR} /\ Goto("space")
    BY <1>r, <1>n, <1>m, <1>f, <1>s, <2>2
  <2>3. CASE c = HASH /\ Goto("comment")
    BY <1>r, <1>n, <1>m, <1>f, <1>s, <2>3
  <2>4. CASE c = NL /\ NextLine
    BY <1>r, <1>m, <1>f, <1>s, <2>4
  <2> QED BY <1>1, <1>f, <2>1, <2>2, <2>3, <2>4 DEF Space
<1>2. CASE Comment
  BY <1>2, <1>r, <1>m, <1>f, <1>s DEF Comment
<1>3. CASE Key
  <2>1. CASE /\ c \in AChar /\ ps' = [ps EXCEPT !.p = @ + 1, !.key = Append(@, c)]
             /\ UNCHANGED <<pc, data, index, ret, line_error, heap>> /\ Frame
    <3>1. Append(ps.key, c) \in Seq(Char)
      BY <1>c, <1>r
    <3>2. On("key", Append(ps.key, c), ps.value)
      BY <1>3, <1>r, <1>n, <2>1 DEF On, Key, At
    <3> QED BY <1>f, <1>s, <3>1, <3>2
  <2>2. CASE c \in {SP, TAB} /\ Goto("key_sp") /\ Len(ps.key) <= KeyMax
    <3>1. On("key_sp", ps.key, ps.value)
      BY <1>n, <1>m, <1>s, <2>2
    <3> QED BY <1>c, <1>r, <1>s, <2>2, <3>1 DEF Advance
  <2>3. Len(ps.key) \in Nat /\ KeyMax \in Nat
    BY <1>r, ConfigAssumption
  <2> QED BY <1>3, <1>f, <2>1, <2>2, <2>3 DEF Key, TooLong
<1>4. CASE KeySp
  <2>1. z \in Keyed /\ <<>> \in Seq(Char) /\ <<c>> \in Seq(Char)
    BY <1>4, <1>s, <1>c DEF KeySp, At
  <2> QED BY <1>4, <1>r, <1>m, <1>n, <1>f, <1>s, <2>1 DEF KeySp
<1>5. CASE PlainValue
  <2>1. z \in Keyed /\ Append(ps.value, c) \in Seq(Char)
    BY <1>5, <1>s, <1>c, <1>r DEF PlainValue, At
  <2> QED BY <1>5, <1>c, <1>r, <1>m, <1>n, <1>f, <1>s, <2>1 DEF PlainValue, Inserting
<1>6. CASE QtValue
  <2>1. z = "qt_value" /\ z \in Keyed /\ Append(ps.value, c) \in Seq(Char)
    BY <1>6, <1>s, <1>c, <1>r DEF QtValue, At
  <2>2. CASE /\ Escaped /\ ps' = [ps EXCEPT !.p = @ + 2, !.value = @ \o <<BSL, QT>>]
             /\ UNCHANGED <<pc, data, index, ret, line_error, heap>> /\ Frame
    <3>1. BSL \in Char /\ QT \in Char
      BY DEF BSL, QT, Char
    <3>2. ps.value \o <<BSL, QT>> \in Seq(Char)
      BY <1>r, <3>1
    <3>3. Len(text) \in Nat /\ text[ps.p] # NL /\ text[ps.p + 1] # NL /\ ps.p + 1 \in 1 .. Len(text)
      BY <1>c, <1>n, <2>2 DEF Escaped, c
    <3>4. \E v \in Seq(Char) :
            ps' = [state |-> ps.state, p |-> ps.p + 2, line |-> ps.line, key |-> ps.key, value |-> v]
      BY <1>r, <2>2, <3>2
    <3> QED BY <1>6, <1>c, <2>1, <2>2, <3>3, <3>4 DEF QtValue, At, Escape
  <2> QED BY <1>6, <1>c, <1>r, <1>m, <1>n, <1>f, <1>s, <2>1, <2>2 DEF QtValue, Inserting
<1>7. CASE ValueSkip
  BY <1>7, <1>r, <1>m, <1>n, <1>f, <1>s DEF ValueSkip
<1>8. CASE CopyValue
  <2>1. z = "copy_value" /\ z \in Keyed /\ Append(ps.value, c) \in Seq(Char)
    BY <1>8, <1>s, <1>c, <1>r DEF CopyValue, At
  <2> QED BY <1>8, <1>c, <1>r, <1>m, <1>n, <1>f, <1>s, <2>1 DEF CopyValue, CopyStarts
<1> QED BY <1>1, <1>2, <1>3, <1>4, <1>5, <1>6, <1>7, <1>8
-----------------------------------------------------------------------------
(* The steps keep the invariant *)

\* The line of the next place.
LEMMA LineNext ==
  ASSUME TypeOK, Parsing, InLoop, ps.p \in 1 .. Len(text)
  PROVE  /\ Len(text) \in Nat /\ ps.line \in Nat /\ (ps.p + 1) - 1 = ps.p
         /\ 1 + Newlines(SubSeq(text, 1, ps.p)) = IF c = NL THEN ps.line + 1 ELSE ps.line
<1>1. Len(text) \in Nat /\ ps.line \in Nat /\ text \in Seq(Char) /\ (ps.p + 1) - 1 = ps.p
  BY DEF TypeOK
<1>2. ps.line = 1 + Newlines(SubSeq(text, 1, ps.p - 1))
  BY DEF Parsing
<1>3. /\ Newlines(SubSeq(text, 1, ps.p - 1)) \in Nat
      /\ Newlines(SubSeq(text, 1, ps.p)) =
           IF text[ps.p] = NL THEN Newlines(SubSeq(text, 1, ps.p - 1)) + 1
                              ELSE Newlines(SubSeq(text, 1, ps.p - 1))
  BY <1>1, NewlineNext
<1> QED BY <1>1, <1>2, <1>3 DEF c

\* The parser at a character more.
LEMMA AdvanceKeeps ==
  ASSUME IInv, Advance
  PROVE  IInv'
<1>t. TypeOK /\ Parsing /\ Kept
  BY DEF IInv
<1>p. pc = "parse" /\ ps.p \in 1 .. Len(text) /\ InLoop
  BY DEF Advance, InLoop
<1>l. /\ Len(text) \in Nat /\ ps.line \in Nat /\ (ps.p + 1) - 1 = ps.p
      /\ 1 + Newlines(SubSeq(text, 1, ps.p)) = IF c = NL THEN ps.line + 1 ELSE ps.line
  BY <1>t, <1>p, LineNext
<1>1. PICK s \in States, k \in Seq(Char), v \in Seq(Char) :
        On(s, k, v) /\ (s \in Keyed => Len(k) <= KeyMax)
  <2>1. ps.key \in Seq(Char) /\ ps.value \in Seq(Char) /\ ps.state \in States
    BY <1>t DEF TypeOK
  <2>2. Free \subseteq States /\ Keyed \subseteq States /\ Free \cap Keyed = {}
    BY DEF Free, Keyed, States
  <2>3. ps.state \in Keyed => Len(ps.key) <= KeyMax
    BY <1>t, <1>p DEF Parsing, Keyed
  <2> QED BY <2>1, <2>2, <2>3 DEF Advance
<1>2. /\ ps'.state = s /\ ps'.p = ps.p + 1 /\ ps'.line = (IF c = NL THEN ps.line + 1 ELSE ps.line)
      /\ ps'.key = k /\ ps'.value = v
      /\ ps' \in [state : States, p : Nat \ {0}, line : Nat \ {0}, key : Seq(Char), value : Seq(Char)]
  BY <1>1, <1>t, <1>p, <1>l DEF On, TypeOK
<1>3. /\ pc' = "parse" /\ data' = data /\ index' = index /\ ret' = ret /\ line_error' = line_error
      /\ heap' = heap /\ input' = input /\ mode' = mode /\ text' = text /\ tok' = tok /\ str_err' = str_err
  BY <1>1, <1>p DEF On, Frame
<1>4. TypeOK'
  BY <1>t, <1>2, <1>3 DEF TypeOK
<1>5. Parsing'
  <2>1. line_error' = 0
    BY <1>t, <1>p, <1>3 DEF Parsing
  <2>2. ps'.p <= Len(text') + 1
    BY <1>p, <1>l, <1>2, <1>3
  <2>3. ps'.line = 1 + Newlines(SubSeq(text', 1, ps'.p - 1))
    BY <1>l, <1>2, <1>3
  <2>4. ps'.state \in {"key_sp", "value", "qt_value", "copy_value"} => Len(ps'.key) <= KeyMax
    BY <1>1, <1>2 DEF Keyed
  <2> QED BY <2>1, <2>2, <2>3, <2>4 DEF Parsing
<1>6. Copying' /\ Kept' /\ Callers' /\ ErrorInv'
  BY <1>t, <1>p, <1>3 DEF Copying, Kept, Callers, ErrorInv
<1> QED BY <1>4, <1>5, <1>6 DEF IInv

LEMMA EscapeKeeps ==
  ASSUME IInv, Escape
  PROVE  IInv'
<1>t. TypeOK /\ Parsing /\ Kept
  BY DEF IInv
<1>p. pc = "parse" /\ ps.p \in 1 .. Len(text) /\ ps.p + 1 \in 1 .. Len(text) /\ InLoop
  BY DEF Escape, InLoop
<1>l. /\ Len(text) \in Nat /\ ps.line \in Nat
      /\ ps.line = 1 + Newlines(SubSeq(text, 1, ps.p + 1))
  <2>1. Len(text) \in Nat /\ ps.line \in Nat /\ 1 + Newlines(SubSeq(text, 1, ps.p)) = ps.line
    BY <1>t, <1>p, LineNext DEF Escape, c
  <2>2. /\ Newlines(SubSeq(text, 1, (ps.p + 1) - 1)) \in Nat
        /\ Newlines(SubSeq(text, 1, ps.p + 1)) = Newlines(SubSeq(text, 1, (ps.p + 1) - 1))
    BY <1>t, <1>p, NewlineNext DEF Escape, TypeOK
  <2>3. (ps.p + 1) - 1 = ps.p
    BY <1>p, <2>1
  <2> QED BY <2>1, <2>2, <2>3
<1>1. PICK v \in Seq(Char) :
        ps' = [state |-> ps.state, p |-> ps.p + 2, line |-> ps.line, key |-> ps.key, value |-> v]
  BY DEF Escape
<1>2. /\ ps'.state = ps.state /\ ps'.p = ps.p + 2 /\ ps'.line = ps.line /\ ps'.key = ps.key
      /\ ps' \in [state : States, p : Nat \ {0}, line : Nat \ {0}, key : Seq(Char), value : Seq(Char)]
  BY <1>1, <1>t, <1>p DEF TypeOK
<1>3. /\ pc' = "parse" /\ data' = data /\ index' = index /\ ret' = ret /\ line_error' = line_error
      /\ heap' = heap /\ input' = input /\ mode' = mode /\ text' = text /\ tok' = tok /\ str_err' = str_err
  BY <1>p DEF Escape, Frame
<1>4. TypeOK'
  BY <1>t, <1>2, <1>3 DEF TypeOK
<1>5. Parsing'
  <2>1. line_error' = 0 /\ (ps'.state \in {"key_sp", "value", "qt_value", "copy_value"} => Len(ps'.key) <= KeyMax)
    BY <1>t, <1>p, <1>2, <1>3 DEF Parsing
  <2>2. ps'.p - 1 = ps.p + 1 /\ ps'.p <= Len(text') + 1
    BY <1>p, <1>l, <1>2, <1>3
  <2>3. ps'.line = 1 + Newlines(SubSeq(text', 1, ps'.p - 1))
    BY <1>l, <1>2, <1>3, <2>2
  <2> QED BY <2>1, <2>2, <2>3 DEF Parsing
<1>6. Copying' /\ Kept' /\ Callers' /\ ErrorInv'
  BY <1>t, <1>p, <1>3 DEF Copying, Kept, Callers, ErrorInv
<1> QED BY <1>4, <1>5, <1>6 DEF IInv

\* The ways out of the loop: a syntax error, a failed allocation, the end.
LEMMA RefuseKeeps ==
  ASSUME IInv, Refuse
  PROVE  IInv'
<1>1. /\ TypeOK /\ Parsing /\ Kept
      /\ pc = "parse" /\ ps.p \in 1 .. Len(text) /\ InLoop
  BY DEF IInv, Refuse, InLoop
<1>2. /\ pc' = "return" /\ ret' = ERROR /\ line_error' = ps.line /\ heap' = heap \ {"src"}
      /\ ps' = ps /\ data' = data /\ index' = index /\ input' = input /\ mode' = mode
      /\ text' = text /\ tok' = tok /\ str_err' = str_err
  BY DEF Refuse, Fail, Return, Frame
<1>3. TypeOK'
  BY <1>1, <1>2 DEF TypeOK
<1>4. ErrorInv'
  <2>1. Len(text) \in Nat /\ ps.p <= Len(text) /\ ps.line = 1 + Newlines(SubSeq(text, 1, ps.p - 1))
    BY <1>1 DEF Parsing, TypeOK
  <2> QED BY <1>2, <2>1 DEF ErrorInv
<1>5. ret' # OK
  BY <1>2 DEF OK, ERROR
<1>6. Parsing' /\ Copying' /\ Kept' /\ Callers'
  BY <1>1, <1>2, <1>5 DEF Parsing, InLoop, Copying, Kept, Callers
<1> QED BY <1>3, <1>4, <1>6 DEF IInv

LEMMA EndsKeeps ==
  ASSUME IInv, ParseEnds
  PROVE  IInv'
<1>1. TypeOK /\ Parsing /\ Kept /\ pc = "parse" /\ InLoop
  BY DEF IInv, ParseEnds, InLoop
<1>2. /\ pc' = "return" /\ ret' = OK /\ line_error' = line_error /\ heap' = heap \ {"src"}
      /\ ps' = ps /\ data' = data /\ index' = index /\ input' = input /\ mode' = mode
      /\ text' = text /\ tok' = tok /\ str_err' = str_err
  BY DEF ParseEnds, Return, LoadFrame
<1>3. TypeOK'
  BY <1>1, <1>2 DEF TypeOK
<1>4. line_error' = 0
  BY <1>1, <1>2 DEF Parsing
<1>5. Parsing' /\ Copying' /\ Kept' /\ Callers' /\ ErrorInv'
  BY <1>1, <1>2, <1>4 DEF Parsing, InLoop, Copying, Kept, Callers, ErrorInv
<1> QED BY <1>3, <1>5 DEF IInv

\* What is not text, ps or data keeps its type when it gets a value of its type;
\* the new map fits.
LEMMA InsertKeeps ==
  ASSUME IInv, Inserting
  PROVE  IInv'
<1>t. TypeOK /\ Parsing /\ Kept
  BY DEF IInv
<1>p. pc = "parse" /\ ps.p \in 1 .. Len(text) /\ InLoop /\ c # NL /\ ps.state \in Keyed
  BY DEF Inserting, InLoop
<1>k. /\ ps.key \in Seq(Char) /\ ps.value \in Seq(Char) /\ Strings(data)
      /\ Str(ps.value) \in Seq(Byte) /\ Str(ps.value) # Null /\ Null \in Seq(Byte)
  BY <1>t, <1>p, StrIs, NullIs DEF TypeOK, Parsing, Keyed, Strings, Kept
<1>1. PICK s \in Free : Insert(s)
  BY DEF Inserting
<1>2. CASE /\ data' = Put(data, ps.key, Str(ps.value))
           /\ ps' = [ps EXCEPT !.state = s, !.p = @ + 1]
           /\ UNCHANGED <<pc, index, ret, line_error, heap>> /\ Frame
  <2>l. /\ Len(text) \in Nat /\ ps.line \in Nat /\ (ps.p + 1) - 1 = ps.p
        /\ 1 + Newlines(SubSeq(text, 1, ps.p)) = ps.line
    BY <1>t, <1>p, LineNext
  <2>1. s \in States /\ s \notin Keyed
    BY DEF Free, Keyed, States
  <2>2. ps' = [state |-> s, p |-> ps.p + 1, line |-> ps.line, key |-> ps.key, value |-> ps.value]
    BY <1>2, <1>t DEF TypeOK
  <2>3. /\ ps'.state = s /\ ps'.p = ps.p + 1 /\ ps'.line = ps.line
        /\ ps' \in [state : States, p : Nat \ {0}, line : Nat \ {0}, key : Seq(Char), value : Seq(Char)]
    BY <1>t, <1>p, <2>1, <2>2 DEF TypeOK
  <2>4. /\ pc' = "parse" /\ index' = index /\ ret' = ret /\ line_error' = line_error
        /\ heap' = heap /\ input' = input /\ mode' = mode /\ text' = text /\ tok' = tok /\ str_err' = str_err
    BY <1>2, <1>p DEF Frame
  <2>5. Strings(data')
    BY <1>2, <1>k, PutFits
  <2>6. Kept'
    <3>1. mode # "test" => \A l \in DOMAIN data : data[l] # Null
      BY <1>t, <1>p DEF Kept
    <3>2. mode # "test" => \A l \in DOMAIN data' : data'[l] # Null
      BY <1>2, <1>k, <3>1 DEF Put
    <3> QED BY <2>4, <2>5, <3>2 DEF Kept, Strings
  <2>7. TypeOK'
    BY <1>t, <2>3, <2>4, <2>5 DEF TypeOK, Strings
  <2>8. Parsing'
    <3>1. line_error' = 0
      BY <1>t, <1>p, <2>4 DEF Parsing
    <3>2. ps'.line = 1 + Newlines(SubSeq(text', 1, ps'.p - 1)) /\ ps'.p <= Len(text') + 1
      BY <1>p, <2>l, <2>3, <2>4
    <3> QED BY <2>1, <2>3, <3>1, <3>2 DEF Parsing, Keyed
  <2>9. Copying' /\ Callers' /\ ErrorInv'
    BY <2>4 DEF Copying, Callers, ErrorInv
  <2> QED BY <2>6, <2>7, <2>8, <2>9 DEF IInv
<1>3. CASE /\ Return(ERROR, line_error)
           /\ data' \in {data, Put(data, ps.key, Null)}
           /\ UNCHANGED <<ps, index>> /\ Frame
  <2>1. /\ pc' = "return" /\ ret' = ERROR /\ line_error' = 0 /\ heap' = heap \ {"src"}
        /\ ps' = ps /\ index' = index /\ input' = input /\ mode' = mode
        /\ text' = text /\ tok' = tok /\ str_err' = str_err
    BY <1>3, <1>t, <1>p DEF Return, Frame, Parsing
  <2>2. Strings(data')
    BY <1>3, <1>k, PutFits
  <2>3. TypeOK'
    BY <1>t, <2>1, <2>2 DEF TypeOK, Strings
  <2>4. ret' # OK
    BY <2>1 DEF OK, ERROR
  <2>5. Kept' /\ Parsing' /\ Copying' /\ Callers' /\ ErrorInv'
    BY <2>1, <2>2, <2>4 DEF Kept, Strings, Parsing, InLoop, Copying, Callers, ErrorInv
  <2> QED BY <2>3, <2>5 DEF IInv
<1> QED BY <1>1, <1>2, <1>3 DEF Insert
-----------------------------------------------------------------------------
(* The copy loop *)

\* Where a look for the next entry leads: to one under the prefix, or on.
LEMMA ReachIs ==
  ASSUME TypeOK, NEW S, IsFiniteSet(S), S \subseteq Seq(Char), Reach(S)
  PROVE  \/ /\ pc' = "parse" /\ index' = <<>>
            /\ ps' = [state |-> "space", p |-> ps.p + 1, line |-> ps.line, key |-> ps.key, value |-> ps.value]
         \/ pc' = "copy" /\ index' \in S /\ IsPrefix(ps.value, index') /\ ps' = ps
<1>1. CASE S = {} \/ ~IsPrefix(ps.value, First(S))
  <2>1. pc' = "parse" /\ index' = <<>> /\ ps' = [ps EXCEPT !.state = "space", !.p = @ + 1]
    BY <1>1 DEF Reach
  <2> QED BY <2>1 DEF TypeOK
<1>2. CASE S # {} /\ IsPrefix(ps.value, First(S))
  <2>1. pc' = "copy" /\ index' = First(S) /\ ps' = ps
    BY <1>2 DEF Reach
  <2> QED BY <1>2, <2>1, FirstIs
<1> QED BY <1>1, <1>2

\* Going on to an entry, or past the directive, with a map that fits.
LEMMA ReachKeeps ==
  ASSUME IInv, InLoop, ps.state = "copy_value", ps.p \in 1 .. Len(text), c = SEMI,
         Strings(data'), mode # "test" => \A k \in DOMAIN data' : data'[k] # Null,
         NEW S, S \subseteq DOMAIN data', Reach(S),
         UNCHANGED <<ret, line_error, heap>>, Frame
  PROVE  IInv'
<1>t. TypeOK /\ Parsing
  BY DEF IInv
<1>s. IsFiniteSet(S) /\ S \subseteq Seq(Char)
  <2> DEFINE D == DOMAIN data'
  <2>1. IsFiniteSet(D) /\ D \subseteq Seq(Char) /\ S \subseteq D
    BY DEF Strings
  <2> HIDE DEF D
  <2> QED BY <2>1, FS_Subset
<1>f. /\ ret' = ret /\ line_error' = 0 /\ heap' = heap /\ input' = input /\ mode' = mode
      /\ text' = text /\ tok' = tok /\ str_err' = str_err
  BY <1>t DEF Frame, Parsing
<1>l. /\ Len(text) \in Nat /\ ps.line \in Nat /\ (ps.p + 1) - 1 = ps.p
      /\ 1 + Newlines(SubSeq(text, 1, ps.p)) = ps.line
  <2>1. SEMI # NL
    BY DEF SEMI, NL
  <2> QED BY <1>t, <2>1, LineNext
<1>1. CASE /\ pc' = "parse" /\ index' = <<>>
           /\ ps' = [state |-> "space", p |-> ps.p + 1, line |-> ps.line, key |-> ps.key, value |-> ps.value]
  <2>1. /\ ps'.state = "space" /\ ps'.p = ps.p + 1 /\ ps'.line = ps.line
        /\ ps' \in [state : States, p : Nat \ {0}, line : Nat \ {0}, key : Seq(Char), value : Seq(Char)]
    BY <1>t, <1>l, <1>1 DEF TypeOK, States
  <2>2. index' \in Seq(Char)
    BY <1>1, EmptySeq
  <2>3. TypeOK'
    BY <1>t, <1>f, <1>1, <2>1, <2>2 DEF TypeOK, Strings
  <2>4. ps'.line = 1 + Newlines(SubSeq(text', 1, ps'.p - 1)) /\ ps'.p <= Len(text') + 1
    BY <1>f, <1>l, <2>1
  <2>5. Parsing' /\ Copying' /\ Callers' /\ ErrorInv' /\ Kept'
    BY <1>f, <1>1, <2>1, <2>4 DEF Parsing, Copying, Callers, ErrorInv, Kept, Strings
  <2> QED BY <2>3, <2>5 DEF IInv
<1>2. CASE pc' = "copy" /\ index' \in S /\ IsPrefix(ps.value, index') /\ ps' = ps
  <2>1. TypeOK'
    BY <1>t, <1>s, <1>f, <1>2 DEF TypeOK, Strings
  <2>2. Parsing' /\ Copying'
    BY <1>t, <1>f, <1>2 DEF Parsing, InLoop, Copying, c
  <2>3. Callers' /\ ErrorInv' /\ Kept'
    BY <1>f, <1>2 DEF Callers, ErrorInv, Kept, Strings
  <2> QED BY <2>1, <2>2, <2>3 DEF IInv
<1> QED BY <1>t, <1>s, <1>1, <1>2, ReachIs

LEMMA CopyStartsKeeps ==
  ASSUME IInv, CopyStarts
  PROVE  IInv'
<1>1. /\ InLoop /\ ps.state = "copy_value" /\ ps.p \in 1 .. Len(text) /\ c = SEMI /\ pc = "parse"
      /\ Reach(NotBefore(data, ps.value)) /\ UNCHANGED <<data, ret, line_error, heap>> /\ Frame
  BY DEF CopyStarts, At, InLoop
<1>2. Strings(data') /\ (mode # "test" => \A k \in DOMAIN data' : data'[k] # Null)
  BY <1>1 DEF IInv, TypeOK, Kept, Strings
<1>3. NotBefore(data, ps.value) \subseteq DOMAIN data'
  BY <1>1 DEF NotBefore
<1> QED BY <1>1, <1>2, <1>3, ReachKeeps

\* The key that is built is a string.
LEMMA NewKeyIs ==
  ASSUME TypeOK
  PROVE  NewKey \in Seq(Char)
<1>1. ps.key \in Seq(Char) /\ ps.value \in Seq(Char) /\ index \in Seq(Char)
      /\ Len(ps.value) + 1 \in Int /\ Len(index) \in Int
  BY DEF TypeOK
<1>2. \A i \in Len(ps.value) + 1 .. Len(index) : index[i] \in Char
  <2>1. Len(ps.value) \in Nat
    BY <1>1
  <2>2. \A i \in Len(ps.value) + 1 .. Len(index) : i \in 1 .. Len(index)
    BY <1>1, <2>1
  <2> QED BY <1>1, <2>2, CharIs
<1>3. SubSeq(index, Len(ps.value) + 1, Len(index)) \in Seq(Char)
  BY <1>1, <1>2, SubSeqProperties
<1> QED BY <1>1, <1>3, ConcatProperties DEF NewKey

\* What the invariant says inside the copy loop.
LEMMA InCopy ==
  ASSUME IInv, pc = "copy"
  PROVE  /\ TypeOK /\ Parsing /\ InLoop /\ Strings(data) /\ line_error = 0
         /\ index \in DOMAIN data /\ ps.state = "copy_value" /\ ps.p \in 1 .. Len(text) /\ c = SEMI
         /\ mode # "test" => \A k \in DOMAIN data : data[k] # Null
         /\ NewKey \in Seq(Char) /\ data[index] \in Seq(Byte)
<1>1. TypeOK /\ Parsing /\ InLoop /\ Copying /\ Kept
  BY DEF IInv, InLoop
<1>2. Strings(data) /\ (mode # "test" => \A k \in DOMAIN data : data[k] # Null)
  BY <1>1 DEF Strings, Kept, TypeOK
<1>3. ps.p \in 1 .. Len(text)
  <2>1. ps.p \in Nat \ {0} /\ Len(text) \in Nat /\ ps.p <= Len(text)
    BY <1>1 DEF Copying, TypeOK
  <2> QED BY <2>1
<1> QED BY <1>1, <1>2, <1>3, NewKeyIs DEF Copying, Parsing, TypeOK, c

LEMMA CopyKeeps ==
  ASSUME IInv, Copy
  PROVE  IInv'
<1>1. /\ pc = "copy" /\ data[index] # Null
      /\ data' = Put(data, NewKey, data[index]) /\ Reach(After(data', index))
      /\ UNCHANGED <<ret, line_error, heap>> /\ Frame
  BY DEF Copy
<1>2. /\ TypeOK /\ InLoop /\ Strings(data)
      /\ ps.state = "copy_value" /\ ps.p \in 1 .. Len(text) /\ c = SEMI
      /\ mode # "test" => \A k \in DOMAIN data : data[k] # Null
      /\ NewKey \in Seq(Char) /\ data[index] \in Seq(Byte)
  BY <1>1, InCopy
<1>3. Strings(data')
  BY <1>1, <1>2, PutFits
<1>4. mode # "test" => \A k \in DOMAIN data' : data'[k] # Null
  BY <1>1, <1>2 DEF Put
<1>5. After(data', index) \subseteq DOMAIN data'
  BY DEF After
<1> QED BY <1>1, <1>2, <1>3, <1>4, <1>5, ReachKeeps

LEMMA CopyEndsKeeps ==
  ASSUME IInv, CopyOverruns \/ CopyCrashes \/ CopyFails
  PROVE  IInv'
<1>1. pc = "copy"
  BY DEF CopyOverruns, CopyCrashes, CopyFails
<1>2. /\ TypeOK /\ Strings(data) /\ line_error = 0 /\ index \in DOMAIN data
      /\ mode # "test" => \A k \in DOMAIN data : data[k] # Null
      /\ NewKey \in Seq(Char)
  BY <1>1, InCopy
<1>3. CASE CopyOverruns \/ CopyCrashes
  <2>1. /\ pc' \in {"overrun", "crash"} /\ ret' = ret /\ line_error' = line_error /\ heap' = heap
        /\ ps' = ps /\ data' = data /\ index' = index /\ input' = input /\ mode' = mode
        /\ text' = text /\ tok' = tok /\ str_err' = str_err
    BY <1>3 DEF CopyOverruns, CopyCrashes, Frame
  <2>2. TypeOK'
    BY <1>2, <2>1 DEF TypeOK, Strings
  <2>3. Kept' /\ Parsing' /\ Copying' /\ ErrorInv'
    BY <1>2, <2>1 DEF Kept, Strings, Parsing, InLoop, Copying, ErrorInv
  <2>4. Callers'
    BY <1>2, <1>3, <2>1 DEF Callers, CopyOverruns, CopyCrashes
  <2> QED BY <2>2, <2>3, <2>4 DEF IInv
<1>4. CASE CopyFails
  <2>1. /\ pc' = "return" /\ ret' = ERROR /\ line_error' = 0 /\ heap' = heap \ {"src"}
        /\ ps' = ps /\ index' = index /\ input' = input /\ mode' = mode
        /\ text' = text /\ tok' = tok /\ str_err' = str_err
    BY <1>2, <1>4 DEF CopyFails, Return, Frame
  <2>2. Strings(data')
    <3>1. data' \in {data, Put(data, NewKey, Null)}
      BY <1>4 DEF CopyFails
    <3> QED BY <1>2, <3>1, NullIs, PutFits
  <2>3. TypeOK'
    BY <1>2, <2>1, <2>2 DEF TypeOK, Strings
  <2>4. ret' # OK
    BY <2>1 DEF OK, ERROR
  <2>5. Kept' /\ Parsing' /\ Copying' /\ Callers' /\ ErrorInv'
    BY <2>1, <2>2, <2>4 DEF Kept, Strings, Parsing, InLoop, Copying, Callers, ErrorInv
  <2> QED BY <2>3, <2>5 DEF IInv
<1> QED BY <1>3, <1>4
-----------------------------------------------------------------------------
(* The callers, and the buffers *)

LEMMA StartKeeps ==
  ASSUME IInv, Start
  PROVE  IInv'
<1>t. TypeOK /\ Kept /\ pc = "load"
  BY DEF IInv, Start, OpenFails, SrcFails, ConfFails, ReadFails, Load
<1>1. CASE Load
  <2>1. /\ pc' = "parse" /\ ps' = Begun /\ line_error' = 0 /\ ret' = ret
        /\ heap' = heap \cup {"src", "conf"} /\ data' = data /\ index' = index
        /\ input' = input /\ mode' = mode /\ text' = text /\ tok' = tok /\ str_err' = str_err
    BY <1>1 DEF Load, LoadFrame
  <2>2. /\ Begun \in [state : States, p : Nat \ {0}, line : Nat \ {0}, key : Seq(Char), value : Seq(Char)]
        /\ Begun.p = 1 /\ Begun.line = 1 /\ Begun.state = "space"
    BY EmptySeq DEF Begun, States
  <2>3. TypeOK'
    BY <1>t, <2>1, <2>2 DEF TypeOK
  <2>4. Newlines(SubSeq(text, 1, 0)) = 0
    <3>1. SubSeq(text, 1, 0) = <<>>
      BY SubSeqEmpty
    <3>2. {i \in 1 .. Len(<<>>) : <<>>[i] = NL} = {}
      BY EmptySeq
    <3> QED BY <3>1, <3>2, FS_EmptySet DEF Newlines
  <2>5. ps'.line = 1 + Newlines(SubSeq(text', 1, ps'.p - 1)) /\ ps'.p <= Len(text') + 1
    <3>1. Len(text) \in Nat
      BY <1>t DEF TypeOK
    <3>2. ps'.p - 1 = 0 /\ ps'.line = 1 /\ ps'.p = 1
      BY <2>1, <2>2
    <3> QED BY <2>1, <2>4, <3>1, <3>2
  <2>6. Parsing'
    BY <2>1, <2>2, <2>5 DEF Parsing
  <2>7. Kept' /\ Copying' /\ Callers' /\ ErrorInv'
    BY <1>t, <2>1 DEF Kept, Copying, Callers, ErrorInv
  <2> QED BY <2>3, <2>6, <2>7 DEF IInv
<1>2. CASE OpenFails \/ SrcFails \/ ConfFails \/ ReadFails
  <2>1. /\ pc' = "return" /\ ret' = ERROR /\ line_error' = 0
        /\ ps' = ps /\ data' = data /\ index' = index
        /\ input' = input /\ mode' = mode /\ text' = text /\ tok' = tok /\ str_err' = str_err
    BY <1>2 DEF OpenFails, SrcFails, ConfFails, ReadFails, LoadFrame
  <2>2. heap' \subseteq {"pool", "src", "conf"}
    BY <1>2, <1>t DEF OpenFails, SrcFails, ConfFails, ReadFails, TypeOK
  <2>3. TypeOK'
    BY <1>t, <2>1, <2>2 DEF TypeOK
  <2>4. ret' # OK
    BY <2>1 DEF OK, ERROR
  <2>5. Kept' /\ Parsing' /\ Copying' /\ Callers' /\ ErrorInv'
    BY <1>t, <2>1, <2>4 DEF Kept, Parsing, InLoop, Copying, Callers, ErrorInv
  <2> QED BY <2>3, <2>5 DEF IInv
<1> QED BY <1>1, <1>2 DEF Start

\* A map with nothing in it fits.
LEMMA NoMap ==
  ASSUME NEW m, m = [k \in {} |-> Null]
  PROVE  Strings(m) /\ DOMAIN m = {}
BY FS_EmptySet DEF Strings

LEMMA CallerKeeps ==
  ASSUME IInv, Caller
  PROVE  IInv'
<1>t. TypeOK /\ Kept /\ Callers
  BY DEF IInv
<1>0. pc \in {"new", "return", "ready", "next"} /\ pc' \in {"end", "load", "ready", "next"}
  BY DEF Caller, NewFails, New, NewReturns, Delete, Test, TestNote, TestLine, TestReturns
<1>1. pc' \notin {"parse", "copy", "return", "crash"}
  BY <1>0
<1>2. Parsing' /\ Copying' /\ ErrorInv'
  BY <1>1 DEF Parsing, InLoop, Copying, ErrorInv
<1>3. Callers'
  BY <1>t, <1>1 DEF Callers, Caller, NewFails, New, NewReturns, Delete, Test, TestNote, TestLine, TestReturns
<1>4. CASE NewFails \/ New \/ NewReturns \/ Test \/ TestNote
  <2>1. /\ ps' = ps /\ data' = data /\ index' = index /\ input' = input /\ mode' = mode
        /\ ret' = ret /\ line_error' = line_error /\ tok' = tok
        /\ heap' \subseteq {"pool", "src", "conf"}
    BY <1>4, <1>t DEF NewFails, New, NewReturns, Test, TestNote, TypeOK
  <2>2. text' \in Seq(Char)
    BY <1>4, <1>t DEF NewFails, New, NewReturns, Test, TestNote, TypeOK
  <2>3. str_err' \in Seq(Nat)
    <3>1. str_err \in Seq(Nat) /\ line_error \in Nat
      BY <1>t DEF TypeOK
    <3>2. str_err' = str_err \/ str_err' = Append(str_err, line_error)
      BY <1>4 DEF NewFails, New, NewReturns, Test, TestNote
    <3> QED BY <3>1, <3>2, AppendProperties
  <2>4. TypeOK'
    BY <1>t, <1>0, <2>1, <2>2, <2>3 DEF TypeOK
  <2>5. Kept'
    BY <1>4, <1>t, <2>1 DEF Kept, Callers, NewFails, New, NewReturns, Test, TestNote
  <2> QED BY <1>2, <1>3, <2>4, <2>5 DEF IInv
<1>5. CASE Delete \/ TestReturns
  <2>1. /\ ps' = ps /\ index' = index /\ input' = input /\ mode' = mode /\ text' = text
        /\ ret' = ret /\ line_error' = line_error /\ tok' = tok /\ str_err' = str_err
        /\ heap' \subseteq {"pool", "src", "conf"} /\ data' = [k \in {} |-> Null]
    BY <1>5, <1>t DEF Delete, TestReturns, TypeOK
  <2>2. Strings(data') /\ DOMAIN data' = {}
    BY <2>1, NoMap
  <2>3. TypeOK'
    BY <1>t, <1>0, <2>1, <2>2 DEF TypeOK
  <2>4. Kept'
    BY <2>2 DEF Kept, Strings
  <2> QED BY <1>2, <1>3, <2>3, <2>4 DEF IInv
<1>6. CASE TestLine
  <2>1. /\ ps' = ps /\ data' = data /\ index' = index /\ input' = input /\ mode' = mode
        /\ ret' = ret /\ line_error' = line_error /\ heap' = heap /\ str_err' = str_err
    BY <1>6 DEF TestLine
  <2>2. PICK b \in tok .. Len(input.text) + 1, e \in tok .. Len(input.text) + 1 :
          \/ text' = SubSeq(input.text, b, e - 1) /\ tok' = e + 1
          \/ UNCHANGED <<text, tok>>
    BY <1>6 DEF TestLine
  <2>3. tok \in Nat \ {0} /\ Len(input.text) \in Nat /\ input.text \in Seq(Char) /\ text \in Seq(Char)
    BY <1>t DEF TypeOK
  <2>4. SubSeq(input.text, b, e - 1) \in Seq(Char) /\ e + 1 \in Nat \ {0}
    <3>1. b \in Int /\ e - 1 \in Int /\ e + 1 \in Nat \ {0}
      BY <2>3
    <3>2. \A i \in b .. e - 1 : i \in 1 .. Len(input.text)
      BY <2>3
    <3>3. \A i \in b .. e - 1 : input.text[i] \in Char
      BY <2>3, <3>2, CharIs
    <3> QED BY <3>1, <3>3, SubSeqProperties
  <2>5. TypeOK'
    <3>1. text' \in Seq(Char) /\ tok' \in Nat \ {0}
      BY <2>2, <2>3, <2>4
    <3> QED BY <1>t, <1>0, <2>1, <3>1 DEF TypeOK
  <2>6. Kept'
    BY <1>t, <1>6, <2>1 DEF Kept, Callers, TestLine
  <2> QED BY <1>2, <1>3, <2>5, <2>6 DEF IInv
<1> QED BY <1>4, <1>5, <1>6 DEF Caller

LEMMA InitInv == Init => IInv
<1> SUFFICES ASSUME Init PROVE IInv
  OBVIOUS
<1>1. Strings(data) /\ DOMAIN data = {}
  BY NoMap DEF Init
<1>2. Begun \in [state : States, p : Nat \ {0}, line : Nat \ {0}, key : Seq(Char), value : Seq(Char)]
  BY EmptySeq DEF Begun, States
<1>3. text \in Seq(Char) /\ index \in Seq(Char) /\ str_err \in Seq(Nat) /\ input.text \in Seq(Char)
  BY EmptySeq, ConfigAssumption DEF Init
<1>4. TypeOK
  BY <1>1, <1>2, <1>3 DEF Init, TypeOK, OK
<1>5. Kept
  BY <1>1 DEF Kept, Strings
<1> QED BY <1>4, <1>5 DEF Init, IInv, Parsing, InLoop, Copying, Callers, ErrorInv

LEMMA NextInv == IInv /\ [Next]_vars => IInv'
<1> SUFFICES ASSUME IInv, [Next]_vars PROVE IInv'
  OBVIOUS
<1>1. CASE Caller
  BY <1>1, CallerKeeps
<1>2. CASE Start
  BY <1>2, StartKeeps
<1>3. CASE Parse
  <2>1. Advance \/ Escape \/ Refuse \/ Inserting \/ CopyStarts \/ ParseEnds
    BY <1>3, ParserStep DEF IInv
  <2> QED BY <2>1, AdvanceKeeps, EscapeKeeps, RefuseKeeps, InsertKeeps, CopyStartsKeeps, EndsKeeps
<1>4. CASE CopyLoop
  BY <1>4, CopyKeeps, CopyEndsKeeps DEF CopyLoop
<1>5. CASE UNCHANGED vars
  BY <1>5 DEF vars, IInv, TypeOK, Parsing, InLoop, Copying, Kept, Callers, ErrorInv
<1> QED BY <1>1, <1>2, <1>3, <1>4, <1>5 DEF Next
-----------------------------------------------------------------------------
(* The theorems *)

\* The invariant of config_new, config_test and the parser holds always.
THEOREM Invariance == Spec => []IInv
BY InitInv, NextInv, PTL DEF Spec

\* The parser, the map and the buffers keep their types.
THEOREM TypeCorrect == Spec => []TypeOK
<1>1. IInv => TypeOK
  BY DEF IInv
<1> QED BY Invariance, <1>1, PTL

\* For every text and every way to lay it out, an error names the line of the
\* character that was refused, and failures of memory name no line.
THEOREM ErrorsNameTheirLine == Spec => []LineOfError
<1>1. IInv => LineOfError
  BY DEF IInv, Parsing, InLoop, ErrorInv, LineOfError
<1> QED BY Invariance, <1>1, PTL

\* Whatever fails, a map that a caller of config_new gets has a value for every
\* key, and only config_test copies an entry that has none.
THEOREM MapsAreWhole == Spec => []MapWhole
<1>1. IInv => MapWhole
  BY DEF IInv, Callers, Kept, MapWhole
<1> QED BY Invariance, <1>1, PTL

\* config_test is given lines that all end in a newline.
Terminated == mode = "test" /\ input.text # <<>> /\ input.text[Len(input.text)] = NL

\* A line has been taken that has no result yet.
Loading == pc \in {"load", "parse", "copy", "return"}

LEMMA EndedIs ==
  ASSUME TypeOK
  PROVE  IsFiniteSet(Ended) /\ Cardinality(Ended) \in Nat
<1>1. tok \in Nat \ {0} /\ IsFiniteSet(1 .. tok - 1)
  BY FS_Interval DEF TypeOK
<1>2. Ended \subseteq 1 .. tok - 1
  BY DEF Ended
<1>3. IsFiniteSet(Ended)
  BY <1>1, <1>2, FS_Subset
<1> QED BY <1>3, FS_CardinalityType

\* The caller and its text stay the same.
LEMMA InputStays ==
  ASSUME [Next]_vars
  PROVE  input' = input /\ mode' = mode
BY DEF Next, vars, Caller, NewFails, New, NewReturns, Delete, Test, TestNote, TestLine, TestReturns,
       Start, OpenFails, SrcFails, ConfFails, ReadFails, Load, LoadFrame,
       Parse, Space, Comment, Key, KeySp, PlainValue, QtValue, ValueSkip, CopyValue, ParseEnds,
       Goto, NextLine, Value, Insert, Fail, Frame, CopyLoop, CopyOverruns, CopyCrashes, CopyFails, Copy

LEMMA NotedNext ==
  ASSUME IInv, Noted, [Next]_vars
  PROVE  Noted'
<1>t. TypeOK
  BY DEF IInv
<1>n. /\ tok \in Nat \ {0} /\ Len(input.text) \in Nat /\ Len(str_err) \in Nat
      /\ str_err \in Seq(Nat) /\ line_error \in Nat
  BY <1>t DEF TypeOK
<1>i. input' = input /\ mode' = mode
  BY InputStays
<1> SUFFICES ASSUME Terminated
             PROVE  /\ Len(str_err') + (IF Loading' THEN 1 ELSE 0) <= Cardinality(Ended')
                    /\ tok' <= Len(input.text) + 1
  BY <1>i DEF Noted, Terminated, Loading
<1>c. /\ Len(str_err) + (IF Loading THEN 1 ELSE 0) <= Cardinality(Ended)
      /\ tok <= Len(input.text) + 1
  BY DEF Noted, Terminated, Loading
<1>e. IsFiniteSet(Ended) /\ Cardinality(Ended) \in Nat
  BY <1>t, EndedIs
<1>1. CASE TestNote
  <2>1. /\ tok' = tok /\ str_err' = Append(str_err, line_error) /\ Loading /\ ~Loading'
    BY <1>1 DEF TestNote, Loading
  <2>2. Len(str_err') = Len(str_err) + 1
    BY <1>n, <2>1, AppendProperties
  <2>3. Ended' = Ended
    BY <1>i, <2>1 DEF Ended
  <2> QED BY <1>n, <1>c, <1>e, <2>1, <2>2, <2>3
<1>2. CASE TestLine
  <2>1. str_err' = str_err /\ ~Loading
    BY <1>2 DEF TestLine, Loading
  <2>2. PICK b \in tok .. Len(input.text) + 1, e \in tok .. Len(input.text) + 1 :
          /\ Token(b, e)
          /\ \/ pc' = "load" /\ tok' = e + 1
             \/ pc' = "end" /\ tok' = tok
    BY <1>2 DEF TestLine
  <2>3. CASE pc' = "load" /\ tok' = e + 1
    <3>1. e \in 1 .. Len(input.text) /\ input.text[e] = NL
      <4>1. CASE e = Len(input.text) + 1
        <5>1. Len(input.text) \in b .. e - 1
          BY <1>n, <2>2, <4>1 DEF Token
        <5>2. input.text[Len(input.text)] # NL
          BY <2>2, <5>1 DEF Token
        <5> QED BY <5>2 DEF Terminated
      <4>2. CASE e # Len(input.text) + 1
        <5>1. e \in 1 .. Len(input.text)
          BY <1>n, <4>2
        <5>2. e <= Len(input.text) => input.text[e] = NL
          BY <2>2 DEF Token
        <5> QED BY <5>1, <5>2
      <4> QED BY <4>1, <4>2
    <3>2. Ended \cup {e} \subseteq Ended' /\ e \notin Ended
      BY <1>n, <1>i, <2>3, <3>1, <2>2 DEF Ended
    <3>3. Cardinality(Ended \cup {e}) = Cardinality(Ended) + 1
      BY <1>e, <3>2, FS_AddElement
    <3>4. IsFiniteSet(Ended') /\ Cardinality(Ended') \in Nat
      <4>1. e \in Int /\ Ended' \subseteq 1 .. e
        BY <1>n, <1>i, <2>3, <3>1 DEF Ended
      <4>2. IsFiniteSet(1 .. e)
        BY <4>1, FS_Interval
      <4>3. IsFiniteSet(Ended')
        BY <4>1, <4>2, FS_Subset
      <4> QED BY <4>3, FS_CardinalityType
    <3>5. Cardinality(Ended \cup {e}) <= Cardinality(Ended')
      BY <3>2, <3>4, FS_Subset
    <3> QED BY <1>n, <1>c, <1>e, <2>1, <2>3, <3>1, <3>3, <3>4, <3>5
  <2>4. CASE pc' = "end" /\ tok' = tok
    <3>1. ~Loading' /\ Ended' = Ended
      BY <1>i, <2>4 DEF Loading, Ended
    <3> QED BY <1>n, <1>c, <1>e, <2>1, <2>4, <3>1
  <2> QED BY <2>2, <2>3, <2>4
<1>3. CASE ~TestNote /\ ~TestLine
  <2>1. tok' = tok /\ str_err' = str_err /\ (Loading' => Loading)
    BY <1>3 DEF Terminated, Loading, Next, vars, Caller, NewFails, New, NewReturns, Delete, Test, TestReturns,
         Start, OpenFails, SrcFails, ConfFails, ReadFails, Load, LoadFrame,
         Parse, Space, Comment, Key, KeySp, PlainValue, QtValue, ValueSkip, CopyValue, ParseEnds, At,
         Goto, NextLine, Value, Insert, Fail, Frame, CopyLoop, CopyOverruns, CopyCrashes, CopyFails, Copy
  <2>2. Ended' = Ended
    BY <1>i, <2>1 DEF Ended
  <2> QED BY <1>n, <1>c, <1>e, <2>1, <2>2
<1> QED BY <1>1, <1>2, <1>3

\* A text whose last line ends in a newline has a place in the result of
\* config_test for the error of each of its lines, empty ones among them.
THEOREM ResultsFit == Spec => []TestFits
<1>1. Init => Noted
  <2> SUFFICES ASSUME Init, input.text # <<>> PROVE Noted
    BY DEF Noted
  <2>1. input.text \in Seq(Char) /\ Len(str_err) = 0 /\ tok = 1 /\ ~Loading /\ Len(input.text) \in Nat
    BY ConfigAssumption, EmptySeq DEF Init, Loading
  <2>2. Ended = {}
    BY <2>1 DEF Ended
  <2>3. Cardinality(Ended) = 0
    BY <2>2, FS_EmptySet
  <2> QED BY <2>1, <2>3 DEF Noted, Loading
<1>2. IInv /\ Noted /\ [Next]_vars => Noted'
  BY NotedNext
<1>3. IInv /\ Noted => TestFits
  <2> SUFFICES ASSUME IInv, Noted, Terminated PROVE Len(str_err) <= Newlines(input.text)
    BY DEF TestFits, Terminated
  <2> DEFINE All == {i \in 1 .. Len(input.text) : input.text[i] = NL}
  <2>1. /\ Len(input.text) \in Nat /\ Len(str_err) \in Nat
        /\ IsFiniteSet(Ended) /\ Cardinality(Ended) \in Nat
    BY EndedIs DEF IInv, TypeOK
  <2>2. Len(str_err) <= Cardinality(Ended)
    BY <2>1 DEF Noted, Terminated
  <2>3. Ended \subseteq All /\ All \subseteq 1 .. Len(input.text)
    BY DEF Ended, IInv, TypeOK
  <2>4. Newlines(input.text) = Cardinality(All)
    BY DEF Newlines
  <2> HIDE DEF All
  <2>5. IsFiniteSet(All) /\ Cardinality(All) \in Nat
    <3>1. IsFiniteSet(1 .. Len(input.text))
      <4> DEFINE n == Len(input.text)
      <4>1. 1 \in Int /\ n \in Int
        BY <2>1
      <4> HIDE DEF n
      <4>2. IsFiniteSet(1 .. n)
        BY <4>1, FS_Interval
      <4> QED BY <4>2 DEF n
    <3>2. IsFiniteSet(All)
      BY <2>3, <3>1, FS_Subset
    <3> QED BY <3>2, FS_CardinalityType
  <2>6. Cardinality(Ended) <= Cardinality(All)
    BY <2>3, <2>5, FS_Subset
  <2> QED BY <2>1, <2>2, <2>4, <2>5, <2>6
<1> QED BY Invariance, <1>1, <1>2, <1>3, PTL DEF Spec
-----------------------------------------------------------------------------
(* What a text means *)

\* A stretch of a text with one character more, and with two.
LEMMA Grown ==
  ASSUME NEW t \in Seq(Char), NEW m \in Nat \ {0}, NEW p \in Nat, m <= p, p <= Len(t)
  PROVE  Append(SubSeq(t, m, p - 1), t[p]) = SubSeq(t, m, p)
<1>0. Len(t) \in Nat /\ m \in 1 .. Len(t) /\ p \in m .. Len(t) /\ p \in 1 .. Len(t) /\ p - 1 \in Int
  OBVIOUS
<1>1. \A j \in m .. p - 1 : t[j] \in Char
  BY <1>0, CharIs
<1>2. SubSeq(t, m, p - 1) \in Seq(Char)
  BY <1>0, <1>1, SubSeqProperties
<1>3. t[p] \in Char
  BY <1>0, CharIs
<1>4. Append(SubSeq(t, m, p - 1), t[p]) = SubSeq(t, m, p - 1) \o <<t[p]>>
  BY <1>2, <1>3, AppendIsConcat
<1>5. SubSeq(t, m, p) = SubSeq(t, m, p - 1) \o <<t[p]>>
  BY <1>0, SubSeqRecursiveSecond
<1> QED BY <1>4, <1>5

LEMMA GrownByTwo ==
  ASSUME NEW t \in Seq(Char), NEW m \in Nat \ {0}, NEW p \in Nat, m <= p, p + 1 <= Len(t)
  PROVE  SubSeq(t, m, p - 1) \o <<t[p], t[p + 1]>> = SubSeq(t, m, p + 1)
<1>0. /\ Len(t) \in Nat /\ m \in 1 .. Len(t) /\ p \in 1 .. Len(t) /\ p + 1 \in 1 .. Len(t)
      /\ p - 1 \in m - 1 .. Len(t) /\ p + 1 \in p - 1 .. Len(t) /\ (p - 1) + 1 = p
  OBVIOUS
<1>1. SubSeq(t, m, p - 1) \o SubSeq(t, p, p + 1) = SubSeq(t, m, p + 1)
  <2>1. m \in 1 .. Len(t) + 1
    BY <1>0
  <2>2. SubSeq(t, m, p - 1) \o SubSeq(t, (p - 1) + 1, p + 1) = SubSeq(t, m, p + 1)
    BY <1>0, <2>1, ConcatAdjacentSubSeq
  <2> QED BY <1>0, <2>2
<1>2. SubSeq(t, p, p + 1) = <<t[p], t[p + 1]>>
  <2>1. \A j \in p .. p + 1 : t[j] \in Char
    BY <1>0, CharIs
  <2>2. /\ SubSeq(t, p, p + 1) \in Seq(Char)
        /\ Len(SubSeq(t, p, p + 1)) = IF p <= p + 1 THEN (p + 1) - p + 1 ELSE 0
        /\ \A j \in 1 .. (p + 1) - p + 1 : SubSeq(t, p, p + 1)[j] = t[p + j - 1]
    BY <1>0, <2>1, SubSeqProperties
  <2>3. /\ Len(SubSeq(t, p, p + 1)) = 2
        /\ SubSeq(t, p, p + 1)[1] = t[p] /\ SubSeq(t, p, p + 1)[2] = t[p + 1]
    <3>1. (p + 1) - p + 1 = 2 /\ p <= p + 1 /\ p + 1 - 1 = p /\ p + 2 - 1 = p + 1
      OBVIOUS
    <3>2. 1 \in 1 .. 2 /\ 2 \in 1 .. 2
      OBVIOUS
    <3> QED BY <2>2, <3>1, <3>2
  <2>4. <<t[p], t[p + 1]>> \in Seq(Char) /\ Len(<<t[p], t[p + 1]>>) = 2
    BY <2>1
  <2>5. \A j \in 1 .. 2 : SubSeq(t, p, p + 1)[j] = <<t[p], t[p + 1]>>[j]
    BY <2>3
  <2> QED BY <2>2, <2>3, <2>4, <2>5, SeqEqual
<1> QED BY <1>1, <1>2

\* A stretch of one character.
LEMMA One ==
  ASSUME NEW t \in Seq(Char), NEW p \in 1 .. Len(t)
  PROVE  SubSeq(t, p, p) = <<t[p]>>
<1>1. SubSeq(t, p, p - 1) = <<>>
  BY SubSeqEmpty
<1>2. SubSeq(t, p, p) = SubSeq(t, p, p - 1) \o <<t[p]>>
  BY SubSeqRecursiveSecond
<1>3. <<t[p]>> \in Seq(Char)
  BY CharIs
<1>4. <<>> \o <<t[p]>> = <<t[p]>>
  BY <1>3, ConcatEmptySeq
<1> QED BY <1>1, <1>2, <1>4

\* The place after is in a comment unless the line ends.
LEMMA CommentNext ==
  ASSUME NEW t \in Seq(Char), NEW s \in Nat \ {0}, NEW p \in Nat, s <= p
  PROVE  InComment(t, s, p + 1) <=> (InComment(t, s, p) \/ t[p] = HASH) /\ t[p] # NL
<1>1. ASSUME NEW h \in s .. (p + 1) - 1, t[h] = HASH, \A i \in h .. (p + 1) - 1 : t[i] # NL
      PROVE  (InComment(t, s, p) \/ t[p] = HASH) /\ t[p] # NL
  <2>1. t[p] # NL
    BY <1>1
  <2>2. CASE h = p
    BY <1>1, <2>1, <2>2
  <2>3. CASE h # p
    <3>1. h \in s .. p - 1 /\ \A i \in h .. p - 1 : t[i] # NL
      BY <1>1, <2>3
    <3> QED BY <1>1, <2>1, <3>1 DEF InComment
  <2> QED BY <2>2, <2>3
<1>2. ASSUME NEW h \in s .. p - 1, t[h] = HASH, \A i \in h .. p - 1 : t[i] # NL, t[p] # NL
      PROVE  InComment(t, s, p + 1)
  <2>1. h \in s .. (p + 1) - 1 /\ \A i \in h .. (p + 1) - 1 : t[i] # NL
    BY <1>2
  <2> QED BY <1>2, <2>1 DEF InComment
<1>3. ASSUME t[p] = HASH, t[p] # NL PROVE InComment(t, s, p + 1)
  <2>1. p \in s .. (p + 1) - 1 /\ \A i \in p .. (p + 1) - 1 : t[i] # NL
    BY <1>3
  <2> QED BY <1>3, <2>1 DEF InComment
<1> QED BY <1>1, <1>2, <1>3 DEF InComment

\* No comment begins behind the place where one is looked for.
LEMMA NoComment ==
  ASSUME NEW t, NEW s \in Nat
  PROVE  ~InComment(t, s, s)
BY DEF InComment

\* The maps of some directives, one after the other.
LEMMA MapsAre ==
  ASSUME NEW ds, Len(ds) \in Nat
  PROVE  /\ Maps(ds)[0] = EmptyMap
         /\ \A n \in 1 .. Len(ds) : Maps(ds)[n] = Effect(Maps(ds)[n - 1], ds[n])
<1> DEFINE Upto(n, f) == f = [j \in 0 .. n |-> IF j = 0 THEN EmptyMap ELSE Effect(f[j - 1], ds[j])]
<1> DEFINE Bad == {n \in 0 .. Len(ds) : \A f : ~Upto(n, f)}
<1>1. ASSUME Bad # {} PROVE FALSE
  <2>1. Bad \subseteq Nat
    OBVIOUS
  <2>2. PICK n \in Bad : \A j \in Bad : n <= j
    <3> HIDE DEF Bad
    <3> QED BY <1>1, <2>1, LeastExists
  <2>3. n \in 0 .. Len(ds) /\ \A f : ~Upto(n, f)
    BY <2>2
  <2>4. CASE n = 0
    <3> DEFINE f == [j \in 0 .. 0 |-> EmptyMap]
    <3>1. Upto(0, f)
      OBVIOUS
    <3> QED BY <2>3, <2>4, <3>1
  <2>5. CASE n # 0
    <3>1. n - 1 \in 0 .. Len(ds) /\ n \in Nat /\ n - 1 \notin Bad
      <4>1. n - 1 \in 0 .. Len(ds) /\ n \in Nat /\ ~(n <= n - 1)
        BY <2>3, <2>5
      <4> HIDE DEF Bad
      <4> QED BY <2>2, <4>1
    <3>2. PICK f : Upto(n - 1, f)
      BY <3>1
    <3> DEFINE g == [j \in 0 .. n |-> IF j = n THEN Effect(f[n - 1], ds[n]) ELSE f[j]]
    <3>3. \A j \in 0 .. n - 1 : f[j] = IF j = 0 THEN EmptyMap ELSE Effect(f[j - 1], ds[j])
      BY <3>2
    <3>4. \A j \in 0 .. n : g[j] = IF j = n THEN Effect(f[n - 1], ds[n]) ELSE f[j]
      OBVIOUS
    <3>5. ASSUME NEW j \in 0 .. n PROVE g[j] = IF j = 0 THEN EmptyMap ELSE Effect(g[j - 1], ds[j])
      <4>1. CASE j = 0
        BY <2>5, <3>1, <3>3, <3>4, <4>1
      <4>2. CASE j # 0 /\ j # n
        <5>1. j \in 0 .. n - 1 /\ j - 1 \in 0 .. n /\ j - 1 # n
          BY <3>1, <4>2
        <5>2. g[j] = f[j] /\ g[j - 1] = f[j - 1]
          BY <3>4, <4>2, <5>1
        <5> HIDE DEF g
        <5> QED BY <3>3, <4>2, <5>1, <5>2
      <4>3. CASE j = n
        <5>1. n - 1 \in 0 .. n /\ n - 1 # n /\ n \in 0 .. n
          BY <3>1
        <5>2. g[n] = Effect(f[n - 1], ds[n]) /\ g[n - 1] = f[n - 1]
          BY <3>4, <5>1
        <5> HIDE DEF g
        <5> QED BY <2>5, <4>3, <5>2
      <4> QED BY <4>1, <4>2, <4>3
    <3>6. Upto(n, g)
      <4>1. g = [j \in 0 .. n |-> g[j]]
        OBVIOUS
      <4> HIDE DEF g
      <4> QED BY <3>5, <4>1
    <3> QED BY <2>3, <3>6
  <2> QED BY <2>4, <2>5
<1>2. \E f : Upto(Len(ds), f)
  BY <1>1
<1>3. Upto(Len(ds), CHOOSE f : Upto(Len(ds), f))
  BY <1>2
<1>4. Upto(Len(ds), Maps(ds))
  BY <1>3 DEF Maps
<1>5. \A j \in 0 .. Len(ds) : Maps(ds)[j] = IF j = 0 THEN EmptyMap ELSE Effect(Maps(ds)[j - 1], ds[j])
  BY <1>4
<1>6. 0 \in 0 .. Len(ds) /\ \A n \in 1 .. Len(ds) : n \in 0 .. Len(ds) /\ n # 0
  OBVIOUS
<1> QED BY <1>5, <1>6
-----------------------------------------------------------------------------
(* The copy of a prefix *)

\* The keys that a copy finds, and what it makes of one.
Under(m, d) == {k \in DOMAIN m : IsPrefix(d.value, k)}
Moved(d, k) == d.key \o SubSeq(k, Len(d.value) + 1, Len(k))

\* A directive, and a map whose keys are strings.
Directed(d) == d.key \in Seq(Char) /\ d.value \in Seq(Char)
Keys(m) == \A k \in DOMAIN m : k \in Seq(Char)

\* Between two strings with a prefix, in the order of the map, are only others
\* with it.
LEMMA BetweenPrefixed ==
  ASSUME NEW v \in Seq(Char), NEW a \in Seq(Char), NEW f \in Seq(Char), NEW k \in Seq(Char),
         IsPrefix(v, a), IsPrefix(v, k), a = f \/ Before(a, f), f = k \/ Before(f, k)
  PROVE  IsPrefix(v, f)
<1> SUFFICES ASSUME Before(a, f), Before(f, k) PROVE IsPrefix(v, f)
  OBVIOUS
<1>1. PICK n \in Nat : Parts(a, f, n)
  BY BeforeAt
<1>2. PICK m \in Nat : Parts(f, k, m)
  BY BeforeAt
<1>3. /\ Len(v) \in Nat /\ Len(a) \in Nat /\ Len(f) \in Nat /\ Len(k) \in Nat
      /\ Len(v) <= Len(a) /\ Len(v) <= Len(k)
      /\ \A j \in 1 .. Len(v) : a[j] = v[j] /\ k[j] = v[j]
  BY PrefixIs
<1>4. CASE n >= Len(v)
  <2>1. Len(v) <= Len(f) /\ \A j \in 1 .. Len(v) : v[j] = f[j]
    BY <1>1, <1>3, <1>4 DEF Parts
  <2> QED BY <2>1, PrefixIs
<1>5. CASE m >= Len(v)
  <2>1. Len(v) <= Len(f) /\ \A j \in 1 .. Len(v) : v[j] = f[j]
    BY <1>2, <1>3, <1>5 DEF Parts
  <2> QED BY <2>1, PrefixIs
<1>6. ASSUME n < Len(v), m < Len(v) PROVE FALSE
  <2>1. n # Len(a) /\ n < Len(f) /\ n + 1 \in 1 .. Len(v) /\ n + 1 \in 1 .. Len(f) /\ n + 1 \in 1 .. Len(a)
    BY <1>1, <1>3, <1>6 DEF Parts
  <2>2. v[n + 1] < f[n + 1]
    BY <1>1, <1>3, <2>1 DEF Parts
  <2>3. m + 1 \in 1 .. Len(v) /\ m + 1 \in 1 .. Len(k)
    BY <1>3, <1>6
  <2>4. m = Len(f) \/ f[m + 1] < v[m + 1]
    BY <1>2, <1>3, <2>3 DEF Parts
  <2>5. v[n + 1] \in Int /\ f[n + 1] \in Int /\ v[m + 1] \in Int
    BY <2>1, <2>3, CharIs
  <2>6. CASE n < m
    <3>1. n + 1 \in 1 .. m
      BY <2>6
    <3>2. f[n + 1] = k[n + 1]
      BY <1>2, <3>1 DEF Parts
    <3> QED BY <1>3, <2>1, <2>2, <2>5, <3>2
  <2>7. CASE n = m
    BY <2>1, <2>2, <2>4, <2>5, <2>7
  <2>8. CASE m < n
    <3>1. m + 1 \in 1 .. n /\ m # Len(f)
      BY <1>3, <2>1, <2>8
    <3>2. a[m + 1] = f[m + 1]
      BY <1>1, <3>1 DEF Parts
    <3> QED BY <1>3, <2>3, <2>4, <2>5, <3>1, <3>2
  <2> QED BY <2>6, <2>7, <2>8
<1> QED BY <1>3, <1>4, <1>5, <1>6

\* What a copy makes of a key: the rest, behind another beginning.
LEMMA MovedIs ==
  ASSUME NEW d, Directed(d), NEW k \in Seq(Char), IsPrefix(d.value, k)
  PROVE  /\ SubSeq(k, Len(d.value) + 1, Len(k)) \in Seq(Char)
         /\ k = d.value \o SubSeq(k, Len(d.value) + 1, Len(k))
         /\ Moved(d, k) \in Seq(Char) /\ IsPrefix(d.key, Moved(d, k))
<1> DEFINE n == Len(d.value)
<1> DEFINE r == SubSeq(k, n + 1, Len(k))
<1>1. d.key \in Seq(Char) /\ d.value \in Seq(Char) /\ n \in Nat /\ Len(k) \in Nat /\ n <= Len(k)
  BY PrefixIs DEF Directed
<1>2. r \in Seq(Char)
  <2>1. \A j \in n + 1 .. Len(k) : k[j] \in Char
    BY <1>1, CharIs
  <2>2. n + 1 \in Int
    BY <1>1
  <2> HIDE DEF n
  <2> QED BY <1>1, <2>1, <2>2, SubSeqProperties
<1>3. k = d.value \o r
  <2>1. SubSeq(k, 1, n) = d.value
    <3>1. SubSeq(d.value, 1, n) = d.value
      BY <1>1, SubSeqFull
    <3> QED BY <3>1 DEF IsPrefix
  <2> HIDE DEF n
  <2>2. 1 \in 1 .. Len(k) + 1 /\ n \in 1 - 1 .. Len(k) /\ Len(k) \in n .. Len(k)
    BY <1>1
  <2>3. SubSeq(k, 1, n) \o SubSeq(k, n + 1, Len(k)) = SubSeq(k, 1, Len(k))
    BY <2>2, ConcatAdjacentSubSeq
  <2>4. SubSeq(k, 1, Len(k)) = k
    BY SubSeqFull
  <2> QED BY <2>1, <2>3, <2>4
<1>4. Moved(d, k) = d.key \o r
  BY DEF Moved
<1> HIDE DEF r, n
<1>5. d.key \o r \in Seq(Char) /\ Len(d.key \o r) = Len(d.key) + Len(r) /\ Len(d.key) \in Nat /\ Len(r) \in Nat
      /\ \A i \in 1 .. Len(d.key) + Len(r) : (d.key \o r)[i] = IF i <= Len(d.key) THEN d.key[i] ELSE r[i - Len(d.key)]
  BY <1>1, <1>2, ConcatProperties
<1>6. Len(d.key) <= Len(d.key \o r) /\ \A i \in 1 .. Len(d.key) : d.key[i] = (d.key \o r)[i]
  BY <1>5
<1>7. IsPrefix(d.key, d.key \o r)
  BY <1>1, <1>5, <1>6, PrefixIs
<1> QED BY <1>2, <1>3, <1>4, <1>5, <1>7 DEF r, n

\* Two keys that a copy moves stay two.
LEMMA MovedInjective ==
  ASSUME NEW d, Directed(d), NEW k \in Seq(Char), IsPrefix(d.value, k),
         NEW l \in Seq(Char), IsPrefix(d.value, l), Moved(d, k) = Moved(d, l)
  PROVE  k = l
<1> DEFINE r == SubSeq(k, Len(d.value) + 1, Len(k))
<1> DEFINE s == SubSeq(l, Len(d.value) + 1, Len(l))
<1>1. r \in Seq(Char) /\ s \in Seq(Char) /\ k = d.value \o r /\ l = d.value \o s
  BY MovedIs
<1>2. d.key \o r = d.key \o s
  BY DEF Moved
<1> HIDE DEF r, s
<1>3. r = s
  BY <1>1, <1>2, ConcatSimplifications DEF Directed
<1> QED BY <1>1, <1>3

\* Prefixes of one string are prefixes of one another.
LEMMA PrefixesMeet ==
  ASSUME NEW a \in Seq(Char), NEW b \in Seq(Char), NEW k \in Seq(Char),
         IsPrefix(a, k), IsPrefix(b, k)
  PROVE  IsPrefix(a, b) \/ IsPrefix(b, a)
<1>1. /\ Len(a) \in Nat /\ Len(b) \in Nat /\ Len(a) <= Len(k) /\ Len(b) <= Len(k)
      /\ \A j \in 1 .. Len(a) : a[j] = k[j]
      /\ \A j \in 1 .. Len(b) : b[j] = k[j]
  BY PrefixIs
<1>2. CASE Len(a) <= Len(b)
  <2>1. \A j \in 1 .. Len(a) : a[j] = b[j]
    BY <1>1, <1>2
  <2> QED BY <1>2, <2>1, PrefixIs
<1>3. CASE Len(b) <= Len(a)
  <2>1. \A j \in 1 .. Len(b) : b[j] = a[j]
    BY <1>1, <1>3
  <2> QED BY <1>3, <2>1, PrefixIs
<1> QED BY <1>1, <1>2, <1>3

\* A copy whose prefixes are apart, or the same.
Parted(d) == d.key = d.value \/ (~IsPrefix(d.key, d.value) /\ ~IsPrefix(d.value, d.key))

\* It does not make a key that it would find, other than the one it is at.
LEMMA MovedAway ==
  ASSUME NEW d, Directed(d), Parted(d), NEW k \in Seq(Char), IsPrefix(d.value, k),
         IsPrefix(d.value, Moved(d, k))
  PROVE  Moved(d, k) = k
<1>1. CASE d.key = d.value
  BY <1>1, MovedIs DEF Moved
<1>2. CASE d.key # d.value
  <2>1. Moved(d, k) \in Seq(Char) /\ IsPrefix(d.key, Moved(d, k))
    BY MovedIs
  <2>2. IsPrefix(d.key, d.value) \/ IsPrefix(d.value, d.key)
    BY <2>1, PrefixesMeet DEF Directed
  <2> QED BY <1>2, <2>2 DEF Parted
<1> QED BY <1>1, <1>2

\* f is m with the keys K copied.
Copies(f, m, d, K) ==
  /\ f = [l \in DOMAIN m \cup {Moved(d, k) : k \in K} |-> f[l]]
  /\ \A k \in K : f[Moved(d, k)] = m[k]
  /\ \A l \in DOMAIN m : (\A k \in K : Moved(d, k) # l) => f[l] = m[l]

\* Nothing copied yet.
LEMMA CopiesNone ==
  ASSUME NEW m, m = [l \in DOMAIN m |-> m[l]], NEW d
  PROVE  Copies(m, m, d, {})
BY DEF Copies

\* The keys that were there have the values they had, and no other is under the prefix.
LEMMA CopiesApart ==
  ASSUME NEW m, Keys(m), NEW d, Directed(d), Parted(d), NEW K, K \subseteq Under(m, d),
         NEW f, Copies(f, m, d, K)
  PROVE  Under(f, d) = Under(m, d) /\ \A k \in Under(m, d) : f[k] = m[k]
<1>1. DOMAIN f = DOMAIN m \cup {Moved(d, k) : k \in K}
  BY DEF Copies
<1>2. ASSUME NEW k \in K, IsPrefix(d.value, Moved(d, k)) PROVE Moved(d, k) = k /\ k \in Under(m, d)
  BY <1>2, MovedAway DEF Under, Keys
<1>3. Under(f, d) = Under(m, d)
  BY <1>1, <1>2 DEF Under
<1>4. ASSUME NEW k \in Under(m, d) PROVE f[k] = m[k]
  <2>1. CASE \A l \in K : Moved(d, l) # k
    BY <2>1 DEF Copies, Under
  <2>2. ASSUME NEW l \in K, Moved(d, l) = k PROVE f[k] = m[k]
    <3>1. IsPrefix(d.value, Moved(d, l))
      BY <2>2 DEF Under
    <3>2. l = k
      BY <1>2, <2>2, <3>1
    <3>3. f[Moved(d, l)] = m[l]
      BY DEF Copies
    <3> QED BY <2>2, <3>2, <3>3
  <2> QED BY <2>1, <2>2
<1> QED BY <1>3, <1>4

\* One more entry is copied.
LEMMA CopiesMore ==
  ASSUME NEW m, Keys(m), NEW d, Directed(d), NEW K, K \subseteq Under(m, d),
         NEW f, Copies(f, m, d, K), NEW j \in Under(m, d), j \notin K
  PROVE  Copies(Put(f, Moved(d, j), m[j]), m, d, K \cup {j})
<1> DEFINE g == Put(f, Moved(d, j), m[j])
<1> DEFINE Dom == DOMAIN m \cup {Moved(d, k) : k \in K \cup {j}}
<1>1. DOMAIN f = DOMAIN m \cup {Moved(d, k) : k \in K}
  BY DEF Copies
<1>2. /\ DOMAIN g = DOMAIN f \cup {Moved(d, j)}
      /\ \A l \in DOMAIN f \cup {Moved(d, j)} : g[l] = IF l = Moved(d, j) THEN m[j] ELSE f[l]
  BY DEF Put
<1>3. DOMAIN g = Dom /\ g = [l \in DOMAIN g |-> g[l]]
  <2>1. g = [l \in DOMAIN g |-> g[l]]
    BY DEF Put
  <2>2. DOMAIN g = Dom
    <3> HIDE DEF g
    <3> QED BY <1>1, <1>2
  <2> QED BY <2>1, <2>2
<1> HIDE DEF g
<1>4. ASSUME NEW k \in K \cup {j} PROVE g[Moved(d, k)] = m[k]
  <2>1. CASE k = j
    BY <1>2, <2>1
  <2>2. CASE k # j
    <3>1. k \in K /\ f[Moved(d, k)] = m[k]
      BY <2>2 DEF Copies
    <3>2. k \in Seq(Char) /\ IsPrefix(d.value, k) /\ j \in Seq(Char) /\ IsPrefix(d.value, j)
      BY <3>1 DEF Under, Keys
    <3>3. Moved(d, k) # Moved(d, j)
      BY <2>2, <3>2, MovedInjective
    <3>4. Moved(d, k) \in DOMAIN f
      BY <1>1, <3>1
    <3> QED BY <1>2, <3>1, <3>3, <3>4
  <2> QED BY <2>1, <2>2
<1>5. ASSUME NEW l \in DOMAIN m, \A k \in K \cup {j} : Moved(d, k) # l PROVE g[l] = m[l]
  <2>1. f[l] = m[l] /\ l # Moved(d, j) /\ l \in DOMAIN f
    BY <1>1, <1>5 DEF Copies
  <2> QED BY <1>2, <2>1
<1>6. Copies(g, m, d, K \cup {j})
  <2>1. g = [l \in Dom |-> g[l]]
    BY <1>3
  <2> QED BY <1>4, <1>5, <2>1 DEF Copies
<1> QED BY <1>6 DEF g

\* When all are copied, the map is what the directive says.
LEMMA CopiesAll ==
  ASSUME NEW m, Keys(m), NEW d, Directed(d), d.kind = "copy", NEW f, Copies(f, m, d, Under(m, d))
  PROVE  f = Effect(m, d)
<1> DEFINE U == Under(m, d)
<1> DEFINE Dom == DOMAIN m \cup {Moved(d, k) : k \in U}
<1> DEFINE e(l) == IF \E k \in U : Moved(d, k) = l THEN m[CHOOSE k \in U : Moved(d, k) = l] ELSE m[l]
<1>1. Effect(m, d) = [l \in Dom |-> e(l)]
  BY DEF Effect, Under, Moved
<1>2. \A k \in U : k \in Seq(Char) /\ IsPrefix(d.value, k)
  BY DEF Under, Keys
<1> HIDE DEF U
<1>3. f = [l \in Dom |-> f[l]]
  BY DEF Copies, U
<1>4. ASSUME NEW l \in Dom PROVE f[l] = e(l)
  <2>1. ASSUME NEW k \in U, Moved(d, k) = l PROVE f[l] = e(l)
    <3> DEFINE h == CHOOSE n \in U : Moved(d, n) = l
    <3>1. h \in U /\ Moved(d, h) = l
      BY <2>1
    <3>2. e(l) = m[h]
      BY <2>1
    <3> HIDE DEF h
    <3>3. f[Moved(d, h)] = m[h]
      BY <3>1 DEF Copies, U
    <3> QED BY <3>1, <3>2, <3>3
  <2>2. CASE \A k \in U : Moved(d, k) # l
    <3>1. l \in DOMAIN m
      BY <2>2
    <3>2. f[l] = m[l]
      BY <2>2, <3>1 DEF Copies, U
    <3> QED BY <2>2, <3>2
  <2> QED BY <2>1, <2>2
<1> HIDE DEF e, Dom
<1> QED BY <1>1, <1>3, <1>4

\* U are the keys under the prefix v, K those behind the loop, S the keys from the
\* string r on.
Walk(v, r, U, K, S) ==
  /\ v \in Seq(Char) /\ r \in Seq(Char) /\ IsPrefix(v, r)
  /\ \A k \in U : k \in Seq(Char) /\ IsPrefix(v, k)
  /\ K \subseteq U /\ IsFiniteSet(S) /\ S \subseteq Seq(Char)
  /\ U \ K \subseteq S /\ \A l \in S : IsPrefix(v, l) => l \in U
  /\ \A l \in S : l = r \/ Before(r, l)
  /\ \A k \in K, l \in S : Before(k, l)

\* The loop goes from entry to entry under the prefix, and leaves none out.
LEMMA WalkIs ==
  ASSUME NEW v, NEW r, NEW U, NEW K, NEW S, Walk(v, r, U, K, S)
  PROVE  IF S = {} \/ ~IsPrefix(v, First(S))
           THEN K = U
           ELSE First(S) \in U \ K /\ K = {k \in U : Before(k, First(S))}
<1> USE DEF Walk
<1>1. CASE S = {}
  <2>1. K = U
    BY <1>1
  <2> QED BY <1>1, <2>1
<1>2. CASE S # {}
  <2> DEFINE f == First(S)
  <2>1. f \in S /\ \A l \in S : l = f \/ Before(f, l)
    BY <1>2, FirstIs
  <2> HIDE DEF f
  <2>2. CASE ~IsPrefix(v, f)
    <3>1. ASSUME NEW k \in U, k \notin K PROVE FALSE
      <4>1. k \in S /\ k \in Seq(Char) /\ IsPrefix(v, k) /\ f \in Seq(Char)
        BY <2>1, <3>1
      <4>2. (r = f \/ Before(r, f)) /\ (f = k \/ Before(f, k))
        BY <2>1, <4>1
      <4> QED BY <2>2, <4>1, <4>2, BetweenPrefixed
    <3>2. K = U
      BY <3>1
    <3> QED BY <2>2, <3>2 DEF f
  <2>3. CASE IsPrefix(v, f)
    <3>1. f \in U /\ f \in Seq(Char)
      BY <2>1, <2>3
    <3>2. f \notin K
      BY <2>1, <3>1, BeforeIrreflexive
    <3>3. ASSUME NEW k \in U, Before(k, f), k \notin K PROVE FALSE
      <4>1. k \in S /\ k \in Seq(Char)
        BY <3>3
      <4>2. k = f \/ Before(f, k)
        BY <2>1, <4>1
      <4>3. Before(f, f)
        BY <3>1, <3>3, <4>1, <4>2, BeforeTransitive
      <4> QED BY <3>1, <4>3, BeforeIrreflexive
    <3>4. K = {k \in U : Before(k, f)}
      BY <2>1, <3>3
    <3> QED BY <1>2, <2>3, <3>1, <3>2, <3>4 DEF f
  <2> QED BY <2>2, <2>3
<1> QED BY <1>1, <1>2

\* A string comes no later than those it is a prefix of.
LEMMA PrefixBefore ==
  ASSUME NEW v \in Seq(Char), NEW k \in Seq(Char), IsPrefix(v, k)
  PROVE  k = v \/ Before(v, k)
<1>1. Len(v) \in Nat /\ Len(k) \in Nat /\ Len(v) <= Len(k) /\ \A j \in 1 .. Len(v) : v[j] = k[j]
  BY PrefixIs
<1>2. CASE Len(v) = Len(k)
  BY <1>1, <1>2, SeqEqual
<1>3. CASE Len(v) # Len(k)
  BY <1>1, <1>3 DEF Before
<1> QED BY <1>2, <1>3

\* The keys under the prefix that come before j: those the loop has passed at j.
Passed(m, d, j) == {k \in Under(m, d) : Before(k, j)}

\* A look at the keys S finds an entry under the prefix, with those of K behind it,
\* or none, with all behind it.
Lands(m, d, S, K) ==
  IF S = {} \/ ~IsPrefix(d.value, First(S))
    THEN Under(m, d) = K
    ELSE First(S) \in Under(m, d) /\ Passed(m, d, First(S)) = K

\* JSLF: the loop begins at the first entry under the prefix, if there is one.
LEMMA WalkBegins ==
  ASSUME NEW m, Keys(m), IsFiniteSet(DOMAIN m), NEW d, Directed(d), NEW S, S = NotBefore(m, d.value)
  PROVE  Lands(m, d, S, {})
<1> DEFINE U == Under(m, d)
<1>1. d.value \in Seq(Char) /\ IsPrefix(d.value, d.value)
  BY PrefixIs DEF Directed
<1>2. \A k \in U : k \in Seq(Char) /\ IsPrefix(d.value, k)
  BY DEF Under, Keys
<1>3. S \subseteq DOMAIN m /\ S \subseteq Seq(Char)
  BY DEF NotBefore, Keys
<1>4. IsFiniteSet(S)
  BY <1>3, FS_Subset
<1>5. U \ {} \subseteq S
  BY <1>1, <1>2, PrefixBefore DEF NotBefore, Under
<1>6. \A l \in S : IsPrefix(d.value, l) => l \in U
  BY <1>3 DEF Under
<1>7. \A l \in S : l = d.value \/ Before(d.value, l)
  BY DEF NotBefore
<1> HIDE DEF U
<1>8. {} \subseteq U /\ \A k \in {}, l \in S : Before(k, l)
  OBVIOUS
<1>9. IF S = {} \/ ~IsPrefix(d.value, First(S))
        THEN {} = U
        ELSE First(S) \in U \ {} /\ {} = {k \in U : Before(k, First(S))}
  <2>1. Walk(d.value, d.value, U, {}, S)
    BY <1>1, <1>2, <1>3, <1>4, <1>5, <1>6, <1>7, <1>8 DEF Walk
  <2> QED BY <2>1, WalkIs
<1> QED BY <1>9 DEF U, Passed, Lands

\* JSLN, on the map that the new entry is in: the loop goes on with the next entry
\* that was there, or has passed them all.
LEMMA WalkGoesOn ==
  ASSUME NEW m, Keys(m), NEW d, Directed(d), Parted(d), NEW j \in Under(m, d),
         NEW f, Keys(f), IsFiniteSet(DOMAIN f), Copies(f, m, d, Passed(m, d, j) \cup {j}),
         NEW S, S = After(f, j)
  PROVE  Lands(m, d, S, Passed(m, d, j) \cup {j})
<1> DEFINE U == Under(m, d)
<1> DEFINE K == Passed(m, d, j) \cup {j}
<1>1. d.value \in Seq(Char) /\ j \in Seq(Char) /\ IsPrefix(d.value, j)
  BY DEF Directed, Under, Keys
<1>2. \A k \in U : k \in Seq(Char) /\ IsPrefix(d.value, k)
  BY DEF Under, Keys
<1>3. S \subseteq DOMAIN f /\ S \subseteq Seq(Char) /\ \A l \in S : Before(j, l)
  BY DEF After, Keys
<1>4. IsFiniteSet(S)
  BY <1>3, FS_Subset
<1>5. K \subseteq U
  BY DEF Passed
<1>6. Under(f, d) = U
  BY <1>5, CopiesApart
<1>7. U \ K \subseteq S
  <2>1. ASSUME NEW k \in U, k \notin K PROVE k \in S
    <3>1. k \in Seq(Char) /\ k # j /\ ~Before(k, j)
      BY <1>2, <2>1 DEF Passed
    <3>2. Before(j, k)
      BY <1>1, <3>1, BeforeTotal
    <3>3. k \in DOMAIN f
      BY <1>6 DEF Under
    <3> QED BY <3>2, <3>3 DEF After
  <2> QED BY <2>1
<1>8. \A l \in S : IsPrefix(d.value, l) => l \in U
  BY <1>3, <1>6 DEF Under
<1>9. \A k \in K, l \in S : Before(k, l)
  <2>1. ASSUME NEW k \in Passed(m, d, j), NEW l \in S PROVE Before(k, l)
    <3>1. k \in Seq(Char) /\ l \in Seq(Char) /\ Before(k, j) /\ Before(j, l)
      BY <1>2, <1>3 DEF Passed
    <3> QED BY <1>1, <3>1, BeforeTransitive
  <2> QED BY <1>3, <2>1
<1> HIDE DEF U, K
<1>10. \A l \in S : l = j \/ Before(j, l)
  BY <1>3
<1>11. IF S = {} \/ ~IsPrefix(d.value, First(S))
        THEN K = U
        ELSE First(S) \in U \ K /\ K = {k \in U : Before(k, First(S))}
  <2>1. Walk(d.value, j, U, K, S)
    BY <1>1, <1>2, <1>3, <1>4, <1>5, <1>7, <1>8, <1>9, <1>10 DEF Walk
  <2> QED BY <2>1, WalkIs
<1> QED BY <1>11 DEF U, K, Passed, Lands
-----------------------------------------------------------------------------
(* Where the parser is in a text of directives *)

\* From b to the place before e the text t is that of the directive d: the key ends
\* before k, the value begins at v, the semicolon is at x.
Spells(t, d, b, k, v, x, e) ==
  /\ t \in Seq(Char) /\ Directed(d) /\ Len(t) \in Nat /\ Len(d.value) \in Nat
  /\ b \in Nat \ {0} /\ k \in Nat /\ v \in Nat /\ x \in Nat /\ e \in Nat
  /\ b < k /\ k < v /\ v < x /\ x < e /\ e <= Len(t) + 1
  /\ d.key = SubSeq(t, b, k - 1)
  /\ \A j \in b .. k - 1 : t[j] \in AChar
  /\ \A j \in k .. v - 1 : t[j] \in {SP, TAB}
  /\ PlainAt(t, d, v, x) \/ QuotedAt(t, d, v, x) \/ CopiedAt(t, d, v, x)
  /\ t[x] = SEMI /\ Blank(t, x + 1, e)

\* What is said of a text of directives, in these words.
LEMMA SpelledIs ==
  ASSUME NEW t \in Seq(Char), NEW d, Directed(d), NEW b \in Nat \ {0}, NEW v \in Nat, NEW x \in Nat,
         NEW e \in Nat, Spelled(t, d, b, v, x, e)
  PROVE  Spells(t, d, b, b + Len(d.key), v, x, e)
<1> DEFINE k == b + Len(d.key)
<1>1. Len(t) \in Nat /\ Len(d.key) \in Nat /\ Len(d.value) \in Nat
  BY LenProperties DEF Directed
<1>2. k \in Nat
  BY <1>1
<1>3. /\ b < k /\ k < v /\ v < x /\ x < e /\ e <= Len(t) + 1
      /\ d.key = SubSeq(t, b, k - 1)
      /\ \A j \in b .. k - 1 : t[j] \in AChar
      /\ \A j \in k .. v - 1 : t[j] \in {SP, TAB}
      /\ PlainAt(t, d, v, x) \/ QuotedAt(t, d, v, x) \/ CopiedAt(t, d, v, x)
      /\ t[x] = SEMI /\ Blank(t, x + 1, e)
  BY DEF Spelled
<1> HIDE DEF k
<1>4. Spells(t, d, b, k, v, x, e)
  BY <1>1, <1>2, <1>3 DEF Spells
<1> QED BY <1>4 DEF k

\* The directive n of an input.
Spelling(i, n, k, v, x) ==
  /\ n \in 1 .. Len(i.directives)
  /\ Spells(i.text, i.directives[n], i.at[n], k, v, x, i.at[n + 1])

\* What is known of a text with directives.
Told(i) ==
  /\ i.directives # <<>> /\ i.text \in Seq(Char) /\ Len(i.text) \in Nat
  /\ Len(i.directives) \in Nat \ {0}
  /\ \A n \in 1 .. Len(i.directives) + 1 : i.at[n] \in Nat \ {0}
  /\ i.at[Len(i.directives) + 1] = Len(i.text) + 1
  /\ Blank(i.text, 1, i.at[1])
  /\ \A n \in 1 .. Len(i.directives) : \E k, v, x \in Nat : Spelling(i, n, k, v, x)

LEMMA TextTold ==
  ASSUME NEW i \in Inputs, i.directives # <<>>
  PROVE  Told(i)
<1> DEFINE ds == i.directives
<1> DEFINE at == i.at
<1> DEFINE t == i.text
<1> HIDE DEF ds, at, t
<1>1. /\ ds \in Seq(Range(ds)) /\ at \in Seq(Nat \ {0}) /\ Len(at) = Len(ds) + 1
      /\ at[Len(at)] = Len(t) + 1 /\ Blank(t, 1, at[1])
      /\ \A n \in 1 .. Len(ds) :
           /\ ds[n].key \in Seq(Char) /\ ds[n].value \in Seq(Char)
           /\ \E v, x \in at[n] .. at[n + 1] : Spelled(t, ds[n], at[n], v, x, at[n + 1])
  BY InputAssumption DEF ds, at, t
<1>2. t \in Seq(Char) /\ Len(t) \in Nat
  BY ConfigAssumption, LenProperties DEF t
<1>3. ds # <<>>
  BY DEF ds
<1>4. Len(ds) \in Nat \ {0}
  BY <1>1, <1>3, EmptySeq
<1>5. \A n \in 1 .. Len(ds) + 1 : at[n] \in Nat \ {0}
  BY <1>1, ElementOfSeq
<1>6. ASSUME NEW n \in 1 .. Len(ds)
      PROVE  \E k, v, x \in Nat : Spells(t, ds[n], at[n], k, v, x, at[n + 1])
  <2>1. Directed(ds[n])
    BY <1>1 DEF Directed
  <2>2. PICK v \in at[n] .. at[n + 1], x \in at[n] .. at[n + 1] :
          Spelled(t, ds[n], at[n], v, x, at[n + 1])
    BY <1>1
  <2>3. at[n] \in Nat \ {0} /\ at[n + 1] \in Nat
    BY <1>4, <1>5
  <2>4. v \in Nat /\ x \in Nat
    BY <2>3
  <2>5. Spells(t, ds[n], at[n], at[n] + Len(ds[n].key), v, x, at[n + 1])
    BY <1>2, <2>1, <2>2, <2>3, <2>4, SpelledIs
  <2>6. at[n] + Len(ds[n].key) \in Nat
    BY <2>5 DEF Spells
  <2> QED BY <2>4, <2>5, <2>6
<1> QED BY <1>1, <1>2, <1>3, <1>4, <1>5, <1>6 DEF Told, Spelling, ds, at, t

\* The parser q has the directive n behind it, and is among blanks and comments.
Trailing(i, q, n) ==
  /\ n \in 0 .. Len(i.directives)
  /\ q.state \in {"space", "comment"} /\ q.p <= i.at[n + 1]
  /\ \E s \in 1 .. q.p : /\ Blank(i.text, s, i.at[n + 1])
                         /\ q.state = "comment" <=> InComment(i.text, s, q.p)

\* It is in the key of the directive, behind it, or in the value.
InKey(q, t, b, k) == q.state = "key" /\ b < q.p /\ q.p <= k /\ q.key = SubSeq(t, b, q.p - 1)

InGap(q, d, k, v) == q.state = "key_sp" /\ k < q.p /\ q.p <= v /\ q.key = d.key

InPlain(q, t, d, v, x) ==
  /\ q.state = "value" /\ v < q.p /\ q.p <= x /\ q.key = d.key
  /\ PlainAt(t, d, v, x) /\ q.value = SubSeq(t, v, q.p - 1)

\* The quote that ends a value quoted at v.
Closing(d, v) == v + 1 + Len(d.value)

InQuotes(q, t, d, v, x) ==
  /\ q.state = "qt_value" /\ v < q.p /\ q.p <= Closing(d, v) /\ q.key = d.key
  /\ QuotedAt(t, d, v, x) /\ q.value = SubSeq(t, v + 1, q.p - 1)
  /\ t[q.p] = QT => q.p = Closing(d, v)

InCopied(q, t, d, v, x) ==
  /\ q.state = "copy_value" /\ v < q.p /\ q.p <= x /\ q.key = d.key
  /\ CopiedAt(t, d, v, x) /\ q.value = SubSeq(t, v + 1, q.p - 1)

Within(q, t, d, b, k, v, x) ==
  \/ InKey(q, t, b, k) \/ InGap(q, d, k, v)
  \/ InPlain(q, t, d, v, x) \/ InQuotes(q, t, d, v, x) \/ InCopied(q, t, d, v, x)

Reading(i, q, n) ==
  \E k, v, x \in Nat :
    Spelling(i, n, k, v, x) /\ Within(q, i.text, i.directives[n], i.at[n], k, v, x)

\* It is between the quote and the semicolon that end the directive.
Behind(q, t, d, v, x) ==
  /\ q.state = "value_skip" /\ Closing(d, v) < q.p /\ q.p <= x
  /\ QuotedAt(t, d, v, x)

Skipping(i, q, n) ==
  \E k, v, x \in Nat : Spelling(i, n, k, v, x) /\ Behind(q, i.text, i.directives[n], v, x)

\* It has read n directives, and may be in the next.
Place(i, q, n) ==
  /\ n \in 0 .. Len(i.directives)
  /\ Trailing(i, q, n) \/ Reading(i, q, n + 1) \/ Skipping(i, q, n)

\* A directive begins with a letter of its key, and is not empty.
LEMMA Begins ==
  ASSUME NEW i, Told(i), NEW n \in 1 .. Len(i.directives)
  PROVE  /\ i.at[n] \in 1 .. Len(i.text) /\ i.text[i.at[n]] \in AChar
         /\ i.text[i.at[n]] \notin {SP, TAB, CR, NL, HASH}
<1>1. PICK k \in Nat, v \in Nat, x \in Nat : Spelling(i, n, k, v, x)
  BY DEF Told
<1>2. i.at[n] \in 1 .. Len(i.text) /\ i.text[i.at[n]] \in AChar
  <2> DEFINE b == i.at[n]
  <2> DEFINE t == i.text
  <2>1. Spells(t, i.directives[n], b, k, v, x, i.at[n + 1])
    BY <1>1 DEF Spelling
  <2> HIDE DEF b, t
  <2>2. b \in 1 .. Len(t) /\ b \in b .. k - 1
    BY <2>1 DEF Spells
  <2>3. t[b] \in AChar
    BY <2>1, <2>2 DEF Spells
  <2> QED BY <2>2, <2>3 DEF b, t
<1>3. AChar \cap {SP, TAB, CR, NL, HASH} = {}
  BY DEF AChar, SP, TAB, CR, NL, HASH
<1> QED BY <1>2, <1>3

\* Where a text ends, all its directives are behind.
LEMMA NextBegins ==
  ASSUME NEW i, Told(i), NEW n \in 0 .. Len(i.directives)
  PROVE  /\ i.at[n + 1] \in Nat \ {0} /\ i.at[n + 1] <= Len(i.text) + 1
         /\ n = Len(i.directives) <=> i.at[n + 1] = Len(i.text) + 1
<1>1. Len(i.directives) \in Nat /\ Len(i.text) \in Nat
  BY DEF Told
<1>2. CASE n = Len(i.directives)
  BY <1>1, <1>2 DEF Told
<1>3. CASE n # Len(i.directives)
  <2>1. n + 1 \in 1 .. Len(i.directives)
    BY <1>1, <1>3
  <2>2. i.at[n + 1] \in 1 .. Len(i.text)
    BY <2>1, Begins
  <2> QED BY <1>1, <1>3, <2>2
<1> QED BY <1>2, <1>3

\* Among blanks the parser is at a blank, in a comment, or at the next key.
LEMMA TrailingIs ==
  ASSUME NEW i, Told(i), NEW n, NEW q, q.p \in Nat \ {0}, q.p <= Len(i.text), Trailing(i, q, n)
  PROVE  \/ /\ q.p < i.at[n + 1]
            /\ q.state = "comment" \/ i.text[q.p] \in {SP, TAB, CR, NL, HASH}
         \/ /\ n < Len(i.directives) /\ q.state = "space" /\ q.p = i.at[n + 1]
            /\ i.text[q.p] \in AChar /\ i.text[q.p] \notin {SP, TAB, CR, NL, HASH}
<1>1. /\ n \in 0 .. Len(i.directives) /\ Len(i.directives) \in Nat /\ Len(i.text) \in Nat
      /\ i.at[n + 1] \in Nat \ {0} /\ q.p <= i.at[n + 1] /\ q.state \in {"space", "comment"}
  BY NextBegins DEF Trailing, Told
<1>2. PICK s \in 1 .. q.p : /\ Blank(i.text, s, i.at[n + 1])
                            /\ q.state = "comment" <=> InComment(i.text, s, q.p)
  BY DEF Trailing
<1>3. CASE q.p < i.at[n + 1]
  <2>1. q.p \in s .. i.at[n + 1] - 1
    BY <1>1, <1>2, <1>3
  <2>2. InComment(i.text, s, q.p) \/ i.text[q.p] \in {SP, TAB, CR, NL, HASH}
    BY <1>2, <2>1 DEF Blank
  <2> QED BY <1>2, <1>3, <2>2
<1>4. CASE q.p = i.at[n + 1]
  <2>1. ~InComment(i.text, s, q.p)
    BY <1>2, <1>4 DEF Blank
  <2>2. n # Len(i.directives)
    BY <1>1, <1>4, NextBegins
  <2>3. n + 1 \in 1 .. Len(i.directives) /\ n < Len(i.directives)
    BY <1>1, <2>2
  <2>4. i.text[q.p] \in AChar /\ i.text[q.p] \notin {SP, TAB, CR, NL, HASH}
    BY <1>4, <2>3, Begins
  <2> QED BY <1>1, <1>2, <1>4, <2>1, <2>3, <2>4
<1> QED BY <1>1, <1>3, <1>4

\* After the next blank, or character of a comment, it is still there.
LEMMA TrailingNext ==
  ASSUME NEW i, Told(i), NEW n, NEW q, q.p \in Nat \ {0}, Trailing(i, q, n), q.p < i.at[n + 1],
         NEW r, r.p = q.p + 1,
         r.state = IF (q.state = "comment" \/ i.text[q.p] = HASH) /\ i.text[q.p] # NL
                     THEN "comment" ELSE "space"
  PROVE  Trailing(i, r, n)
<1>1. /\ n \in 0 .. Len(i.directives) /\ i.text \in Seq(Char) /\ i.at[n + 1] \in Nat \ {0}
  BY NextBegins DEF Trailing, Told
<1>2. PICK s \in 1 .. q.p : /\ Blank(i.text, s, i.at[n + 1])
                            /\ q.state = "comment" <=> InComment(i.text, s, q.p)
  BY DEF Trailing
<1>3. s \in Nat \ {0} /\ s <= q.p /\ s \in 1 .. r.p /\ r.p <= i.at[n + 1]
  BY <1>1
<1>4. InComment(i.text, s, q.p + 1) <=> (InComment(i.text, s, q.p) \/ i.text[q.p] = HASH) /\ i.text[q.p] # NL
  BY <1>1, <1>3, CommentNext
<1>5. r.state = "comment" <=> InComment(i.text, s, r.p)
  BY <1>2, <1>4
<1> QED BY <1>1, <1>2, <1>3, <1>5 DEF Trailing

\* The parser r is a character behind q.
Then(q, r, s, k, v) == r.p = q.p + 1 /\ r.state = s /\ r.key = k /\ r.value = v

\* The key: letters, and after the last a blank.
LEMMA InKeyIs ==
  ASSUME NEW t, NEW d, NEW b, NEW k, NEW v, NEW x, NEW e, Spells(t, d, b, k, v, x, e),
         NEW q, q.p \in Nat \ {0}, InKey(q, t, b, k)
  PROVE  /\ q.p <= Len(t)
         /\ \/ t[q.p] \in AChar /\ q.p < k
            \/ t[q.p] \in {SP, TAB} /\ q.p = k /\ q.key = d.key
<1>1. /\ Len(t) \in Nat /\ b \in Nat \ {0} /\ k \in Nat /\ v \in Nat /\ x \in Nat /\ e \in Nat
      /\ k < v /\ v < x /\ x < e /\ e <= Len(t) + 1 /\ b < q.p /\ q.p <= k
  BY DEF Spells, InKey
<1>2. CASE q.p < k
  <2>1. q.p \in b .. k - 1
    BY <1>1, <1>2
  <2>2. t[q.p] \in AChar
    BY <2>1 DEF Spells
  <2> QED BY <1>1, <1>2, <2>2
<1>3. CASE q.p = k
  <2>1. k \in k .. v - 1
    BY <1>1
  <2>2. t[q.p] \in {SP, TAB}
    BY <1>3, <2>1 DEF Spells
  <2>3. q.key = d.key
    BY <1>3 DEF Spells, InKey
  <2> QED BY <1>1, <1>3, <2>2, <2>3
<1> QED BY <1>1, <1>2, <1>3

\* A step in the key, and the step behind it.
LEMMA InKeyNext ==
  ASSUME NEW t, NEW d, NEW b, NEW k, NEW v, NEW x, NEW e, Spells(t, d, b, k, v, x, e),
         NEW q, q.p \in Nat \ {0}, NEW r
  PROVE  /\ q.p = b /\ Then(q, r, "key", <<t[q.p]>>, q.value) => InKey(r, t, b, k)
         /\ InKey(q, t, b, k) /\ q.p < k /\ Then(q, r, "key", Append(q.key, t[q.p]), q.value) => InKey(r, t, b, k)
         /\ InKey(q, t, b, k) /\ q.p = k /\ Then(q, r, "key_sp", q.key, q.value) => InGap(r, d, k, v)
<1>1. /\ t \in Seq(Char) /\ Len(t) \in Nat /\ b \in Nat \ {0} /\ k \in Nat /\ v \in Nat /\ x \in Nat /\ e \in Nat
      /\ b < k /\ k < v /\ v < x /\ x < e /\ e <= Len(t) + 1
  BY DEF Spells
<1>2. ASSUME q.p = b, Then(q, r, "key", <<t[q.p]>>, q.value) PROVE InKey(r, t, b, k)
  <2>1. r.p = b + 1 /\ r.p - 1 = b /\ r.state = "key" /\ r.key = <<t[b]>>
    BY <1>1, <1>2 DEF Then
  <2>2. b \in 1 .. Len(t)
    BY <1>1
  <2>3. SubSeq(t, b, b) = <<t[b]>>
    BY <1>1, <2>2, One
  <2>4. r.key = SubSeq(t, b, r.p - 1)
    BY <2>1, <2>3
  <2>5. b < r.p /\ r.p <= k
    BY <1>1, <2>1
  <2> QED BY <2>1, <2>4, <2>5 DEF InKey
<1>3. ASSUME InKey(q, t, b, k), q.p < k, Then(q, r, "key", Append(q.key, t[q.p]), q.value)
      PROVE  InKey(r, t, b, k)
  <2>1. b < q.p /\ q.key = SubSeq(t, b, q.p - 1)
    BY <1>3 DEF InKey
  <2>a. q.p \in Nat /\ b <= q.p /\ q.p <= Len(t) /\ b < q.p + 1 /\ q.p + 1 <= k /\ (q.p + 1) - 1 = q.p
    BY <1>1, <1>3, <2>1
  <2>2. Append(SubSeq(t, b, q.p - 1), t[q.p]) = SubSeq(t, b, q.p)
    BY <1>1, <2>a, Grown
  <2>3. r.p = q.p + 1 /\ r.state = "key" /\ r.key = Append(q.key, t[q.p])
    BY <1>3 DEF Then
  <2>4. r.key = SubSeq(t, b, r.p - 1) /\ b < r.p /\ r.p <= k
    BY <2>1, <2>a, <2>2, <2>3
  <2> QED BY <2>3, <2>4 DEF InKey
<1>4. ASSUME InKey(q, t, b, k), q.p = k, Then(q, r, "key_sp", q.key, q.value) PROVE InGap(r, d, k, v)
  <2>1. q.key = d.key
    BY <1>4 DEF Spells, InKey
  <2>2. r.p = k + 1 /\ k < r.p /\ r.p <= v /\ r.state = "key_sp" /\ r.key = q.key
    BY <1>1, <1>4 DEF Then
  <2> QED BY <2>1, <2>2 DEF InGap
<1> QED BY <1>2, <1>3, <1>4

\* Blanks, and then the first character of the value.
LEMMA InGapIs ==
  ASSUME NEW t, NEW d, NEW b, NEW k, NEW v, NEW x, NEW e, Spells(t, d, b, k, v, x, e),
         NEW q, q.p \in Nat \ {0}, InGap(q, d, k, v)
  PROVE  /\ q.p <= Len(t)
         /\ \/ t[q.p] \in {SP, TAB} /\ q.p < v
            \/ t[q.p] \notin {SP, TAB, QT, AT, CR, NL} /\ q.p = v /\ PlainAt(t, d, v, x)
            \/ t[q.p] = QT /\ q.p = v /\ QuotedAt(t, d, v, x)
            \/ t[q.p] = AT /\ q.p = v /\ CopiedAt(t, d, v, x)
<1>1. /\ Len(t) \in Nat /\ b \in Nat \ {0} /\ k \in Nat /\ v \in Nat /\ x \in Nat /\ e \in Nat
      /\ k < v /\ v < x /\ x < e /\ e <= Len(t) + 1 /\ k < q.p /\ q.p <= v
  BY DEF Spells, InGap
<1>2. CASE q.p < v
  <2>1. q.p \in k .. v - 1
    BY <1>1, <1>2
  <2>2. t[q.p] \in {SP, TAB}
    BY <2>1 DEF Spells
  <2> QED BY <1>1, <1>2, <2>2
<1>3. CASE q.p = v
  <2>1. PlainAt(t, d, v, x) \/ QuotedAt(t, d, v, x) \/ CopiedAt(t, d, v, x)
    BY DEF Spells
  <2>2. PlainAt(t, d, v, x) => t[v] \notin {SP, TAB, QT, AT, CR, NL}
    BY DEF PlainAt
  <2>3. QuotedAt(t, d, v, x) => t[v] = QT
    BY DEF QuotedAt
  <2>4. CopiedAt(t, d, v, x) => t[v] = AT
    BY DEF CopiedAt
  <2> QED BY <1>1, <1>3, <2>1, <2>2, <2>3, <2>4
<1> QED BY <1>1, <1>2, <1>3

\* A step in the blanks, and the step into a value.
LEMMA InGapNext ==
  ASSUME NEW t, NEW d, NEW b, NEW k, NEW v, NEW x, NEW e, Spells(t, d, b, k, v, x, e),
         NEW q, q.p \in Nat \ {0}, InGap(q, d, k, v), NEW r
  PROVE  /\ q.p < v /\ Then(q, r, "key_sp", q.key, q.value) => InGap(r, d, k, v)
         /\ q.p = v /\ PlainAt(t, d, v, x) /\ Then(q, r, "value", q.key, <<t[q.p]>>) => InPlain(r, t, d, v, x)
         /\ q.p = v /\ QuotedAt(t, d, v, x) /\ Then(q, r, "qt_value", q.key, <<>>) => InQuotes(r, t, d, v, x)
         /\ q.p = v /\ CopiedAt(t, d, v, x) /\ Then(q, r, "copy_value", q.key, <<>>) => InCopied(r, t, d, v, x)
<1>1. /\ t \in Seq(Char) /\ Len(t) \in Nat /\ b \in Nat \ {0} /\ k \in Nat /\ v \in Nat /\ x \in Nat /\ e \in Nat
      /\ k < v /\ v < x /\ x < e /\ e <= Len(t) + 1 /\ k < q.p /\ q.p <= v /\ Len(d.value) \in Nat
      /\ q.key = d.key
  BY DEF Spells, InGap
<1>2. ASSUME q.p < v, Then(q, r, "key_sp", q.key, q.value) PROVE InGap(r, d, k, v)
  BY <1>1, <1>2 DEF InGap, Then
<1>3. ASSUME q.p = v PROVE v \in 1 .. Len(t) /\ SubSeq(t, v, v) = <<t[v]>> /\ SubSeq(t, v + 1, v) = <<>>
  <2>1. v \in 1 .. Len(t) /\ v + 1 \in Int /\ v \in Int /\ v < v + 1
    BY <1>1
  <2> QED BY <1>1, <2>1, One, SubSeqEmpty
<1>4. ASSUME q.p = v, PlainAt(t, d, v, x), Then(q, r, "value", q.key, <<t[q.p]>>)
      PROVE  InPlain(r, t, d, v, x)
  <2>1. r.p - 1 = v /\ v < r.p /\ r.p <= x /\ r.state = "value" /\ r.key = d.key /\ r.value = <<t[v]>>
    BY <1>1, <1>4 DEF Then
  <2>2. r.value = SubSeq(t, v, r.p - 1)
    BY <1>3, <1>4, <2>1
  <2> QED BY <1>4, <2>1, <2>2 DEF InPlain
<1>5. ASSUME q.p = v, QuotedAt(t, d, v, x), Then(q, r, "qt_value", q.key, <<>>)
      PROVE  InQuotes(r, t, d, v, x)
  <2>a. r.p = v + 1 /\ r.state = "qt_value" /\ r.key = d.key /\ r.value = <<>>
    BY <1>1, <1>5 DEF Then
  <2>1. r.p - 1 = v /\ v < r.p /\ r.p <= Closing(d, v)
    <3> DEFINE n == Len(d.value)
    <3>1. v \in Nat /\ n \in Nat
      BY <1>1
    <3> HIDE DEF n
    <3>2. (v + 1) - 1 = v /\ v < v + 1 /\ v + 1 <= v + 1 + n
      BY <3>1
    <3> QED BY <2>a, <3>2 DEF n, Closing
  <2>2. r.value = SubSeq(t, v + 1, r.p - 1)
    BY <1>3, <1>5, <2>a, <2>1
  <2>3. t[v + 1] = QT => v + 1 = Closing(d, v)
    <3>1. CASE Len(d.value) = 0
      BY <1>1, <3>1 DEF Closing
    <3>2. CASE Len(d.value) # 0
      <4> DEFINE n == Len(d.value)
      <4>0. v \in Nat /\ n \in Nat /\ n # 0
        BY <1>1, <3>2
      <4> HIDE DEF n
      <4>1. v + 1 \in v + 1 .. (v + 1 + n) - 1 /\ (v + 1) - 1 = v
        BY <4>0
      <4>2. t[v] = QT /\ (t[v + 1] = QT => t[(v + 1) - 1] = BSL)
        BY <1>5, <4>1 DEF QuotedAt, n
      <4>3. QT # BSL
        BY DEF QT, BSL
      <4> QED BY <4>1, <4>2, <4>3
    <3> QED BY <3>1, <3>2
  <2> QED BY <1>5, <2>a, <2>1, <2>2, <2>3 DEF InQuotes
<1>6. ASSUME q.p = v, CopiedAt(t, d, v, x), Then(q, r, "copy_value", q.key, <<>>)
      PROVE  InCopied(r, t, d, v, x)
  <2>1. r.p - 1 = v /\ v < r.p /\ r.p <= x /\ r.state = "copy_value" /\ r.key = d.key /\ r.value = <<>>
    BY <1>1, <1>6 DEF Then
  <2>2. r.value = SubSeq(t, v + 1, r.p - 1)
    BY <1>3, <1>6, <2>1
  <2> QED BY <1>6, <2>1, <2>2 DEF InCopied
<1> QED BY <1>2, <1>4, <1>5, <1>6

\* A value as it stands, or a prefix to copy, up to the semicolon.
LEMMA InPlainIs ==
  ASSUME NEW t, NEW d, NEW b, NEW k, NEW v, NEW x, NEW e, Spells(t, d, b, k, v, x, e),
         NEW q, q.p \in Nat \ {0}, InPlain(q, t, d, v, x) \/ InCopied(q, t, d, v, x)
  PROVE  /\ q.p <= Len(t)
         /\ \/ t[q.p] \notin {SEMI, NL} /\ q.p < x
            \/ t[q.p] = SEMI /\ q.p = x /\ q.value = d.value
<1>1. /\ Len(t) \in Nat /\ v \in Nat /\ x \in Nat /\ e \in Nat
      /\ v < x /\ x < e /\ e <= Len(t) + 1 /\ v < q.p /\ q.p <= x /\ t[x] = SEMI
  BY DEF Spells, InPlain, InCopied
<1>2. CASE q.p < x
  <2>1. q.p \in v + 1 .. x - 1
    BY <1>1, <1>2
  <2>2. t[q.p] \notin {SEMI, NL}
    BY <2>1 DEF InPlain, InCopied, PlainAt, CopiedAt
  <2> QED BY <1>1, <1>2, <2>2
<1>3. CASE q.p = x
  <2>1. q.value = d.value
    BY <1>3 DEF InPlain, InCopied, PlainAt, CopiedAt
  <2> QED BY <1>1, <1>3, <2>1
<1> QED BY <1>1, <1>2, <1>3

LEMMA InPlainNext ==
  ASSUME NEW t, NEW d, NEW b, NEW k, NEW v, NEW x, NEW e, Spells(t, d, b, k, v, x, e),
         NEW q, q.p \in Nat \ {0}, q.p < x, NEW r, Then(q, r, q.state, q.key, Append(q.value, t[q.p]))
  PROVE  /\ InPlain(q, t, d, v, x) => InPlain(r, t, d, v, x)
         /\ InCopied(q, t, d, v, x) => InCopied(r, t, d, v, x)
<1>1. /\ t \in Seq(Char) /\ Len(t) \in Nat /\ v \in Nat \ {0} /\ x \in Nat /\ e \in Nat
      /\ v < x /\ x < e /\ e <= Len(t) + 1
  BY DEF Spells
<1>2. r.p = q.p + 1 /\ r.state = q.state /\ r.key = q.key /\ r.value = Append(q.value, t[q.p])
  BY DEF Then
<1>a. q.p \in Nat /\ q.p <= Len(t) /\ (q.p + 1) - 1 = q.p /\ q.p + 1 <= x
  BY <1>1
<1>3. ASSUME InPlain(q, t, d, v, x) PROVE InPlain(r, t, d, v, x)
  <2>1. v < q.p /\ q.value = SubSeq(t, v, q.p - 1)
    BY <1>3 DEF InPlain
  <2>a. v <= q.p /\ v < q.p + 1
    BY <1>1, <1>a, <2>1
  <2>2. Append(SubSeq(t, v, q.p - 1), t[q.p]) = SubSeq(t, v, q.p)
    BY <1>1, <1>a, <2>a, Grown
  <2>3. r.value = SubSeq(t, v, r.p - 1) /\ v < r.p /\ r.p <= x
    BY <1>2, <1>a, <2>1, <2>a, <2>2
  <2> QED BY <1>2, <1>3, <2>3 DEF InPlain
<1>4. ASSUME InCopied(q, t, d, v, x) PROVE InCopied(r, t, d, v, x)
  <2>1. v < q.p /\ q.value = SubSeq(t, v + 1, q.p - 1)
    BY <1>4 DEF InCopied
  <2>2. v + 1 \in Nat \ {0} /\ v + 1 <= q.p /\ v < q.p + 1
    BY <1>1, <1>a, <2>1
  <2>3. Append(SubSeq(t, v + 1, q.p - 1), t[q.p]) = SubSeq(t, v + 1, q.p)
    BY <1>1, <1>a, <2>2, Grown
  <2>4. r.value = SubSeq(t, v + 1, r.p - 1) /\ v < r.p /\ r.p <= x
    BY <1>2, <1>a, <2>1, <2>2, <2>3
  <2> QED BY <1>2, <1>4, <2>4 DEF InCopied
<1> QED BY <1>3, <1>4

\* What is quoted from v to the quote at w.
LEMMA QuotedIs ==
  ASSUME NEW t, NEW d, NEW b, NEW k, NEW v, NEW x, NEW e, Spells(t, d, b, k, v, x, e),
         QuotedAt(t, d, v, x), NEW w, w = Closing(d, v)
  PROVE  /\ Len(t) \in Nat /\ v \in Nat \ {0} /\ w \in Nat /\ x \in Nat
         /\ v < w /\ w < x /\ x <= Len(t)
         /\ d.kind = "pair" /\ d.value = SubSeq(t, v + 1, w - 1)
         /\ t[w] = QT /\ t[w - 1] # BSL
         /\ \A j \in v + 1 .. w - 1 : t[j] # NL /\ (t[j] = QT => t[j - 1] = BSL)
         /\ \A j \in w + 1 .. x - 1 : t[j] \notin {SEMI, NL}
<1>1. /\ Len(t) \in Nat /\ v \in Nat \ {0} /\ x \in Nat /\ x <= Len(t) /\ Len(d.value) \in Nat
  BY DEF Spells
<1>2. w \in Nat /\ v < w
  <2> DEFINE n == Len(d.value)
  <2>1. w = v + 1 + n
    BY DEF Closing
  <2>2. n \in Nat
    BY <1>1
  <2> HIDE DEF n
  <2>3. v + 1 + n \in Nat /\ v < v + 1 + n
    BY <1>1, <2>2
  <2> QED BY <2>1, <2>3
<1>3. /\ w < x /\ d.kind = "pair" /\ d.value = SubSeq(t, v + 1, w - 1)
      /\ t[w] = QT /\ t[w - 1] # BSL
      /\ \A j \in v + 1 .. w - 1 : t[j] # NL /\ (t[j] = QT => t[j - 1] = BSL)
      /\ \A j \in w + 1 .. x - 1 : t[j] \notin {SEMI, NL}
  BY DEF QuotedAt, Closing
<1> QED BY <1>1, <1>2, <1>3

\* A quoted value, up to the quote that ends it.
LEMMA InQuotesIs ==
  ASSUME NEW t, NEW d, NEW b, NEW k, NEW v, NEW x, NEW e, Spells(t, d, b, k, v, x, e),
         NEW q, q.p \in Nat \ {0}, InQuotes(q, t, d, v, x), NEW w, w = Closing(d, v)
  PROVE  /\ q.p <= Len(t) /\ v < q.p /\ q.p <= w
         /\ \/ t[q.p] = QT /\ q.p = w /\ q.value = d.value /\ d.kind = "pair"
            \/ t[q.p] \notin {QT, NL} /\ q.p < w
<1>1. /\ Len(t) \in Nat /\ v \in Nat \ {0} /\ w \in Nat /\ x \in Nat
      /\ v < w /\ w < x /\ x <= Len(t)
      /\ d.kind = "pair" /\ d.value = SubSeq(t, v + 1, w - 1)
      /\ t[w] = QT
      /\ \A j \in v + 1 .. w - 1 : t[j] # NL
  BY QuotedIs DEF InQuotes
<1>2. v < q.p /\ q.p <= w /\ q.p \in Nat /\ q.value = SubSeq(t, v + 1, q.p - 1) /\ (t[q.p] = QT => q.p = w)
  BY DEF InQuotes
<1>3. q.p <= Len(t) /\ (q.p # w => q.p \in v + 1 .. w - 1 /\ q.p < w)
  BY <1>1, <1>2
<1> QED BY <1>1, <1>2, <1>3

\* A character that nothing escapes.
LEMMA InQuotesNext ==
  ASSUME NEW t, NEW d, NEW b, NEW k, NEW v, NEW x, NEW e, Spells(t, d, b, k, v, x, e),
         NEW q, q.p \in Nat \ {0}, InQuotes(q, t, d, v, x), t[q.p] # QT,
         t[q.p] = BSL => t[q.p + 1] # QT,
         NEW r, Then(q, r, "qt_value", q.key, Append(q.value, t[q.p]))
  PROVE  InQuotes(r, t, d, v, x)
<1> DEFINE w == Closing(d, v)
<1>1. /\ q.p <= Len(t) /\ v \in Nat \ {0} /\ w \in Nat /\ v < q.p /\ q.p < w
      /\ \A j \in v + 1 .. w - 1 : t[j] = QT => t[j - 1] = BSL
  <2>1. QuotedAt(t, d, v, x)
    BY DEF InQuotes
  <2>2. /\ v \in Nat \ {0} /\ w \in Nat
        /\ \A j \in v + 1 .. w - 1 : t[j] = QT => t[j - 1] = BSL
    BY <2>1, QuotedIs
  <2>3. q.p <= Len(t) /\ v < q.p /\ q.p < w
    BY InQuotesIs
  <2> QED BY <2>2, <2>3
<1>2. t \in Seq(Char) /\ QuotedAt(t, d, v, x) /\ q.value = SubSeq(t, v + 1, q.p - 1) /\ q.key = d.key
  BY DEF Spells, InQuotes
<1>3. r.p = q.p + 1 /\ r.state = "qt_value" /\ r.key = q.key /\ r.value = Append(q.value, t[q.p])
  BY DEF Then
<1> HIDE DEF w
<1>4. /\ v + 1 \in Nat \ {0} /\ v + 1 <= q.p /\ q.p \in Nat /\ (q.p + 1) - 1 = q.p
      /\ v < q.p + 1 /\ q.p + 1 <= w
  BY <1>1
<1>5. r.value = SubSeq(t, v + 1, r.p - 1)
  <2>1. Append(SubSeq(t, v + 1, q.p - 1), t[q.p]) = SubSeq(t, v + 1, q.p)
    BY <1>1, <1>2, <1>4, Grown
  <2> QED BY <1>2, <1>3, <1>4, <2>1
<1>6. t[r.p] = QT => r.p = w
  <2>1. ASSUME q.p + 1 # w, t[q.p + 1] = QT PROVE FALSE
    <3>1. q.p + 1 \in v + 1 .. w - 1
      BY <1>1, <1>4, <2>1
    <3>2. t[q.p] = BSL
      BY <1>1, <1>4, <2>1, <3>1
    <3> QED BY <2>1, <3>2
  <2> QED BY <1>3, <2>1
<1>7. v < r.p /\ r.p <= w
  BY <1>3, <1>4
<1> QED BY <1>2, <1>3, <1>5, <1>6, <1>7 DEF InQuotes, w

\* An escaped quote.
LEMMA InQuotesEscape ==
  ASSUME NEW t, NEW d, NEW b, NEW k, NEW v, NEW x, NEW e, Spells(t, d, b, k, v, x, e),
         NEW q, q.p \in Nat \ {0}, InQuotes(q, t, d, v, x), t[q.p] = BSL, t[q.p + 1] = QT,
         NEW r, r.p = q.p + 2, r.state = "qt_value", r.key = q.key, r.value = q.value \o <<BSL, QT>>
  PROVE  InQuotes(r, t, d, v, x)
<1> DEFINE w == Closing(d, v)
<1>q. BSL # QT
  BY DEF BSL, QT
<1>1. /\ q.p <= Len(t) /\ v \in Nat \ {0} /\ w \in Nat /\ v < q.p /\ q.p < w /\ w <= Len(t)
      /\ t[w - 1] # BSL
      /\ \A j \in v + 1 .. w - 1 : t[j] = QT => t[j - 1] = BSL
  <2>1. QuotedAt(t, d, v, x)
    BY DEF InQuotes
  <2>2. /\ Len(t) \in Nat /\ v \in Nat \ {0} /\ w \in Nat /\ x \in Nat /\ w < x /\ x <= Len(t)
        /\ t[w - 1] # BSL
        /\ \A j \in v + 1 .. w - 1 : t[j] = QT => t[j - 1] = BSL
    BY <2>1, QuotedIs
  <2>3. q.p <= Len(t) /\ v < q.p /\ q.p < w
    BY <1>q, InQuotesIs
  <2> HIDE DEF w
  <2>4. w <= Len(t)
    BY <2>2
  <2> QED BY <2>2, <2>3, <2>4
<1>2. t \in Seq(Char) /\ QuotedAt(t, d, v, x) /\ q.value = SubSeq(t, v + 1, q.p - 1) /\ q.key = d.key
      /\ Len(t) \in Nat
  BY DEF Spells, InQuotes
<1> HIDE DEF w
<1> DEFINE p == q.p
<1>p. p \in Nat /\ v \in Nat /\ w \in Nat /\ Len(t) \in Nat /\ v < p /\ p < w /\ w <= Len(t)
  BY <1>1, <1>2
<1> HIDE DEF p
<1>4. /\ v + 1 \in Nat \ {0} /\ v + 1 <= p /\ (p + 2) - 1 = p + 1
      /\ (p + 1) - 1 = p /\ p + 1 <= Len(t)
  BY <1>p
<1>5. p + 1 # w
  <2>1. t[p] = BSL
    BY DEF p
  <2>2. ASSUME p + 1 = w PROVE FALSE
    <3>1. w - 1 = p
      BY <1>p, <2>2
    <3> QED BY <1>1, <2>1, <3>1
  <2> QED BY <2>2
<1>6. v < p + 2 /\ p + 2 <= w /\ (p + 2 # w => p + 2 \in v + 1 .. w - 1)
  BY <1>p, <1>5
<1>r. r.p = p + 2 /\ t[p] = BSL /\ t[p + 1] = QT /\ r.value = q.value \o <<BSL, QT>>
  BY DEF p
<1>7. r.value = SubSeq(t, v + 1, r.p - 1)
  <2>1. SubSeq(t, v + 1, p - 1) \o <<t[p], t[p + 1]>> = SubSeq(t, v + 1, p + 1)
    BY <1>2, <1>p, <1>4, GrownByTwo
  <2>2. q.value = SubSeq(t, v + 1, p - 1)
    BY <1>2 DEF p
  <2> QED BY <1>4, <1>r, <2>1, <2>2
<1>8. t[r.p] = QT => r.p = w
  <2>1. ASSUME p + 2 # w, t[p + 2] = QT PROVE FALSE
    <3>1. t[(p + 2) - 1] = BSL
      BY <1>1, <1>6, <2>1
    <3> QED BY <1>q, <1>4, <1>r, <3>1
  <2> QED BY <1>r, <2>1
<1>9. v < r.p /\ r.p <= w
  BY <1>6, <1>r
<1> QED BY <1>2, <1>7, <1>8, <1>9 DEF InQuotes, w

\* The quote, and what is skipped up to the semicolon.
LEMMA BehindNext ==
  ASSUME NEW t, NEW d, NEW b, NEW k, NEW v, NEW x, NEW e, Spells(t, d, b, k, v, x, e),
         NEW q, q.p \in Nat \ {0}, NEW r, r.p = q.p + 1, r.state = "value_skip"
  PROVE  /\ InQuotes(q, t, d, v, x) /\ t[q.p] = QT => Behind(r, t, d, v, x)
         /\ Behind(q, t, d, v, x) => /\ q.p <= Len(t)
                                     /\ \/ t[q.p] \notin {SEMI, NL} /\ Behind(r, t, d, v, x)
                                        \/ t[q.p] = SEMI /\ q.p = x
<1> DEFINE w == Closing(d, v)
<1>1. Len(t) \in Nat /\ v \in Nat \ {0} /\ x \in Nat /\ x <= Len(t) /\ t[x] = SEMI
  BY DEF Spells
<1>w. QuotedAt(t, d, v, x) => /\ w \in Nat /\ w < x
                             /\ \A j \in w + 1 .. x - 1 : t[j] \notin {SEMI, NL}
  BY QuotedIs
<1> HIDE DEF w
<1>2. ASSUME InQuotes(q, t, d, v, x), t[q.p] = QT PROVE Behind(r, t, d, v, x)
  <2>1. q.p = w /\ QuotedAt(t, d, v, x)
    BY <1>2 DEF InQuotes, w
  <2>2. w < r.p /\ r.p <= x
    BY <1>1, <1>w, <2>1
  <2> QED BY <2>1, <2>2 DEF Behind, w
<1>3. ASSUME Behind(q, t, d, v, x)
      PROVE  /\ q.p <= Len(t)
             /\ \/ t[q.p] \notin {SEMI, NL} /\ Behind(r, t, d, v, x)
                \/ t[q.p] = SEMI /\ q.p = x
  <2>1. /\ w < q.p /\ q.p <= x /\ QuotedAt(t, d, v, x)
        /\ w \in Nat /\ \A j \in w + 1 .. x - 1 : t[j] \notin {SEMI, NL}
    BY <1>3, <1>w DEF Behind, w
  <2>2. CASE q.p = x
    BY <1>1, <2>1, <2>2
  <2>3. CASE q.p # x
    <3>1. q.p \in w + 1 .. x - 1 /\ w < r.p /\ r.p <= x /\ q.p <= Len(t)
      BY <1>1, <2>1, <2>3
    <3>2. Behind(r, t, d, v, x)
      BY <2>1, <3>1 DEF Behind, w
    <3> QED BY <2>1, <3>1, <3>2
  <2> QED BY <2>2, <2>3
<1> QED BY <1>2, <1>3

\* After the semicolon of the directive n, the parser trails it.
LEMMA Trails ==
  ASSUME NEW i, Told(i), NEW n, NEW k, NEW v, NEW x, Spelling(i, n, k, v, x),
         NEW r, r.p = x + 1, r.state = "space"
  PROVE  Trailing(i, r, n)
<1>1. n \in 1 .. Len(i.directives) /\ Len(i.directives) \in Nat
  BY DEF Spelling, Told
<1>2. x \in Nat /\ i.at[n + 1] \in Nat /\ x < i.at[n + 1] /\ Blank(i.text, x + 1, i.at[n + 1])
  BY DEF Spelling, Spells
<1>3. x + 1 \in 1 .. r.p /\ r.p <= i.at[n + 1] /\ n \in 0 .. Len(i.directives)
  BY <1>1, <1>2
<1>4. ~InComment(i.text, x + 1, r.p)
  BY <1>2, NoComment
<1>5. r.state = "comment" <=> InComment(i.text, x + 1, r.p)
  BY <1>4
<1> QED BY <1>2, <1>3, <1>5 DEF Trailing
-----------------------------------------------------------------------------
(* The parser in such a text, step by step *)

\* A caller of config_new loads a text of directives.
Telling == mode # "test" /\ input.directives # <<>>

\* The parser in such a text, after n directives.
Tells(n) == TypeOK /\ Told(input) /\ text = input.text /\ line_error = 0 /\ Place(input, ps, n)

\* A step of the parser: in the text; at the end of a pair, which is put; at the
\* copies of a prefix; out of memory; at a key that is too long; at the end.
Overlong ==
  \E n \in 1 .. Len(input.directives) :
    \/ Len(input.directives[n].key) > KeyMax
    \/ input.directives[n].kind = "copy" /\ Len(input.directives[n].value) > KeyMax

Goes(n) == pc' = "parse" /\ data' = data /\ Place(input, ps', n)

Takes(n) ==
  /\ n < Len(input.directives) /\ input.directives[n + 1].kind = "pair"
  /\ data' = Put(data, input.directives[n + 1].key, Str(input.directives[n + 1].value))
  /\ pc' = "parse" /\ Place(input, ps', n + 1)

AtCopy(n) ==
  /\ n < Len(input.directives) /\ input.directives[n + 1].kind = "copy"
  /\ ps.key = input.directives[n + 1].key /\ ps.value = input.directives[n + 1].value
  /\ \A r : r.p = ps.p + 1 /\ r.state = "space" => Place(input, r, n + 1)

GivesUp == pc' = "return" /\ ret' = ERROR /\ line_error' = 0

Refuses == pc' = "return" /\ ret' = ERROR /\ Overlong

Done(n) ==
  /\ n = Len(input.directives) /\ data' = data
  /\ pc' = "return" /\ ret' = OK /\ line_error' = 0

\* What the moves of the parser do to it.
LEMMA MovesThen ==
  ASSUME TypeOK
  PROVE  /\ \A s \in States : Goto(s) => Then(ps, ps', s, ps.key, ps.value) /\ pc' = pc /\ data' = data
         /\ NextLine => Then(ps, ps', "space", ps.key, ps.value) /\ pc' = pc /\ data' = data
         /\ \A s \in States, v \in Seq(Char) :
              Value(s, v) => Then(ps, ps', s, ps.key, v) /\ pc' = pc /\ data' = data
<1>1. ps \in [state : States, p : Nat \ {0}, line : Nat \ {0}, key : Seq(Char), value : Seq(Char)]
  BY DEF TypeOK
<1>2. ASSUME NEW s \in States, Goto(s)
      PROVE  Then(ps, ps', s, ps.key, ps.value) /\ pc' = pc /\ data' = data
  BY <1>1, <1>2 DEF Goto, Then
<1>3. ASSUME NextLine PROVE Then(ps, ps', "space", ps.key, ps.value) /\ pc' = pc /\ data' = data
  BY <1>1, <1>3 DEF NextLine, Then
<1>4. ASSUME NEW s \in States, NEW v \in Seq(Char), Value(s, v)
      PROVE  Then(ps, ps', s, ps.key, v) /\ pc' = pc /\ data' = data
  BY <1>1, <1>4 DEF Value, Then
<1> QED BY <1>2, <1>3, <1>4

\* The state of the parser tells where it is.
LEMMA PlaceIs ==
  ASSUME NEW i, NEW q, NEW n, Place(i, q, n)
  PROVE  /\ n \in 0 .. Len(i.directives)
         /\ q.state \in {"space", "comment"} => Trailing(i, q, n)
         /\ q.state \in {"key", "key_sp", "value", "qt_value", "copy_value"} => Reading(i, q, n + 1)
         /\ q.state = "value_skip" => Skipping(i, q, n)
<1>1. Trailing(i, q, n) => q.state \in {"space", "comment"}
  BY DEF Trailing
<1>2. Reading(i, q, n + 1) => q.state \in {"key", "key_sp", "value", "qt_value", "copy_value"}
  BY DEF Reading, Within, InKey, InGap, InPlain, InQuotes, InCopied
<1>3. Skipping(i, q, n) => q.state = "value_skip"
  BY DEF Skipping, Behind
<1> QED BY <1>1, <1>2, <1>3 DEF Place

\* What is read of a directive.
LEMMA ReadingIs ==
  ASSUME NEW i, NEW q, NEW n, Reading(i, q, n)
  PROVE  \E k, v, x \in Nat :
           /\ Spelling(i, n, k, v, x)
           /\ q.state = "key" => InKey(q, i.text, i.at[n], k)
           /\ q.state = "key_sp" => InGap(q, i.directives[n], k, v)
           /\ q.state = "value" => InPlain(q, i.text, i.directives[n], v, x)
           /\ q.state = "qt_value" => InQuotes(q, i.text, i.directives[n], v, x)
           /\ q.state = "copy_value" => InCopied(q, i.text, i.directives[n], v, x)
<1>1. PICK k \in Nat, v \in Nat, x \in Nat :
        Spelling(i, n, k, v, x) /\ Within(q, i.text, i.directives[n], i.at[n], k, v, x)
  BY DEF Reading
<1>2. /\ q.state = "key" => InKey(q, i.text, i.at[n], k)
      /\ q.state = "key_sp" => InGap(q, i.directives[n], k, v)
      /\ q.state = "value" => InPlain(q, i.text, i.directives[n], v, x)
      /\ q.state = "qt_value" => InQuotes(q, i.text, i.directives[n], v, x)
      /\ q.state = "copy_value" => InCopied(q, i.text, i.directives[n], v, x)
  BY <1>1 DEF Within, InKey, InGap, InPlain, InQuotes, InCopied
<1> QED BY <1>1, <1>2

\* The parser before the step.
LEMMA AtIs ==
  ASSUME NEW n, Tells(n), NEW s \in States, At(s)
  PROVE  /\ ps.state = s /\ pc = "parse" /\ ps.p \in Nat \ {0} /\ ps.p <= Len(input.text)
         /\ c = input.text[ps.p] /\ c \in Char
         /\ n \in 0 .. Len(input.directives) /\ Len(input.directives) \in Nat /\ Told(input)
         /\ ps.key \in Seq(Char) /\ ps.value \in Seq(Char)
<1>1. TypeOK /\ Told(input) /\ text = input.text /\ Place(input, ps, n)
  BY DEF Tells
<1>2. c \in Char /\ ps.p \in 1 .. Len(text)
  BY <1>1, CharAt
<1>3. ps.key \in Seq(Char) /\ ps.value \in Seq(Char) /\ ps.p \in Nat \ {0}
  BY <1>1 DEF TypeOK
<1>4. n \in 0 .. Len(input.directives) /\ Len(input.directives) \in Nat
  BY <1>1, PlaceIs DEF Told
<1> QED BY <1>1, <1>2, <1>3, <1>4 DEF At, c

\* A step among blanks: one more, the start of a comment, or of a key.
LEMMA SpaceTells ==
  ASSUME NEW n, Tells(n), Space
  PROVE  Goes(n)
<1>1. At("space") /\ "space" \in States /\ "comment" \in States
  BY DEF Space, States
<1>2. /\ ps.state = "space" /\ pc = "parse" /\ ps.p \in Nat \ {0} /\ ps.p <= Len(input.text)
      /\ c = input.text[ps.p] /\ c \in Char
      /\ n \in 0 .. Len(input.directives) /\ Len(input.directives) \in Nat /\ Told(input)
  BY <1>1, AtIs
<1>3. Trailing(input, ps, n)
  BY <1>2, PlaceIs DEF Tells
<1>4. \/ ps.p < input.at[n + 1] /\ c \in {SP, TAB, CR, NL, HASH}
      \/ /\ n < Len(input.directives) /\ ps.p = input.at[n + 1]
         /\ c \in AChar /\ c \notin {SP, TAB, CR, NL, HASH}
  BY <1>2, <1>3, TrailingIs
<1>n. HASH # NL /\ HASH \notin {SP, TAB, CR} /\ NL \notin {SP, TAB, CR} /\ AChar \cap {SP, TAB, CR, NL, HASH} = {}
  BY DEF HASH, NL, SP, TAB, CR, AChar
<1>5. CASE /\ c \in AChar /\ ps' = [ps EXCEPT !.state = "key", !.p = @ + 1, !.key = <<c>>]
           /\ UNCHANGED <<pc, data, index, ret, line_error, heap>> /\ Frame
  <2>1. n < Len(input.directives) /\ ps.p = input.at[n + 1]
    BY <1>4, <1>5, <1>n
  <2>2. Then(ps, ps', "key", <<c>>, ps.value)
    <3>1. ps \in [state : States, p : Nat \ {0}, line : Nat \ {0}, key : Seq(Char), value : Seq(Char)]
      BY DEF Tells, TypeOK
    <3> QED BY <1>5, <3>1 DEF Then
  <2>3. n + 1 \in 1 .. Len(input.directives)
    BY <1>2, <2>1
  <2>4. PICK k \in Nat, v \in Nat, x \in Nat : Spelling(input, n + 1, k, v, x)
    BY <1>2, <2>3 DEF Told
  <2>5. InKey(ps', input.text, input.at[n + 1], k)
    BY <1>2, <2>1, <2>2, <2>4, InKeyNext DEF Spelling
  <2>6. Reading(input, ps', n + 1)
    BY <2>4, <2>5 DEF Reading, Within
  <2> QED BY <1>2, <1>5, <2>6 DEF Goes, Place
<1>6. CASE c \in {SP, TAB, CR, NL, HASH} /\ ~(c \in AChar)
  <2>1. ps.p < input.at[n + 1]
    BY <1>4, <1>6
  <2>2. /\ pc' = pc /\ data' = data
        /\ Then(ps, ps', IF c = HASH THEN "comment" ELSE "space", ps.key, ps.value)
    BY <1>1, <1>6, <1>n, MovesThen DEF Space, Tells
  <2>3. /\ ps'.p = ps.p + 1
        /\ ps'.state = IF (ps.state = "comment" \/ c = HASH) /\ c # NL THEN "comment" ELSE "space"
    BY <1>2, <1>n, <2>2 DEF Then
  <2>4. Trailing(input, ps', n)
    BY <1>2, <1>3, <2>1, <2>3, TrailingNext
  <2> QED BY <1>2, <2>2, <2>4 DEF Goes, Place
<1> QED BY <1>4, <1>5, <1>6, <1>n DEF Space

\* A step in a comment.
LEMMA CommentTells ==
  ASSUME NEW n, Tells(n), Comment
  PROVE  Goes(n)
<1>1. At("comment") /\ "space" \in States /\ "comment" \in States
  BY DEF Comment, States
<1>2. /\ ps.state = "comment" /\ pc = "parse" /\ ps.p \in Nat \ {0} /\ ps.p <= Len(input.text)
      /\ c = input.text[ps.p]
      /\ n \in 0 .. Len(input.directives) /\ Len(input.directives) \in Nat /\ Told(input)
  BY <1>1, AtIs
<1>3. Trailing(input, ps, n)
  BY <1>2, PlaceIs DEF Tells
<1>4. ps.p < input.at[n + 1]
  BY <1>2, <1>3, TrailingIs
<1>5. /\ pc' = pc /\ data' = data
      /\ Then(ps, ps', IF c = NL THEN "space" ELSE "comment", ps.key, ps.value)
  BY <1>1, MovesThen DEF Comment, Tells
<1>6. /\ ps'.p = ps.p + 1
      /\ ps'.state = IF (ps.state = "comment" \/ c = HASH) /\ c # NL THEN "comment" ELSE "space"
  BY <1>2, <1>5 DEF Then
<1>7. Trailing(input, ps', n)
  BY <1>2, <1>3, <1>4, <1>6, TrailingNext
<1> QED BY <1>2, <1>5, <1>7 DEF Goes, Place

\* A directive that the parser is in.
LEMMA ReadingTells ==
  ASSUME NEW n, Tells(n), NEW s \in {"key", "key_sp", "value", "qt_value", "copy_value"}, At(s)
  PROVE  /\ n < Len(input.directives)
         /\ \E k, v, x \in Nat :
              /\ Spelling(input, n + 1, k, v, x)
              /\ s = "key" => InKey(ps, input.text, input.at[n + 1], k)
              /\ s = "key_sp" => InGap(ps, input.directives[n + 1], k, v)
              /\ s = "value" => InPlain(ps, input.text, input.directives[n + 1], v, x)
              /\ s = "qt_value" => InQuotes(ps, input.text, input.directives[n + 1], v, x)
              /\ s = "copy_value" => InCopied(ps, input.text, input.directives[n + 1], v, x)
<1>1. ps.state = s
  BY DEF At
<1>2. n \in 0 .. Len(input.directives) /\ Reading(input, ps, n + 1) /\ Len(input.directives) \in Nat
  BY <1>1, PlaceIs DEF Tells, Told
<1>3. PICK k \in Nat, v \in Nat, x \in Nat :
        /\ Spelling(input, n + 1, k, v, x)
        /\ s = "key" => InKey(ps, input.text, input.at[n + 1], k)
        /\ s = "key_sp" => InGap(ps, input.directives[n + 1], k, v)
        /\ s = "value" => InPlain(ps, input.text, input.directives[n + 1], v, x)
        /\ s = "qt_value" => InQuotes(ps, input.text, input.directives[n + 1], v, x)
        /\ s = "copy_value" => InCopied(ps, input.text, input.directives[n + 1], v, x)
  BY <1>1, <1>2, ReadingIs
<1>4. n < Len(input.directives)
  BY <1>2, <1>3 DEF Spelling
<1> QED BY <1>3, <1>4

\* A parser that is in the directive after n has its place.
LEMMA Within1 ==
  ASSUME NEW i, NEW n \in 0 .. Len(i.directives), NEW q, NEW k \in Nat, NEW v \in Nat, NEW x \in Nat,
         Spelling(i, n + 1, k, v, x),
         Within(q, i.text, i.directives[n + 1], i.at[n + 1], k, v, x)
  PROVE  Place(i, q, n)
BY DEF Place, Reading

\* A step in a key; it ends with a blank, and is refused if it is too long.
LEMMA KeyTells ==
  ASSUME NEW n, Tells(n), Key
  PROVE  Goes(n) \/ Refuses
<1>1. At("key") /\ "key" \in States /\ "key_sp" \in States
  BY DEF Key, States
<1>2. /\ pc = "parse" /\ ps.p \in Nat \ {0} /\ c = input.text[ps.p] /\ ps.state = "key"
      /\ n \in 0 .. Len(input.directives) /\ Len(input.directives) \in Nat /\ Told(input)
  BY <1>1, AtIs
<1>3. n < Len(input.directives) /\ n + 1 \in 1 .. Len(input.directives)
  BY <1>1, <1>2, ReadingTells
<1>4. PICK k \in Nat, v \in Nat, x \in Nat :
        Spelling(input, n + 1, k, v, x) /\ InKey(ps, input.text, input.at[n + 1], k)
  BY <1>1, ReadingTells
<1> DEFINE t == input.text
<1> DEFINE d == input.directives[n + 1]
<1> DEFINE b == input.at[n + 1]
<1> DEFINE e == input.at[n + 1 + 1]
<1>5. Spells(t, d, b, k, v, x, e) /\ InKey(ps, t, b, k) /\ c = t[ps.p]
  BY <1>2, <1>4 DEF Spelling
<1>6. \A q : Within(q, t, d, b, k, v, x) => Place(input, q, n)
  BY <1>2, <1>4, Within1
<1> HIDE DEF t, d, b, e
<1>7. \/ c \in AChar /\ ps.p < k
      \/ c \in {SP, TAB} /\ ps.p = k /\ ps.key = d.key
  <2>1. ps.p \in Nat \ {0} /\ Spells(t, d, b, k, v, x, e) /\ InKey(ps, t, b, k)
    BY <1>2, <1>5
  <2>2. \/ t[ps.p] \in AChar /\ ps.p < k
        \/ t[ps.p] \in {SP, TAB} /\ ps.p = k /\ ps.key = d.key
    BY <2>1, InKeyIs
  <2> QED BY <1>5, <2>2
<1>n. SP \notin AChar /\ TAB \notin AChar
  BY DEF SP, TAB, AChar
<1>8. CASE /\ c \in AChar /\ ps' = [ps EXCEPT !.p = @ + 1, !.key = Append(@, c)]
           /\ UNCHANGED <<pc, data, index, ret, line_error, heap>> /\ Frame
  <2>1. Then(ps, ps', "key", Append(ps.key, c), ps.value)
    <3>1. ps \in [state : States, p : Nat \ {0}, line : Nat \ {0}, key : Seq(Char), value : Seq(Char)]
      BY DEF Tells, TypeOK
    <3> QED BY <1>2, <1>8, <3>1 DEF Then
  <2>2. ps.p < k
    BY <1>7, <1>8, <1>n
  <2>3. InKey(ps', t, b, k)
    BY <1>2, <1>5, <2>1, <2>2, InKeyNext
  <2>4. Place(input, ps', n)
    BY <1>6, <2>3 DEF Within
  <2> QED BY <1>2, <1>8, <2>4 DEF Goes
<1>9. CASE c \in {SP, TAB} /\ (IF TooLong(ps.key) THEN Fail(ps.line) ELSE Goto("key_sp"))
  <2>1. ps.p = k /\ ps.key = d.key
    BY <1>7, <1>9, <1>n
  <2>2. CASE TooLong(ps.key)
    <3>1. Len(input.directives[n + 1].key) > KeyMax
      BY <2>1, <2>2 DEF TooLong, d
    <3>2. Overlong
      BY <1>3, <3>1 DEF Overlong
    <3> QED BY <1>9, <2>2, <3>2 DEF Fail, Return, Refuses
  <2>3. CASE ~TooLong(ps.key)
    <3>1. Then(ps, ps', "key_sp", ps.key, ps.value) /\ pc' = pc /\ data' = data
      BY <1>1, <1>9, <2>3, MovesThen DEF Tells
    <3>2. InGap(ps', d, k, v)
      BY <1>2, <1>5, <2>1, <3>1, InKeyNext
    <3>3. Place(input, ps', n)
      BY <1>6, <3>2 DEF Within
    <3> QED BY <1>2, <3>1, <3>3 DEF Goes
  <2> QED BY <2>2, <2>3
<1> QED BY <1>7, <1>8, <1>9 DEF Key

\* A step in the blanks behind a key.
LEMMA KeySpTells ==
  ASSUME NEW n, Tells(n), KeySp
  PROVE  Goes(n)
<1>1. At("key_sp") /\ {"key_sp", "value", "qt_value", "copy_value"} \subseteq States
  BY DEF KeySp, States
<1>2. /\ pc = "parse" /\ ps.p \in Nat \ {0} /\ c = input.text[ps.p] /\ c \in Char /\ ps.state = "key_sp"
      /\ n \in 0 .. Len(input.directives) /\ Told(input)
  BY <1>1, AtIs
<1>4. PICK k \in Nat, v \in Nat, x \in Nat :
        Spelling(input, n + 1, k, v, x) /\ InGap(ps, input.directives[n + 1], k, v)
  BY <1>1, ReadingTells
<1> DEFINE t == input.text
<1> DEFINE d == input.directives[n + 1]
<1> DEFINE b == input.at[n + 1]
<1> DEFINE e == input.at[n + 1 + 1]
<1>5. Spells(t, d, b, k, v, x, e) /\ InGap(ps, d, k, v) /\ c = t[ps.p]
  BY <1>2, <1>4 DEF Spelling
<1>6. \A q : Within(q, t, d, b, k, v, x) => Place(input, q, n)
  BY <1>2, <1>4, Within1
<1> HIDE DEF t, d, b, e
<1>7. \/ c \in {SP, TAB} /\ ps.p < v
      \/ c \notin {SP, TAB, QT, AT, CR, NL} /\ ps.p = v /\ PlainAt(t, d, v, x)
      \/ c = QT /\ ps.p = v /\ QuotedAt(t, d, v, x)
      \/ c = AT /\ ps.p = v /\ CopiedAt(t, d, v, x)
  <2>1. ps.p \in Nat \ {0} /\ Spells(t, d, b, k, v, x, e) /\ InGap(ps, d, k, v)
    BY <1>2, <1>5
  <2>2. \/ t[ps.p] \in {SP, TAB} /\ ps.p < v
        \/ t[ps.p] \notin {SP, TAB, QT, AT, CR, NL} /\ ps.p = v /\ PlainAt(t, d, v, x)
        \/ t[ps.p] = QT /\ ps.p = v /\ QuotedAt(t, d, v, x)
        \/ t[ps.p] = AT /\ ps.p = v /\ CopiedAt(t, d, v, x)
    BY <2>1, InGapIs
  <2> QED BY <1>5, <2>2
<1>n. QT \notin {SP, TAB, AT, CR, NL} /\ AT \notin {SP, TAB, CR, NL} /\ CR \notin {SP, TAB} /\ NL \notin {SP, TAB}
  BY DEF SP, TAB, QT, AT, CR, NL
<1>8. /\ ps.p < v /\ Then(ps, ps', "key_sp", ps.key, ps.value) => InGap(ps', d, k, v)
      /\ ps.p = v /\ PlainAt(t, d, v, x) /\ Then(ps, ps', "value", ps.key, <<c>>) => InPlain(ps', t, d, v, x)
      /\ ps.p = v /\ QuotedAt(t, d, v, x) /\ Then(ps, ps', "qt_value", ps.key, <<>>) => InQuotes(ps', t, d, v, x)
      /\ ps.p = v /\ CopiedAt(t, d, v, x) /\ Then(ps, ps', "copy_value", ps.key, <<>>) => InCopied(ps', t, d, v, x)
  BY <1>2, <1>5, InGapNext
<1>9. <<c>> \in Seq(Char) /\ <<>> \in Seq(Char)
  BY <1>2, EmptySeq
<1>10. /\ Goto("key_sp") => Then(ps, ps', "key_sp", ps.key, ps.value) /\ pc' = pc /\ data' = data
       /\ Value("value", <<c>>) => Then(ps, ps', "value", ps.key, <<c>>) /\ pc' = pc /\ data' = data
       /\ Value("qt_value", <<>>) => Then(ps, ps', "qt_value", ps.key, <<>>) /\ pc' = pc /\ data' = data
       /\ Value("copy_value", <<>>) => Then(ps, ps', "copy_value", ps.key, <<>>) /\ pc' = pc /\ data' = data
  BY <1>1, <1>9, MovesThen DEF Tells
<1>11. /\ pc' = pc /\ data' = data
       /\ InGap(ps', d, k, v) \/ InPlain(ps', t, d, v, x) \/ InQuotes(ps', t, d, v, x) \/ InCopied(ps', t, d, v, x)
  <2>1. CASE c \in {SP, TAB}
    BY <1>7, <1>8, <1>10, <1>n, <2>1 DEF KeySp
  <2>2. CASE c = QT
    BY <1>7, <1>8, <1>10, <1>n, <2>2 DEF KeySp
  <2>3. CASE c = AT
    BY <1>7, <1>8, <1>10, <1>n, <2>3 DEF KeySp
  <2>4. CASE c \notin {SP, TAB, QT, AT}
    BY <1>7, <1>8, <1>10, <1>n, <2>4 DEF KeySp
  <2> QED BY <2>1, <2>2, <2>3, <2>4
<1>12. Place(input, ps', n)
  BY <1>6, <1>11 DEF Within
<1> QED BY <1>2, <1>11, <1>12 DEF Goes

\* JSLI and pool_cpy: the pair is put, or memory is out.
LEMMA InsertTells ==
  ASSUME TypeOK, line_error = 0, pc = "parse", NEW s \in States, Insert(s)
  PROVE  \/ /\ data' = Put(data, ps.key, Str(ps.value)) /\ pc' = "parse"
            /\ Then(ps, ps', s, ps.key, ps.value)
         \/ GivesUp
<1>1. ps \in [state : States, p : Nat \ {0}, line : Nat \ {0}, key : Seq(Char), value : Seq(Char)]
  BY DEF TypeOK
<1>2. CASE /\ data' = Put(data, ps.key, Str(ps.value))
           /\ ps' = [ps EXCEPT !.state = s, !.p = @ + 1]
           /\ UNCHANGED <<pc, index, ret, line_error, heap>> /\ Frame
  <2>1. Then(ps, ps', s, ps.key, ps.value)
    BY <1>1, <1>2 DEF Then
  <2> QED BY <1>2, <2>1
<1>3. CASE Return(ERROR, line_error)
  BY <1>3 DEF Return, GivesUp
<1> QED BY <1>2, <1>3 DEF Insert

\* In a value as it stands, and at the semicolon, where the pair is put.
LEMMA PlainValueTells ==
  ASSUME NEW n, Tells(n), PlainValue
  PROVE  Goes(n) \/ Takes(n) \/ GivesUp
<1>1. At("value") /\ "value" \in States /\ "space" \in States
  BY DEF PlainValue, States
<1>2. /\ pc = "parse" /\ ps.p \in Nat \ {0} /\ c = input.text[ps.p] /\ c \in Char /\ ps.state = "value"
      /\ n \in 0 .. Len(input.directives) /\ Len(input.directives) \in Nat /\ Told(input)
      /\ ps.value \in Seq(Char)
  BY <1>1, AtIs
<1>3. n < Len(input.directives) /\ n + 1 \in 0 .. Len(input.directives)
  BY <1>1, <1>2, ReadingTells
<1>4. PICK k \in Nat, v \in Nat, x \in Nat :
        Spelling(input, n + 1, k, v, x) /\ InPlain(ps, input.text, input.directives[n + 1], v, x)
  BY <1>1, ReadingTells
<1> DEFINE t == input.text
<1> DEFINE d == input.directives[n + 1]
<1> DEFINE b == input.at[n + 1]
<1> DEFINE e == input.at[n + 1 + 1]
<1>5. Spells(t, d, b, k, v, x, e) /\ InPlain(ps, t, d, v, x) /\ c = t[ps.p]
  BY <1>2, <1>4 DEF Spelling
<1>6. \A q : Within(q, t, d, b, k, v, x) => Place(input, q, n)
  BY <1>2, <1>4, Within1
<1>t. \A r : r.p = x + 1 /\ r.state = "space" => Trailing(input, r, n + 1)
  BY <1>2, <1>4, Trails
<1> HIDE DEF t, d, b, e
<1>7. \/ c \notin {SEMI, NL} /\ ps.p < x
      \/ c = SEMI /\ ps.p = x /\ ps.value = d.value
  <2>1. ps.p \in Nat \ {0} /\ Spells(t, d, b, k, v, x, e) /\ InPlain(ps, t, d, v, x)
    BY <1>2, <1>5
  <2>2. \/ t[ps.p] \notin {SEMI, NL} /\ ps.p < x
        \/ t[ps.p] = SEMI /\ ps.p = x /\ ps.value = d.value
    BY <2>1, InPlainIs
  <2> QED BY <1>5, <2>2
<1>n. SEMI # NL
  BY DEF SEMI, NL
<1>8. CASE c \notin {SEMI, NL}
  <2>1. ps.p < x /\ Append(ps.value, c) \in Seq(Char)
    BY <1>2, <1>7, <1>8
  <2>2. Then(ps, ps', "value", ps.key, Append(ps.value, c)) /\ pc' = pc /\ data' = data
    BY <1>1, <1>8, <2>1, MovesThen DEF PlainValue, Tells
  <2>3. InPlain(ps', t, d, v, x)
    BY <1>2, <1>5, <2>1, <2>2, InPlainNext
  <2>4. Place(input, ps', n)
    BY <1>6, <2>3 DEF Within
  <2> QED BY <1>2, <2>2, <2>4 DEF Goes
<1>9. CASE c = SEMI
  <2>1. ps.p = x /\ ps.value = d.value /\ ps.key = d.key /\ d.kind = "pair"
    BY <1>5, <1>7, <1>9 DEF InPlain, PlainAt
  <2>2. \/ /\ data' = Put(data, ps.key, Str(ps.value)) /\ pc' = "parse"
           /\ Then(ps, ps', "space", ps.key, ps.value)
        \/ GivesUp
    BY <1>1, <1>2, <1>9, <1>n, InsertTells DEF PlainValue, Tells
  <2>3. CASE /\ data' = Put(data, ps.key, Str(ps.value)) /\ pc' = "parse"
             /\ Then(ps, ps', "space", ps.key, ps.value)
    <3>1. Trailing(input, ps', n + 1)
      BY <1>t, <2>1, <2>3 DEF Then
    <3>2. Place(input, ps', n + 1)
      BY <1>3, <3>1 DEF Place
    <3> QED BY <1>3, <2>1, <2>3, <3>2 DEF Takes, d
  <2> QED BY <2>2, <2>3
<1> QED BY <1>7, <1>8, <1>9

\* In a quoted value: a character, an escaped quote, or the quote that ends it, at
\* which the pair is put.
LEMMA QtValueTells ==
  ASSUME NEW n, Tells(n), QtValue
  PROVE  Goes(n) \/ Takes(n) \/ GivesUp
<1>1. At("qt_value") /\ "qt_value" \in States /\ "value_skip" \in States
  BY DEF QtValue, States
<1>2. /\ pc = "parse" /\ ps.p \in Nat \ {0} /\ c = input.text[ps.p] /\ c \in Char /\ ps.state = "qt_value"
      /\ n \in 0 .. Len(input.directives) /\ Len(input.directives) \in Nat /\ Told(input)
      /\ ps.value \in Seq(Char)
  BY <1>1, AtIs
<1>3. n < Len(input.directives) /\ n + 1 \in 0 .. Len(input.directives)
  BY <1>1, <1>2, ReadingTells
<1>4. PICK k \in Nat, v \in Nat, x \in Nat :
        Spelling(input, n + 1, k, v, x) /\ InQuotes(ps, input.text, input.directives[n + 1], v, x)
  BY <1>1, ReadingTells
<1> DEFINE t == input.text
<1> DEFINE d == input.directives[n + 1]
<1> DEFINE b == input.at[n + 1]
<1> DEFINE e == input.at[n + 1 + 1]
<1> DEFINE w == Closing(d, v)
<1>5. Spells(t, d, b, k, v, x, e) /\ InQuotes(ps, t, d, v, x) /\ c = t[ps.p] /\ t = text
  BY <1>2, <1>4 DEF Spelling, Tells
<1>6. \A q : Within(q, t, d, b, k, v, x) => Place(input, q, n)
  BY <1>2, <1>4, Within1
<1>s. \A q : Behind(q, t, d, v, x) => Place(input, q, n + 1)
  BY <1>3, <1>4 DEF Place, Skipping
<1>p. ps.p \in Nat \ {0} /\ Len(t) \in Nat
  BY <1>2 DEF Told
<1> HIDE DEF t, d, b, e
<1>7. /\ v < ps.p /\ ps.p <= w
      /\ \/ t[ps.p] = QT /\ ps.p = w /\ ps.value = d.value /\ d.kind = "pair"
         \/ t[ps.p] \notin {QT, NL} /\ ps.p < w
  <2> HIDE DEF w
  <2>1. w = Closing(d, v)
    BY DEF w
  <2> QED BY <1>5, <1>p, <2>1, InQuotesIs
<1>q. /\ w \in Nat /\ w < Len(t)
  <2>1. QuotedAt(t, d, v, x)
    BY <1>5 DEF InQuotes
  <2>2. w \in Nat /\ w < x /\ x <= Len(t) /\ x \in Nat
    BY <1>5, <2>1, QuotedIs
  <2> HIDE DEF w
  <2> QED BY <1>p, <2>2
<1> HIDE DEF w
<1>r. ps.p < Len(t)
  BY <1>p, <1>q, <1>7
<1>n. QT # NL /\ BSL # QT /\ BSL # NL
  BY DEF QT, NL, BSL
<1>e. Escaped <=> t[ps.p] = BSL /\ t[ps.p + 1] = QT
  BY <1>5, <1>r DEF Escaped
<1>8. CASE /\ Escaped /\ ps' = [ps EXCEPT !.p = @ + 2, !.value = @ \o <<BSL, QT>>]
           /\ UNCHANGED <<pc, data, index, ret, line_error, heap>> /\ Frame
  <2>1. ps \in [state : States, p : Nat \ {0}, line : Nat \ {0}, key : Seq(Char), value : Seq(Char)]
    BY DEF Tells, TypeOK
  <2>2. ps'.p = ps.p + 2 /\ ps'.state = "qt_value" /\ ps'.key = ps.key /\ ps'.value = ps.value \o <<BSL, QT>>
    BY <1>2, <1>8, <2>1
  <2>3. t[ps.p] = BSL /\ t[ps.p + 1] = QT
    BY <1>8, <1>e
  <2>4. InQuotes(ps', t, d, v, x)
    BY <1>5, <1>p, <2>2, <2>3, InQuotesEscape
  <2>5. Place(input, ps', n)
    BY <1>6, <2>4 DEF Within
  <2> QED BY <1>2, <1>8, <2>5 DEF Goes
<1>9. CASE c = QT /\ Insert("value_skip")
  <2>1. ps.value = d.value /\ ps.key = d.key /\ d.kind = "pair"
    BY <1>5, <1>7, <1>9 DEF InQuotes
  <2>2. \/ /\ data' = Put(data, ps.key, Str(ps.value)) /\ pc' = "parse"
           /\ Then(ps, ps', "value_skip", ps.key, ps.value)
        \/ GivesUp
    BY <1>1, <1>2, <1>9, InsertTells DEF Tells
  <2>3. CASE /\ data' = Put(data, ps.key, Str(ps.value)) /\ pc' = "parse"
             /\ Then(ps, ps', "value_skip", ps.key, ps.value)
    <3>1. ps'.p = ps.p + 1 /\ ps'.state = "value_skip"
      BY <2>3 DEF Then
    <3>2. Behind(ps', t, d, v, x)
      BY <1>5, <1>p, <1>9, <3>1, BehindNext
    <3>3. Place(input, ps', n + 1)
      BY <1>s, <3>2
    <3> QED BY <1>3, <2>1, <2>3, <3>3 DEF Takes, d
  <2> QED BY <2>2, <2>3
<1>10. CASE c \notin {QT, NL} /\ ~Escaped /\ Value("qt_value", Append(ps.value, c))
  <2>1. Append(ps.value, c) \in Seq(Char)
    BY <1>2
  <2>2. Then(ps, ps', "qt_value", ps.key, Append(ps.value, c)) /\ pc' = pc /\ data' = data
    BY <1>1, <1>10, <2>1, MovesThen DEF Tells
  <2>3. t[ps.p] # QT /\ (t[ps.p] = BSL => t[ps.p + 1] # QT)
    BY <1>5, <1>10, <1>e
  <2>4. InQuotes(ps', t, d, v, x)
    BY <1>5, <1>p, <2>2, <2>3, InQuotesNext
  <2>5. Place(input, ps', n)
    BY <1>6, <2>4 DEF Within
  <2> QED BY <1>2, <2>2, <2>5 DEF Goes
<1>11. c # NL
  BY <1>5, <1>7, <1>n
<1> QED BY <1>8, <1>9, <1>10, <1>11 DEF QtValue

\* Behind that quote.
LEMMA ValueSkipTells ==
  ASSUME NEW n, Tells(n), ValueSkip
  PROVE  Goes(n)
<1>1. At("value_skip") /\ "value_skip" \in States /\ "space" \in States
  BY DEF ValueSkip, States
<1>2. /\ pc = "parse" /\ ps.p \in Nat \ {0} /\ c = input.text[ps.p] /\ ps.state = "value_skip"
      /\ n \in 0 .. Len(input.directives) /\ Told(input) /\ Place(input, ps, n)
  BY <1>1, AtIs DEF Tells
<1>3. Skipping(input, ps, n)
  BY <1>2, PlaceIs
<1>4. PICK k \in Nat, v \in Nat, x \in Nat :
        Spelling(input, n, k, v, x) /\ Behind(ps, input.text, input.directives[n], v, x)
  BY <1>3 DEF Skipping
<1> DEFINE t == input.text
<1> DEFINE d == input.directives[n]
<1>5. Spells(t, d, input.at[n], k, v, x, input.at[n + 1]) /\ Behind(ps, t, d, v, x)
  BY <1>4 DEF Spelling
<1>6. \A q : Behind(q, t, d, v, x) => Place(input, q, n)
  BY <1>2, <1>4 DEF Place, Skipping
<1>t. \A r : r.p = x + 1 /\ r.state = "space" => Place(input, r, n)
  BY <1>2, <1>4, Trails DEF Place
<1> HIDE DEF t, d
<1>7. \A r : r.p = ps.p + 1 /\ r.state = "value_skip" =>
        \/ t[ps.p] \notin {SEMI, NL} /\ Behind(r, t, d, v, x)
        \/ t[ps.p] = SEMI /\ ps.p = x
  <2>1. ps.p \in Nat \ {0}
    BY <1>2
  <2> QED BY <1>5, <2>1, BehindNext
<1>8. /\ Goto("space") => Then(ps, ps', "space", ps.key, ps.value) /\ pc' = pc /\ data' = data
      /\ Goto("value_skip") => Then(ps, ps', "value_skip", ps.key, ps.value) /\ pc' = pc /\ data' = data
  BY <1>1, MovesThen DEF Tells
<1>9. \/ t[ps.p] \notin {SEMI, NL}
      \/ t[ps.p] = SEMI /\ ps.p = x
  <2>1. \E r : r.p = ps.p + 1 /\ r.state = "value_skip"
    <3> DEFINE r == [p |-> ps.p + 1, state |-> "value_skip"]
    <3>1. r.p = ps.p + 1 /\ r.state = "value_skip"
      OBVIOUS
    <3> QED BY <3>1
  <2> QED BY <1>7, <2>1
<1>c. c = t[ps.p] /\ SEMI # NL
  BY <1>2 DEF t, SEMI, NL
<1>10. CASE c = SEMI
  <2>1. ps.p = x /\ Then(ps, ps', "space", ps.key, ps.value) /\ pc' = pc /\ data' = data
    BY <1>8, <1>9, <1>10, <1>c DEF ValueSkip
  <2>2. Place(input, ps', n)
    BY <1>t, <2>1 DEF Then
  <2> QED BY <1>2, <2>1, <2>2 DEF Goes
<1>11. CASE c # SEMI
  <2>1. c # NL
    BY <1>9, <1>11, <1>c
  <2>2. Then(ps, ps', "value_skip", ps.key, ps.value) /\ pc' = pc /\ data' = data
    BY <1>8, <1>11, <2>1 DEF ValueSkip
  <2>3. Behind(ps', t, d, v, x)
    BY <1>7, <1>11, <1>c, <2>2 DEF Then
  <2>4. Place(input, ps', n)
    BY <1>6, <2>3
  <2> QED BY <1>2, <2>2, <2>4 DEF Goes
<1> QED BY <1>10, <1>11

\* At the semicolon of a copy.
LEMMA AtCopyIs ==
  ASSUME NEW n, Tells(n), ps.state = "copy_value", ps.p <= Len(text), text[ps.p] = SEMI
  PROVE  AtCopy(n)
<1>1. /\ Told(input) /\ text = input.text /\ ps.p \in Nat \ {0} /\ Place(input, ps, n)
      /\ Len(input.directives) \in Nat
  BY DEF Tells, TypeOK, Told
<1>2. n \in 0 .. Len(input.directives) /\ Reading(input, ps, n + 1)
  BY <1>1, PlaceIs
<1>3. PICK k \in Nat, v \in Nat, x \in Nat :
        Spelling(input, n + 1, k, v, x) /\ InCopied(ps, input.text, input.directives[n + 1], v, x)
  BY <1>2, ReadingIs
<1>4. n < Len(input.directives) /\ n + 1 \in 0 .. Len(input.directives)
  BY <1>1, <1>2, <1>3 DEF Spelling
<1> DEFINE t == input.text
<1> DEFINE d == input.directives[n + 1]
<1>5. Spells(t, d, input.at[n + 1], k, v, x, input.at[n + 1 + 1]) /\ InCopied(ps, t, d, v, x) /\ t[ps.p] = SEMI
  BY <1>1, <1>3 DEF Spelling
<1>6. \A r : r.p = x + 1 /\ r.state = "space" => Place(input, r, n + 1)
  BY <1>1, <1>3, <1>4, Trails DEF Place
<1> HIDE DEF t, d
<1>7. ps.p = x /\ ps.value = d.value
  <2>1. \/ t[ps.p] \notin {SEMI, NL} /\ ps.p < x
        \/ t[ps.p] = SEMI /\ ps.p = x /\ ps.value = d.value
    BY <1>1, <1>5, InPlainIs
  <2> QED BY <1>5, <2>1
<1>8. ps.key = d.key /\ d.kind = "copy"
  BY <1>5 DEF InCopied, CopiedAt
<1> QED BY <1>4, <1>6, <1>7, <1>8 DEF AtCopy, d

\* In the prefix of a copy.
LEMMA CopyValueTells ==
  ASSUME NEW n, Tells(n), CopyValue
  PROVE  \/ Goes(n) \/ Refuses
         \/ AtCopy(n) /\ Reach(NotBefore(data, ps.value)) /\ data' = data /\ line_error' = line_error
<1>1. At("copy_value") /\ "copy_value" \in States
  BY DEF CopyValue, States
<1>2. /\ pc = "parse" /\ ps.p \in Nat \ {0} /\ c = input.text[ps.p] /\ c \in Char /\ ps.state = "copy_value"
      /\ n \in 0 .. Len(input.directives) /\ Len(input.directives) \in Nat /\ Told(input)
      /\ ps.value \in Seq(Char)
  BY <1>1, AtIs
<1>3. n < Len(input.directives) /\ n + 1 \in 0 .. Len(input.directives) /\ n + 1 \in 1 .. Len(input.directives)
  BY <1>1, <1>2, ReadingTells
<1>4. PICK k \in Nat, v \in Nat, x \in Nat :
        Spelling(input, n + 1, k, v, x) /\ InCopied(ps, input.text, input.directives[n + 1], v, x)
  BY <1>1, ReadingTells
<1> DEFINE t == input.text
<1> DEFINE d == input.directives[n + 1]
<1> DEFINE b == input.at[n + 1]
<1> DEFINE e == input.at[n + 1 + 1]
<1>5. Spells(t, d, b, k, v, x, e) /\ InCopied(ps, t, d, v, x) /\ c = t[ps.p]
  BY <1>2, <1>4 DEF Spelling
<1>6. \A q : Within(q, t, d, b, k, v, x) => Place(input, q, n)
  BY <1>2, <1>4, Within1
<1>p. ps.p \in Nat \ {0}
  BY <1>2
<1> HIDE DEF t, d, b, e
<1>7. \/ c \notin {SEMI, NL} /\ ps.p < x
      \/ c = SEMI /\ ps.p = x /\ ps.value = d.value
  <2>1. \/ t[ps.p] \notin {SEMI, NL} /\ ps.p < x
        \/ t[ps.p] = SEMI /\ ps.p = x /\ ps.value = d.value
    BY <1>5, <1>p, InPlainIs
  <2> QED BY <1>5, <2>1
<1>n. SEMI # NL
  BY DEF SEMI, NL
<1>8. CASE c \notin {SEMI, NL}
  <2>1. ps.p < x /\ Append(ps.value, c) \in Seq(Char)
    BY <1>2, <1>7, <1>8
  <2>2. Then(ps, ps', "copy_value", ps.key, Append(ps.value, c)) /\ pc' = pc /\ data' = data
    BY <1>1, <1>8, <2>1, MovesThen DEF CopyValue, Tells
  <2>3. InCopied(ps', t, d, v, x)
    BY <1>2, <1>5, <1>p, <2>1, <2>2, InPlainNext
  <2>4. Place(input, ps', n)
    BY <1>6, <2>3 DEF Within
  <2> QED BY <1>2, <2>2, <2>4 DEF Goes
<1>9. CASE c = SEMI
  <2>1. ps.p = x /\ ps.value = d.value /\ ps.key = d.key /\ d.kind = "copy"
    BY <1>5, <1>7, <1>9 DEF InCopied, CopiedAt
  <2>2. CASE TooLong(ps.value)
    <3>1. Len(input.directives[n + 1].value) > KeyMax /\ input.directives[n + 1].kind = "copy"
      BY <2>1, <2>2 DEF TooLong, d
    <3>2. Overlong
      BY <1>3, <3>1 DEF Overlong
    <3>3. Fail(ps.line)
      BY <1>9, <1>n, <2>2 DEF CopyValue
    <3> QED BY <3>2, <3>3 DEF Fail, Return, Refuses
  <2>3. CASE ~TooLong(ps.value)
    <3>1. Reach(NotBefore(data, ps.value)) /\ data' = data /\ line_error' = line_error
      BY <1>9, <1>n, <2>3 DEF CopyValue
    <3>2. AtCopy(n)
      BY <1>1, <1>9, AtCopyIs DEF At, c
    <3> QED BY <3>1, <3>2
  <2> QED BY <2>2, <2>3
<1> QED BY <1>7, <1>8, <1>9

\* Where the text ends, its directives are read.
LEMMA EndTells ==
  ASSUME NEW n, Tells(n), ParseEnds
  PROVE  Done(n)
<1>1. ps.p > Len(input.text) /\ ps.p \in Nat \ {0} /\ Told(input) /\ Place(input, ps, n) /\ Len(input.text) \in Nat
  BY DEF Tells, ParseEnds, TypeOK, Told
<1>2. ~Reading(input, ps, n + 1)
  <2>1. ASSUME NEW k \in Nat, NEW v \in Nat, NEW x \in Nat, Spelling(input, n + 1, k, v, x),
               Within(ps, input.text, input.directives[n + 1], input.at[n + 1], k, v, x)
        PROVE  FALSE
    <3> DEFINE t == input.text
    <3> DEFINE d == input.directives[n + 1]
    <3> DEFINE b == input.at[n + 1]
    <3>1. Spells(t, d, b, k, v, x, input.at[n + 1 + 1]) /\ Within(ps, t, d, b, k, v, x)
      BY <2>1 DEF Spelling
    <3> HIDE DEF t, d, b
    <3>2. InKey(ps, t, b, k) => ps.p <= Len(t)
      BY <1>1, <3>1, InKeyIs
    <3>3. InGap(ps, d, k, v) => ps.p <= Len(t)
      BY <1>1, <3>1, InGapIs
    <3>4. InPlain(ps, t, d, v, x) \/ InCopied(ps, t, d, v, x) => ps.p <= Len(t)
      BY <1>1, <3>1, InPlainIs
    <3>5. InQuotes(ps, t, d, v, x) => ps.p <= Len(t)
      <4> DEFINE w == Closing(d, v)
      <4>1. w = Closing(d, v)
        OBVIOUS
      <4> HIDE DEF w
      <4> QED BY <1>1, <3>1, <4>1, InQuotesIs
    <3>6. ps.p <= Len(input.text)
      BY <3>1, <3>2, <3>3, <3>4, <3>5 DEF Within, t
    <3> QED BY <1>1, <3>6
  <2> QED BY <2>1 DEF Reading
<1>3. ~Skipping(input, ps, n)
  <2>1. ASSUME NEW k \in Nat, NEW v \in Nat, NEW x \in Nat, Spelling(input, n, k, v, x),
               Behind(ps, input.text, input.directives[n], v, x)
        PROVE  FALSE
    <3>1. ps.p <= x /\ x < input.at[n + 1] /\ input.at[n + 1] <= Len(input.text) + 1 /\ input.at[n + 1] \in Nat
      BY <2>1 DEF Behind, Spelling, Spells
    <3> QED BY <1>1, <3>1
  <2> QED BY <2>1 DEF Skipping
<1>4. Trailing(input, ps, n) /\ n \in 0 .. Len(input.directives)
  BY <1>1, <1>2, <1>3 DEF Place
<1>5. input.at[n + 1] \in Nat /\ input.at[n + 1] <= Len(input.text) + 1 /\ ps.p <= input.at[n + 1]
  BY <1>1, <1>4, NextBegins DEF Trailing
<1>6. input.at[n + 1] = Len(input.text) + 1
  BY <1>1, <1>5
<1>7. n = Len(input.directives)
  BY <1>1, <1>4, <1>6, NextBegins
<1> QED BY <1>7 DEF ParseEnds, Return, LoadFrame, Tells, Done
-----------------------------------------------------------------------------
(* The map after some directives *)

\* The loop is at the entry j of the map f, in the copy after n directives: what
\* it has passed is copied.
Walked(i, n, f, j) ==
  LET m == Maps(i.directives)[n]
      d == i.directives[n + 1]
  IN  j \in Under(m, d) /\ Copies(f, m, d, Passed(m, d, j))

Mapped(n) ==
  IF pc = "copy" THEN Walked(input, n, data, index) ELSE data = Maps(input.directives)[n]

\* The directives lead through a map with a key that is too long.
Outgrown ==
  \E n \in 1 .. Len(input.directives) :
    \E k \in DOMAIN Maps(input.directives)[n] : Len(k) > KeyMax

\* A text of directives is understood: the parser has its place in it, and the map
\* is what the directives it has behind it say.
Understood ==
  Telling =>
    /\ input \in Inputs
    /\ pc \in {"new", "load"} => data = EmptyMap
    /\ pc = "load" => text = input.text
    /\ InLoop => /\ text = input.text
                 /\ \E n \in 0 .. Len(input.directives) :
                      Place(input, ps, n) /\ (Apart(input.directives) => Mapped(n))
    /\ pc = "ready" \/ (pc = "return" /\ ret = OK) =>
         (Apart(input.directives) => data = Meaning(input.directives))
    /\ pc = "return" /\ line_error # 0 => Overlong
    /\ pc = "overrun" => (Apart(input.directives) => Outgrown)

\* A map that directives lead to is a function.
LEMMA MapIs ==
  ASSUME NEW i, Told(i), NEW n \in 0 .. Len(i.directives), NEW m, m = Maps(i.directives)[n]
  PROVE  m = [l \in DOMAIN m |-> m[l]]
<1>1. Len(i.directives) \in Nat
  BY DEF Told
<1>2. CASE n = 0
  BY <1>1, <1>2, MapsAre DEF EmptyMap
<1>3. CASE n # 0
  <2>1. n \in 1 .. Len(i.directives)
    BY <1>1, <1>3
  <2>2. m = Effect(Maps(i.directives)[n - 1], i.directives[n])
    BY <1>1, <2>1, MapsAre
  <2>3. ASSUME NEW f, NEW d, m = Effect(f, d) PROVE m = [l \in DOMAIN m |-> m[l]]
    BY <2>3 DEF Effect, Put
  <2> QED BY <2>2, <2>3
<1> QED BY <1>2, <1>3

\* The keys and values of its directives are strings.
LEMMA DirectedIs ==
  ASSUME NEW i, Told(i), NEW n \in 1 .. Len(i.directives)
  PROVE  Directed(i.directives[n])
<1>1. PICK k \in Nat, v \in Nat, x \in Nat : Spelling(i, n, k, v, x)
  BY DEF Told
<1> QED BY <1>1 DEF Spelling, Spells

\* What Reach does at a copy: the parser is after it, or the loop at an entry.
LEMMA ReachTells ==
  ASSUME TypeOK, NEW n, AtCopy(n), Place(input, ps, n), Told(input), NEW S, Reach(S)
  PROVE  \/ /\ pc' = "parse" /\ (S = {} \/ ~IsPrefix(ps.value, First(S))) /\ Place(input, ps', n + 1)
         \/ /\ pc' = "copy" /\ ~(S = {} \/ ~IsPrefix(ps.value, First(S))) /\ Place(input, ps', n)
            /\ index' = First(S)
<1>1. CASE S = {} \/ ~IsPrefix(ps.value, First(S))
  <2>1. pc' = "parse" /\ ps' = [ps EXCEPT !.state = "space", !.p = @ + 1]
    BY <1>1 DEF Reach
  <2>2. ps'.p = ps.p + 1 /\ ps'.state = "space"
    BY <2>1 DEF TypeOK
  <2>3. Place(input, ps', n + 1)
    BY <2>2 DEF AtCopy
  <2> QED BY <1>1, <2>1, <2>3
<1>2. CASE ~(S = {} \/ ~IsPrefix(ps.value, First(S)))
  <2>1. pc' = "copy" /\ index' = First(S) /\ ps' = ps
    BY <1>2 DEF Reach
  <2>2. Place(input, ps', n)
    BY <2>1
  <2> QED BY <1>2, <2>1, <2>2
<1> QED BY <1>1, <1>2

\* What it means: the keys K are copied, and the loop is at the first of the others.
LEMMA ReachMaps ==
  ASSUME NEW n \in Nat, n + 1 \in 1 .. Len(input.directives), Told(input), NEW m, NEW d,
         m = Maps(input.directives)[n], d = input.directives[n + 1], Keys(m), d.kind = "copy",
         NEW K, NEW S, Copies(data', m, d, K),
         Lands(m, d, S, K)
  PROVE  /\ S = {} \/ ~IsPrefix(d.value, First(S)) => data' = Maps(input.directives)[n + 1]
         /\ ~(S = {} \/ ~IsPrefix(d.value, First(S))) => Walked(input, n, data', First(S))
<1>1. Directed(d) /\ Len(input.directives) \in Nat
  BY DirectedIs DEF Told
<1>2. ASSUME S = {} \/ ~IsPrefix(d.value, First(S)) PROVE data' = Maps(input.directives)[n + 1]
  <2>1. Under(m, d) = K
    BY <1>2 DEF Lands
  <2>4. data' = Effect(m, d)
    BY <1>1, <2>1, CopiesAll
  <2>2. Maps(input.directives)[n + 1] = Effect(Maps(input.directives)[(n + 1) - 1], input.directives[n + 1])
    BY <1>1, MapsAre
  <2>3. (n + 1) - 1 = n
    OBVIOUS
  <2> QED BY <2>2, <2>3, <2>4
<1>3. ASSUME ~(S = {} \/ ~IsPrefix(d.value, First(S))) PROVE Walked(input, n, data', First(S))
  BY <1>3 DEF Walked, Lands
<1> QED BY <1>2, <1>3

\* A step that stays in the loop, and one that is out of it.
LEMMA StaysUnderstood ==
  ASSUME input \in Inputs, input' = input, text = input.text, text' = text, pc' \in {"parse", "copy"},
         NEW n \in 0 .. Len(input.directives), Place(input, ps', n),
         Apart(input.directives) =>
           IF pc' = "copy" THEN Walked(input, n, data', index')
                           ELSE data' = Maps(input.directives)[n]
  PROVE  Understood'
BY DEF Understood, InLoop, Mapped

LEMMA LeavesUnderstood ==
  ASSUME input \in Inputs, input' = input, pc' \notin {"new", "load", "parse", "copy"},
         pc' = "ready" \/ (pc' = "return" /\ ret' = OK) =>
           (Apart(input.directives) => data' = Meaning(input.directives)),
         pc' = "return" /\ line_error' # 0 => Overlong,
         pc' = "overrun" => (Apart(input.directives) => Outgrown)
  PROVE  Understood'
BY DEF Understood, InLoop, Overlong, Outgrown

-----------------------------------------------------------------------------
(* The steps of a load *)

\* A load begins before the first directive, with nothing in the map.
LEMMA StartUnderstood ==
  ASSUME Understood, Telling, Start, input' = input
  PROVE  Understood'
<1>1. pc = "load" /\ input \in Inputs /\ data = EmptyMap /\ text = input.text /\ text' = text /\ data' = data
  BY DEF Understood, Start, OpenFails, SrcFails, ConfFails, ReadFails, Load, LoadFrame
<1>2. CASE OpenFails \/ SrcFails \/ ConfFails \/ ReadFails
  <2>1. pc' = "return" /\ ret' = ERROR /\ line_error' = 0
    BY <1>2 DEF OpenFails, SrcFails, ConfFails, ReadFails
  <2>2. ret' # OK
    BY <2>1 DEF OK, ERROR
  <2> QED BY <1>1, <2>1, <2>2, LeavesUnderstood
<1>3. CASE Load
  <2>1. pc' = "parse" /\ ps' = Begun
    BY <1>3 DEF Load
  <2>2. Told(input)
    BY <1>1, TextTold DEF Telling
  <2>3. Begun.state = "space" /\ Begun.p = 1 /\ 0 + 1 = 1
    BY DEF Begun
  <2>4. /\ 0 \in 0 .. Len(input.directives) /\ input.at[1] \in Nat \ {0}
        /\ Blank(input.text, 1, input.at[1]) /\ Len(input.directives) \in Nat
    BY <2>2 DEF Told
  <2>5. ~InComment(input.text, 1, 1)
    BY NoComment
  <2>6. Trailing(input, Begun, 0)
    <3>1. 1 <= input.at[1] /\ 1 \in 1 .. 1
      BY <2>4
    <3> QED BY <2>3, <2>4, <2>5, <3>1 DEF Trailing
  <2>7. data' = Maps(input.directives)[0]
    BY <1>1, <2>4, MapsAre
  <2>8. Place(input, ps', 0)
    BY <2>1, <2>4, <2>6 DEF Place
  <2> QED BY <1>1, <2>1, <2>4, <2>7, <2>8, StaysUnderstood
<1> QED BY <1>2, <1>3 DEF Start

\* The parser has a place in its text.
LEMMA LoopTells ==
  ASSUME IInv, Understood, Telling, InLoop
  PROVE  /\ input \in Inputs /\ text = input.text
         /\ \E n \in 0 .. Len(input.directives) :
              Tells(n) /\ (Apart(input.directives) => Mapped(n))
<1>1. TypeOK /\ line_error = 0
  BY DEF IInv, Parsing
<1>2. Told(input)
  BY TextTold DEF Understood, Telling
<1> QED BY <1>1, <1>2 DEF Understood, Tells

\* At a copy: what is copied is copied, and the parser goes on behind it, or the
\* loop to the next entry.
LEMMA ReachUnderstood ==
  ASSUME TypeOK, NEW n, AtCopy(n), Place(input, ps, n), Told(input), input \in Inputs, input' = input,
         text = input.text, text' = text, NEW S, Reach(S),
         NEW m, m = Maps(input.directives)[n], NEW d, d = input.directives[n + 1], NEW K,
         Apart(input.directives) =>
           /\ Keys(m) /\ Copies(data', m, d, K)
           /\ Lands(m, d, S, K)
  PROVE  Understood'
<1>1. /\ n \in 0 .. Len(input.directives) /\ n < Len(input.directives) /\ Len(input.directives) \in Nat
      /\ d.kind = "copy" /\ ps.value = d.value
  BY PlaceIs DEF AtCopy, Told
<1>2. n \in Nat /\ n + 1 \in 1 .. Len(input.directives) /\ n + 1 \in 0 .. Len(input.directives)
  BY <1>1
<1>3. Apart(input.directives) =>
        /\ S = {} \/ ~IsPrefix(d.value, First(S)) => data' = Maps(input.directives)[n + 1]
        /\ ~(S = {} \/ ~IsPrefix(d.value, First(S))) => Walked(input, n, data', First(S))
  BY <1>1, <1>2, ReachMaps
<1>4. \/ /\ pc' = "parse" /\ (S = {} \/ ~IsPrefix(ps.value, First(S))) /\ Place(input, ps', n + 1)
      \/ /\ pc' = "copy" /\ ~(S = {} \/ ~IsPrefix(ps.value, First(S))) /\ Place(input, ps', n)
         /\ index' = First(S)
  BY ReachTells
<1>5. CASE pc' = "parse" /\ (S = {} \/ ~IsPrefix(ps.value, First(S))) /\ Place(input, ps', n + 1)
  BY <1>1, <1>2, <1>3, <1>5, StaysUnderstood
<1>6. CASE /\ pc' = "copy" /\ ~(S = {} \/ ~IsPrefix(ps.value, First(S))) /\ Place(input, ps', n)
           /\ index' = First(S)
  BY <1>1, <1>3, <1>6, StaysUnderstood
<1> QED BY <1>4, <1>5, <1>6

\* A step of the parser.
LEMMA ParseUnderstood ==
  ASSUME IInv, Understood, Telling, Parse, input' = input
  PROVE  Understood'
<1>1. pc = "parse" /\ text' = text
  BY DEF Parse, Space, Comment, Key, KeySp, PlainValue, QtValue, ValueSkip, CopyValue, ParseEnds, At,
         Goto, NextLine, Value, Insert, Fail, Frame, LoadFrame
<1>2. InLoop /\ pc # "copy"
  BY <1>1 DEF InLoop
<1>3. input \in Inputs /\ text = input.text
  BY <1>2, LoopTells
<1>4. PICK n \in 0 .. Len(input.directives) : Tells(n) /\ (Apart(input.directives) => Mapped(n))
  BY <1>2, LoopTells
<1> DEFINE m == Maps(input.directives)[n]
<1> DEFINE d == input.directives[n + 1]
<1>5. Apart(input.directives) => data = m
  BY <1>2, <1>4 DEF Mapped
<1>6. Told(input) /\ TypeOK /\ Len(input.directives) \in Nat /\ Place(input, ps, n)
  BY <1>4 DEF Tells, Told
<1>7. CASE Goes(n)
  BY <1>1, <1>3, <1>5, <1>7, StaysUnderstood DEF Goes
<1>8. CASE Takes(n)
  <2>1. /\ n < Len(input.directives) /\ d.kind = "pair" /\ data' = Put(data, d.key, Str(d.value))
        /\ pc' = "parse" /\ Place(input, ps', n + 1)
    BY <1>8 DEF Takes
  <2>2. n + 1 \in 1 .. Len(input.directives) /\ n + 1 \in 0 .. Len(input.directives) /\ (n + 1) - 1 = n
    BY <1>6, <2>1
  <2>3. Maps(input.directives)[n + 1] = Effect(m, d)
    BY <1>6, <2>2, MapsAre
  <2>4. Effect(m, d) = Put(m, d.key, Str(d.value))
    BY <2>1 DEF Effect
  <2>5. Apart(input.directives) => data' = Maps(input.directives)[n + 1]
    BY <1>5, <2>1, <2>3, <2>4
  <2> QED BY <1>1, <1>3, <2>1, <2>2, <2>5, StaysUnderstood
<1>9. CASE GivesUp \/ Refuses
  <2>1. pc' = "return" /\ ret' = ERROR /\ (line_error' # 0 => Overlong)
    BY <1>9 DEF GivesUp, Refuses
  <2>2. ret' # OK
    BY <2>1 DEF OK, ERROR
  <2> QED BY <1>3, <2>1, <2>2, LeavesUnderstood
<1>10. CASE Done(n)
  <2>1. /\ n = Len(input.directives) /\ data' = data /\ pc' = "return" /\ line_error' = 0
    BY <1>10 DEF Done
  <2>2. Apart(input.directives) => data' = Meaning(input.directives)
    BY <1>5, <2>1 DEF Meaning
  <2> QED BY <1>3, <2>1, <2>2, LeavesUnderstood
<1>11. CASE AtCopy(n) /\ Reach(NotBefore(data, ps.value)) /\ data' = data
  <2> DEFINE S == NotBefore(data, d.value)
  <2>1. n < Len(input.directives) /\ ps.value = d.value /\ d.kind = "copy"
    BY <1>11 DEF AtCopy
  <2>2. n + 1 \in 1 .. Len(input.directives)
    BY <1>6, <2>1
  <2>3. Directed(d)
    BY <1>6, <2>2, DirectedIs
  <2>4. Keys(data) /\ IsFiniteSet(DOMAIN data)
    BY DEF IInv, TypeOK, Kept, Keys
  <2>5. m = [l \in DOMAIN m |-> m[l]]
    BY <1>6, MapIs
  <2>6. Reach(S)
    BY <1>11, <2>1
  <2>m. m = Maps(input.directives)[n] /\ d = input.directives[n + 1] /\ S = NotBefore(data, d.value)
    OBVIOUS
  <2> HIDE DEF m, d, S
  <2>7. ASSUME Apart(input.directives)
        PROVE  /\ Keys(m) /\ Copies(data', m, d, {})
               /\ Lands(m, d, S, {})
    <3>1. data = m /\ data' = m
      BY <1>5, <1>11, <2>7
    <3>2. Keys(m) /\ IsFiniteSet(DOMAIN m) /\ S = NotBefore(m, d.value)
      BY <2>4, <2>m, <3>1
    <3>3. Copies(data', m, d, {})
      BY <2>5, <3>1, CopiesNone
    <3>4. Lands(m, d, S, {})
      BY <2>3, <3>2, WalkBegins
    <3> QED BY <3>2, <3>3, <3>4
  <2> QED BY <1>1, <1>3, <1>6, <1>11, <2>6, <2>7, <2>m, ReachUnderstood
<1>12. Goes(n) \/ Takes(n) \/ GivesUp \/ Refuses \/ Done(n)
         \/ (AtCopy(n) /\ Reach(NotBefore(data, ps.value)) /\ data' = data)
  BY <1>4, SpaceTells, CommentTells, KeyTells, KeySpTells, PlainValueTells, QtValueTells, ValueSkipTells,
     CopyValueTells, EndTells DEF Parse
<1> QED BY <1>7, <1>8, <1>9, <1>10, <1>11, <1>12

\* A step of the copy loop.
LEMMA CopyUnderstood ==
  ASSUME IInv, IInv', Understood, Telling, Copy, input' = input
  PROVE  Understood'
<1>1. /\ pc = "copy" /\ text' = text /\ data' = Put(data, NewKey, data[index])
      /\ Reach(After(data', index)) /\ InLoop
  BY DEF Copy, Frame, InLoop
<1>2. input \in Inputs /\ text = input.text
  BY <1>1, LoopTells
<1>3. PICK n \in 0 .. Len(input.directives) : Tells(n) /\ (Apart(input.directives) => Mapped(n))
  BY <1>1, LoopTells
<1>4. Told(input) /\ TypeOK /\ Len(input.directives) \in Nat /\ Place(input, ps, n)
  BY <1>3 DEF Tells, Told
<1> DEFINE m == Maps(input.directives)[n]
<1> DEFINE d == input.directives[n + 1]
<1> DEFINE S == After(data', index)
<1> DEFINE K == Passed(m, d, index) \cup {index}
<1>5. AtCopy(n)
  BY <1>1, <1>3, AtCopyIs DEF IInv, Copying
<1>6. n < Len(input.directives) /\ ps.key = d.key /\ ps.value = d.value /\ d.kind = "copy"
  BY <1>5 DEF AtCopy
<1>7. n + 1 \in 1 .. Len(input.directives)
  BY <1>4, <1>6
<1>8. Directed(d)
  BY <1>4, <1>7, DirectedIs
<1>9. Keys(data) /\ Keys(data') /\ IsFiniteSet(DOMAIN data')
  BY DEF IInv, TypeOK, Kept, Keys
<1>10. Apart(input.directives) => /\ index \in Under(m, d) /\ Copies(data, m, d, Passed(m, d, index))
                                  /\ Parted(d)
  <2>1. Apart(input.directives) => Parted(d)
    BY <1>6, <1>7 DEF Apart, Parted
  <2> QED BY <1>1, <1>3, <2>1 DEF Mapped, Walked
<1>11. NewKey = Moved(d, index)
  BY <1>6 DEF NewKey, Moved
<1>m. /\ m = Maps(input.directives)[n] /\ d = input.directives[n + 1] /\ S = After(data', index)
      /\ K = Passed(m, d, index) \cup {index} /\ Reach(S)
  BY <1>1
<1> HIDE DEF m, d, S, K
<1>12. ASSUME Apart(input.directives)
       PROVE  /\ Keys(m) /\ Copies(data', m, d, K)
              /\ Lands(m, d, S, K)
  <2> DEFINE P == Passed(m, d, index)
  <2>1. index \in Under(m, d) /\ Copies(data, m, d, P) /\ Parted(d)
    BY <1>10, <1>12
  <2>2. P \subseteq Under(m, d) /\ index \notin P
    <3>1. ~Before(index, index)
      BY <1>4, BeforeIrreflexive DEF TypeOK
    <3> QED BY <3>1 DEF Passed
  <2>3. K = P \cup {index}
    BY <1>m
  <2> HIDE DEF P
  <2>4. Keys(m)
    <3>1. DOMAIN m \subseteq DOMAIN data
      BY <2>1 DEF Copies
    <3> QED BY <1>9, <3>1 DEF Keys
  <2>5. data[index] = m[index]
    BY <1>8, <2>1, <2>2, <2>4, CopiesApart
  <2>6. Copies(data', m, d, K)
    <3>1. Copies(Put(data, Moved(d, index), m[index]), m, d, P \cup {index})
      BY <1>8, <2>1, <2>2, <2>4, CopiesMore
    <3> QED BY <1>1, <1>11, <2>3, <2>5, <3>1
  <2>7. Copies(data', m, d, Passed(m, d, index) \cup {index})
    BY <1>m, <2>6
  <2>8. Lands(m, d, S, K)
    <3> DEFINE f == data'
    <3>1. S = After(f, index) /\ Keys(f) /\ IsFiniteSet(DOMAIN f)
      BY <1>9, <1>m
    <3>2. Copies(f, m, d, Passed(m, d, index) \cup {index})
      BY <2>7
    <3> HIDE DEF f
    <3>3. Lands(m, d, S, Passed(m, d, index) \cup {index})
      BY <1>8, <2>1, <2>4, <3>1, <3>2, WalkGoesOn
    <3> QED BY <1>m, <3>3
  <2> QED BY <2>4, <2>6, <2>8
<1> QED BY <1>1, <1>2, <1>4, <1>5, <1>12, <1>m, ReachUnderstood

\* A copy that overruns its buffers copies an entry of the map the directives have
\* led to, to a key of the next.
LEMMA OverrunIsMeant ==
  ASSUME IInv, Understood, Telling, CopyOverruns, Apart(input.directives)
  PROVE  Outgrown
<1>1. pc = "copy" /\ InLoop /\ (Len(NewKey) > KeyMax \/ Len(index) > KeyMax)
  BY DEF CopyOverruns, InLoop
<1>2. PICK n \in 0 .. Len(input.directives) : Tells(n) /\ Walked(input, n, data, index)
  BY <1>1, LoopTells DEF Mapped
<1>3. Told(input) /\ Len(input.directives) \in Nat
  BY <1>2 DEF Tells, Told
<1> DEFINE m == Maps(input.directives)[n]
<1> DEFINE d == input.directives[n + 1]
<1>4. n < Len(input.directives) /\ ps.key = d.key /\ ps.value = d.value /\ d.kind = "copy"
  BY <1>1, <1>2, AtCopyIs DEF IInv, Copying, AtCopy
<1>5. n + 1 \in 1 .. Len(input.directives) /\ (n + 1) - 1 = n
  BY <1>3, <1>4
<1>6. index \in DOMAIN m /\ index \in Under(m, d)
  BY <1>2 DEF Walked, Under
<1>7. CASE Len(index) > KeyMax
  <2>1. n # 0
    BY <1>3, <1>6, MapsAre DEF EmptyMap
  <2> QED BY <1>3, <1>6, <1>7, <2>1 DEF Outgrown
<1>8. CASE Len(NewKey) > KeyMax
  <2>1. NewKey = Moved(d, index)
    BY <1>4 DEF NewKey, Moved
  <2>2. Maps(input.directives)[n + 1] = Effect(m, d)
    BY <1>3, <1>5, MapsAre
  <2>3. Moved(d, index) \in DOMAIN Effect(m, d)
    BY <1>4, <1>6 DEF Effect, Moved, Under
  <2> QED BY <1>5, <1>8, <2>1, <2>2, <2>3 DEF Outgrown
<1> QED BY <1>1, <1>7, <1>8

\* A step of the caller: what a load returns is handed on.
LEMMA CallerUnderstood ==
  ASSUME IInv, Understood, Telling, Caller, input' = input
  PROVE  Understood'
<1>1. input \in Inputs /\ mode # "test" /\ (pc = "next" => mode = "test")
  BY DEF IInv, Callers, Understood, Telling
<1>2. CASE New
  <2>1. pc = "new" /\ pc' = "load" /\ text' = input.text /\ data' = data
    BY <1>2 DEF New
  <2> QED BY <1>1, <2>1 DEF Understood, InLoop, Telling
<1>3. CASE NewReturns /\ ret = OK
  <2>1. pc = "return" /\ pc' = "ready" /\ data' = data
    BY <1>3 DEF NewReturns
  <2>2. Apart(input.directives) => data' = Meaning(input.directives)
    BY <1>3, <2>1 DEF Understood
  <2> QED BY <1>1, <2>1, <2>2, LeavesUnderstood
<1>4. CASE NewFails \/ Delete \/ (NewReturns /\ ret # OK)
  <2>1. pc' = "end"
    BY <1>4 DEF NewFails, Delete, NewReturns
  <2> QED BY <1>1, <2>1, LeavesUnderstood
<1>5. ~Test /\ ~TestNote /\ ~TestLine /\ ~TestReturns
  BY <1>1 DEF Test, TestNote, TestLine, TestReturns
<1> QED BY <1>2, <1>3, <1>4, <1>5 DEF Caller

\* The text is understood at every step.
LEMMA NextUnderstood ==
  ASSUME IInv, Understood, [Next]_vars
  PROVE  Understood'
<1>1. input' = input /\ mode' = mode
  BY InputStays
<1>2. CASE ~Telling
  BY <1>1, <1>2 DEF Understood, Telling
<1>3. CASE Telling /\ Caller
  BY <1>1, <1>3, CallerUnderstood
<1>4. CASE Telling /\ Start
  BY <1>1, <1>4, StartUnderstood
<1>5. CASE Telling /\ Parse
  BY <1>1, <1>5, ParseUnderstood
<1>6. CASE Telling /\ Copy
  BY <1>1, <1>6, CopyKeeps, CopyUnderstood
<1>7. CASE Telling /\ (CopyOverruns \/ CopyCrashes \/ CopyFails)
  <2>1. pc = "copy" /\ input \in Inputs
    BY <1>7 DEF CopyOverruns, CopyCrashes, CopyFails, Understood
  <2>2. line_error = 0
    BY <2>1 DEF IInv, Parsing, InLoop
  <2>3. pc' \in {"overrun", "crash"} \/ (pc' = "return" /\ ret' = ERROR /\ line_error' = 0)
    BY <1>7, <2>2 DEF CopyOverruns, CopyCrashes, CopyFails, Return
  <2>4. ERROR # OK
    BY DEF OK, ERROR
  <2>5. pc' = "overrun" => (Apart(input.directives) => Outgrown)
    <3>1. pc' = "overrun" => CopyOverruns
      BY <1>7 DEF CopyOverruns, CopyCrashes, CopyFails, Return
    <3> QED BY <1>7, <3>1, OverrunIsMeant
  <2> QED BY <1>1, <2>1, <2>3, <2>4, <2>5, LeavesUnderstood
<1>8. CASE UNCHANGED vars
  BY <1>8 DEF vars, Understood, Telling, InLoop, Mapped, Overlong, Outgrown
<1> QED BY <1>2, <1>3, <1>4, <1>5, <1>6, <1>7, <1>8 DEF Next, CopyLoop

\* The text is understood always.
LEMMA AlwaysUnderstood == Spec => [](IInv /\ Understood)
<1>1. Init => Understood
  BY DEF Init, Understood, InLoop, EmptyMap
<1>2. IInv /\ Understood /\ [Next]_vars => Understood'
  BY NextUnderstood
<1> QED BY Invariance, <1>1, <1>2, PTL DEF Spec

\* However directives are laid out, with blanks, comments, quotes and escapes, and
\* however many there are, a text loads as the map they describe, each copy taken
\* at once although the loop inserts into the map that it walks; it is refused
\* only for a key that is too long.
THEOREM LoadsAsMeant == Spec => []LoadsMeaning
<1>1. IInv /\ Understood => LoadsMeaning
  BY DEF Understood, Telling, LoadsMeaning, Overlong
<1> QED BY AlwaysUnderstood, <1>1, PTL

\* A copy overruns its buffers only if the directives mean a key that is too long:
\* the entries that the loop makes and walks again add none, however many there
\* are, unless a prefix is copied to one above or below it.
THEOREM OverrunsAreMeant == Spec => []OverrunsMeant
<1>1. IInv /\ Understood => OverrunsMeant
  BY DEF Understood, Telling, OverrunsMeant, Outgrown
<1> QED BY AlwaysUnderstood, <1>1, PTL
-----------------------------------------------------------------------------
(* Numbers and their digits *)

\* The bases that numbers are written in.
Bases == {10, 16}

\* In each base a number is what it is without its last digit, and that digit.
LEMMA Divides ==
  ASSUME NEW base \in Bases
  PROVE  /\ base \in Nat /\ base > 1
         /\ \A v \in Nat : /\ v \div base \in Nat /\ v % base \in 0 .. base - 1
                           /\ v = (v \div base) * base + (v % base)
                           /\ v >= base => v \div base < v
<1>1. CASE base = 10
  BY <1>1
<1>2. CASE base = 16
  BY <1>2
<1> QED BY <1>1, <1>2 DEF Bases

\* What digits make up to one of them: that of those before, and one more.
LEMMA ValuesAre ==
  ASSUME NEW d, Len(d) \in Nat, NEW base
  PROVE  /\ Values(d, base)[0] = 0
         /\ \A n \in 1 .. Len(d) : Values(d, base)[n] = Values(d, base)[n - 1] * base + DigitValue(d[n])
<1> DEFINE val(f, n) == f[n - 1] * base + DigitValue(d[n])
<1> DEFINE Upto(n, f) == f = [j \in 0 .. n |-> IF j = 0 THEN 0 ELSE val(f, j)]
<1> DEFINE Bad == {n \in 0 .. Len(d) : \A f : ~Upto(n, f)}
<1>1. ASSUME Bad # {} PROVE FALSE
  <2>1. Bad \subseteq Nat
    OBVIOUS
  <2>2. PICK n \in Bad : \A j \in Bad : n <= j
    <3> HIDE DEF Bad
    <3> QED BY <1>1, <2>1, LeastExists
  <2>3. n \in 0 .. Len(d) /\ \A f : ~Upto(n, f)
    BY <2>2
  <2>4. CASE n = 0
    <3> DEFINE f == [j \in 0 .. 0 |-> 0]
    <3>1. Upto(0, f)
      OBVIOUS
    <3> QED BY <2>3, <2>4, <3>1
  <2>5. CASE n # 0
    <3>1. n - 1 \in 0 .. Len(d) /\ n \in Nat /\ n - 1 \notin Bad
      <4>1. n - 1 \in 0 .. Len(d) /\ n \in Nat /\ ~(n <= n - 1)
        BY <2>3, <2>5
      <4> HIDE DEF Bad
      <4> QED BY <2>2, <4>1
    <3>2. PICK f : Upto(n - 1, f)
      BY <3>1
    <3> DEFINE g == [j \in 0 .. n |-> IF j = n THEN val(f, n) ELSE f[j]]
    <3>3. \A j \in 0 .. n - 1 : f[j] = IF j = 0 THEN 0 ELSE val(f, j)
      BY <3>2
    <3>4. \A j \in 0 .. n : g[j] = IF j = n THEN val(f, n) ELSE f[j]
      OBVIOUS
    <3>5. ASSUME NEW j \in 0 .. n PROVE g[j] = IF j = 0 THEN 0 ELSE val(g, j)
      <4>1. CASE j = 0
        BY <2>5, <3>1, <3>3, <3>4, <4>1
      <4>2. CASE j # 0 /\ j # n
        <5>1. j \in 0 .. n - 1 /\ j - 1 \in 0 .. n /\ j - 1 # n
          BY <3>1, <4>2
        <5>2. g[j] = f[j] /\ g[j - 1] = f[j - 1]
          BY <3>4, <4>2, <5>1
        <5> HIDE DEF g
        <5> QED BY <3>3, <4>2, <5>1, <5>2
      <4>3. CASE j = n
        <5>1. n - 1 \in 0 .. n /\ n - 1 # n /\ n \in 0 .. n
          BY <3>1
        <5>2. g[n] = val(f, n) /\ g[n - 1] = f[n - 1]
          BY <3>4, <5>1
        <5> HIDE DEF g
        <5> QED BY <2>5, <4>3, <5>2
      <4> QED BY <4>1, <4>2, <4>3
    <3>6. Upto(n, g)
      <4>1. g = [j \in 0 .. n |-> g[j]]
        OBVIOUS
      <4> HIDE DEF g
      <4> QED BY <3>5, <4>1
    <3> QED BY <2>3, <3>6
  <2> QED BY <2>4, <2>5
<1>2. \E f : Upto(Len(d), f)
  BY <1>1
<1>3. Upto(Len(d), CHOOSE f : Upto(Len(d), f))
  BY <1>2
<1>4. Upto(Len(d), Values(d, base))
  BY <1>3 DEF Values
<1>5. \A j \in 0 .. Len(d) : Values(d, base)[j] = IF j = 0 THEN 0 ELSE val(Values(d, base), j)
  BY <1>4
<1>6. 0 \in 0 .. Len(d) /\ \A n \in 1 .. Len(d) : n \in 0 .. Len(d) /\ n # 0
  OBVIOUS
<1> QED BY <1>5, <1>6

\* Digits that begin alike make the same.
LEMMA ValuesAgree ==
  ASSUME NEW s, Len(s) \in Nat, NEW t, Len(t) \in Nat, Len(s) <= Len(t), NEW base,
         \A n \in 1 .. Len(s) : s[n] = t[n], NEW n \in 0 .. Len(s)
  PROVE  Values(s, base)[n] = Values(t, base)[n]
<1> DEFINE v == Values(s, base)
<1> DEFINE w == Values(t, base)
<1> DEFINE Bad == {j \in 0 .. Len(s) : v[j] # w[j]}
<1>1. v[0] = 0 /\ \A j \in 1 .. Len(s) : v[j] = v[j - 1] * base + DigitValue(s[j])
  BY ValuesAre
<1>2. w[0] = 0 /\ \A j \in 1 .. Len(t) : w[j] = w[j - 1] * base + DigitValue(t[j])
  BY ValuesAre
<1> HIDE DEF v, w
<1>3. ASSUME Bad # {} PROVE FALSE
  <2>1. Bad \subseteq Nat
    OBVIOUS
  <2>2. PICK j \in Bad : \A l \in Bad : j <= l
    <3> HIDE DEF Bad
    <3> QED BY <1>3, <2>1, LeastExists
  <2>3. j \in 0 .. Len(s) /\ v[j] # w[j]
    BY <2>2
  <2>4. j \in 1 .. Len(s) /\ j \in 1 .. Len(t) /\ j - 1 \in 0 .. Len(s) /\ ~(j <= j - 1)
    BY <1>1, <1>2, <2>3
  <2>5. j - 1 \notin Bad
    <3> HIDE DEF Bad
    <3> QED BY <2>2, <2>4
  <2>6. v[j - 1] = w[j - 1]
    BY <2>4, <2>5
  <2>7. v[j] = w[j]
    BY <1>1, <1>2, <2>4, <2>6
  <2> QED BY <2>3, <2>7
<1> QED BY <1>3 DEF v, w

\* g holds the numerals of numbers in a base whose digits are those of digit.
Numerals(g, base, digit) ==
  g = [v \in 0 .. IntMod - 1 |->
         IF v < base THEN <<digit[v]>> ELSE Append(g[v \div base], digit[v % base])]

\* Such a function there is: what it is at a number needs only smaller ones.
LEMMA NumeralsExist ==
  ASSUME NEW base \in Bases, NEW digit
  PROVE  \E g : Numerals(g, base, digit)
<1> DEFINE of(f, v) == IF v < base THEN <<digit[v]>> ELSE Append(f[v \div base], digit[v % base])
<1> DEFINE Upto(n, f) == f = [v \in 0 .. n |-> of(f, v)]
<1> DEFINE Bad == {n \in 0 .. IntMod - 1 : \A f : ~Upto(n, f)}
<1>n. IntMod \in Nat /\ IntMod - 1 \in 0 .. IntMod - 1
  BY IntAssumption
<1>1. ASSUME Bad # {} PROVE FALSE
  <2>1. Bad \subseteq Nat
    OBVIOUS
  <2>2. PICK n \in Bad : \A j \in Bad : n <= j
    <3> HIDE DEF Bad
    <3> QED BY <1>1, <2>1, LeastExists
  <2>3. n \in 0 .. IntMod - 1 /\ \A f : ~Upto(n, f)
    BY <2>2
  <2>4. CASE n = 0
    <3> DEFINE f == [v \in 0 .. 0 |-> <<digit[v]>>]
    <3>1. \A v \in 0 .. 0 : of(f, v) = <<digit[v]>>
      <4>1. base \in Nat /\ base > 1
        BY Divides
      <4>2. \A v \in 0 .. 0 : v < base
        BY <4>1
      <4> QED BY <4>2
    <3>2. Upto(0, f)
      BY <3>1
    <3> QED BY <2>3, <2>4, <3>2
  <2>5. CASE n # 0
    <3>1. n - 1 \in 0 .. IntMod - 1 /\ n \in Nat /\ n - 1 \notin Bad
      <4>1. n - 1 \in 0 .. IntMod - 1 /\ n \in Nat /\ ~(n <= n - 1)
        BY <1>n, <2>3, <2>5
      <4> HIDE DEF Bad
      <4> QED BY <2>2, <4>1
    <3>2. PICK f : Upto(n - 1, f)
      BY <3>1
    <3> DEFINE g == [v \in 0 .. n |-> IF v = n THEN of(f, n) ELSE f[v]]
    <3>3. \A v \in 0 .. n - 1 : f[v] = of(f, v)
      BY <3>2
    <3>4. \A v \in 0 .. n : g[v] = IF v = n THEN of(f, n) ELSE f[v]
      OBVIOUS
    <3>5. ASSUME NEW v \in 0 .. n PROVE g[v] = of(g, v)
      <4>1. v >= base => v \div base \in 0 .. n /\ v \div base # n
        <5>1. v \in Nat /\ v <= n
          BY <3>1
        <5>2. v >= base => v \div base \in Nat /\ v \div base < v
          BY <5>1, Divides
        <5> DEFINE q == v \div base
        <5>3. v >= base => q \in Nat /\ q < v
          BY <5>2
        <5> HIDE DEF q
        <5>4. v >= base => q \in 0 .. n /\ q # n
          BY <3>1, <5>1, <5>3
        <5> QED BY <5>4 DEF q
      <4>2. v >= base => g[v \div base] = f[v \div base]
        BY <3>4, <4>1
      <4>3. v \in Int /\ base \in Int
        BY <3>1, Divides
      <4> HIDE DEF g
      <4>4. of(g, v) = of(f, v)
        BY <4>2, <4>3
      <4>5. g[v] = of(f, v)
        <5>1. v = n \/ v \in 0 .. n - 1
          BY <3>1
        <5> HIDE DEF of
        <5> QED BY <3>3, <3>4, <5>1
      <4> QED BY <4>4, <4>5
    <3>6. Upto(n, g)
      <4>1. g = [v \in 0 .. n |-> g[v]]
        OBVIOUS
      <4> HIDE DEF g, of
      <4> QED BY <3>5, <4>1
    <3> QED BY <2>3, <3>6
  <2> QED BY <2>4, <2>5
<1>2. \E f : Upto(IntMod - 1, f)
  <2> HIDE DEF Upto
  <2>1. IntMod - 1 \notin Bad
    BY <1>1
  <2> QED BY <1>n, <2>1
<1> QED BY <1>2 DEF Numerals

\* What a numeral is worth: it is of digits among chars, and makes its number.
Worth(w, v, base, chars) ==
  w \in Seq(chars) /\ Len(w) \in Nat \ {0} /\ Values(w, base)[Len(w)] = v

\* One more digit.
LEMMA WorthMore ==
  ASSUME NEW base \in Bases, NEW chars, NEW v \in Nat, NEW w, Worth(w, v, base, chars),
         NEW ch \in chars, DigitValue(ch) \in Nat
  PROVE  Worth(Append(w, ch), v * base + DigitValue(ch), base, chars)
<1> DEFINE a == Append(w, ch)
<1>1. w \in Seq(chars) /\ Len(w) \in Nat \ {0} /\ Values(w, base)[Len(w)] = v
  BY DEF Worth
<1>2. a \in Seq(chars) /\ Len(a) = Len(w) + 1 /\ (\A i \in 1 .. Len(w) : a[i] = w[i]) /\ a[Len(w) + 1] = ch
  BY <1>1, AppendProperties
<1> HIDE DEF a
<1>3. Len(a) \in Nat \ {0} /\ Len(w) <= Len(a) /\ Len(w) \in 0 .. Len(w) /\ Len(a) \in 1 .. Len(a)
      /\ Len(a) - 1 = Len(w)
  BY <1>1, <1>2
<1>4. Values(a, base)[Len(w)] = v
  BY <1>1, <1>2, <1>3, ValuesAgree
<1>5. Values(a, base)[Len(a)] = Values(a, base)[Len(a) - 1] * base + DigitValue(a[Len(a)])
  BY <1>3, ValuesAre
<1>6. Values(a, base)[Len(a)] = v * base + DigitValue(ch)
  BY <1>2, <1>3, <1>4, <1>5
<1> QED BY <1>2, <1>3, <1>6 DEF Worth, a

\* The first digit.
LEMMA WorthOne ==
  ASSUME NEW base \in Bases, NEW chars, NEW ch \in chars, DigitValue(ch) \in Nat
  PROVE  Worth(<<ch>>, DigitValue(ch), base, chars)
<1> DEFINE a == <<ch>>
<1>1. a \in Seq(chars) /\ Len(a) = 1 /\ a[1] = ch
  OBVIOUS
<1> HIDE DEF a
<1>2. Values(a, base)[0] = 0 /\ Values(a, base)[1] = Values(a, base)[1 - 1] * base + DigitValue(a[1])
  BY <1>1, ValuesAre
<1>3. base \in Nat /\ 1 - 1 = 0
  BY Divides
<1>4. Values(a, base)[1] = DigitValue(ch)
  BY <1>1, <1>2, <1>3
<1> QED BY <1>1, <1>4 DEF Worth, a

\* Each of them is worth its number.
LEMMA NumeralsAreWorth ==
  ASSUME NEW base \in Bases, NEW chars, NEW digit \in [0 .. base - 1 -> chars],
         \A r \in 0 .. base - 1 : DigitValue(digit[r]) = r,
         NEW g, Numerals(g, base, digit), NEW v \in 0 .. IntMod - 1
  PROVE  Worth(g[v], v, base, chars)
<1> DEFINE Bad == {n \in 0 .. IntMod - 1 : ~Worth(g[n], n, base, chars)}
<1>n. IntMod \in Nat /\ base \in Nat
  BY IntAssumption, Divides
<1>1. ASSUME Bad # {} PROVE FALSE
  <2>1. Bad \subseteq Nat
    OBVIOUS
  <2>2. PICK n \in Bad : \A j \in Bad : n <= j
    <3> HIDE DEF Bad
    <3> QED BY <1>1, <2>1, LeastExists
  <2>3. n \in 0 .. IntMod - 1 /\ n \in Nat /\ ~Worth(g[n], n, base, chars)
    BY <2>2
  <2>4. g[n] = IF n < base THEN <<digit[n]>> ELSE Append(g[n \div base], digit[n % base])
    BY <2>3 DEF Numerals
  <2>5. CASE n < base
    <3>1. n \in 0 .. base - 1
      BY <1>n, <2>3, <2>5
    <3>2. digit[n] \in chars /\ DigitValue(digit[n]) = n
      BY <3>1
    <3>3. Worth(<<digit[n]>>, n, base, chars)
      BY <2>3, <3>2, WorthOne
    <3> QED BY <2>3, <2>4, <2>5, <3>3
  <2>6. CASE n >= base
    <3> DEFINE q == n \div base
    <3> DEFINE r == n % base
    <3>1. q \in Nat /\ r \in 0 .. base - 1 /\ n = q * base + r /\ q < n
      BY <2>3, <2>6, Divides
    <3>2. g[n] = Append(g[q], digit[r])
      BY <1>n, <2>3, <2>4, <2>6
    <3> HIDE DEF q, r
    <3>3. q \in 0 .. IntMod - 1 /\ ~(n <= q)
      BY <1>n, <2>3, <3>1
    <3>4. q \notin Bad
      <4> HIDE DEF Bad
      <4> QED BY <2>2, <3>3
    <3>5. Worth(g[q], q, base, chars)
      BY <3>3, <3>4
    <3>6. digit[r] \in chars /\ DigitValue(digit[r]) = r /\ r \in Nat
      BY <1>n, <3>1
    <3>7. Worth(Append(g[q], digit[r]), q * base + r, base, chars)
      BY <3>1, <3>5, <3>6, WorthMore
    <3> QED BY <2>3, <3>1, <3>2, <3>7
  <2> QED BY <1>n, <2>3, <2>5, <2>6
<1>2. v \notin Bad
  BY <1>1
<1> QED BY <1>2

\* What itoa writes is worth what it was given.
LEMMA IToAIs ==
  ASSUME NEW v \in 0 .. IntMod - 1
  PROVE  Worth(IToA[v], v, 10, Digits)
<1> DEFINE digit == [r \in 0 .. 9 |-> 48 + r]
<1>1. digit \in [0 .. 10 - 1 -> Digits] /\ \A r \in 0 .. 10 - 1 : DigitValue(digit[r]) = r
  BY DEF Digits, DigitValue
<1>2. \A f : Numerals(f, 10, digit) <=>
        f = [n \in 0 .. IntMod - 1 |-> IF n < 10 THEN <<48 + n>> ELSE Append(f[n \div 10], 48 + (n % 10))]
  <2>1. \A n \in 0 .. IntMod - 1 : /\ n < 10 => digit[n] = 48 + n
                                   /\ digit[n % 10] = 48 + (n % 10)
    <3>1. IntMod \in Nat
      BY IntAssumption
    <3> QED BY <3>1
  <2> HIDE DEF digit
  <2>2. ASSUME NEW f
        PROVE  [n \in 0 .. IntMod - 1 |-> IF n < 10 THEN <<digit[n]>> ELSE Append(f[n \div 10], digit[n % 10])]
                 = [n \in 0 .. IntMod - 1 |-> IF n < 10 THEN <<48 + n>> ELSE Append(f[n \div 10], 48 + (n % 10))]
    BY <2>1
  <2> QED BY <2>2 DEF Numerals
<1> HIDE DEF digit
<1>3. 10 \in Bases
  BY DEF Bases
<1>4. PICK f : Numerals(f, 10, digit)
  BY <1>3, NumeralsExist
<1>5. IToA = [n \in 0 .. IntMod - 1 |-> IF n < 10 THEN <<48 + n>> ELSE Append(IToA[n \div 10], 48 + (n % 10))]
  BY <1>2, <1>4 DEF IToA
<1>6. Numerals(IToA, 10, digit)
  BY <1>2, <1>5
<1> QED BY <1>1, <1>3, <1>6, NumeralsAreWorth

\* The same in base 16.
LEMMA HexIs ==
  ASSUME NEW v \in 0 .. IntMod - 1
  PROVE  Worth(Hex[v], v, 16, HexDigits)
<1> DEFINE of(r) == IF r < 10 THEN 48 + r ELSE 87 + r
<1> DEFINE digit == [r \in 0 .. 15 |-> of(r)]
<1>1. digit \in [0 .. 16 - 1 -> HexDigits] /\ \A r \in 0 .. 16 - 1 : DigitValue(digit[r]) = r
  BY DEF HexDigits, Digits, DigitValue
<1> DEFINE hex(f, n) ==
      LET d == IF n % 16 < 10 THEN 48 + (n % 16) ELSE 87 + (n % 16)
      IN  IF n < 16 THEN <<d>> ELSE Append(f[n \div 16], d)
<1>2. \A f : Numerals(f, 16, digit) <=> f = [n \in 0 .. IntMod - 1 |-> hex(f, n)]
  <2>1. ASSUME NEW n \in 0 .. IntMod - 1
        PROVE  (n < 16 => digit[n] = of(n % 16)) /\ digit[n % 16] = of(n % 16)
    <3>1. n \in Nat /\ n % 16 \in 0 .. 15
      BY IntAssumption
    <3>2. n < 16 => n % 16 = n
      BY <3>1
    <3> HIDE DEF of
    <3> QED BY <3>1, <3>2
  <2>2. ASSUME NEW f, NEW n \in 0 .. IntMod - 1
        PROVE  hex(f, n) = IF n < 16 THEN <<digit[n]>> ELSE Append(f[n \div 16], digit[n % 16])
    <3> HIDE DEF digit
    <3> QED BY <2>1
  <2> HIDE DEF digit, hex
  <2>3. ASSUME NEW f
        PROVE  [n \in 0 .. IntMod - 1 |-> IF n < 16 THEN <<digit[n]>> ELSE Append(f[n \div 16], digit[n % 16])]
                 = [n \in 0 .. IntMod - 1 |-> hex(f, n)]
    BY <2>2
  <2> QED BY <2>3 DEF Numerals
<1> HIDE DEF digit
<1>3. 16 \in Bases
  BY DEF Bases
<1>4. PICK f : Numerals(f, 16, digit)
  BY <1>3, NumeralsExist
<1>5. Hex = [n \in 0 .. IntMod - 1 |-> hex(Hex, n)]
  BY <1>2, <1>4 DEF Hex
<1>6. Numerals(Hex, 16, digit)
  <2> HIDE DEF hex
  <2> QED BY <1>2, <1>5
<1> QED BY <1>1, <1>3, <1>6, NumeralsAreWorth
-----------------------------------------------------------------------------
(* The getters *)

\* A string: some characters, and the byte that ends it.
LEMMA EndedString ==
  ASSUME NEW chars, NEW w \in Seq(chars)
  PROVE  /\ Str(w) \in Seq(chars \cup {0}) /\ Len(w) \in Nat /\ Len(Str(w)) = Len(w) + 1
         /\ \A i \in 1 .. Len(w) : Str(w)[i] = w[i] /\ w[i] \in chars
         /\ Str(w)[Len(w) + 1] = 0
<1>1. w \in Seq(chars \cup {0})
  <2>1. Len(w) \in Nat /\ w = [i \in 1 .. Len(w) |-> w[i]] /\ \A i \in 1 .. Len(w) : w[i] \in chars
    BY LenProperties, ElementOfSeq
  <2> QED BY <2>1, IsASeq
<1>2. Len(w) \in Nat /\ \A i \in 1 .. Len(w) : w[i] \in chars
  BY LenProperties, ElementOfSeq
<1>3. 0 \in chars \cup {0}
  OBVIOUS
<1> QED BY <1>1, <1>2, <1>3, AppendProperties DEF Str

\* It is led by all of its characters.
LEMMA LeadingIs ==
  ASSUME NEW chars, 0 \notin chars, NEW w \in Seq(chars)
  PROVE  Leading(Str(w), chars) = w
<1> DEFINE s == Str(w)
<1> DEFINE P(n) == (\A i \in 1 .. n : s[i] \in chars) /\ (n = Len(s) \/ s[n + 1] \notin chars)
<1>1. s \in Seq(chars \cup {0}) /\ Len(w) \in Nat /\ Len(s) = Len(w) + 1
      /\ (\A i \in 1 .. Len(w) : s[i] = w[i] /\ w[i] \in chars) /\ s[Len(w) + 1] = 0
  BY EndedString
<1>2. Leading(s, chars) = SubSeq(s, 1, CHOOSE n \in 0 .. Len(s) : P(n))
  BY DEF Leading
<1> HIDE DEF s
<1>3. Len(w) \in 0 .. Len(s) /\ P(Len(w))
  BY <1>1
<1>4. ASSUME NEW n \in 0 .. Len(s), P(n) PROVE n = Len(w)
  <2>1. n \in Nat
    BY <1>1
  <2>2. CASE n < Len(w)
    <3>1. n + 1 \in 1 .. Len(w) /\ n # Len(s)
      BY <1>1, <2>1, <2>2
    <3> QED BY <1>1, <1>4, <3>1
  <2>3. CASE n > Len(w)
    <3>1. Len(w) + 1 \in 1 .. n
      BY <1>1, <2>1, <2>3
    <3> QED BY <1>1, <1>4, <3>1
  <2> QED BY <1>1, <2>1, <2>2, <2>3
<1> HIDE DEF P
<1>5. (CHOOSE n \in 0 .. Len(s) : P(n)) = Len(w)
  BY <1>3, <1>4
<1>6. SubSeq(s, 1, Len(w)) = w
  <2>1. \A i \in 1 .. Len(w) : s[i] \in chars
    BY <1>1
  <2>2. /\ SubSeq(s, 1, Len(w)) \in Seq(chars)
        /\ Len(SubSeq(s, 1, Len(w))) = IF 1 <= Len(w) THEN Len(w) - 1 + 1 ELSE 0
        /\ \A i \in 1 .. Len(w) - 1 + 1 : SubSeq(s, 1, Len(w))[i] = s[1 + i - 1]
    BY <1>1, <2>1, SubSeqProperties
  <2>3. Len(SubSeq(s, 1, Len(w))) = Len(w) /\ \A i \in 1 .. Len(w) : SubSeq(s, 1, Len(w))[i] = w[i]
    <3>1. Len(w) - 1 + 1 = Len(w) /\ \A i \in 1 .. Len(w) : 1 + i - 1 = i
      BY <1>1
    <3>2. (IF 1 <= Len(w) THEN Len(w) ELSE 0) = Len(w)
      BY <1>1
    <3>3. \A i \in 1 .. Len(w) : s[i] = w[i]
      BY <1>1
    <3> QED BY <2>2, <3>1, <3>2, <3>3
  <2> QED BY <2>2, <2>3, SeqEqual
<1> QED BY <1>2, <1>5, <1>6 DEF s

\* It is led by none of other characters.
LEMMA LeadingNone ==
  ASSUME NEW s, Len(s) \in Nat \ {0}, NEW chars, s[1] \notin chars
  PROVE  Leading(s, chars) = <<>>
<1> DEFINE P(n) == (\A i \in 1 .. n : s[i] \in chars) /\ (n = Len(s) \/ s[n + 1] \notin chars)
<1>1. 0 \in 0 .. Len(s) /\ P(0)
  OBVIOUS
<1>2. ASSUME NEW n \in 0 .. Len(s), P(n) PROVE n = 0
  <2>1. n \in Nat /\ 1 \notin 1 .. n
    BY <1>2
  <2> QED BY <2>1
<1>3. Leading(s, chars) = SubSeq(s, 1, CHOOSE n \in 0 .. Len(s) : P(n))
  BY DEF Leading
<1> HIDE DEF P
<1>4. (CHOOSE n \in 0 .. Len(s) : P(n)) = 0
  BY <1>1, <1>2
<1>5. SubSeq(s, 1, 0) = <<>>
  BY SubSeqEmpty
<1> QED BY <1>3, <1>4, <1>5

\* A numeral is read as its number.
LEMMA NumberIs ==
  ASSUME NEW base, NEW chars, 0 \notin chars, NEW v, NEW w, Worth(w, v, base, chars)
  PROVE  Number(Str(w), chars, base) = v
<1>1. w \in Seq(chars)
  BY DEF Worth
<1>2. Leading(Str(w), chars) = w
  BY <1>1, LeadingIs
<1> QED BY <1>2 DEF Number, Worth

\* Characters that are no digits.
LEMMA NoDigit ==
  /\ 0 \notin Digits /\ 0 \notin HexDigits /\ MINUS \notin HexDigits /\ PLUS \notin HexDigits
  /\ \A x \in {X, 88} : x \notin HexDigits /\ x # 0
  /\ Digits \subseteq HexDigits /\ Blanks \cap HexDigits = {}
BY DEF Digits, HexDigits, MINUS, PLUS, X, Blanks, SP

\* unsigned wraps beyond all that itoa writes.
LEMMA UintReads ==
  ASSUME NEW k \in DOMAIN data, NEW v \in 0 .. IntMod - 1, data[k] = Str(IToA[v])
  PROVE  config_get_uint(k, 0) = v
<1>1. Number(data[k], Digits, 10) = v
  BY IToAIs, NumberIs, NoDigit
<1>2. v % IntMod = v
  BY IntAssumption
<1> QED BY <1>1, <1>2 DEF config_get_uint

\* An int that fits does not overflow.
LEMMA IntReads ==
  ASSUME NEW k \in DOMAIN data, NEW v \in 0 .. IntMod - 1, data[k] = Str(IToA[v]), v <= INT_MAX
  PROVE  config_get_int(k, 0) = {v}
<1>1. Worth(IToA[v], v, 10, Digits)
  BY IToAIs
<1>2. Number(data[k], Digits, 10) = v
  BY <1>1, NumberIs, NoDigit
<1>3. data[k][1] # MINUS
  <2>1. IToA[v] \in Seq(Digits) /\ Len(IToA[v]) \in Nat \ {0}
    BY <1>1 DEF Worth
  <2>2. data[k][1] \in Digits
    <3> DEFINE w == IToA[v]
    <3>1. data[k] = Str(w) /\ w \in Seq(Digits) /\ 1 \in 1 .. Len(w)
      BY <2>1
    <3> HIDE DEF w
    <3>2. Str(w)[1] = w[1] /\ w[1] \in Digits
      BY <3>1, EndedString
    <3> QED BY <3>1, <3>2
  <2> QED BY <2>2, NoDigit
<1>4. ~(v > INT_MAX)
  BY IntAssumption DEF INT_MAX
<1> QED BY <1>2, <1>3, <1>4 DEF config_get_int

\* With a minus the digits behind it are read.
LEMMA NegativeReads ==
  ASSUME NEW k \in DOMAIN data, NEW v \in 0 .. IntMod - 1, v <= INT_MAX,
         data[k] = Str(<<MINUS>> \o IToA[v])
  PROVE  config_get_int(k, 0) = {-v}
<1> DEFINE w == IToA[v]
<1> DEFINE chars == Digits \cup {MINUS}
<1>1. Worth(w, v, 10, Digits)
  BY IToAIs
<1>2. w \in Seq(Digits) /\ Len(w) \in Nat
  BY <1>1 DEF Worth
<1>3. data[k] = Str(<<MINUS>> \o w)
  OBVIOUS
<1> HIDE DEF w
<1>4. w \in Seq(chars) /\ <<MINUS>> \in Seq(chars) /\ Len(<<MINUS>>) = 1 /\ <<MINUS>>[1] = MINUS
  <2>1. w = [i \in 1 .. Len(w) |-> w[i]] /\ \A i \in 1 .. Len(w) : w[i] \in chars
    BY <1>2, LenProperties, ElementOfSeq
  <2>2. w \in Seq(chars)
    BY <1>2, <2>1, IsASeq
  <2> QED BY <2>2
<1> DEFINE m == <<MINUS>> \o w
<1>5. /\ m \in Seq(chars) /\ Len(m) = 1 + Len(w)
      /\ \A i \in 1 .. 1 + Len(w) : m[i] = IF i <= 1 THEN MINUS ELSE w[i - 1]
  BY <1>4, ConcatProperties
<1> HIDE DEF m
<1>6. m # <<>> /\ m[1] = MINUS
  BY <1>2, <1>5
<1>7. Tail(m) = w
  <2>1. Tail(m) \in Seq(chars) /\ Len(Tail(m)) = Len(w) /\ \A i \in 1 .. Len(w) : Tail(m)[i] = m[i + 1]
    BY <1>2, <1>5, <1>6, HeadTailProperties
  <2>2. \A i \in 1 .. Len(w) : m[i + 1] = w[i]
    BY <1>2, <1>5
  <2> QED BY <1>4, <2>1, <2>2, SeqEqual
<1>8. Tail(Str(m)) = Str(w)
  BY <1>5, <1>6, <1>7, HeadTailAppend DEF Str
<1>9. data[k][1] = MINUS
  <2>1. 1 \in 1 .. Len(m) /\ data[k] = Str(m)
    BY <1>2, <1>3, <1>5 DEF m
  <2>2. Str(m)[1] = m[1]
    BY <1>5, <2>1, EndedString
  <2> QED BY <1>6, <2>1, <2>2
<1>10. Number(Tail(data[k]), Digits, 10) = v
  BY <1>1, <1>3, <1>8, NumberIs, NoDigit DEF m
<1>11. ~(v > INT_MAX)
  BY IntAssumption DEF INT_MAX
<1> QED BY <1>9, <1>10, <1>11 DEF config_get_int

\* A text in base 16 has no mark of its base, and nothing else before the digits.
LEMMA HexBegins ==
  ASSUME NEW w \in Seq(HexDigits), Len(w) # 0, NEW s, s = Str(w)
  PROVE  /\ s[1] \in HexDigits
         /\ SubSeq(s, Len(Leading(s, Blanks)) + 1, Len(s)) = s
         /\ ~\E x \in {X, 88} : IsPrefix(<<48, x>>, s)
<1> DEFINE chars == HexDigits \cup {0}
<1>1. /\ s \in Seq(chars) /\ Len(w) \in Nat /\ Len(s) = Len(w) + 1
      /\ \A i \in 1 .. Len(w) : s[i] = w[i] /\ w[i] \in HexDigits
  BY EndedString
<1>2. s[1] \in HexDigits /\ Len(s) \in Nat \ {0}
  BY <1>1
<1>3. SubSeq(s, Len(Leading(s, Blanks)) + 1, Len(s)) = s
  <2>1. s[1] \notin Blanks
    BY <1>2, NoDigit
  <2>2. Leading(s, Blanks) = <<>>
    BY <1>2, <2>1, LeadingNone
  <2>3. Len(Leading(s, Blanks)) = 0
    BY <2>2, EmptySeq
  <2>4. Len(Leading(s, Blanks)) + 1 = 1
    BY <2>3
  <2>5. SubSeq(s, 1, Len(s)) = s
    BY <1>1, SubSeqFull
  <2> QED BY <2>4, <2>5
<1>4. ASSUME NEW x \in {X, 88}, IsPrefix(<<48, x>>, s) PROVE FALSE
  <2> DEFINE p == <<48, x>>
  <2>1. p \in Seq({48, x}) /\ Len(p) = 2 /\ p[2] = x
    OBVIOUS
  <2>2. SubSeq(p, 1, Len(p)) = p
    BY <2>1, SubSeqFull
  <2>3. Len(p) <= Len(s) /\ SubSeq(p, 1, Len(p)) = SubSeq(s, 1, Len(p))
    BY <1>4 DEF IsPrefix
  <2> HIDE DEF p
  <2>4. 2 <= Len(s) /\ SubSeq(s, 1, 2) = p
    BY <2>1, <2>2, <2>3
  <2>5. \A i \in 1 .. 2 : s[i] \in chars
    <3>1. \A i \in 1 .. Len(s) : s[i] \in chars
      BY <1>1, ElementOfSeq
    <3>2. \A i \in 1 .. 2 : i \in 1 .. Len(s)
      BY <1>2, <2>4
    <3> QED BY <3>1, <3>2
  <2>6. SubSeq(s, 1, 2)[2] = s[2]
    <3>1. \A i \in 1 .. 2 - 1 + 1 : SubSeq(s, 1, 2)[i] = s[1 + i - 1]
      BY <2>5, SubSeqProperties
    <3>2. 2 \in 1 .. 2 - 1 + 1 /\ 1 + 2 - 1 = 2
      OBVIOUS
    <3> QED BY <3>1, <3>2
  <2>7. s[2] = x /\ 2 \in 1 .. 2
    BY <2>1, <2>4, <2>6
  <2> QED BY <2>5, <2>7, NoDigit
<1> QED BY <1>2, <1>3, <1>4

\* The long that strtol returns becomes an int: above INT_MAX it is negative.
LEMMA HexReads ==
  ASSUME NEW k \in DOMAIN data, NEW v \in 0 .. IntMod - 1, data[k] = Str(Hex[v])
  PROVE  config_get_hex(k, 0) = IF v <= INT_MAX THEN v ELSE v - IntMod
<1> DEFINE s == Str(Hex[v])
<1>1. Worth(Hex[v], v, 16, HexDigits)
  BY HexIs
<1>2. /\ s[1] \in HexDigits
      /\ SubSeq(s, Len(Leading(s, Blanks)) + 1, Len(s)) = s
      /\ ~\E x \in {X, 88} : IsPrefix(<<48, x>>, s)
  <2> DEFINE w == Hex[v]
  <2>1. w \in Seq(HexDigits) /\ Len(w) # 0
    BY <1>1 DEF Worth
  <2> HIDE DEF w
  <2>2. /\ Str(w)[1] \in HexDigits
        /\ SubSeq(Str(w), Len(Leading(Str(w), Blanks)) + 1, Len(Str(w))) = Str(w)
        /\ ~\E x \in {X, 88} : IsPrefix(<<48, x>>, Str(w))
    BY <2>1, HexBegins
  <2> QED BY <2>2 DEF w
<1>3. Number(s, HexDigits, 16) = v
  BY <1>1, NumberIs, NoDigit
<1> HIDE DEF s
<1>4. s[1] # MINUS /\ s[1] \notin {PLUS, MINUS}
  BY <1>2, NoDigit
<1>5. ~(v > LONG_MAX)
  <2>1. IntMod \in Nat /\ IntMod >= 32 /\ v <= IntMod - 1 /\ v \in Nat
    BY IntAssumption
  <2> DEFINE m == IntMod * IntMod
  <2>2. m \in Nat /\ m >= 32 * IntMod
    BY <2>1
  <2> HIDE DEF m
  <2>3. IntMod - 1 <= (m \div 2) - 1
    BY <2>1, <2>2
  <2>4. (m \div 2) - 1 \in Int
    BY <2>2
  <2> QED BY <2>1, <2>3, <2>4 DEF m, LONG_MAX
<1>6. AsInt(v) = IF v <= INT_MAX THEN v ELSE v - IntMod
  <2>1. v % IntMod = v /\ INT_MAX \in Int /\ v \in Int
    BY IntAssumption DEF INT_MAX
  <2> QED BY <2>1 DEF AsInt
<1>7. data[k] = s
  BY DEF s
<1>8. config_get_hex(k, 0) = AsInt(v)
  BY <1>2, <1>3, <1>4, <1>5, <1>7 DEF config_get_hex
<1> QED BY <1>6, <1>8

\* For every width of ints, and whatever has been loaded: what itoa writes of a
\* number is read back as that number, by config_get_uint and, if it fits, by
\* config_get_int, with a minus too, and config_get_hex reads what base 16 says.
THEOREM NumbersAreRead == Spec => []GettersRead
<1>1. GettersRead
  <2> SUFFICES ASSUME NEW k \in DOMAIN data, NEW v \in 0 .. IntMod - 1
               PROVE  /\ data[k] = Str(IToA[v]) =>
                           config_get_uint(k, 0) = v /\ (v <= INT_MAX => config_get_int(k, 0) = {v})
                      /\ data[k] = Str(<<MINUS>> \o IToA[v]) /\ v <= INT_MAX => config_get_int(k, 0) = {-v}
                      /\ data[k] = Str(Hex[v]) =>
                           config_get_hex(k, 0) = IF v <= INT_MAX THEN v ELSE v - IntMod
    BY DEF GettersRead
  <2> QED BY UintReads, IntReads, NegativeReads, HexReads
<1> QED BY <1>1, PTL
=============================================================================

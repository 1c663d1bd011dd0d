------------------------------- MODULE Config -------------------------------
(***************************************************************************)
(* config.c: a configuration text is parsed into a map from keys to        *)
(* values, by config_new from a file, by config_new2 from a string, and by *)
(* config_test line by line.  The parser is one loop over the characters;  *)
(* an action is one iteration of it.  A directive `key @prefix;' copies    *)
(* every entry under prefix, walking the map (a Judy array, ordered as     *)
(* strcmp orders strings) while it inserts into it.                        *)
(*                                                                         *)
(* A character is its code.  Key and value are kept as the characters seen *)
(* so far, where the code keeps pointers into the text.                    *)
(***************************************************************************)
EXTENDS Integers, Sequences, FiniteSets, SequencesExt

CONSTANTS
  Inputs,     \* [text, directives, at]: texts, some with their directives and where those begin
  Modes,      \* the callers explored, of "file", "str" and "test"
  KeyMax,     \* CONFIG_KEY_MAX_SIZE
  Slack       \* how far a write beyond the key buffers may go unnoticed

Char == 1 .. 127
Byte == 0 .. 127

ASSUME ConfigAssumption ==
  /\ \A i \in Inputs : i.text \in Seq(Char)
  /\ Modes \subseteq {"file", "str", "test"}
  /\ KeyMax \in Nat \ {0} /\ Slack \in Nat

TAB  == 9
NL   == 10
CR   == 13
SP   == 32
QT   == 34
HASH == 35
SEMI == 59
AT   == 64
BSL  == 92

\* The characters of a key: the table achar.
AChar == {46, 95} \cup 48 .. 57 \cup 65 .. 90 \cup 97 .. 122

OK == 0
ERROR == -1
Null == <<>>            \* the value 0 of an entry; a copied value ends in Nul
Str(s) == Append(s, 0)  \* a string that pool_cpy has copied

VARIABLES
  input,      \* the text the caller was given, and what it means
  mode,       \* the caller
  pc,         \* where the caller or config_load is
  text,       \* the text being parsed: src
  ps,         \* state, p, line, pkey and pvalue of config_load
  data,       \* the map
  index,      \* the key the copy loop has reached
  ret,        \* what config_load returned
  line_error,
  heap,       \* which of pool, src and conf are allocated
  tok,        \* config_test: where strtok goes on
  str_err     \* config_test: the result so far

vars == <<input, mode, pc, text, ps, data, index, ret, line_error, heap, tok, str_err>>

States == {"space", "comment", "key", "key_sp", "value", "qt_value",
           "value_skip", "copy_value"}

TypeOK ==
  /\ input.text \in Seq(Char) /\ mode \in Modes
  /\ pc \in {"new", "load", "parse", "copy", "return", "next", "ready", "end",
             "overrun", "crash"}
  /\ text \in Seq(Char)
  /\ ps \in [state : States, p : Nat \ {0}, line : Nat \ {0},
             key : Seq(Char), value : Seq(Char)]
  /\ \A k \in DOMAIN data : k \in Seq(Char) /\ data[k] \in Seq(Byte)
  /\ index \in Seq(Char)
  /\ ret \in {OK, ERROR}
  /\ line_error \in Nat
  /\ heap \subseteq {"pool", "src", "conf"}
  /\ tok \in Nat \ {0}
  /\ str_err \in Seq(Nat)

\* Variant: lines are counted from 0.
BegunAtZero == [state |-> "space", p |-> 1, line |-> 0, key |-> <<>>, value |-> <<>>]

Begun == [state |-> "space", p |-> 1, line |-> 1, key |-> <<>>, value |-> <<>>]

Init ==
  /\ input \in Inputs /\ mode \in Modes
  /\ pc = "new"
  /\ text = <<>>
  /\ ps = Begun
  /\ data = [k \in {} |-> Null]
  /\ index = <<>>
  /\ ret = OK
  /\ line_error = 0
  /\ heap = {}
  /\ tok = 1 /\ str_err = <<>>
-----------------------------------------------------------------------------
(* Strings, and the map *)

\* strcmp, and the order of a Judy array.
Before(a, b) ==
  \/ Len(a) < Len(b) /\ IsPrefix(a, b)
  \/ \E i \in 1 .. Len(a) : /\ i <= Len(b) /\ a[i] < b[i]
                            /\ \A j \in 1 .. i - 1 : a[j] = b[j]

First(S) == CHOOSE k \in S : \A l \in S : l = k \/ Before(k, l)

\* The keys that JSLF and JSLN choose the first of.
NotBefore(m, k) == {l \in DOMAIN m : l = k \/ Before(k, l)}

After(m, k) == {l \in DOMAIN m : Before(k, l)}

Put(m, k, v) == [l \in DOMAIN m \cup {k} |-> IF l = k THEN v ELSE m[l]]

Newlines(s) == Cardinality({i \in 1 .. Len(s) : s[i] = NL})

\* Variant: a line may be empty.
LineOrEmpty(b, e) ==
  /\ b <= e
  /\ \A i \in tok .. b - 1 : input.text[i] = NL
  /\ \A i \in b .. e - 1 : input.text[i] # NL
  /\ e <= Len(input.text) => input.text[e] = NL

\* strtok(NULL, "\n"): the next line that is not empty begins at b, and ends before e.
Token(b, e) ==
  /\ b < e
  /\ \A i \in tok .. b - 1 : input.text[i] = NL
  /\ \A i \in b .. e - 1 : input.text[i] # NL
  /\ e <= Len(input.text) => input.text[e] = NL
-----------------------------------------------------------------------------
(* The callers *)

\* pool_new or pool_calloc fails.
NewFails ==
  /\ pc = "new"
  /\ pc' = "end"
  /\ UNCHANGED <<input, mode, text, ps, data, index, ret, line_error, heap, tok, str_err>>

New ==
  /\ pc = "new" /\ mode # "test"
  /\ heap' = {"pool"}
  /\ text' = input.text
  /\ pc' = "load"
  /\ UNCHANGED <<input, mode, ps, data, index, ret, line_error, tok, str_err>>

\* config_new, config_new2: on an error the pool goes, and the map with it.
NewReturns ==
  /\ pc = "return" /\ mode # "test"
  /\ IF ret = OK THEN pc' = "ready" /\ UNCHANGED heap
                 ELSE pc' = "end" /\ heap' = heap \ {"pool"}
  /\ UNCHANGED <<input, mode, text, ps, data, index, ret, line_error, tok, str_err>>

Delete ==
  /\ pc = "ready"
  /\ pc' = "end"
  /\ heap' = heap \ {"pool"}
  /\ data' = [k \in {} |-> Null]
  /\ UNCHANGED <<input, mode, text, ps, index, ret, line_error, tok, str_err>>

\* config_test: the result has a place for every newline.  Without any, or when
\* it cannot be allocated, the pool is left behind.
Test ==
  /\ pc = "new" /\ mode = "test"
  /\ heap' = {"pool"}
  /\ \/ Newlines(input.text) > 0 /\ pc' = "next"
     \/ pc' = "end"
  /\ UNCHANGED <<input, mode, text, ps, data, index, ret, line_error, tok, str_err>>

\* str_err[i] = config->line_error
TestNote ==
  /\ pc = "return" /\ mode = "test"
  /\ str_err' = Append(str_err, line_error)
  /\ pc' = "next"
  /\ UNCHANGED <<input, mode, text, ps, data, index, ret, line_error, heap, tok>>

\* The head of its loop; calloc for the copy of the line may fail.
TestLine ==
  /\ pc = "next"
  /\ \E b, e \in tok .. Len(input.text) + 1 :
       /\ Token(b, e)
       /\ \/ pc' = "load" /\ text' = SubSeq(input.text, b, e - 1) /\ tok' = e + 1
          \/ pc' = "end" /\ UNCHANGED <<text, tok>>
  /\ UNCHANGED <<input, mode, ps, data, index, ret, line_error, heap, str_err>>

TestReturns ==
  /\ pc = "next"
  /\ \A i \in tok .. Len(input.text) : input.text[i] = NL
  /\ pc' = "end"
  /\ heap' = heap \ {"pool"}
  /\ data' = [k \in {} |-> Null]
  /\ UNCHANGED <<input, mode, text, ps, index, ret, line_error, tok, str_err>>
-----------------------------------------------------------------------------
(* config_load and config_load2: the buffers *)

LoadFrame == UNCHANGED <<input, mode, text, data, index, tok, str_err>>

\* open or fstat fails: the text of an earlier load stays.
OpenFails ==
  /\ pc = "load" /\ mode = "file"
  /\ line_error' = 0 /\ ret' = ERROR /\ pc' = "return"
  /\ UNCHANGED <<ps, heap>> /\ LoadFrame

\* The conf of an earlier load goes; src, conf, then what is read.  Only the
\* last of these failures frees src.
SrcFails ==
  /\ pc = "load"
  /\ line_error' = 0 /\ ret' = ERROR /\ pc' = "return"
  /\ heap' = heap \ {"conf"}
  /\ UNCHANGED ps /\ LoadFrame

ConfFails ==
  /\ pc = "load"
  /\ line_error' = 0 /\ ret' = ERROR /\ pc' = "return"
  /\ heap' = (heap \ {"conf"}) \cup {"src"}
  /\ UNCHANGED ps /\ LoadFrame

ReadFails ==
  /\ pc = "load" /\ mode = "file"
  /\ line_error' = 0 /\ ret' = ERROR /\ pc' = "return"
  /\ heap' = heap \cup {"conf"}
  /\ UNCHANGED ps /\ LoadFrame

Load ==
  /\ pc = "load"
  /\ line_error' = 0
  /\ heap' = heap \cup {"src", "conf"}
  /\ ps' = Begun
  /\ pc' = "parse"
  /\ UNCHANGED ret /\ LoadFrame

Return(code, line) ==
  /\ pc' = "return"
  /\ ret' = code
  /\ line_error' = line
  /\ heap' = heap \ {"src"}

\* The loop ends at the end of the text, whatever its state is.
ParseEnds ==
  /\ pc = "parse" /\ ps.p > Len(text)
  /\ Return(OK, line_error)
  /\ UNCHANGED ps /\ LoadFrame
-----------------------------------------------------------------------------
(* One iteration of the parser, by its state *)

TooLong(s) == Len(s) > KeyMax

At(s) == pc = "parse" /\ ps.state = s /\ ps.p <= Len(text)

c == text[ps.p]

Frame == UNCHANGED <<input, mode, text, tok, str_err>>

\* p++, in a new state or the same.
Goto(s) ==
  /\ ps' = [ps EXCEPT !.state = s, !.p = @ + 1]
  /\ UNCHANGED <<pc, data, index, ret, line_error, heap>> /\ Frame

\* free(config->src); return ERROR: a line is reported for a syntax error only.
Fail(line) ==
  /\ Return(ERROR, line)
  /\ UNCHANGED <<ps, data, index>> /\ Frame

NextLine ==
  /\ ps' = [ps EXCEPT !.state = "space", !.p = @ + 1, !.line = @ + 1]
  /\ UNCHANGED <<pc, data, index, ret, line_error, heap>> /\ Frame

Space ==
  /\ At("space")
  /\ \/ /\ c \in AChar
        /\ ps' = [ps EXCEPT !.state = "key", !.p = @ + 1, !.key = <<c>>]
        /\ UNCHANGED <<pc, data, index, ret, line_error, heap>> /\ Frame
     \/ c \in {SP, TAB, CR} /\ Goto("space")
     \/ c = NL /\ NextLine
     \/ c = HASH /\ Goto("comment")
     \/ c \notin AChar \cup {SP, TAB, CR, NL, HASH} /\ Fail(ps.line)

\* Variant: a comment that does not count its newline.
CommentUncounted ==
  /\ At("comment")
  /\ IF c = NL THEN Goto("space") ELSE Goto("comment")

Comment ==
  /\ At("comment")
  /\ IF c = NL THEN NextLine ELSE Goto("comment")

Key ==
  /\ At("key")
  /\ \/ /\ c \in AChar
        /\ ps' = [ps EXCEPT !.p = @ + 1, !.key = Append(@, c)]
        /\ UNCHANGED <<pc, data, index, ret, line_error, heap>> /\ Frame
     \/ /\ c \in {SP, TAB}
        /\ IF TooLong(ps.key) THEN Fail(ps.line) ELSE Goto("key_sp")
     \/ c \notin AChar \cup {SP, TAB} /\ Fail(ps.line)

\* Where pvalue is set, and with what.
Value(s, v) ==
  /\ ps' = [ps EXCEPT !.state = s, !.p = @ + 1, !.value = v]
  /\ UNCHANGED <<pc, data, index, ret, line_error, heap>> /\ Frame

KeySp ==
  /\ At("key_sp")
  /\ \/ c \in {SP, TAB} /\ Goto("key_sp")
     \/ c = QT /\ Value("qt_value", <<>>)
     \/ c = AT /\ Value("copy_value", <<>>)
     \/ c \in {CR, NL} /\ Fail(ps.line)
     \/ c \notin {SP, TAB, QT, AT, CR, NL} /\ Value("value", <<c>>)

\* Variant: the result of pool_cpy is not looked at.
InsertUnchecked(s) ==
  /\ data' \in {Put(data, ps.key, Str(ps.value)), Put(data, ps.key, Null)}
  /\ ps' = [ps EXCEPT !.state = s, !.p = @ + 1]
  /\ UNCHANGED <<pc, index, ret, line_error, heap>> /\ Frame

\* JSLI, then pool_cpy into the entry; both may fail, and a failed copy leaves
\* an entry without a value.
Insert(s) ==
  \/ /\ data' = Put(data, ps.key, Str(ps.value))
     /\ ps' = [ps EXCEPT !.state = s, !.p = @ + 1]
     /\ UNCHANGED <<pc, index, ret, line_error, heap>> /\ Frame
  \/ /\ Return(ERROR, line_error)
     /\ data' \in {data, Put(data, ps.key, Null)}
     /\ UNCHANGED <<ps, index>> /\ Frame

PlainValue ==
  /\ At("value")
  /\ \/ c = SEMI /\ Insert("space")
     \/ c = NL /\ Fail(ps.line)
     \/ c \notin {SEMI, NL} /\ Value("value", Append(ps.value, c))

\* Variant: every backslash escapes.
EscapedByAny == c = BSL /\ ps.p < Len(text)

\* At the end of the text p[1] is the byte after it; whatever that is, the loop
\* ends with the next iteration.
Escaped == c = BSL /\ ps.p < Len(text) /\ text[ps.p + 1] = QT

QtValue ==
  /\ At("qt_value")
  /\ \/ /\ Escaped
        /\ ps' = [ps EXCEPT !.p = @ + 2, !.value = @ \o <<BSL, QT>>]
        /\ UNCHANGED <<pc, data, index, ret, line_error, heap>> /\ Frame
     \/ c = QT /\ Insert("value_skip")
     \/ c = NL /\ Fail(ps.line)
     \/ c \notin {QT, NL} /\ ~Escaped /\ Value("qt_value", Append(ps.value, c))

ValueSkip ==
  /\ At("value_skip")
  /\ \/ c = SEMI /\ Goto("space")
     \/ c = NL /\ Fail(ps.line)
     \/ c \notin {SEMI, NL} /\ Goto("value_skip")

\* Where the copy loop is: at the first key of S, or done.
Reach(S) ==
  IF S = {} \/ ~IsPrefix(ps.value, First(S))
    THEN /\ ps' = [ps EXCEPT !.state = "space", !.p = @ + 1]
         /\ pc' = "parse"
         /\ index' = <<>>
    ELSE /\ index' = First(S)
         /\ pc' = "copy"
         /\ UNCHANGED ps

CopyValue ==
  /\ At("copy_value")
  /\ \/ /\ c = SEMI
        /\ IF TooLong(ps.value)
             THEN Fail(ps.line)
             ELSE Reach(NotBefore(data, ps.value)) /\ UNCHANGED <<data, ret, line_error, heap>> /\ Frame
     \/ c = NL /\ Fail(ps.line)
     \/ c \notin {SEMI, NL} /\ Value("copy_value", Append(ps.value, c))
-----------------------------------------------------------------------------
(* The copy loop, at an entry whose key begins with the prefix *)

\* Variant: the whole of index follows.
NewKeyWhole == ps.key \o index

\* The key under construction: pkey, and what follows the prefix in index.
NewKey == ps.key \o SubSeq(index, Len(ps.value) + 1, Len(index))

\* Nothing looks at the length of the key.  One that is too long is written beyond
\* key by strcat, and beyond index when JSLN reaches it: that may go unnoticed, and
\* the loop goes on with it, or nothing is known of the process from here on.
Unnoticed == Len(NewKey) <= KeyMax + Slack

CopyOverruns ==
  /\ pc = "copy"
  /\ Len(NewKey) > KeyMax \/ Len(index) > KeyMax
  /\ pc' = "overrun"
  /\ UNCHANGED <<ps, data, index, ret, line_error, heap>> /\ Frame

\* strlen of an entry without a value.
CopyCrashes ==
  /\ pc = "copy"
  /\ Unnoticed /\ data[index] = Null
  /\ pc' = "crash"
  /\ UNCHANGED <<ps, data, index, ret, line_error, heap>> /\ Frame

CopyFails ==
  /\ pc = "copy"
  /\ Unnoticed
  /\ Return(ERROR, line_error)
  /\ data' \in {data} \cup (IF data[index] = Null THEN {} ELSE {Put(data, NewKey, Null)})
  /\ UNCHANGED <<ps, index>> /\ Frame

\* JSLN runs on the map the new entry is in.
Copy ==
  /\ pc = "copy"
  /\ Unnoticed /\ data[index] # Null
  /\ data' = Put(data, NewKey, data[index])
  /\ Reach(After(data', index))
  /\ UNCHANGED <<ret, line_error, heap>> /\ Frame
-----------------------------------------------------------------------------
Caller == NewFails \/ New \/ NewReturns \/ Delete
            \/ Test \/ TestNote \/ TestLine \/ TestReturns

Start == OpenFails \/ SrcFails \/ ConfFails \/ ReadFails \/ Load

Parse == \/ Space \/ Comment \/ Key \/ KeySp \/ PlainValue \/ QtValue \/ ValueSkip
         \/ CopyValue \/ ParseEnds

CopyLoop == CopyOverruns \/ CopyCrashes \/ CopyFails \/ Copy

Next == Caller \/ Start \/ Parse \/ CopyLoop

Spec == Init /\ [][Next]_vars

\* The caller's thread goes on, and does not wait for a failure to end the copy.
FairSpec == Spec /\ WF_vars(Caller \/ Start \/ Parse \/ CopyOverruns \/ CopyCrashes \/ Copy)
-----------------------------------------------------------------------------
(* What a text means: its directives, one after the other *)

\* The place j of a text is in a comment that began at s or later.
InComment(t, s, j) ==
  \E h \in s .. j - 1 : t[h] = HASH /\ \A i \in h .. j - 1 : t[i] # NL

\* From s to the place before e there are blanks and comments only, which end
\* there or with the text.
Blank(t, s, e) ==
  /\ \A j \in s .. e - 1 : InComment(t, s, j) \/ t[j] \in {SP, TAB, CR, NL, HASH}
  /\ e <= Len(t) => ~InComment(t, s, e)

\* A value as it stands, one in quotes, and the prefix of a copy, from v to the
\* semicolon at x.
PlainAt(t, d, v, x) ==
  /\ d.kind = "pair" /\ d.value = SubSeq(t, v, x - 1)
  /\ t[v] \notin {SP, TAB, QT, AT, CR, NL}
  /\ \A i \in v + 1 .. x - 1 : t[i] \notin {SEMI, NL}

QuotedAt(t, d, v, x) ==
  LET w == v + 1 + Len(d.value) IN    \* the quote that ends it
  /\ d.kind = "pair" /\ w < x /\ d.value = SubSeq(t, v + 1, w - 1)
  /\ t[v] = QT /\ t[w] = QT /\ t[w - 1] # BSL
  /\ \A i \in v + 1 .. w - 1 : t[i] # NL /\ (t[i] = QT => t[i - 1] = BSL)
  /\ \A i \in w + 1 .. x - 1 : t[i] \notin {SEMI, NL}

CopiedAt(t, d, v, x) ==
  /\ d.kind = "copy" /\ d.value = SubSeq(t, v + 1, x - 1)
  /\ t[v] = AT
  /\ \A i \in v + 1 .. x - 1 : t[i] \notin {SEMI, NL}

\* From b to the place before e the text is that of the directive d: a key,
\* blanks, a value from v on, a semicolon at x, and nothing more.
Spelled(t, d, b, v, x, e) ==
  LET k == b + Len(d.key) IN
  /\ b < k /\ k < v /\ v < x /\ x < e /\ e <= Len(t) + 1
  /\ d.key = SubSeq(t, b, k - 1) /\ \A i \in b .. k - 1 : t[i] \in AChar
  /\ \A i \in k .. v - 1 : t[i] \in {SP, TAB}
  /\ PlainAt(t, d, v, x) \/ QuotedAt(t, d, v, x) \/ CopiedAt(t, d, v, x)
  /\ t[x] = SEMI /\ Blank(t, x + 1, e)

\* A text with directives is theirs, each from its place in `at' to the next's.
ASSUME InputAssumption ==
  \A i \in Inputs : i.directives # <<>> =>
    LET ds == i.directives
        at == i.at
    IN  /\ ds \in Seq(Range(ds))
        /\ at \in Seq(Nat \ {0}) /\ Len(at) = Len(ds) + 1 /\ at[Len(at)] = Len(i.text) + 1
        /\ Blank(i.text, 1, at[1])
        /\ \A n \in 1 .. Len(ds) :
             /\ ds[n].key \in Seq(Char) /\ ds[n].value \in Seq(Char)
             /\ \E v, x \in at[n] .. at[n + 1] : Spelled(i.text, ds[n], at[n], v, x, at[n + 1])

EmptyMap == [k \in {} |-> Null]

Effect(m, d) ==
  IF d.kind = "pair" THEN Put(m, d.key, Str(d.value))
  ELSE LET under  == {k \in DOMAIN m : IsPrefix(d.value, k)}
           new(k) == d.key \o SubSeq(k, Len(d.value) + 1, Len(k))
       IN [l \in DOMAIN m \cup {new(k) : k \in under} |->
             IF \E k \in under : new(k) = l THEN m[CHOOSE k \in under : new(k) = l]
                                            ELSE m[l]]

\* The maps that the directives lead through, and the last of them.
Maps(ds) ==
  LET maps[n \in 0 .. Len(ds)] == IF n = 0 THEN EmptyMap ELSE Effect(maps[n - 1], ds[n])
  IN  maps

Meaning(ds) == Maps(ds)[Len(ds)]

\* No directive copies a prefix to one that lies above or below it.
Apart(ds) ==
  \A i \in 1 .. Len(ds) :
    ds[i].kind = "copy" /\ ds[i].key # ds[i].value =>
      ~IsPrefix(ds[i].key, ds[i].value) /\ ~IsPrefix(ds[i].value, ds[i].key)

\* A text loads as the map its directives describe, each copy taken at once,
\* although the loop inserts into the map it walks; and it is refused only for
\* want of memory or for a key that is too long.
LoadsMeaning ==
  LET ds == input.directives
  IN ds # <<>> /\ mode # "test" =>
       /\ pc = "ready" /\ Apart(ds) => data = Meaning(ds)
       /\ pc = "return" /\ line_error # 0 =>
            \E i \in 1 .. Len(ds) :
              Len(ds[i].key) > KeyMax \/ (ds[i].kind = "copy" /\ Len(ds[i].value) > KeyMax)

\* The line reported for a syntax error is the one of the character that the
\* parser stopped at, and only a syntax error has a line.
LineOfError ==
  /\ pc = "parse" => ps.line = 1 + Newlines(SubSeq(text, 1, ps.p - 1))
  /\ pc = "return" /\ line_error # 0 =>
       /\ ret = ERROR
       /\ ps.p <= Len(text)
       /\ line_error = 1 + Newlines(SubSeq(text, 1, ps.p - 1))

\* A copy overruns its buffers only if what the text means has a key that is too
\* long: the entries that the loop adds under its feet make none.
OverrunsMeant ==
  LET ds == input.directives
  IN pc = "overrun" /\ ds # <<>> /\ mode # "test" /\ Apart(ds) =>
       \E n \in 1 .. Len(ds) : \E k \in DOMAIN Maps(ds)[n] : Len(k) > KeyMax

\* A map handed to the caller has a value for every key, whatever failed, and no
\* copy reads the missing value of one: only config_test, which goes on with the
\* map of a line that failed, does.
MapWhole ==
  /\ pc = "ready" => \A k \in DOMAIN data : data[k] # Null
  /\ pc = "crash" => mode = "test"

\* Every text is loaded or refused in the end, the copies that feed on the
\* entries they make included: the key they make grows until it overruns.
LoadEnds == pc = "new" ~> pc \in {"ready", "end", "overrun", "crash"}

\* The result of config_test has a place for every line, if each ends with a
\* newline.
TestFits ==
  mode = "test" /\ input.text # <<>> /\ input.text[Len(input.text)] = NL =>
    Len(str_err) <= Newlines(input.text)
=============================================================================

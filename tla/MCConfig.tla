------------------------------ MODULE MCConfig ------------------------------
(***************************************************************************)
(* Texts for Config: what directives render as, in a few layouts, and      *)
(* arbitrary short texts over the characters the parser tells apart; and    *)
(* numbers.                                                                *)
(***************************************************************************)
EXTENDS ConfigGetters

CONSTANTS MaxDirectives, MaxRaw, MaxDigits     \* bounds on the kinds of texts

a == 97
b == 98

Pair(k, v)   == [kind |-> "pair", key |-> k, value |-> v,
                 text |-> k \o <<SP>> \o v \o <<SEMI, NL>>]
Quoted(k, v) == [kind |-> "pair", key |-> k, value |-> v,
                 text |-> k \o <<TAB, SP, QT>> \o v \o <<QT, SP, SEMI, HASH, a, NL>>]
CopyTo(k, v) == [kind |-> "copy", key |-> k, value |-> v,
                 text |-> k \o <<SP, AT>> \o v \o <<SEMI>>]

Directives ==
  {Pair(<<a>>, <<b>>), Pair(<<a, a>>, <<a>>), Pair(<<a, b>>, <<b, SP, QT>>),
   Pair(<<b>>, <<a>>), Pair(<<a, b, a, b>>, <<a>>), Pair(<<a, b, a, b, b>>, <<a>>),
   Quoted(<<a>>, <<BSL, SEMI, BSL, QT>>), Quoted(<<b, a>>, <<>>),
   CopyTo(<<b>>, <<a>>), CopyTo(<<b, b>>, <<a>>), CopyTo(<<a>>, <<b>>),
   CopyTo(<<a>>, <<a>>), CopyTo(<<a, a>>, <<a>>), CopyTo(<<a>>, <<a, a>>), CopyTo(<<b>>, <<>>),
   CopyTo(<<b>>, <<a, b, a, b>>)}

Text(ds) == FoldLeft(LAMBDA s, d : s \o d.text, <<>>, ds)

\* Texts of directives, and others.
Rendering(ds) ==
  [text |-> Text(ds), directives |-> ds,
   at |-> [n \in 1 .. Len(ds) + 1 |-> Len(Text(SubSeq(ds, 1, n - 1))) + 1]]

Unread(s) == [text |-> s, directives |-> <<>>, at |-> <<>>]

Rendered == {Rendering(ds) : ds \in BoundedSeq(Directives, MaxDirectives) \ {<<>>}}

Raw == {Unread(s) : s \in BoundedSeq({a, SP, NL, HASH, SEMI, QT, AT, BSL}, MaxRaw)}

\* Several lines, some of them empty or wrong.
Line == {<<NL>>, <<a, SP, b, SEMI, NL>>, <<a, NL>>, <<HASH, NL>>, <<b, SP, AT, a, SEMI, NL>>}

Lines == {Unread(FoldLeft(LAMBDA s, l : s \o l, <<>>, ls)) : ls \in BoundedSeq(Line, 3)}

Numbers == {Rendering(<<Pair(<<a>>, v)>>) :
              v \in BoundedSeq({MINUS, X} \cup {48, 49, 51, 53, 57, 102}, MaxDigits) \ {<<>>}}

AllInputs == Numbers \cup Rendered \cup Raw \cup Lines
=============================================================================

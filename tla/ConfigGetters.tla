---------------------------- MODULE ConfigGetters ----------------------------
(***************************************************************************)
(* What the getters of config.c read from a map that has been loaded, with *)
(* the conversions atoui and itoa of str.h; config_get_str and             *)
(* config_get_bool, which return or compare the text, are left out.  int   *)
(* and unsigned are IntMod wide, long is IntMod times IntMod.  A signed    *)
(* overflow is undefined: the getter of an int has a set of results.       *)
(***************************************************************************)
EXTENDS Config

CONSTANT IntMod    \* 2^w for ints of w bits

ASSUME IntAssumption == IntMod \in Nat /\ IntMod >= 32 /\ IntMod % 2 = 0

PLUS  == 43
MINUS == 45
X     == 120

INT_MAX  == (IntMod \div 2) - 1
LONG_MAX == ((IntMod * IntMod) \div 2) - 1

\* A number as an int: its low bits.
AsInt(n) == LET m == n % IntMod IN IF m > INT_MAX THEN m - IntMod ELSE m

\* Variant: 9 is not a digit.
DigitsTo8 == 48 .. 56

Digits == 48 .. 57
HexDigits == Digits \cup 97 .. 102 \cup 65 .. 70

\* What isspace holds of.
Blanks == 9 .. 13 \cup {SP}

DigitValue(ch) ==
  IF ch >= 97 THEN ch - 87 ELSE IF ch >= 65 THEN ch - 55 ELSE ch - 48

\* What a string begins with of some characters.
Leading(s, chars) ==
  SubSeq(s, 1, CHOOSE n \in 0 .. Len(s) :
                 /\ \A i \in 1 .. n : s[i] \in chars
                 /\ n = Len(s) \/ s[n + 1] \notin chars)

\* What the digits of d make up to each of them, without bounds.
Values(d, base) ==
  LET val[n \in 0 .. Len(d)] == IF n = 0 THEN 0 ELSE val[n - 1] * base + DigitValue(d[n])
  IN  val

\* The number made by the digits a string begins with.
Number(s, digits, base) == LET d == Leading(s, digits) IN Values(d, base)[Len(d)]

\* itoa: the digits are made from the last on.
IToA[v \in 0 .. IntMod - 1] ==
  IF v < 10 THEN <<48 + v>> ELSE Append(IToA[v \div 10], 48 + (v % 10))

\* The text of a number in base 16.
Hex[v \in 0 .. IntMod - 1] ==
  LET digit == IF v % 16 < 10 THEN 48 + (v % 16) ELSE 87 + (v % 16)
  IN  IF v < 16 THEN <<digit>> ELSE Append(Hex[v \div 16], digit)
-----------------------------------------------------------------------------
config_get_uint(key, def) ==
  IF key \in DOMAIN data THEN Number(data[key], Digits, 10) % IntMod ELSE def

\* An int overflows as soon as the digits go beyond INT_MAX, also for a number
\* that is then negated.
config_get_int(key, def) ==
  IF key \notin DOMAIN data THEN {def}
  ELSE LET s   == data[key]
           neg == s[1] = MINUS
           n   == Number(IF neg THEN Tail(s) ELSE s, Digits, 10)
       IN IF n > INT_MAX THEN -INT_MAX - 1 .. INT_MAX ELSE {IF neg THEN -n ELSE n}

\* strtol: blanks, a sign and 0x or 0X are read, and the bounds of a long kept; what
\* is returned are its low bits.
config_get_hex(key, def) ==
  IF key \notin DOMAIN data THEN def
  ELSE LET all == data[key]
           s   == SubSeq(all, Len(Leading(all, Blanks)) + 1, Len(all))
           neg == s[1] = MINUS
           t   == IF s[1] \in {PLUS, MINUS} THEN Tail(s) ELSE s
           u   == IF (\E x \in {X, 88} : IsPrefix(<<48, x>>, t)) /\ t[3] \in HexDigits
                    THEN SubSeq(t, 3, Len(t)) ELSE t
           n   == Number(u, HexDigits, 16)
       IN  AsInt(IF neg THEN (IF n > LONG_MAX + 1 THEN -LONG_MAX - 1 ELSE -n)
                        ELSE (IF n > LONG_MAX THEN LONG_MAX ELSE n))
-----------------------------------------------------------------------------
\* An entry that is the text of a number, as itoa makes it, is read as that
\* number: by config_get_uint up to the width of unsigned, by config_get_int with
\* a minus too, but for the least int; digits beyond wrap, or are undefined.  An
\* entry in base 16 is read up to the width, above INT_MAX as a negative number.
GettersRead ==
  pc = "ready" => \A k \in DOMAIN data :
    /\ \A v \in 0 .. IntMod - 1 :
         /\ data[k] = Str(IToA[v]) =>
              config_get_uint(k, 0) = v /\ (v <= INT_MAX => config_get_int(k, 0) = {v})
         /\ data[k] = Str(<<MINUS>> \o IToA[v]) /\ v <= INT_MAX => config_get_int(k, 0) = {-v}
         /\ data[k] = Str(Hex[v]) =>
              config_get_hex(k, 0) = IF v <= INT_MAX THEN v ELSE v - IntMod
=============================================================================

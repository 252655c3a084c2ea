------------------------------ MODULE Serialize ------------------------------
(***************************************************************************)
(* serialize.c: values written as text by one program and parsed by        *)
(* another, whose formats may be older or newer.  A format is a record     *)
(* with a type:                                                            *)
(*    "b" boolean  "c" character  "i" number, for all types of numbers     *)
(*    "s" string on the heap           "S" string in an array of vallen    *)
(*    "a" array on the heap            "A" array of vallen elements        *)
(*    "o" object, a struct with fields "h" hash table                      *)
(* A text is a sequence of characters.  Bound: a number is one digit, so   *)
(* that lengths and hash keys are below ten.                               *)
(*                                                                         *)
(* Strings and arrays are sequences; << >> is also the pointer NULL of "s" *)
(* and "a".  An object is a function of its keys.  A hash table is << >>   *)
(* (NULL) or <<t>> with t a function of the keys in the table.             *)
(***************************************************************************)
EXTENDS Integers, Sequences, FiniteSets, SequencesExt

CONSTANTS
  Messages,    \* sequence of [writer |-> format, reader |-> format, val |-> value]
  MaxValues    \* bound: values written into one text

ASSUME SerializeAssumption ==
  /\ MaxValues \in Nat
  /\ \A k \in DOMAIN Messages : DOMAIN Messages[k] = {"writer", "reader", "val"}

VARIABLES
  buffer,   \* what is written and not yet parsed
  todo,     \* the messages that are in it
  got,      \* those that were parsed, each with what serialize_parse returned
  failed    \* serialize_parse has returned 0

vars == <<buffer, todo, got, failed>>
-----------------------------------------------------------------------------
(***************************************************************************)
(* Writing: serialize_string_ex.                                           *)
(***************************************************************************)
Digits == <<"0", "1", "2", "3", "4", "5", "6", "7", "8", "9">>

Number(n) == <<Digits[n + 1]>>

IntFormat == [type |-> "i"]
StrFormat == [type |-> "s"]

RECURSIVE Encode(_, _)
Encode(f, v) ==
  LET each == FlattenSeq([k \in DOMAIN v |-> Encode(f.format, v[k])])
      field(k) == Encode(StrFormat, f.fields[k].key) \o Encode(f.fields[k].format, v[f.fields[k].key])
      pair(key) == Encode(IF f.isint THEN IntFormat ELSE StrFormat, key) \o Encode(f.format, v[1][key])
  IN <<f.type, ":">> \o
     CASE f.type = "b" -> Number(IF v THEN 1 ELSE 0) \o <<";">>
       [] f.type = "c" -> <<v, ";">>
       [] f.type = "i" -> Number(v) \o <<";">>
       [] f.type \in {"s", "S"} -> Number(Len(v)) \o <<":">> \o v \o <<";">>
       [] f.type \in {"a", "A"} -> Number(Len(v)) \o <<"[">> \o each \o <<"]">>
       [] f.type = "o" -> <<"{">> \o FlattenSeq([k \in DOMAIN f.fields |-> field(k)]) \o <<"}">>
       [] f.type = "h" -> <<"(">> \o FlattenSeq([k \in DOMAIN SetToSeq(DOMAIN v[1]) |->
                                                   pair(SetToSeq(DOMAIN v[1])[k])]) \o <<")">>
-----------------------------------------------------------------------------
(***************************************************************************)
(* Reading a text b from the i-th character on; a NUL follows the last     *)
(* one, and L is the length left (buflen).  0 is failure.                  *)
(***************************************************************************)
Ch(b, i) == IF i \in DOMAIN b THEN b[i] ELSE "NUL"

\* strtoul: the number and where it ends.
IsDigit(b, i) == \E d \in DOMAIN Digits : Digits[d] = Ch(b, i)
NumberAt(b, i) == IF IsDigit(b, i) THEN (CHOOSE d \in DOMAIN Digits : Digits[d] = Ch(b, i)) - 1 ELSE 0
NumberEnd(b, i) == IF IsDigit(b, i) THEN i + 1 ELSE i

\* strchr and memchr: the first c from i on, not behind last.
Find(b, i, last, c) ==
  LET found == {j \in i .. last : Ch(b, j) = c} IN
  IF found = {} THEN 0 ELSE CHOOSE j \in found : \A k \in found : j <= k

Bracket == [a |-> <<"[", "]">>, A |-> <<"[", "]">>, o |-> <<"{", "}">>, h |-> <<"(", ")">>]

\* Faulty variant: the semicolon behind a string is not counted.
StringLenShort(b, i, L) ==
  LET n == NumberAt(b, i + 2)
      len == NumberEnd(b, i + 2) - i + n + 1 IN
  IF n + 1 > L \/ L - len < 1 \/ Ch(b, i + len) # ";" THEN 0 ELSE len

StringLen(b, i, L) ==
  LET n == NumberAt(b, i + 2)
      len == NumberEnd(b, i + 2) - i + n + 1 IN
  IF n + 1 > L \/ L - len < 1 \/ Ch(b, i + len) # ";" THEN 0 ELSE len + 1

\* _serialize_parse_force: the length of the value at i, whatever it is.  The
\* pairs in objects and hash tables are skipped one value after the other,
\* like elements of arrays; skip is where the values end, 0 if they do not.
RECURSIVE Force(_, _, _), SkipValues(_, _, _, _)
Force(b, i, L) ==
  LET t == Ch(b, i)
      end == Find(b, i, i + L - 1, ";")
      open == Find(b, i, i + L - 1, Bracket[t][1])
      skip == SkipValues(b, open + 1, L - (open + 1 - i), Bracket[t][2]) IN
  CASE L < 2 -> 0
    [] L >= 2 /\ t \in {"b", "c", "i"} -> IF end = 0 THEN 0 ELSE end - i + 1
    [] L >= 2 /\ t \in {"s", "S"} -> StringLen(b, i, L)
    [] L >= 2 /\ t \in DOMAIN Bracket -> IF open = 0 \/ skip = 0 THEN 0 ELSE skip - i + 1
    [] OTHER -> 0

SkipValues(b, i, L, close) ==
  IF L < 1 THEN 0
  ELSE IF Ch(b, i) = close THEN i
  ELSE LET n == Force(b, i, L) IN IF n = 0 THEN 0 ELSE SkipValues(b, i + n, L - n, close)

\* Values of other types in front are passed over: where the first of type t is.
RECURSIVE Seek(_, _, _, _)
Seek(b, i, L, t) ==
  IF L = 0 \/ Ch(b, i) = t \/ Force(b, i, L) = 0 THEN i
  ELSE LET n == Force(b, i, L) IN Seek(b, i + n, L - n, t)

Keys(f) == {f.fields[k].key : k \in DOMAIN f.fields}

\* find_serialize_format.
FormatOf(f, key) == f.fields[CHOOSE k \in DOMAIN f.fields : f.fields[k].key = key].format

\* What a struct of zeros holds.
RECURSIVE Default(_)
Default(f) ==
  CASE f.type = "b" -> FALSE
    [] f.type = "c" -> "NUL"
    [] f.type = "i" -> 0
    [] f.type = "o" -> [key \in Keys(f) |-> Default(FormatOf(f, key))]
    [] OTHER -> << >>

\* What the functions that parse return: where the value ends and the value.
Parsed(end, val) == [end |-> end, val |-> val]
Fail == Parsed(0, << >>)

\* Faulty variant: more than the array holds is copied.
ClipNothing(f, n) == n

\* Arrays inside a struct keep what fits.
Clip(f, n) == IF f.type \in {"S", "A"} /\ n > f.vallen THEN f.vallen ELSE n

\* Faulty variant: the character behind an empty string or array stays.
EmptyEndShort(data) == data

\* An empty string or array has no data but the character that ends it.
EmptyEnd(data) == data + 1

\* What stands between the type, or the length, and the data.
Divider(t) ==
  CASE t \in {"b", "c", "i"} -> ";"
    [] t \in {"s", "S"} -> ":"
    [] OTHER -> Bracket[t][1]

(***************************************************************************)
(* _serialize_parse: the value of format f at i; dst is what is in its     *)
(* place.  L is not reduced by what stands in front of the data, and by    *)
(* what was passed over twice when the length of a string is checked.      *)
(***************************************************************************)
RECURSIVE Parse(_, _, _, _, _), Items(_, _, _, _, _), Fields(_, _, _, _, _), Pairs(_, _, _, _, _, _)
Parse(f, b, i, L, dst) ==
  LET t == f.type
      at == Seek(b, i, L, t)
      left == L - (at - i)
      n == NumberAt(b, at + 2)
      from == CASE t \in {"b", "c"} -> at + 3
                [] t \in {"o", "h"} -> at + 2
                [] OTHER -> NumberEnd(b, at + 2)
      div == Find(b, from, Len(b), Divider(t))
      data == div + 1
      isseq == t \in {"s", "S", "a", "A"}
      closed(p, c) == IF p.end = 0 \/ Ch(b, p.end) # c THEN Fail ELSE [p EXCEPT !.end = @ + 1]
      fields == Fields(f, b, data, left, dst)
  IN CASE left = 0 \/ Ch(b, at) # t \/ Ch(b, at + 1) # ":" \/ div = 0 -> Fail
       [] OTHER ->
            CASE t = "b" -> Parsed(data, Ch(b, at + 2) # "0")
              [] t = "c" -> Parsed(data, Ch(b, at + 2))
              [] t = "i" -> Parsed(data, n)
              [] isseq /\ n = 0 -> Parsed(EmptyEnd(data), dst)
              [] isseq /\ n > 0 /\ (left - (data - i) < n \/ (t \in {"s", "a"} /\ dst # << >>)) -> Fail
              [] t = "o" -> IF fields.end = data THEN Fail ELSE closed(fields, "}")
              [] t = "h" -> IF dst # << >> THEN Fail
                            ELSE closed(Pairs(f, b, data, left, << >>, << >>), ")")
              [] OTHER -> IF t \in {"s", "S"}
                          THEN closed(Parsed(data + n, SubSeq(b, data, data + Clip(f, n) - 1)), ";")
                          ELSE closed(Items(f.format, b, data, left, Clip(f, n)), "]")

\* The n elements of an array.
Items(f, b, i, L, n) ==
  LET p == Parse(f, b, i, L, Default(f))
      rest == Items(f, b, p.end, L - (p.end - i), n - 1) IN
  IF n = 0 THEN Parsed(i, << >>)
  ELSE IF p.end = 0 \/ rest.end = 0 THEN Fail
  ELSE Parsed(rest.end, <<p.val>> \o rest.val)

\* _serialize_parse_object: key and value, for as long as there are keys.
Fields(f, b, i, L, obj) ==
  LET n == NumberAt(b, i + 2)
      from == NumberEnd(b, i + 2) + 1
      key == SubSeq(b, from, from + n - 1)
      val == from + n + 1
      left == L - (val - i)
      skipped == Force(b, val, left)
      p == Parse(FormatOf(f, key), b, val, left, obj[key])
  IN IF L <= 2 \/ Ch(b, i) # "s" \/ Ch(b, i + 1) # ":" THEN Parsed(i, obj)
     ELSE IF n = 0 \/ left + 1 <= 0 \/ Ch(b, from + n) # ";" THEN Fail
     ELSE IF key \in Keys(f)
     THEN IF p.end = 0 THEN Fail ELSE Fields(f, b, p.end, left - (p.end - val), [obj EXCEPT ![key] = p.val])
     ELSE IF skipped = 0 THEN Fail ELSE Fields(f, b, val + skipped, left - skipped, obj)

\* The pairs of a hash table.  hkey is reused for each string key and still
\* holds the one before.
Pairs(f, b, i, L, hkey, table) ==
  LET k == Parse(IF f.isint THEN IntFormat ELSE StrFormat, b, i, L, hkey)
      p == Parse(f.format, b, k.end, L - (k.end - i), Default(f.format)) IN
  IF L = 0 \/ Ch(b, i) = ")" THEN Parsed(i, <<table>>)
  ELSE IF k.end = 0 \/ p.end = 0 THEN Fail
  ELSE Pairs(f, b, p.end, L - (p.end - i), IF f.isint THEN hkey ELSE k.val, (k.val :> p.val) @@ table)
-----------------------------------------------------------------------------
Init == buffer = << >> /\ todo = << >> /\ got = << >> /\ failed = FALSE

\* serialize_string; the caller appends the text to what it sends.
Write(k) ==
  /\ Len(todo) + Len(got) < MaxValues
  /\ ~ failed
  /\ buffer' = buffer \o Encode(Messages[k].writer, Messages[k].val)
  /\ todo' = Append(todo, Messages[k])
  /\ UNCHANGED <<got, failed>>

\* serialize_parse into a struct of zeros; the caller goes on behind it.
Read ==
  LET m == Head(todo)
      p == Parse(m.reader, buffer, 1, Len(buffer), Default(m.reader)) IN
  /\ todo # << >>
  /\ buffer # << >>
  /\ ~ failed
  /\ IF p.end = 0
     THEN failed' = TRUE /\ UNCHANGED <<buffer, todo, got>>
     ELSE /\ buffer' = SubSeq(buffer, p.end, Len(buffer))
          /\ todo' = Tail(todo)
          /\ got' = Append(got, [msg |-> m, val |-> p.val])
          /\ UNCHANGED failed

Next == (\E k \in DOMAIN Messages : Write(k)) \/ Read

Spec == Init /\ [][Next]_vars
-----------------------------------------------------------------------------
(***************************************************************************)
(* What the two programs may rely on.                                      *)
(***************************************************************************)
\* Values that readers who do not know them can pass over: without ";" as a
\* character.
RECURSIVE Passable(_, _)
Passable(w, v) ==
  CASE w.type = "c" -> v # ";"
    [] w.type \in {"a", "A"} -> \A k \in DOMAIN v : Passable(w.format, v[k])
    [] w.type = "o" -> \A key \in Keys(w) : Passable(FormatOf(w, key), v[key])
    [] w.type = "h" -> \A key \in DOMAIN v[1] : Passable(w.format, v[1][key])
    [] OTHER -> TRUE

\* The value v of format w can be parsed with format r.  Fields may be new,
\* gone or in another order, but none changes its type; an array inside a
\* struct does not shrink; objects are not empty, and a hash table has no
\* second key that is a string.
RECURSIVE Fits(_, _, _)
Fits(w, r, v) ==
  /\ w.type = r.type
  /\ CASE w.type = "a" -> \A k \in DOMAIN v : Fits(w.format, r.format, v[k])
       [] w.type = "A" -> Len(v) <= r.vallen /\ \A k \in DOMAIN v : Fits(w.format, r.format, v[k])
       [] w.type = "o" -> /\ w.fields # << >>
                          /\ \A key \in Keys(w) :
                               IF key \in Keys(r) THEN Fits(FormatOf(w, key), FormatOf(r, key), v[key])
                               ELSE Passable(FormatOf(w, key), v[key])
       [] w.type = "h" -> /\ w.isint = r.isint
                          /\ w.isint \/ Cardinality(DOMAIN v[1]) <= 1
                          /\ \A key \in DOMAIN v[1] : Fits(w.format, r.format, v[1][key])
       [] OTHER -> TRUE

\* What is left of v for a reader: strings inside a struct are cut, and fields
\* the writer does not have stay zero.
RECURSIVE Expected(_, _, _)
Expected(w, r, v) ==
  CASE r.type = "S" /\ Len(v) > r.vallen -> SubSeq(v, 1, r.vallen)
    [] r.type \in {"a", "A"} -> [k \in DOMAIN v |-> Expected(w.format, r.format, v[k])]
    [] r.type = "o" -> [key \in Keys(r) |->
                          IF key \in Keys(w) THEN Expected(FormatOf(w, key), FormatOf(r, key), v[key])
                          ELSE Default(FormatOf(r, key))]
    [] r.type = "h" -> <<[key \in DOMAIN v[1] |-> Expected(w.format, r.format, v[1][key])]>>
    [] OTHER -> v

FitsMessage(m) == Fits(m.writer, m.reader, m.val)

\* So far everything has fitted.
Orderly == \A j \in DOMAIN got : FitsMessage(got[j].msg)

\* Values that fit are read as they were written, whatever characters they
\* hold and whatever stands before and behind them, and parsing them does not
\* fail (serialize.c:163-499).
ReadsBack ==
  Orderly =>
    /\ \A j \in DOMAIN got :
         got[j].val = Expected(got[j].msg.writer, got[j].msg.reader, got[j].msg.val)
    /\ failed => ~ FitsMessage(Head(todo))

\* The length that serialize_parse returns is that of the value: the next call
\* starts at the next one (serialize.c:436, 282).
Aligned ==
  Orderly => buffer = FlattenSeq([j \in DOMAIN todo |-> Encode(todo[j].writer, todo[j].val)])

\* A reader that does not know a value passes over all of it and nothing more
\* (_serialize_parse_force, serialize.c:50-161).
SkipsWhole ==
  Orderly /\ todo # << >> /\ Passable(Head(todo).writer, Head(todo).val) =>
    Force(buffer, 1, Len(buffer)) = Len(Encode(Head(todo).writer, Head(todo).val))
=============================================================================

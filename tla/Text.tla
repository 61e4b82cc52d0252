-------------------------------- MODULE Text --------------------------------
(***************************************************************************)
(* Comparing and searching text: char_traits, string_view and the          *)
(* read-only part of basic_winnt_string.  A text is a sequence of          *)
(* characters; character 0 ends a C string.  A view is a part of a text.   *)
(***************************************************************************)
EXTENDS Algorithms

CONSTANTS npos, Refused

\* A C string may hold anything behind its end.
RECURSIVE lengthFrom(_, _)
lengthFrom(s, i) == IF s[i] # 0 THEN 1 + lengthFrom(s, i + 1) ELSE 0
length(s) == lengthFrom(s, 1)
CStr(s) == SubSeq(s, 1, length(s))

\* char_traits::compare looks at count characters, as unsigned ones.
RECURSIVE compareFrom(_, _, _, _)
compareFrom(s, t, i, count) ==
  IF count = 0 THEN 0
  ELSE IF s[i] # t[i] THEN (IF s[i] < t[i] THEN -1 ELSE 1)
  ELSE compareFrom(s, t, i + 1, count - 1)

Least(x, y) == IF y < x THEN y ELSE x

\* Mutant: the lengths do not count.
CompareCommon(s, t) == compareFrom(s, t, 1, Least(Len(s), Len(t)))

compare_unchecked(s, t) ==
  LET c == compareFrom(s, t, 1, Least(Len(s), Len(t)))
  IN IF c = 0 /\ Len(s) # Len(t) THEN (IF Len(s) < Len(t) THEN -1 ELSE 1) ELSE c

-----------------------------------------------------------------------------
(* Positions of a text begin with 0, as in the code.                       *)

substr_unchecked(s, pos, count) == SubSeq(s, pos + 1, pos + Least(Len(s) - pos, count))
substr(s, pos, count) == IF pos > Len(s) THEN Refused ELSE substr_unchecked(s, pos, count)
remove_prefix(s, count) == SubSeq(s, count + 1, Len(s))
remove_suffix(s, count) == SubSeq(s, 1, Len(s) - count)
compare_part(s, pos, count, t) ==
  LET part == substr(s, pos, count) IN IF part = Refused THEN Refused ELSE compare_unchecked(part, t)

\* What a copy of at most count characters from pos on leaves in dst.
copy_text(s, dst, count, pos) ==
  LET copied == Least(Len(s) - pos, count)
  IN IF pos > Len(s) THEN Refused
     ELSE [n |-> copied, dst |-> [i \in DOMAIN dst |-> IF i <= copied THEN s[pos + i] ELSE dst[i]]]

find_ch(s, ch, pos) ==
  LET i == findIfFrom(s, pos + 1, {ch})
  IN IF pos >= Len(s) \/ i = Len(s) + 1 THEN npos ELSE i - 1

RECURSIVE rfindFrom(_, _, _)
rfindFrom(s, ch, idx) == IF idx = 0 THEN npos ELSE IF s[idx] = ch THEN idx - 1 ELSE rfindFrom(s, ch, idx - 1)
rfind_ch(s, ch, pos) == IF pos >= Len(s) THEN npos ELSE rfindFrom(s, ch, Len(s))

\* The start must lie inside the text: the length that is left is unsigned.
find_substr(s, pos, t) ==
  LET i == findSubrangeFrom(s, pos + 1, Len(s) - pos, t)
  IN IF Len(t) > Len(s) \/ i = Len(s) + 1 THEN npos ELSE i - 1

starts_with(s, t) == Len(t) <= Len(s) /\ compareFrom(s, t, 1, Len(t)) = 0
starts_with_ch(s, ch) == s # <<>> /\ s[1] = ch
ends_with_ch(s, ch) == s # <<>> /\ s[Len(s)] = ch
contains(s, t) == find_substr(s, 0, t) # npos

\* The operators, defined by one another as in the code: on views, on strings, and with a C string on either side.
view_eq(s, t) == compare_unchecked(s, t) = 0
view_less(s, t) == compare_unchecked(s, t) < 0
view_greater(s, t) == compare_unchecked(s, t) > 0
ViewOperators(s, t) ==
  [eq |-> view_eq(s, t), ne |-> compare_unchecked(s, t) # 0, lt |-> view_less(s, t), le |-> ~view_greater(s, t),
   gt |-> view_greater(s, t), ge |-> ~view_less(s, t)]
StringOperators(s, t) ==
  [eq |-> compare_unchecked(s, t) = 0, ne |-> ~(compare_unchecked(s, t) = 0), lt |-> compare_unchecked(s, t) < 0,
   le |-> ~(compare_unchecked(s, t) > 0), gt |-> compare_unchecked(s, t) > 0, ge |-> ~(compare_unchecked(t, s) > 0)]
WithCString(s, c) == StringOperators(s, CStr(c))
CStringWith(c, s) ==
  LET r == compare_unchecked(s, CStr(c))
  IN [eq |-> r = 0, ne |-> ~(r = 0), lt |-> r > 0, le |-> ~(r < 0), gt |-> r < 0, ge |-> ~(r > 0)]

-----------------------------------------------------------------------------
(* The calls.                                                              *)

Terminated(s) == \E i \in DOMAIN s : s[i] = 0
TextCall ==
  \/ \E op \in {"text operators", "affixes"}, s \in Ranges, t \in Ranges : call = Call(op, s, t, 0)
  \/ \E s \in UpTo({0, 2}, MaxRange), t \in UpTo({1}, 2), i \in 0..(MaxRange + 1) : call = Call("parts", s, t, i)
  \/ \E s \in UpTo({0, 1}, LongRange), t \in UpTo({0, 1}, 2) : \E i \in 0..Len(s) : call = Call("find", s, t, i)

CompareTexts ==
  Do("text operators",
     [view |-> ViewOperators(call.s, call.t), string |-> StringOperators(call.s, call.t),
      left |-> IF Terminated(call.s) THEN CStringWith(call.s, call.t) ELSE Refused,
      right |-> IF Terminated(call.t) THEN WithCString(call.s, call.t) ELSE Refused])
Affixes ==
  Do("affixes", [starts |-> starts_with(call.s, call.t), contains |-> contains(call.s, call.t),
                 chars |-> [c \in Items |-> <<starts_with_ch(call.s, c), ends_with_ch(call.s, c)>>]])
Parts ==
  Do("parts", [c \in 0..(MaxRange + 1) |->
                 [sub |-> substr(call.s, call.i, c), compared |-> compare_part(call.s, call.i, c, call.t),
                  copied |-> copy_text(call.s, call.t, Least(c, Len(call.t)), call.i),
                  cut |-> IF c + call.i <= Len(call.s) THEN remove_suffix(remove_prefix(call.s, c), call.i) ELSE Refused]])
FindText ==
  Do("find", [ch |-> [c \in Items |-> <<find_ch(call.s, c, call.i), rfind_ch(call.s, c, call.i)>>],
              text |-> find_substr(call.s, call.i, call.t)])

TextNext == CompareTexts \/ Affixes \/ Parts \/ FindText

-----------------------------------------------------------------------------
(* What the results mean.                                                  *)

Ordered(s, t) ==
  [eq |-> s = t, ne |-> s # t, lt |-> Precedes(s, t), le |-> s = t \/ Precedes(s, t),
   gt |-> Precedes(t, s), ge |-> s = t \/ Precedes(t, s)]
UpToNul(s) == SubSeq(s, 1, Firstly({i \in DOMAIN s : s[i] = 0}, 1) - 1)

\* The operators of views and strings, with C strings on either side, are one total order: by unsigned characters, then
\* by length.  Characters equal 0 inside a text count, behind the end of a C string they do not.
TextOrdered ==
  (call.op = "text operators" /\ result # NoResult) =>
    /\ result.view = Ordered(call.s, call.t)
    /\ result.string = Ordered(call.s, call.t)
    /\ result.left # Refused => result.left = Ordered(UpToNul(call.s), call.t)
    /\ result.right # Refused => result.right = Ordered(call.s, UpToNul(call.t))

\* substr, copy, remove_prefix and remove_suffix agree on which characters a part has, a position behind the end is
\* refused; find returns positions counted from the beginning of the text, however far in the search starts: of the
\* first such character, and of a substring at the start or behind it.
PartsAgree ==
  LET s == call.s
      t == call.t
      From(i, n) == SubSeq(s, i + 1, i + Least(n, Len(s) - i))
      Places == {i - 1 : i \in Occurrences(s, t)}
  IN result # NoResult =>
       CASE call.op = "parts" ->
              \A c \in DOMAIN result :
                IF call.i > Len(s) THEN {result[c].sub, result[c].compared, result[c].copied} = {Refused}
                ELSE /\ result[c].sub = From(call.i, c)
                     /\ (result[c].compared < 0) = Precedes(From(call.i, c), t)
                     /\ SubSeq(result[c].copied.dst, 1, result[c].copied.n) = From(call.i, Least(c, Len(t)))
                     /\ result[c].cut # Refused => result[c].cut = From(c, Len(s) - c - call.i)
         [] call.op = "affixes" ->
              /\ result.starts <=> (Len(t) <= Len(s) /\ From(0, Len(t)) = t)
              /\ result.contains => Places # {}
              /\ \A c \in Items : result.chars[c] = <<1 \in Occurrences(s, <<c>>), Len(s) \in Occurrences(s, <<c>>)>>
         [] call.op = "find" ->
              /\ \A c \in Items :
                   /\ result.ch[c][1] = Firstly({i \in call.i..(Len(s) - 1) : s[i + 1] = c}, npos)
                   /\ result.ch[c][2] # npos => \A i \in (result.ch[c][2] + 2)..Len(s) : s[i] # c
              /\ result.text \in {npos} \union {i \in Places : i >= call.i}
         [] OTHER -> TRUE

\* Comparing, cutting and searching text, the operations of char_traits, string_view and strings that change nothing.
TextsCorrect == TextOrdered /\ PartsAgree
=============================================================================

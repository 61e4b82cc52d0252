------------------------------- MODULE Format -------------------------------
(***************************************************************************)
(* modules/fmt: the parser of format strings with the two handlers it      *)
(* notifies, format_string_checker (when the string is compiled) and       *)
(* vformat_to's format_handler (when it is formatted), and the writers of  *)
(* integers, texts, characters, bools and pointers.                        *)
(*                                                                         *)
(* A text is a sequence of one-character strings.  m is what a parser and  *)
(* its handler know: the position, the parse context (next, the argument   *)
(* id), the specs of the current field, what was written.  h is the        *)
(* handler: its arguments and whether it only checks.  An error is thrown  *)
(* by both, so m.err ends the parse.  The ghosts spelled, used, manual,    *)
(* named and counts record the notifications.  Numbers are scaled to       *)
(* MaxInt.  The digits of a double and the case of hexadecimal digits are  *)
(* left out.                                                               *)
(***************************************************************************)
EXTENDS OneCall, Integers, Sequences, FiniteSets, SequencesExt

CONSTANTS
  MaxInt, Digits10,  \* numeric_limits<int>::max, digits10
  ShortText,         \* the length (32) from which a string is parsed in two passes
  FormatTexts, ArgumentLists, Fields, FieldArguments

Numeral == <<"0", "1", "2", "3", "4", "5", "6", "7", "8", "9", "a", "b", "c", "d", "e", "f">>
IsDigit(c) == \E i \in 1..10 : Numeral[i] = c
DigitValue(c) == (CHOOSE i \in 1..10 : Numeral[i] = c) - 1
is_name_start(c) == c \in {"a", "b", "c", "d", "f", "n", "o", "p", "s", "x", "L"}
Chr(code) == IF code = 97 THEN "a" ELSE "?"

NoSpecs == [width |-> 0, precision |-> -1, type |-> "", align |-> "none", sign |-> "none",
            alt |-> FALSE, localized |-> FALSE, fill |-> " "]

Fail(m) == [m EXCEPT !.err = TRUE]
Then(m, Step(_)) == IF m.err THEN m ELSE Step(m)
More(s, m, Step(_)) == IF m.err \/ m.at > Len(s) THEN m ELSE Step(m)
Peek(s, m) == IF m.at \in DOMAIN s THEN s[m.at] ELSE ""
Spell(m, t) == [m EXCEPT !.spelled = @ \o t]
Skip(m) == [m EXCEPT !.at = @ + 1]

-----------------------------------------------------------------------------
(* Writing.  A writer gives the characters, or NoText for a format_error.  *)

CONSTANT NoText

RECURSIVE format_uint(_, _)
format_uint(n, base) ==
  IF n < base THEN <<Numeral[n + 1]>>
  ELSE Append(format_uint(n \div base, base), Numeral[(n % base) + 1])

Copies(n, c) == [i \in 1..n |-> c]
\* padding >> shifts[align], the shift being 31, 1 or 0.
LeftPadding(default, align, padding) ==
  CASE align = "left" \/ (align = "none" /\ default = "left") -> 0
    [] align = "center" -> padding \div 2
    [] OTHER -> padding
write_padded(default, specs, text) ==
  LET padding == IF specs.width > Len(text) THEN specs.width - Len(text) ELSE 0
      left == LeftPadding(default, specs.align, padding)
  IN Copies(left, specs.fill) \o text \o Copies(padding - left, specs.fill)

write_int_padded(prefix, digits, specs) ==
  LET size == Len(prefix) + Len(digits)
      zeros == IF specs.align = "numeric" THEN (IF specs.width > size THEN specs.width - size ELSE 0)
               ELSE IF specs.precision > Len(digits) THEN specs.precision - Len(digits) ELSE 0
  IN IF specs.width = 0 /\ specs.precision = -1 THEN prefix \o digits
     ELSE write_padded("right", specs, prefix \o Copies(zeros, "0") \o digits)
\* Without a locale there is nothing to group.
write_int_localized(prefix, digits, specs) == write_padded("right", specs, prefix \o digits)

SignPrefix(value, sign) ==
  IF value < 0 THEN <<"-">> ELSE IF sign = "plus" THEN <<"+">> ELSE IF sign = "space" THEN <<" ">> ELSE <<>>
write_char(code, specs) == write_padded("left", specs, <<Chr(code)>>)
Base(type) == CASE type \in {"", "d"} -> 10 [] type \in {"x", "X"} -> 16 [] type \in {"b", "B"} -> 2 [] type = "o" -> 8
TypePrefix(abs, digits, specs) ==
  IF specs.type \in {"x", "X", "b", "B"} /\ specs.alt THEN <<"0", specs.type>>
  ELSE IF specs.type = "o" /\ specs.alt /\ specs.precision <= Len(digits) /\ abs # 0 THEN <<"0">> ELSE <<>>
write_digits(abs, prefix, digits, specs) ==
  IF specs.type \in {"", "d"} /\ specs.localized THEN write_int_localized(prefix, digits, specs)
  ELSE write_int_padded(prefix \o TypePrefix(abs, digits, specs), digits, specs)
make_write_int_arg(value, sign) == [abs_value |-> IF value < 0 THEN -value ELSE value, prefix |-> SignPrefix(value, sign)]
write_int_arg(arg, specs) ==
  CASE specs.type \in {"", "d", "x", "X", "b", "B", "o"} ->
         write_digits(arg.abs_value, arg.prefix, format_uint(arg.abs_value, Base(specs.type)), specs)
    [] specs.type = "c" -> write_char(arg.abs_value, specs)
    [] OTHER -> NoText
write_int(value, specs) == write_int_arg(make_write_int_arg(value, specs.sign), specs)
write_ptr(address, specs) == write_padded("right", specs, <<"0", "x">> \o format_uint(address, 16))
write_text(text, specs) ==
  write_padded("left", specs,
               IF specs.precision >= 0 /\ specs.precision < Len(text) THEN SubSeq(text, 1, specs.precision) ELSE text)
BoolText(value) == IF value = 1 THEN <<"t", "r", "u", "e">> ELSE <<"f", "a", "l", "s", "e">>
write_bool(value, specs) ==
  IF specs.type \notin {"", "s"} THEN write_int(value, specs) ELSE write_padded("left", specs, BoolText(value))

IntTypes == {"", "d", "x", "X", "b", "B", "o", "c"}
FloatTypes == {"", "g", "G", "e", "E", "f", "F", "a", "A"}
CharIsInt(specs) == specs.type \notin {"", "c"}
BadChar(specs) == ~CharIsInt(specs) /\ (specs.align = "numeric" \/ specs.sign # "none" \/ specs.alt)

\* visit_format_arg(arg_formatter{specs}, arg).
arg_formatter(arg, specs) ==
  CASE arg.type \in {"int", "uint"} -> write_int(arg.value, specs)
    [] arg.type = "bool" -> write_bool(arg.value, specs)
    [] arg.type = "char" ->
         IF BadChar(specs) THEN NoText
         ELSE IF CharIsInt(specs) THEN write_int(arg.value, specs) ELSE write_char(arg.value, specs)
    [] arg.type = "double" -> IF specs.type \in FloatTypes THEN <<"real">> ELSE NoText
    [] arg.type = "cstring" ->
         IF specs.type \in {"", "s"} THEN write_text(arg.value, specs)
         ELSE IF specs.type = "p" THEN write_ptr(arg.address, specs) ELSE NoText
    [] arg.type = "string" -> IF specs.type \in {"", "s"} THEN write_text(arg.value, specs) ELSE NoText
    [] arg.type = "pointer" -> IF specs.type \in {"", "p"} THEN write_ptr(arg.value, specs) ELSE NoText

\* visit_format_arg(default_arg_formatter, arg).
default_arg_formatter(arg) ==
  CASE arg.type \in {"int", "uint"} ->
         (IF arg.value < 0 THEN <<"-">> ELSE <<>>) \o format_uint(IF arg.value < 0 THEN -arg.value ELSE arg.value, 10)
    [] arg.type = "char" -> <<Chr(arg.value)>>
    [] arg.type = "double" -> <<"real">>
    [] arg.type \in {"cstring", "string"} -> arg.value
    [] arg.type = "bool" -> BoolText(arg.value)
    [] arg.type = "pointer" -> write_ptr(arg.value, NoSpecs)

-----------------------------------------------------------------------------
(* Argument ids.                                                           *)

\* compile_parse_context also knows the number of arguments.
Missing(h, id) == h.checked /\ id >= Len(h.args)
next_arg_id(m, h) ==
  IF m.next < 0 \/ Missing(h, m.next) THEN Fail(m)
  ELSE [m EXCEPT !.next = @ + 1, !.id = m.next, !.used = Append(@, m.next)]
check_arg_id(m, h, id) ==
  IF m.next > 0 \/ Missing(h, id) THEN Fail(m) ELSE [m EXCEPT !.next = -1, !.id = id, !.manual = TRUE]
get_arg(m, h) == IF m.id < Len(h.args) THEN m ELSE Fail(m)
get_by_name(m, h, name) ==
  LET named == {i \in DOMAIN h.args : h.args[i].name = name}
  IN IF named = {} THEN Fail(m) ELSE [m EXCEPT !.id = (CHOOSE i \in named : \A j \in named : i <= j) - 1]

Value(digits) == FoldLeft(LAMBDA v, c : (v * 10 + DigitValue(c)) % (2 * (MaxInt + 1)), 0, digits)
FitsInt(digits) ==
  \/ Len(digits) <= Digits10
  \/ Len(digits) = Digits10 + 1 /\ Value(Front(digits)) * 10 + DigitValue(Last(digits)) <= MaxInt
parse_nonnegative_int(s, at, error) ==
  LET Number(digits) == [at |-> at + Len(digits), value |-> IF FitsInt(digits) THEN Value(digits) ELSE error]
      Digits(n) == SubSeq(s, at, at + n - 1)
  IN Number(Digits(CHOOSE n \in 1..Len(s) :
              /\ \A i \in at..(at + n - 1) : i \in DOMAIN s /\ IsDigit(s[i])
              /\ at + n \in DOMAIN s => ~IsDigit(s[at + n])))

\* An id is the name, or the digits of the index, or nothing.
parse_arg_id(s, m, OnAuto(_), OnIndex(_, _), OnName(_, _)) ==
  LET c == s[m.at]
      after == CHOOSE i \in (m.at + 1)..(Len(s) + 1) :
                 /\ \A j \in m.at..(i - 1) : is_name_start(s[j]) \/ IsDigit(s[j])
                 /\ i \in DOMAIN s => ~(is_name_start(s[i]) \/ IsDigit(s[i]))
      name == SubSeq(s, m.at, after - 1)
      Index(n, value) == IF Peek(s, n) \in {"}", ":"} THEN OnIndex(n, value) ELSE Fail(m)
      Number(read) == Index([Spell(m, format_uint(read.value, 10)) EXCEPT !.at = read.at], read.value)
  IN IF c \in {"}", ":"} THEN OnAuto(m)
     ELSE IF IsDigit(c) THEN
       Number(IF c = "0" THEN [at |-> m.at + 1, value |-> 0] ELSE parse_nonnegative_int(s, m.at, MaxInt))
     ELSE IF is_name_start(c) THEN OnName([Spell(m, name) EXCEPT !.at = after, !.named = TRUE], name)
     ELSE Fail(m)

-----------------------------------------------------------------------------
(* Format specs: specs_setter under specs_checker.                         *)

IntegralTypes == {"int", "uint", "bool", "char"}
ArithmeticTypes == IntegralTypes \union {"double"}
require_numeric_argument(m) == IF m.type \in ArithmeticTypes THEN m ELSE Fail(m)

parse_align(s, m) ==
  LET Aligns == [c \in {"<", ">", "^"} |-> CASE c = "<" -> "left" [] c = ">" -> "right" [] c = "^" -> "center"]
      second == m.at + 1 \in DOMAIN s /\ s[m.at + 1] \in DOMAIN Aligns
  IN IF second THEN
       IF s[m.at] = "{" THEN Fail(m)
       ELSE [Spell(m, <<s[m.at], s[m.at + 1]>>) EXCEPT
               !.at = @ + 2, !.spec.fill = s[m.at], !.spec.align = Aligns[s[m.at + 1]]]
     ELSE IF s[m.at] \in DOMAIN Aligns THEN Skip([Spell(m, <<s[m.at]>>) EXCEPT !.spec.align = Aligns[s[m.at]]])
     ELSE m

on_sign(m, sign) ==
  Then(require_numeric_argument(m),
       LAMBDA n : IF n.type \in IntegralTypes \ {"int", "char"} THEN Fail(n) ELSE [n EXCEPT !.spec.sign = sign])
parse_sign(s, m) ==
  CASE s[m.at] = "+" -> Skip(on_sign(Spell(m, <<"+">>), "plus"))
    [] s[m.at] = "-" -> Skip(on_sign(Spell(m, <<"-">>), "minus"))
    [] s[m.at] = " " -> Skip(on_sign(Spell(m, <<" ">>), "space"))
    [] OTHER -> m
on_hash(m) == [require_numeric_argument(m) EXCEPT !.spec.alt = TRUE]
on_localized(m) == [require_numeric_argument(m) EXCEPT !.spec.localized = TRUE]
on_zero(m) ==
  [require_numeric_argument(m) EXCEPT !.spec.fill = "0", !.spec.align = IF @ = "none" THEN "numeric" ELSE @]
end_precision(m) == IF m.type \in IntegralTypes \union {"pointer"} THEN Fail(m) ELSE m
on_type(m, c) == Skip([Spell(m, <<c>>) EXCEPT !.spec.type = c])
Flag(s, m, c, On(_)) == IF s[m.at] = c THEN Skip(On(Spell(m, <<c>>))) ELSE m

get_dynamic_spec(m, h, part) ==
  LET arg == h.args[m.id + 1]
  IN IF arg.type \in {"int", "uint"} /\ arg.value \in 0..MaxInt THEN [m EXCEPT !.spec[part] = arg.value] ELSE Fail(m)
\* specs_handler::on_dynamic_width and _precision; dynamic_specs_handler keeps the reference only.
on_dynamic(m, h, part) ==
  IF h.checked THEN [m EXCEPT !.counts = @ \union {m.id}]
  ELSE Then(get_arg(m, h), LAMBDA n : get_dynamic_spec(n, h, part))
DynamicId(s, m, h, part) ==
  parse_arg_id(s, m,
    LAMBDA n : Then(next_arg_id(n, h), LAMBDA k : on_dynamic(k, h, part)),
    LAMBDA n, i : Then(check_arg_id(n, h, i), LAMBDA k : on_dynamic(k, h, part)),
    LAMBDA n, name : IF h.checked THEN n ELSE Then(get_by_name(n, h, name), LAMBDA k : on_dynamic(k, h, part)))

\* A number, or an argument's in braces, for the width or the precision; the one character `{` is before m.at.
NumberOf(s, m, part) ==
  LET Set(n) == IF n.value = -1 THEN Fail(m)
                ELSE [Spell(m, format_uint(n.value, 10)) EXCEPT !.at = n.at, !.spec[part] = n.value]
  IN Set(parse_nonnegative_int(s, m.at, -1))
ArgumentOf(s, m, h, part) ==
  Then(More(s, Skip(Spell(m, <<"{">>)), LAMBDA k : DynamicId(s, k, h, part)),
       LAMBDA k : IF Peek(s, k) = "}" THEN Skip(Spell(k, <<"}">>)) ELSE Fail(k))
parse_width(s, m, h) ==
  IF IsDigit(s[m.at]) THEN NumberOf(s, m, "width")
  ELSE IF s[m.at] = "{" THEN ArgumentOf(s, m, h, "width")
  ELSE m
parse_precision(s, m, h) ==
  LET p == Skip(Spell(m, <<".">>))
  IN Then(IF IsDigit(Peek(s, p)) THEN NumberOf(s, p, "precision")
          ELSE IF Peek(s, p) = "{" THEN ArgumentOf(s, p, h, "precision")
          ELSE Fail(p), end_precision)

SpecParts == <<"align", "sign", "#", "0", "width", "precision", "L", "type">>
parse_format_specs(s, m, h) ==
  IF m.at + 1 \in DOMAIN s /\ s[m.at + 1] = "}" /\ is_name_start(s[m.at]) /\ s[m.at] # "L" THEN on_type(m, s[m.at])
  ELSE FoldLeft(LAMBDA n, part : More(s, n, LAMBDA k :
         CASE part = "align" -> parse_align(s, k)
           [] part = "sign" -> parse_sign(s, k)
           [] part = "#" -> Flag(s, k, "#", on_hash)
           [] part = "0" -> Flag(s, k, "0", on_zero)
           [] part = "width" -> parse_width(s, k, h)
           [] part = "precision" -> IF s[k.at] = "." THEN parse_precision(s, k, h) ELSE k
           [] part = "L" -> Flag(s, k, "L", on_localized)
           [] part = "type" -> IF s[k.at] = "}" THEN k ELSE on_type(k, s[k.at])), m, SpecParts)

-----------------------------------------------------------------------------
(* Replacement fields and the whole string.                                *)

on_text(m, h, t) ==
  LET doubled == FlattenSeq([i \in DOMAIN t |-> IF t[i] \in {"{", "}"} THEN <<t[i], t[i]>> ELSE <<t[i]>>])
  IN [Spell(m, doubled) EXCEPT !.out = IF h.checked THEN @ ELSE @ \o t]
on_arg_id(s, m, h) ==
  parse_arg_id(s, m, LAMBDA n : next_arg_id(n, h), LAMBDA n, i : check_arg_id(n, h, i),
               LAMBDA n, name : IF h.checked THEN Fail(n) ELSE get_by_name(n, h, name))
Written(m, text) == IF text = NoText THEN Fail(m) ELSE [m EXCEPT !.out = @ \o text]
on_replacement_field(m, h) ==
  IF h.checked THEN m ELSE Then(get_arg(m, h), LAMBDA n : Written(n, default_arg_formatter(h.args[n.id + 1])))

\* formatter<T>::parse, what it tests when the specs are read.
formatter_accepts(m) ==
  CASE m.type \in {"int", "uint"} -> m.spec.type \in IntTypes
    [] m.type = "bool" -> m.spec.type \in IntTypes \union {"s"}
    [] m.type = "char" -> IF CharIsInt(m.spec) THEN m.spec.type \in IntTypes ELSE ~BadChar(m.spec)
    [] m.type = "double" -> m.spec.type \in FloatTypes
    [] m.type = "cstring" -> m.spec.type \in {"", "s", "p"}
    [] m.type = "string" -> m.spec.type \in {"", "s"}
    [] m.type = "pointer" -> m.spec.type \in {"", "p"}
on_format_specs(s, m, h) ==
  Then(get_arg(m, h), LAMBDA k :
    LET arg == h.args[k.id + 1]
    IN Then(parse_format_specs(s, [k EXCEPT !.spec = NoSpecs, !.type = arg.type], h), LAMBDA j :
         IF h.checked THEN (IF formatter_accepts(j) THEN j ELSE Fail(j))
         ELSE IF Peek(s, j) # "}" THEN Fail(j)
         ELSE Written(j, arg_formatter(arg, j.spec))))

\* m.at is at the opening brace.
parse_replacement_field(s, m, h) ==
  LET inside == Skip(m)
      field == Spell(inside, <<"{">>)
      Close(n) == Skip(Spell(n, <<"}">>))
  IN CASE Peek(s, inside) = "" -> Fail(m)
       [] Peek(s, inside) = "}" ->
            Then(Then(next_arg_id(field, h), LAMBDA n : on_replacement_field(n, h)), Close)
       [] Peek(s, inside) = "{" -> Skip(on_text(inside, h, <<"{">>))
       [] OTHER ->
            Then(on_arg_id(s, field, h), LAMBDA n :
              CASE Peek(s, n) = "}" -> Then(on_replacement_field(n, h), Close)
                [] Peek(s, n) = ":" ->
                     Then(on_format_specs(s, Skip(Spell(n, <<":">>)), h),
                          LAMBDA k : IF Peek(s, k) = "}" THEN Close(k) ELSE Fail(k))
                [] OTHER -> Fail(n))

\* The loop for strings shorter than 32 characters; the text since `begin` is not written yet.
RECURSIVE short_loop(_, _, _, _)
short_loop(s, m, h, begin) ==
  CASE m.err -> m
    [] ~m.err /\ m.at > Len(s) -> on_text(m, h, SubSeq(s, begin, Len(s)))
    [] ~m.err /\ Peek(s, m) = "{" ->
         LET From(n) == short_loop(s, n, h, n.at)
         IN From(parse_replacement_field(s, on_text(m, h, SubSeq(s, begin, m.at - 1)), h))
    [] ~m.err /\ Peek(s, m) = "}" ->
         IF Peek(s, Skip(m)) # "}" THEN Fail(m)
         ELSE short_loop(s, Skip(Skip(on_text(m, h, SubSeq(s, begin, m.at)))), h, m.at + 2)
    [] OTHER -> short_loop(s, Skip(m), h, begin)

First(s, c, from, to) ==
  LET at == {i \in from..(to - 1) : s[i] = c} IN IF at = {} THEN to ELSE CHOOSE i \in at : \A j \in at : i <= j
\* The two passes: the text up to a `{`, then in it the `}`.
RECURSIVE writer(_, _, _, _, _)
writer(s, m, h, from, to) ==
  LET p == First(s, "}", from, to)
  IN IF p = to THEN on_text(m, h, SubSeq(s, from, to - 1))
     ELSE IF p + 1 = to \/ s[p + 1] # "}" THEN Fail(m)
     ELSE writer(s, on_text(m, h, SubSeq(s, from, p)), h, p + 2, to)
RECURSIVE two_passes(_, _, _)
two_passes(s, m, h) ==
  LET end == Len(s) + 1
      p == First(s, "{", m.at, end)
  IN IF m.err \/ m.at = end THEN m
     ELSE Then(writer(s, [m EXCEPT !.at = p], h, m.at, p),
               LAMBDA text : IF p = end THEN text ELSE two_passes(s, parse_replacement_field(s, text, h), h))

Start == [at |-> 1, next |-> 0, id |-> 0, type |-> "none", spec |-> NoSpecs, out |-> <<>>, spelled |-> <<>>,
          used |-> <<>>, manual |-> FALSE, named |-> FALSE, counts |-> {}, err |-> FALSE]
Parse(s, h, short) == IF short THEN short_loop(s, Start, h, 1) ELSE two_passes(s, Start, h)
parse_format_string(s, h) == Parse(s, h, Len(s) < ShortText)
vformat_to(s, args) ==
  IF s = <<"{", "}">>
  THEN IF args = <<>> THEN Fail(Start) ELSE Spell(Written(Start, default_arg_formatter(args[1])), s)
  ELSE parse_format_string(s, [args |-> args, checked |-> FALSE])

-----------------------------------------------------------------------------
(* The calls: any string of FormatTexts, and a field put together from its *)
(* parts, behind a field with other specs.                                 *)

Before == [text |-> <<"{", "1", ":", "n", "^", "+", "#", "7", "d", "}">>,
           arg |-> [type |-> "int", value |-> 5, name |-> <<>>],
           out |-> <<"n", "n", "+", "5", "n", "n", "n">>]
FieldText(f) ==
  Before.text \o <<"{", "0", ":">> \o f.fill \o f.sign \o f.alt \o f.zero \o f.width \o f.precision \o f.local
    \o f.type \o <<"}">>
FormatCall ==
  \/ \E s \in FormatTexts, args \in ArgumentLists : call = [op |-> "format", s |-> s, args |-> args]
  \/ \E f \in Fields, arg \in FieldArguments : call = [op |-> "field", field |-> f, args |-> <<arg, Before.arg>>]

Outcome(m) == [err |-> m.err, out |-> m.out, spelled |-> m.spelled]
FormatText ==
  Do("format",
     [check |-> parse_format_string(call.s, [args |-> call.args, checked |-> TRUE]),
      run |-> Outcome(vformat_to(call.s, call.args)),
      other |-> Outcome(Parse(call.s, [args |-> call.args, checked |-> FALSE], Len(call.s) >= ShortText))])
FormatField ==
  LET s == FieldText(call.field)
  IN Do("field", [check |-> parse_format_string(s, [args |-> call.args, checked |-> TRUE]).err,
                  run |-> Outcome(vformat_to(s, call.args))])
FormatNext == FormatText \/ FormatField

\* A format string is read the same way by the loop for short strings and by the two passes for long ones; what is read,
\* written down again, is the string, so that nothing is skipped, read twice or too big for an int; automatic ids are 0,
\* 1, 2... in the order of the text and never mixed with indices; a string is formatted exactly if the compile-time check
\* accepts it, given that the arguments used as width or precision can be one and that none is taken by its name.
FormatsAgree ==
  Done("format") =>
    LET check == result.check
        Usable(arg) == arg.type \in {"int", "uint"} /\ arg.value \in 0..MaxInt
        usable == \A i \in check.counts : Usable(call.args[i + 1])
    IN /\ result.run.err = result.other.err
       /\ ~result.run.err => result.run = result.other /\ result.run.spelled = call.s
       /\ ~check.err =>
            /\ check.spelled = call.s /\ check.spec.width \in 0..MaxInt /\ check.spec.precision \in -1..MaxInt
            /\ \A i \in DOMAIN check.used : check.used[i] = i - 1 /\ ~check.manual
       /\ ~check.err /\ usable /\ ~check.named => ~result.run.err
       /\ check.err /\ ~check.named => result.run.err

Acceptable(f, type) ==
  LET Given(part) == f[part] # <<>>
      presentation == IF f.type = <<>> THEN "" ELSE f.type[1]
      asChar == type = "char" /\ presentation \in {"", "c"}
  IN /\ Given("sign") => type \in {"int", "char", "double"}
     /\ Given("alt") \/ Given("zero") \/ Given("local") => type \in {"int", "uint", "bool", "char", "double"}
     /\ Given("precision") => type \in {"double", "cstring", "string"}
     /\ asChar => ~Given("sign") /\ ~Given("alt") /\ (Given("zero") => Given("fill"))
     /\ CASE type \in {"int", "uint", "char"} -> presentation \in {"", "d", "x", "o", "b", "c"}
          [] type = "bool" -> presentation \in {"", "d", "x", "o", "b", "c", "s"}
          [] type = "double" -> presentation \in {"", "f", "a"}
          [] type = "cstring" -> presentation \in {"", "s", "p"}
          [] type = "string" -> presentation \in {"", "s"}
          [] type = "pointer" -> presentation \in {"", "p"}
BaseOf(type) == CASE type = <<"x">> -> 16 [] type = <<"o">> -> 8 [] type = <<"b">> -> 2 [] OTHER -> 10
SpecWidth(f) == IF f.width = <<>> THEN 0 ELSE DigitValue(f.width[1])

\* text is prefix, body and the padding that brings both to the width; l, z and r of it are before, between and behind.
Padded(text, f, default, prefix, body) ==
  LET padding == IF SpecWidth(f) > Len(prefix \o body) THEN SpecWidth(f) - Len(prefix \o body) ELSE 0
      aligned == IF f.fill = <<>> THEN default ELSE f.fill[2]
      fill == IF f.zero # <<>> THEN "0" ELSE IF f.fill = <<>> THEN " " ELSE f.fill[1]
  IN \E l, z \in 0..padding :
       LET r == padding - l - z
       IN /\ r >= 0
          /\ text = Copies(l, fill) \o prefix \o Copies(z, "0") \o body \o Copies(r, fill)
          /\ IF f.zero # <<>> /\ f.fill = <<>> THEN l = 0 /\ r = 0
             ELSE z = 0 /\ CASE aligned = "<" -> l = 0 [] aligned = ">" -> r = 0 [] aligned = "^" -> r - l \in {0, 1}
IsNumber(digits, n, base) ==
  /\ \A i \in DOMAIN digits : \E d \in 1..base : digits[i] = Numeral[d]
  /\ digits[1] = "0" => Len(digits) = 1
  /\ n = FoldLeft(LAMBDA v, c : v * base + (CHOOSE i \in DOMAIN Numeral : Numeral[i] = c) - 1, 0, digits)
Fewer(i, j) == IF i <= j THEN i ELSE j

\* A field is accepted, by the check and at run time, exactly if each of its parts makes sense for the argument; the text
\* then is the number (its sign or base before the zeros) or the text cut at the precision, brought to the width.  A
\* localized number with the zero flag and a sign is the exception: its zeros come before the sign.
FieldsFormatted ==
  Done("field") =>
    LET f == call.field
        arg == call.args[1]
        out == SubSeq(result.run.out, Len(Before.out) + 1, Len(result.run.out))
        sign == IF arg.type \in {"cstring", "string"} THEN <<>> ELSE
                IF arg.value < 0 THEN <<"-">> ELSE IF f.sign = <<"+">> THEN <<"+">> ELSE <<>>
        base == IF f.alt = <<>> \/ BaseOf(f.type) = 10 \/ (BaseOf(f.type) = 8 /\ arg.value = 0) THEN <<>>
                ELSE IF BaseOf(f.type) = 8 THEN <<"0">> ELSE <<"0">> \o f.type
        number == arg.type \in {"int", "uint"} /\ f.type # <<"c">> /\ ~(f.local # <<>> /\ f.zero # <<>> /\ sign # <<>>)
    IN /\ Acceptable(f, arg.type) <=> ~result.check
       /\ Acceptable(f, arg.type) <=> ~result.run.err
       /\ ~result.run.err => IsPrefix(Before.out, result.run.out)
       /\ ~result.run.err /\ number =>
            \E k \in 1..Len(out) : \E i \in 1..k :
              LET digits == SubSeq(out, i, k)
              IN IsNumber(digits, IF arg.value < 0 THEN -arg.value ELSE arg.value, BaseOf(f.type))
                   /\ Padded(out, f, ">", sign \o base, digits)
       /\ ~result.run.err /\ arg.type \in {"cstring", "string"} /\ f.type # <<"p">> =>
            Padded(out, f, "<", <<>>,
                   IF f.precision = <<>> THEN arg.value
                   ELSE SubSeq(arg.value, 1, Fewer(Len(arg.value), DigitValue(f.precision[2]))))

-----------------------------------------------------------------------------
(***************************************************************************)
(* The buffers that formatted text goes through on its way to an output    *)
(* iterator (all of it, or at most n characters), to a pointer, a          *)
(* container, a counter or a memory buffer.                                *)
(*                                                                         *)
(* A behaviour is one call of vformat_to (vformat_to_n, formatted_size):   *)
(* the writes it makes in turn, each of a number of characters and by one  *)
(* of the writers' ways: append (texts), to_pointer (numbers without       *)
(* specs), push_back (padded output).  The i-th character written is the   *)
(* number i; a cell nobody wrote holds Garbage.                            *)
(***************************************************************************)

CONSTANTS
  BufferSize,      \* 256, the array of an iterator_buffer or a counting_buffer
  StoreSize,       \* 500, the store of a memory_buffer
  Plenty,          \* the room behind an output pointer
  OldText,         \* what the container holds before
  BufferLimits, WriteSizes, MaxWrites, Garbage

\* cells is the storage behind ptr_ and its length the capacity.  out holds what was handed on, blocks the number of the
\* allocator's blocks in use; over: a character was written outside the storage.
Storage(n) == [i \in 1..n |-> Garbage]
NewBuffer(kind, limit) ==
  LET cells == CASE kind = "container" -> OldText
                 [] kind = "memory" -> Storage(StoreSize)
                 [] kind = "pointer" -> Storage(Plenty)
                 [] OTHER -> Storage(BufferSize)
  IN [kind |-> kind, cells |-> cells, size |-> IF kind = "container" THEN Len(OldText) ELSE 0, out |-> <<>>,
      count |-> 0, limit |-> limit, inline |-> TRUE, blocks |-> 0, over |-> FALSE]

Contents(b) == SubSeq(b.cells, 1, b.size)

\* fixed_buffer_traits::limit, for the kind "limited"; buffer_traits::limit for the others.
Passed(b) ==
  LET n == IF b.limit > b.count THEN b.limit - b.count ELSE 0
  IN IF b.kind # "limited" THEN b.size ELSE IF b.size < n THEN b.size ELSE n
flush(b) ==
  [b EXCEPT !.size = 0, !.out = @ \o SubSeq(b.cells, 1, Passed(b)), !.count = IF b.kind = "limited" THEN @ + b.size ELSE @]
grow_counting(b) == IF b.size # BufferSize THEN b ELSE [b EXCEPT !.count = @ + b.size, !.size = 0]
grow_container(b, capacity) ==
  [b EXCEPT !.cells = [i \in 1..capacity |-> IF i \in DOMAIN @ THEN @[i] ELSE Garbage]]
grow_memory(b, size) ==
  LET half == Len(b.cells) + Len(b.cells) \div 2
      capacity == IF size > half THEN size ELSE half
  IN [b EXCEPT !.cells = Contents(b) \o Storage(capacity - b.size), !.inline = FALSE,
               !.blocks = @ + 1 - (IF b.inline THEN 0 ELSE 1)]
grow(b, capacity) ==
  CASE b.kind \in {"iterator", "limited"} -> IF b.size = BufferSize THEN flush(b) ELSE b
    [] b.kind = "counting" -> grow_counting(b)
    [] b.kind = "container" -> grow_container(b, capacity)
    [] b.kind = "memory" -> grow_memory(b, capacity)
    [] b.kind = "pointer" -> b

try_reserve(b, capacity) == IF capacity > Len(b.cells) THEN grow(b, capacity) ELSE b
\* Characters from..to behind the size.
Put(b, from, to) ==
  LET end == b.size + (to - from + 1)
  IN [b EXCEPT !.size = end, !.over = @ \/ end > Len(b.cells),
               !.cells = [i \in DOMAIN @ |-> IF i \in (b.size + 1)..end THEN from + i - b.size - 1 ELSE @[i]]]
push_back(b, c) == Put(try_reserve(b, b.size + 1), c, c)
RECURSIVE append(_, _, _)
append(b, from, to) ==
  LET n == to - from + 1
      Copy(r, count) == append(Put(r, from, from + count - 1), from + count, to)
      Fill(r) == Copy(r, Min({Len(r.cells) - r.size, n}))
  IN IF n = 0 \/ b.over THEN b ELSE Fill(try_reserve(b, b.size + n))
reserve_more(b, n) == try_reserve(b, b.size + n)
to_pointer(b, from, to) == IF Len(b.cells) < b.size + (to - from + 1) THEN append(b, from, to) ELSE Put(b, from, to)

WriteBy(b, way, from, to) ==
  LET Write(r) == CASE way = "append" -> append(r, from, to)
                    [] way = "pointer" -> to_pointer(r, from, to)
                    [] way = "push" -> FoldLeft(LAMBDA k, i : push_back(k, from + i - 1), r, [i \in 1..(to - from + 1) |-> i])
  IN Write(reserve_more(b, to - from + 1))

RECURSIVE WriteAll(_, _, _)
WriteAll(b, writes, from) ==
  IF writes = <<>> THEN b
  ELSE LET to == from + Head(writes).n - 1 IN WriteAll(WriteBy(b, Head(writes).way, from, to), Tail(writes), to + 1)

\* out() and count() of the buffer when the text is written.
Finished(b) ==
  CASE b.kind \in {"iterator", "limited"} -> LET f == flush(b) IN [text |-> f.out, count |-> f.count + f.size]
    [] b.kind = "counting" -> [text |-> <<>>, count |-> b.count + b.size]
    [] b.kind = "container" -> [text |-> b.cells, count |-> b.size]
    [] OTHER -> [text |-> Contents(b), count |-> b.size]

Kinds == {"iterator", "pointer", "container", "counting", "memory"}
BufferCall ==
  \E k \in 0..MaxWrites : \E writes \in [1..k -> [way : {"append", "pointer", "push"}, n : WriteSizes]] :
    \/ \E kind \in Kinds : call = [op |-> "buffer", kind |-> kind, limit |-> 0, writes |-> writes]
    \/ \E limit \in BufferLimits : call = [op |-> "buffer", kind |-> "limited", limit |-> limit, writes |-> writes]
FillBuffer ==
  LET Result(b) == [over |-> b.over, blocks |-> b.blocks, inline |-> b.inline] @@ Finished(b)
  IN Do("buffer", Result(WriteAll(NewBuffer(call.kind, call.limit), call.writes, 1)))
BufferNext == FillBuffer

\* Whatever sizes are written in whatever order and way, the text arrives in order and complete, or its first n characters
\* where n is the limit, though the count is of all; nothing is left behind the text of a container, nothing goes over
\* the end of the storage, and a memory buffer has at most the one block it frees at the end.
BuffersPass ==
  Done("buffer") =>
    LET total == FoldLeft(LAMBDA s, w : s + w.n, 0, call.writes)
        written == [i \in 1..total |-> i]
    IN /\ ~result.over
       /\ result.blocks = (IF call.kind = "memory" /\ ~result.inline THEN 1 ELSE 0)
       /\ CASE call.kind \in {"pointer", "memory"} -> result.text = written /\ result.count = total
            [] call.kind = "iterator" -> result.text = written
            [] call.kind = "limited" ->
                 result.text = SubSeq(written, 1, IF call.limit < total THEN call.limit ELSE total) /\ result.count = total
            [] call.kind = "container" -> result.text = OldText \o written /\ result.count = Len(result.text)
            [] call.kind = "counting" -> result.count = total
=============================================================================

------------------------------- MODULE Chrono -------------------------------
(***************************************************************************)
(* Compile-time fractions (ratio.hpp), durations, time points and clocks   *)
(* (chrono.hpp).  A fraction is <<num, den>>; a duration is a count, the   *)
(* name of its integer type and its period.  Integer types are narrower    *)
(* here than in the build: RepMax gives the largest value of each, and     *)
(* what does not fit wraps, as the compiled code does.  Half is the base   *)
(* of the digits of multiply_uint128, 2^32 in the code.                    *)
(***************************************************************************)
EXTENDS Integers, Sequences, OneCall

CONSTANTS
  RepMax,     \* the largest values of intmax_t, of long long and of int
  Half,
  Periods,    \* the periods of the durations
  Counts,     \* their counts
  NanoDen,    \* steady_clock counts in 1/NanoDen seconds
  Rejected    \* no such type: a static_assert fails or the overload is dropped

ASSUME Widths == RepMax.intmax + 1 = (Half * Half) \div 2 /\ RepMax.int <= RepMax.llong /\ RepMax.llong <= RepMax.intmax

Wrap(rep, x) == ((x + RepMax[rep] + 1) % (2 * (RepMax[rep] + 1))) - RepMax[rep] - 1
Fits(rep, x) == -RepMax[rep] - 1 <= x /\ x <= RepMax[rep]
absolute(x) == IF x < 0 THEN -x ELSE x
sign_of(x) == IF x < 0 THEN -1 ELSE 1

\* Division and remainder truncate towards zero.
Quot(x, y) == sign_of(x) * sign_of(y) * (absolute(x) \div absolute(y))
Rem(x, y) == x - y * Quot(x, y)

RECURSIVE gcd_impl(_, _)
gcd_impl(x, y) == IF y = 0 THEN x ELSE gcd_impl(y, x % y)
gcd(x, y) == IF x = 0 /\ y = 0 THEN 1 ELSE gcd_impl(absolute(x), absolute(y))
lcm(x, y) == (x \div gcd(x, y)) * y

\* A product that does not fit has no value: the overload is dropped or the build fails.
safe_multiply(x, y) ==
  IF absolute(x) <= RepMax.intmax \div (IF y = 0 THEN 1 ELSE absolute(y)) THEN x * y ELSE Rejected

ratio(n, d) ==
  IF d = 0 THEN Rejected
  ELSE <<Quot(sign_of(n) * sign_of(d) * absolute(n), gcd(n, d)), absolute(d) \div gcd(n, d)>>

ratio_or_none(num, den) == IF Rejected \in {num, den} THEN Rejected ELSE ratio(num, den)
ratio_multiply(r, s) ==
  LET x == gcd(r[1], s[2])
      y == gcd(s[1], r[2])
  IN ratio_or_none(safe_multiply(Quot(r[1], x), Quot(s[1], y)), safe_multiply(r[2] \div y, s[2] \div x))

ratio_divide(r, s) == IF s[1] = 0 THEN Rejected ELSE ratio_multiply(r, ratio(s[2], s[1]))
ratio_equal(r, s) == r[1] = s[1] /\ r[2] = s[2]

\* A product of two digits each, as an upper and a lower half of two digits.
multiply_uint128(x, y) ==
  LET Word(v) == v % (Half * Half)
      first == Word((x % Half) * (y % Half))
      second == Word((x % Half) * (y \div Half) + (first \div Half))
      third == Word((x \div Half) * (y % Half) + (second % Half))
  IN <<Word((x \div Half) * (y \div Half) + (second \div Half) + (third \div Half)),
       Word(third * Half + (first % Half))>>

uint128_less(u, v) == IF u[1] # v[1] THEN u[1] < v[1] ELSE u[2] < v[2]

is_ratio_less(r, s) ==
  IF r[1] >= 0 /\ s[1] >= 0 THEN uint128_less(multiply_uint128(r[1], s[2]), multiply_uint128(s[1], r[2]))
  ELSE IF r[1] < 0 /\ s[1] < 0 THEN uint128_less(multiply_uint128(-s[1], r[2]), multiply_uint128(-r[1], s[2]))
  ELSE r[1] < s[1]

ratio_orders(r, s) == [lt |-> is_ratio_less(r, s), le |-> ~is_ratio_less(s, r), eq |-> ratio_equal(r, s),
                       gt |-> is_ratio_less(s, r), ge |-> ~is_ratio_less(r, s), ne |-> ~ratio_equal(r, s)]

----------------------------------------------------------------------------
Duration(n, rep, per) == [n |-> n, rep |-> rep, per |-> per]

WiderRep(a, b) == IF RepMax[a] >= RepMax[b] THEN a ELSE b
common_type(d, e) == [rep |-> WiderRep(d.rep, e.rep), per |-> ratio(gcd(d.per[1], e.per[1]), lcm(d.per[2], e.per[2]))]

\* The arithmetic is done in intmax_t, the result is cut to the target's type.
duration_caster(n, carry) ==
  LET product == Wrap("intmax", n * carry[1])
  IN CASE carry[2] = 1 /\ carry[1] = 1 -> n
       [] carry[2] = 1 /\ carry[1] # 1 -> product
       [] carry[2] # 1 /\ carry[1] = 1 -> Quot(n, carry[2])
       [] OTHER -> Quot(product, carry[2])
duration_cast(d, rep, per) == Duration(Wrap(rep, duration_caster(d.n, ratio_divide(d.per, per))), rep, per)

\* The implicit conversion exists only when no rounding is needed.
Converts(d, per) == LET carry == ratio_divide(d.per, per) IN carry # Rejected /\ carry[2] = 1
CastTo(t, d) == duration_cast(d, t.rep, t.per)
CountOf(t, n) == Duration(Wrap(t.rep, n), t.rep, t.per)
Common(d, e) == CastTo(common_type(d, e), d)
Combine(d, e, n) == CountOf(common_type(d, e), n)

Plus(d, e) == Combine(d, e, Common(d, e).n + Common(e, d).n)
Minus(d, e) == Combine(d, e, Common(d, e).n - Common(e, d).n)
Times(d, k) == Duration(Wrap(d.rep, d.n * k), d.rep, d.per)
DividedBy(d, k) == Duration(Quot(d.n, k), d.rep, d.per)
Modulo(d, k) == Duration(Rem(d.n, k), d.rep, d.per)
Ratio(d, e) == Quot(Common(d, e).n, Common(e, d).n)
Remainder(d, e) == Combine(d, e, Rem(Common(d, e).n, Common(e, d).n))
Equal(d, e) == Common(d, e).n = Common(e, d).n
Less(d, e) == Common(d, e).n < Common(e, d).n
OrdersFrom(lt, gt, eq) == [lt |-> lt, le |-> ~gt, eq |-> eq, gt |-> gt, ge |-> ~lt, ne |-> ~eq]
DurationOrders(d, e) == OrdersFrom(Less(d, e), Less(e, d), Equal(d, e))

\* Mutant: rounds towards zero.
FloorTruncates(d, rep, per) == duration_cast(d, rep, per)

NotAbove(d, casted) == IF Less(d, casted) THEN CountOf(casted, casted.n - 1) ELSE casted
floor(d, rep, per) == NotAbove(d, duration_cast(d, rep, per))

NotBelow(d, casted) == IF Less(casted, d) THEN CountOf(casted, casted.n + 1) ELSE casted
ceil(d, rep, per) == NotBelow(d, duration_cast(d, rep, per))

is_even(n) == Rem(n, 2) = 0

Nearer(floored, ceiled, floor_adjustment, ceil_adjustment) ==
  IF \/ Less(floor_adjustment, ceil_adjustment)
     \/ Equal(floor_adjustment, ceil_adjustment) /\ is_even(floored.n)
  THEN floored ELSE ceiled
NearerTo(d, floored, ceiled) == Nearer(floored, ceiled, Minus(d, floored), Minus(ceiled, d))
RoundFrom(d, floored) == NearerTo(d, floored, Plus(floored, CountOf(floored, 1)))
round(d, rep, per) == RoundFrom(d, floor(d, rep, per))

abs(d) == IF Less(d, Duration(0, d.rep, d.per)) THEN Minus(Duration(0, d.rep, d.per), d) ELSE d

\* A literal or a count of another integer type is cut to the count's type.
Construct(n, rep, per) == Duration(Wrap(rep, n), rep, per)

\* The members of duration change the count in place and return the old or the new value.
Increment(d) == Duration(Wrap(d.rep, d.n + 1), d.rep, d.per)
Decrement(d) == Duration(Wrap(d.rep, d.n - 1), d.rep, d.per)
Negate(d) == Duration(Wrap(d.rep, -d.n), d.rep, d.per)

\* A time point is a duration since the epoch of its clock.
At(d) == [since |-> d]
time_point_plus(p, d) == At(Plus(p.since, d))
time_point_minus(p, d) == At(Minus(p.since, d))
time_point_distance(p, q) == Minus(p.since, q.since)
time_point_orders(p, q) == DurationOrders(p.since, q.since)
time_point_rounded(p, rep, per) ==
  [cast |-> At(duration_cast(p.since, rep, per)), floor |-> At(floor(p.since, rep, per)),
   ceil |-> At(ceil(p.since, rep, per)), round |-> At(round(p.since, rep, per))]

steady_clock_now(counter, freq) ==
  LET whole == Wrap("llong", Quot(counter, freq) * NanoDen)
      part == Quot(Wrap("llong", Rem(counter, freq) * NanoDen), freq)
  IN At(Duration(Wrap("llong", whole + part), "llong", <<1, NanoDen>>))

----------------------------------------------------------------------------
(* The calls.                                                              *)

Fractions == {ratio(n, d) : n \in -4..4, d \in {-3, 1, 2, 4}} \union {ratio(RepMax.intmax, d) : d \in {1, 5, RepMax.intmax - 1}}
Durations == {Construct(n, rep, per) : n \in Counts, rep \in {"int", "llong"}, per \in Periods}
ChronoCall ==
  \/ \E r \in Fractions, s \in Fractions : call = [op |-> "ratios", r |-> r, s |-> s]
  \/ \E x \in 0..(Half * Half - 1), y \in {v \in 0..(Half * Half - 1) : v % 7 \in {0, 1}} :
       call = [op |-> "product", x |-> x, y |-> y]
  \/ \E d \in Durations, e \in Durations : call = [op |-> "durations", d |-> d, e |-> e]
  \/ \E d \in Durations, rep \in {"int", "llong"}, per \in Periods :
       call = [op |-> "round", d |-> d, rep |-> rep, per |-> per]
  \/ \E c \in 0..RepMax.llong, f \in 1..NanoDen : call = [op |-> "steady", counter |-> c, freq |-> f]

Ratios == Do("ratios", [times |-> ratio_multiply(call.r, call.s), by |-> ratio_divide(call.r, call.s),
                        orders |-> ratio_orders(call.r, call.s)])
Product == Do("product", multiply_uint128(call.x, call.y))
DurationsOf ==
  Do("durations",
     LET p == At(call.d)
         q == At(call.e)
     IN [sum |-> time_point_plus(p, call.e).since, difference |-> time_point_distance(p, q),
         back |-> time_point_minus(time_point_plus(p, call.e), call.e), orders |-> time_point_orders(p, q),
         quotient |-> IF Common(call.e, call.d).n = 0 THEN Rejected ELSE Ratio(call.d, call.e),
         remainder |-> IF Common(call.e, call.d).n = 0 THEN Rejected ELSE Remainder(call.d, call.e),
         scaled |-> IF call.e.n = 0 THEN Rejected
                    ELSE Plus(Times(DividedBy(call.d, call.e.n), call.e.n), Modulo(call.d, call.e.n)),
         steps |-> <<Increment(call.d), Decrement(call.d), Negate(call.d)>>])
Round == Do("round", [point |-> time_point_rounded(At(call.d), call.rep, call.per), absolute |-> abs(call.d)])
Steady == Do("steady", steady_clock_now(call.counter, call.freq))
ChronoNext == Ratios \/ Product \/ DurationsOf \/ Round \/ Steady

----------------------------------------------------------------------------
(* What the results mean.                                                  *)

\* The orders of x1/y1 and x2/y2, by their cross products.
Orders(l, r) == [lt |-> l < r, le |-> l <= r, eq |-> l = r, gt |-> l > r, ge |-> l >= r, ne |-> l # r]
Left(d, e) == d.n * d.per[1] * e.per[2]
Right(d, e) == e.n * e.per[1] * d.per[2]
\* The value of d in units of the common period, whatever its size.
Units(d, e) == LET p == common_type(d, e).per IN Quot(d.n * d.per[1] * p[2], d.per[2] * p[1])
\* Neither the operands nor what is computed from them leave the common type.
Room(d, e) == absolute(Units(d, e)) + absolute(Units(e, d)) <= RepMax[common_type(d, e).rep]

\* Products, quotients and orders of fractions are exact and reduced, or there is none because a factor overflows; the
\* orders hold even where the cross products overflow the widest integer, since multiply_uint128 keeps every digit.
RatiosExact ==
  /\ Done("ratios") =>
       LET r == call.r
           s == call.s
           Is(q, n, d) == q # Rejected => q[1] * d = n * q[2] /\ q[2] > 0 /\ gcd(q[1], q[2]) = 1
       IN /\ Is(result.times, r[1] * s[1], r[2] * s[2])
          /\ s[1] = 0 => result.by = Rejected
          /\ s[1] # 0 => Is(result.by, r[1] * s[2], r[2] * s[1])
          /\ result.orders = Orders(r[1] * s[2], s[1] * r[2])
  /\ Done("product") => result[1] * Half * Half + result[2] = call.x * call.y /\ result[2] < Half * Half

\* Durations of different periods and types add, subtract, compare and divide as the times they stand for, as long as
\* the common type has room for both: converting to it never rounds.  Rounding to a coarser period goes to the nearest
\* whole value below, above, or nearest with ties to even, for negative times too.  steady_clock's two-part product is
\* the exact conversion for counters whose one-part product would overflow.
DurationsExact ==
  /\ Done("durations") =>
       LET d == call.d
           e == call.e
       IN /\ Converts(d, common_type(d, e).per) /\ Converts(e, common_type(d, e).per)
          /\ Room(d, e) =>
               /\ result.sum.n = Units(d, e) + Units(e, d)
               /\ result.difference.n = Units(d, e) - Units(e, d)
               /\ result.orders = Orders(Left(d, e), Right(d, e))
               /\ Equal(result.back.since, d)
               /\ result.quotient # Rejected =>
                    /\ result.remainder.n = Units(d, e) - result.quotient * Units(e, d)
                    /\ absolute(result.remainder.n) < absolute(Units(e, d))
          /\ result.scaled # Rejected => result.scaled = d
          /\ Fits(d.rep, d.n + 1) => Decrement(result.steps[1]) = d /\ result.steps[1].n > d.n
          /\ Fits(d.rep, -d.n) => Negate(result.steps[3]) = d
  /\ Done("round") =>
       LET d == call.d
           p == result.point
           T(n) == Duration(n, call.rep, call.per)
           Below(n) == Right(d, T(n)) <= Left(d, T(n))
           Above(n) == Left(d, T(n)) <= Right(d, T(n))
           Distance(n) == absolute(Left(d, T(n)) - Right(d, T(n)))
           exact == Quot(d.n * d.per[1] * call.per[2], d.per[2] * call.per[1])
       IN /\ (/\ Fits("intmax", d.n * ratio_divide(d.per, call.per)[1]) /\ {exact - 1, exact, exact + 1} \subseteq -RepMax[call.rep]..RepMax[call.rep]
              /\ \A n \in {exact - 1, exact, exact + 1} : Room(d, T(n))) =>
               /\ p.cast.since.n = exact
               /\ Below(p.floor.since.n) /\ ~Below(p.floor.since.n + 1)
               /\ Above(p.ceil.since.n) /\ ~Above(p.ceil.since.n - 1)
               /\ p.round.since.n \in {p.floor.since.n, p.ceil.since.n}
               /\ \A n \in {p.floor.since.n, p.ceil.since.n} :
                    \/ Distance(p.round.since.n) < Distance(n)
                    \/ Distance(p.round.since.n) = Distance(n) /\ (n # p.round.since.n => p.round.since.n % 2 = 0)
          /\ d.n # -RepMax[d.rep] - 1 => result.absolute.n = absolute(d.n)
  /\ Done("steady") =>
       LET exact == (call.counter * NanoDen) \div call.freq
       IN Fits("llong", (call.freq - 1) * NanoDen) /\ Fits("llong", exact) => result.since.n = exact

\* Fractions, durations, time points and the steady clock compute exact times.
TimesExact == RatiosExact /\ DurationsExact
============================================================================

------------------------------- MODULE Atomics -------------------------------
(***************************************************************************)
(* One operation of an atomic integer (include/atomic.hpp).  The Interlocked *)
(* functions work on signed words whatever the element type Ty is, so the  *)
(* word, signed, is kept apart from the value of Ty it stands for.  A word *)
(* has WordBits bits, fewer than in the build.  An operation is a function *)
(* from the word to [word, ret]; an Interlocked function is one step.      *)
(***************************************************************************)
EXTENDS Integers, OneCall, Bitwise

CONSTANT WordBits

Modulus == 2 ^ WordBits
Bits(x) == x % Modulus
AsWord(x) == IF Bits(x) < Modulus \div 2 THEN Bits(x) ELSE Bits(x) - Modulus
\* The value of Ty that has the bits of x.
AsTy(x, signed) == IF signed THEN AsWord(x) ELSE Bits(x)
TyValues(signed) == {AsTy(x, signed) : x \in 0..(Modulus - 1)}

-----------------------------------------------------------------------------
(* integral_policy: what add and the post-operators return is computed     *)
(* back from the new word.                                                 *)

Update(word, ret) == [word |-> AsWord(word), ret |-> AsWord(ret)]

add(word, value) == Update(word + value, AsWord(word + value) - value)
and_op(word, value) == Update(Bits(word) & Bits(value), word)
or_op(word, value) == Update(Bits(word) | Bits(value), word)
xor_op(word, value) == Update(Bits(word) ^^ Bits(value), word)
pre_increment(word) == Update(word + 1, word + 1)
post_increment(word) == Update(word + 1, AsWord(word + 1) - 1)
pre_decrement(word) == Update(word - 1, word - 1)
post_decrement(word) == Update(word - 1, AsWord(word - 1) + 1)

-----------------------------------------------------------------------------
(* interlocked_storage and interlocked_integral: operands become words,    *)
(* what is returned a value of Ty.                                         *)

Returned(u, signed) == [u EXCEPT !.ret = AsTy(@, signed)]

load(word, signed) == [word |-> word, ret |-> AsTy(word, signed)]
store(word, value) == [word |-> AsWord(value), ret |-> NoResult]
exchange(word, value, signed) == [word |-> AsWord(value), ret |-> AsTy(word, signed)]
\* A failed exchange leaves the word it met in expected.
compare_exchange_strong(word, expected, desired, signed) ==
  IF word = AsWord(expected) THEN [word |-> AsWord(desired), ret |-> TRUE, expected |-> expected]
  ELSE [word |-> word, ret |-> FALSE, expected |-> AsTy(word, signed)]

fetch_add(word, operand, signed) == Returned(add(word, AsWord(operand)), signed)
fetch_and(word, operand, signed) == Returned(and_op(word, AsWord(operand)), signed)
fetch_or(word, operand, signed) == Returned(or_op(word, AsWord(operand)), signed)
fetch_xor(word, operand, signed) == Returned(xor_op(word, AsWord(operand)), signed)

-----------------------------------------------------------------------------
(* integral_facade.                                                        *)

negate(value, signed) == AsTy(0 - Bits(value), signed)
fetch_sub(word, operand, signed) == fetch_add(word, negate(operand, signed), signed)

\* The operators give back the new value, computed again from the old one.
Assigned(u, value, signed) == [u EXCEPT !.ret = AsTy(value, signed)]
add_assign(word, operand, signed) ==
  LET u == fetch_add(word, operand, signed) IN Assigned(u, u.ret + operand, signed)
sub_assign(word, operand, signed) ==
  LET u == fetch_sub(word, operand, signed) IN Assigned(u, u.ret - operand, signed)
and_assign(word, operand, signed) ==
  LET u == fetch_and(word, operand, signed) IN Assigned(u, Bits(u.ret) & Bits(operand), signed)
or_assign(word, operand, signed) ==
  LET u == fetch_or(word, operand, signed) IN Assigned(u, Bits(u.ret) | Bits(operand), signed)
xor_assign(word, operand, signed) ==
  LET u == fetch_xor(word, operand, signed) IN Assigned(u, Bits(u.ret) ^^ Bits(operand), signed)

-----------------------------------------------------------------------------
(* atomic_flag over an atomic<bool>, and is_always_lock_free of a size.    *)

test_flag(word) == [word |-> word, ret |-> load(word, FALSE).ret # 0]
test_and_set(word) == LET u == exchange(word, 1, FALSE) IN [u EXCEPT !.ret = @ # 0]
clear_flag(word) == store(word, 0)

is_always_lock_free(size) == size <= 8 /\ (size & (size - 1)) = 0

-----------------------------------------------------------------------------
(* The calls.  old is the value before, operand the argument.              *)

AtomicOf(op, old, operand, expected, signed) ==
  [op |-> op, old |-> old, operand |-> operand, expected |-> expected, signed |-> signed]

AtomicCall ==
  \/ \E signed \in BOOLEAN : \E old \in TyValues(signed), operand \in TyValues(signed) :
       \E op \in {"atomic bits", "atomic arithmetic"} : call = AtomicOf(op, old, operand, 0, signed)
  \/ \E signed \in BOOLEAN :
       \E old \in TyValues(signed), operand \in TyValues(signed), expected \in TyValues(signed) :
         call = AtomicOf("atomic exchange", old, operand, expected, signed)
  \/ \E old \in {0, 1} : call = AtomicOf("atomic flag", old, 0, 0, FALSE)
  \/ \E size \in 1..32 : call = AtomicOf("lock free", 0, size, 0, FALSE)

AtomicArithmetic ==
  LET w == AsWord(call.old)
      n == call.operand
      s == call.signed
  IN Do("atomic arithmetic",
        [fetch_add |-> fetch_add(w, n, s), fetch_sub |-> fetch_sub(w, n, s),
         add_assign |-> add_assign(w, n, s), sub_assign |-> sub_assign(w, n, s),
         pre_inc |-> Returned(pre_increment(w), s), post_inc |-> Returned(post_increment(w), s),
         pre_dec |-> Returned(pre_decrement(w), s), post_dec |-> Returned(post_decrement(w), s)])
AtomicBits ==
  LET w == AsWord(call.old)
      n == call.operand
      s == call.signed
  IN Do("atomic bits",
        [fetch_and |-> fetch_and(w, n, s), fetch_or |-> fetch_or(w, n, s), fetch_xor |-> fetch_xor(w, n, s),
         and_assign |-> and_assign(w, n, s), or_assign |-> or_assign(w, n, s), xor_assign |-> xor_assign(w, n, s)])
AtomicExchange ==
  LET w == AsWord(call.old)
  IN Do("atomic exchange",
        [load |-> load(w, call.signed), store |-> store(w, call.operand),
         exchange |-> exchange(w, call.operand, call.signed),
         cas |-> compare_exchange_strong(w, call.expected, call.operand, call.signed)])
AtomicFlag ==
  Do("atomic flag", [test |-> test_flag(call.old), set |-> test_and_set(call.old), clear |-> clear_flag(call.old)])
LockFree == Do("lock free", is_always_lock_free(call.operand))

AtomicNext == AtomicArithmetic \/ AtomicBits \/ AtomicExchange \/ AtomicFlag \/ LockFree

-----------------------------------------------------------------------------
(* What the results mean.                                                  *)

\* For a signed and an unsigned Ty, also where it wraps: a fetch or post-operator returns the value there was, an
\* assignment or pre-operator the one it leaves, and that is the sum, the difference or the bitwise combination; an
\* exchange happens just when the value is the expected one, and a failed one reports the value; a flag is set once;
\* the sizes taken to be free of locks are those for which there is an interlocked storage.
AtomicsCorrect ==
  LET old == call.old
      n == call.operand
      Becomes(u, new, ret) == u.word = AsWord(new) /\ u.ret = ret
      Fetch(u, new) == Becomes(u, new, old)
      Assign(u, new) == Becomes(u, new, AsTy(new, call.signed))
      \* Bit by bit, the combinations where both operands have, one has, just one has the bit.
      Weight(k) == 2 ^ k
      Has(x, k) == (Bits(x) \div Weight(k)) % 2 = 1
      RECURSIVE Collect(_, _)
      Collect(S, k) == IF k = WordBits THEN 0 ELSE (IF k \in S THEN Weight(k) ELSE 0) + Collect(S, k + 1)
      Places == 0..(WordBits - 1)
      Both == Collect({k \in Places : Has(old, k) /\ Has(n, k)}, 0)
      Either == Collect({k \in Places : Has(old, k) \/ Has(n, k)}, 0)
      OneOf == Collect({k \in Places : Has(old, k) # Has(n, k)}, 0)
  IN result # NoResult =>
       CASE call.op = "atomic arithmetic" ->
              /\ Fetch(result.fetch_add, old + n) /\ Assign(result.add_assign, old + n)
              /\ Fetch(result.fetch_sub, old - n) /\ Assign(result.sub_assign, old - n)
              /\ Fetch(result.post_inc, old + 1) /\ Assign(result.pre_inc, old + 1)
              /\ Fetch(result.post_dec, old - 1) /\ Assign(result.pre_dec, old - 1)
         [] call.op = "atomic bits" ->
              /\ Fetch(result.fetch_and, Both) /\ Assign(result.and_assign, Both)
              /\ Fetch(result.fetch_or, Either) /\ Assign(result.or_assign, Either)
              /\ Fetch(result.fetch_xor, OneOf) /\ Assign(result.xor_assign, OneOf)
         [] call.op = "atomic exchange" ->
              /\ Becomes(result.load, old, old) /\ Becomes(result.store, n, NoResult)
              /\ Becomes(result.exchange, n, old)
              /\ IF old = call.expected THEN Becomes(result.cas, n, TRUE) ELSE Becomes(result.cas, old, FALSE)
              /\ result.cas.expected = old
         [] call.op = "atomic flag" ->
              Becomes(result.test, old, old = 1) /\ Becomes(result.set, 1, old = 1) /\ Becomes(result.clear, 0, NoResult)
         [] call.op = "lock free" -> result = (n \in {1, 2, 4, 8})
         [] OTHER -> TRUE
=============================================================================

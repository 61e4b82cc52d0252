---------------------------- MODULE UnwindTables ----------------------------
(***************************************************************************)
(* How the exception engine reads what the compiler emits: the compressed  *)
(* tables of __CxxFrameHandler4, the function table of the image, the      *)
(* unwind codes of a prologue, the types a throw expression can be caught  *)
(* by (runtime/src/exc_engine/x64).  Memory is counted in words of eight   *)
(* bytes; the stack grows towards lower addresses.                         *)
(***************************************************************************)
EXTENDS Integers, Sequences, FiniteSets, OneCall

CONSTANTS
  Numbers,        \* the numbers that are encoded
  Image,          \* bound: addresses of the image
  Stopped         \* terminate() was called

Bit(n) == 2^n

-----------------------------------------------------------------------------
(* Compressed numbers: the low bits of the first byte give the length; the *)
(* four bytes that end there are read and shifted.                         *)

Length(enc_type) ==
  CASE enc_type % 2 = 0 -> 1 [] enc_type % 4 = 1 -> 2 [] enc_type % 8 = 3 -> 3 [] enc_type = 7 -> 4 [] enc_type = 15 -> 5
Shift(length) == CASE length = 1 -> 25 [] length = 2 -> 18 [] length = 3 -> 11 [] length = 4 -> 4 [] length = 5 -> 0

\* The upper and the lower half of a 32-bit word, shifted right.
ShiftRight(hi, lo, n) == IF n >= 16 THEN hi \div Bit(n - 16) ELSE hi * Bit(16 - n) + lo \div Bit(n)

\* data points at p in bytes; there are bytes before it.
read_unsigned(bytes, p) ==
  LET length == Length(bytes[p] % 16)
      q == p + length - 4
  IN [value |-> ShiftRight(bytes[q + 3] * 256 + bytes[q + 2], bytes[q + 1] * 256 + bytes[q], Shift(length)),
      p |-> p + length]

\* The regions of a funclet: their count, then how far each starts behind the one before, and its state plus one.
RECURSIVE regionsFrom(_, _, _, _, _, _)
regionsFrom(bytes, p, left, fn_rva, state, pc) ==
  LET delta == read_unsigned(bytes, p)
      next_state == read_unsigned(bytes, delta.p)
      start == fn_rva + delta.value
  IN IF left = 0 THEN state
     ELSE IF pc < start THEN state
     ELSE regionsFrom(bytes, next_state.p, left - 1, start, next_state.value - 1, pc)
lookup_region(bytes, p, pc) ==
  LET region_count == read_unsigned(bytes, p)
  IN IF p = 0 THEN -1 ELSE regionsFrom(bytes, region_count.p, region_count.value, 0, -1, pc)

\* load_exception_info: what follows the flags depends on them; data are the numbers and addresses in their order, the
\* map of funclets a sequence of <<begin, regions>>.
RECURSIVE funcletRegions(_, _)
funcletRegions(map, begin) ==
  IF map = <<>> THEN 0 ELSE IF map[1][1] = begin THEN map[1][2] ELSE funcletRegions(Tail(map), begin)

load_exception_info(flags, data, begin) ==
  LET Before(F) == Cardinality(flags \intersect F)
      bbt == Before({"Bbt"})
      unwind == bbt + Before({"HasUnwindMap"})
      tries == unwind + Before({"HasTryBlockMap"})
      regions == tries + 1
      Get(f, i) == IF f \in flags THEN data[i] ELSE 0
  IN [unwind_graph |-> Get("HasUnwindMap", unwind), try_blocks |-> Get("HasTryBlockMap", tries),
      regions |-> IF "HasMultipleFunclets" \in flags THEN funcletRegions(data[regions], begin) ELSE data[regions],
      primary_frame_ptr |-> Get("IsCatchFunclet", regions + 1)]

-----------------------------------------------------------------------------
(* The functions of the image: <<begin, end>>, sorted.                     *)

contains_address(addr) == 0 <= addr /\ addr < Image

RECURSIVE findBetween(_, _, _, _)
findBetween(functions, left_bound, right_bound, pc) ==
  LET idx == left_bound + (right_bound - left_bound) \div 2
  IN IF left_bound >= right_bound THEN 0
     ELSE IF pc < functions[idx + 1][1] THEN findBetween(functions, left_bound, idx, pc)
     ELSE IF functions[idx + 1][2] <= pc THEN findBetween(functions, idx + 1, right_bound, pc)
     ELSE idx + 1
find_function_entry(functions, addr) ==
  IF contains_address(addr) THEN findBetween(functions, 0, Len(functions), addr) ELSE Stopped

-----------------------------------------------------------------------------
(* Unwinding one frame.  ctx has the general registers by number and the   *)
(* xmm registers by number plus 100; a slot is a code with its info or the *)
(* number that belongs to the code before.  The codes for offsets of 512   *)
(* Kbyte and more, which no kernel stack has room for, are left out.       *)

NonVolatile == {3, 5, 6, 7, 12, 13, 14, 15}
XmmSaved == 6..15
gp(idx) == IF idx \in NonVolatile THEN idx ELSE Stopped
get_xmm(idx) == IF idx < 6 \/ idx >= 16 THEN Stopped ELSE 100 + idx

RECURSIVE unwindFrom(_, _, _)
unwindFrom(info, idx, m) ==
  LET e == info.slots[idx + 1]
      data == info.slots[idx + 2]
      Set(r, addr) == [m EXCEPT !.ctx[r] = m.mem[addr]]
      Next(n, new) == unwindFrom(info, idx + n, new)
  IN IF idx >= Len(info.slots) THEN m
     ELSE CASE e.code = "PushNonVolatileReg" -> Next(1, [Set(gp(e.info), m.rsp) EXCEPT !.rsp = @ + 1])
            [] e.code = "AllocLarge" -> Next(2, [m EXCEPT !.rsp = @ + data])
            [] e.code = "AllocSmall" -> Next(1, [m EXCEPT !.rsp = @ + e.info + 1])
            [] e.code = "SetFramePointer" ->
                 Next(1, [m EXCEPT !.rsp = m.ctx[gp(info.frame_reg)] - 2 * info.frame_reg_disp])
            [] e.code = "SaveNonVolatileReg" -> Next(2, Set(gp(e.info), m.rsp + data))
            [] e.code = "Epilog" -> Next(2, m)
            [] e.code = "Reserved07" -> Next(3, m)
            [] e.code = "SaveXmm128" -> Next(2, Set(get_xmm(e.info), m.rsp + 2 * data))
            [] e.code = "PushMachineFrame" ->
                 Next(1, [m EXCEPT !.rip = m.mem[m.rsp + e.info], !.rsp = m.mem[m.rsp + e.info + 3], !.updated = TRUE])

\* Mutant: takes a return address from the stack in any case.
UnwindPops(info, m) ==
  LET u == unwindFrom(info, 0, [ctx |-> m.ctx, rsp |-> m.rsp, rip |-> m.rip, mem |-> m.mem, updated |-> FALSE])
  IN [u EXCEPT !.rip = u.mem[u.rsp], !.rsp = @ + 1]

unwind(info, m) ==
  LET u == unwindFrom(info, 0, [ctx |-> m.ctx, rsp |-> m.rsp, rip |-> m.rip, mem |-> m.mem, updated |-> FALSE])
  IN IF u.updated THEN u ELSE [u EXCEPT !.rip = u.mem[u.rsp], !.rsp = @ + 1]

-----------------------------------------------------------------------------
(* Catch blocks.  Flags are sets of their names.                           *)

\* Where the base class lies that a member_ptr leads to: entry is what the vbtable holds for it.
apply(offset, obj) ==
  (IF offset.vbtable_ptr # 0 THEN obj + offset.vbtable_ptr + offset.entry ELSE obj) + offset.member

copy_to_catch_block(catchable, obj) ==
  IF "IsSimpleType" \in catchable.properties THEN <<"bits", obj>>
  ELSE IF ~catchable.copy_fn THEN <<"bits", apply(catchable.offset, obj)>>
  ELSE IF "HasVirtualBase" \in catchable.properties THEN <<"copied as most derived", obj>>
  ELSE <<"copied", obj>>

transfer_to_catch_block(adjectives, catchable, obj) ==
  IF "IsReference" \in adjectives THEN <<"reference", obj>>
  ELSE IF "ByReferenceOnly" \in catchable.properties THEN <<"nothing", 0>>
  ELSE copy_to_catch_block(catchable, obj)

RECURSIVE catchableFrom(_, _, _, _, _)
catchableFrom(adjectives, type, catchables, idx, obj) ==
  IF idx > Len(catchables) THEN <<"no match", 0>>
  ELSE IF catchables[idx].type = type THEN transfer_to_catch_block(adjectives, catchables[idx], obj)
  ELSE catchableFrom(adjectives, type, catchables, idx + 1, obj)

Qualifiers == {"IsConst", "IsVolatile", "IsUnaligned"}

\* Mutant: a catch block may drop a qualifier.
ProcessUnqualified(adjectives, type, throw_info, obj) ==
  IF "IsEllipsis" \in adjectives THEN <<"nothing", 0>>
  ELSE catchableFrom(adjectives, type, throw_info.catchables, 1, obj)

process_catch(adjectives, type, throw_info, obj) ==
  IF "IsEllipsis" \in adjectives THEN <<"nothing", 0>>
  ELSE IF (throw_info.attributes \intersect Qualifiers) \ adjectives # {} THEN <<"no match", 0>>
  ELSE catchableFrom(adjectives, type, throw_info.catchables, 1, obj)

-----------------------------------------------------------------------------
(* What the compiler emits and the processor does.                         *)

BytesOf(v, n) == [i \in 1..n |-> (v \div Bit(8 * (i - 1))) % 256]
Tagged(v, tag, bits, n) == <<(v % Bit(8 - bits)) * Bit(bits) + tag>> \o BytesOf(v \div Bit(8 - bits), n)
Encoded(v) ==
  CASE v < Bit(7) -> Tagged(v, 0, 1, 0)
    [] v >= Bit(7) /\ v < Bit(14) -> Tagged(v, 1, 2, 1)
    [] v >= Bit(14) /\ v < Bit(21) -> Tagged(v, 3, 3, 2)
    [] v >= Bit(21) /\ v < Bit(28) -> Tagged(v, 7, 4, 3)
    [] v >= Bit(28) -> <<15>> \o BytesOf(v, 4)

\* A frame: how it is entered, the registers pushed, the words allocated, whether rbp becomes the frame pointer, what is
\* saved above the bottom of the allocation, and the words the body allocates after that.
Frames ==
  {p \in [machine : BOOLEAN, pushes : {<<>>, <<3>>, <<5, 14>>}, alloc : {0, 4, 20}, pointer : BOOLEAN,
          saves : SUBSET {6, 106}, alloca : {0, 3}] :
     /\ p.pointer => p.pushes # <<>> /\ p.pushes[1] = 5
     /\ p.saves # {} => p.alloc = 20 /\ p.alloca = 0
     /\ p.alloca # 0 => p.pointer}

Caller == [ctx |-> [r \in NonVolatile \union {100 + x : x \in XmmSaved} |-> 1000 + r], rsp |-> 60, rip |-> 500,
           mem |-> [a \in 0..70 |-> 0]]

Write(m, a, v) == [m EXCEPT !.mem[a] = v]
Pushed(m, v) == [Write(m, m.rsp - 1, v) EXCEPT !.rsp = @ - 1]

RECURSIVE PushAll(_, _)
PushAll(m, regs) == IF regs = <<>> THEN m ELSE PushAll(Pushed(m, m.ctx[Head(regs)]), Tail(regs))

\* rip, cs, eflags, rsp and ss, or the return address.
Entered(p, m) ==
  IF p.machine THEN [Write(Write(m, m.rsp - 5, m.rip), m.rsp - 2, m.rsp) EXCEPT !.rsp = @ - 5]
  ELSE Pushed(m, m.rip)

Running(p) ==
  LET pushed == PushAll(Entered(p, Caller), p.pushes)
      base == [pushed EXCEPT !.rsp = @ - p.alloc]
      saved == [base EXCEPT !.mem = [a \in DOMAIN base.mem |->
                   IF 6 \in p.saves /\ a = base.rsp + 2 THEN base.ctx[6]
                   ELSE IF 106 \in p.saves /\ a = base.rsp + 4 THEN base.ctx[106] ELSE base.mem[a]]]
      Kept == NonVolatile \ {p.pushes[i] : i \in DOMAIN p.pushes}
      clobbered == [r \in DOMAIN base.ctx |-> IF r \in (Kept \union {100 + x : x \in XmmSaved}) \ p.saves THEN base.ctx[r] ELSE 7]
  IN [saved EXCEPT !.ctx = IF p.pointer THEN [clobbered EXCEPT ![5] = base.rsp + 4] ELSE clobbered,
                   !.rsp = @ - p.alloca, !.rip = 9]

Code(code, info) == [code |-> code, info |-> info]
\* The codes undo the prologue from its end.
Codes(p) ==
  LET pushes == [i \in DOMAIN p.pushes |-> Code("PushNonVolatileReg", p.pushes[Len(p.pushes) + 1 - i])]
  IN [frame_reg |-> IF p.pointer THEN 5 ELSE 0, frame_reg_disp |-> IF p.pointer THEN 2 ELSE 0,
      slots |-> <<Code("Epilog", 0), 0>>
                  \o (IF 106 \in p.saves THEN <<Code("SaveXmm128", 6), 2>> ELSE <<>>)
                  \o (IF 6 \in p.saves THEN <<Code("SaveNonVolatileReg", 6), 2>> ELSE <<>>)
                  \o (IF p.pointer THEN <<Code("SetFramePointer", 0)>> ELSE <<>>)
                  \o (CASE p.alloc = 0 -> <<>> [] p.alloc = 4 -> <<Code("AllocSmall", 3)>>
                         [] p.alloc = 20 -> <<Code("AllocLarge", 0), 20>>)
                  \o pushes
                  \o (IF p.machine THEN <<Code("PushMachineFrame", 0)>> ELSE <<>>)]
Padding == <<255, 255, 255>>
RECURSIVE EncodedAll(_)
EncodedAll(numbers) == IF numbers = <<>> THEN <<>> ELSE Encoded(Head(numbers)) \o EncodedAll(Tail(numbers))
RegionTable(regions) ==
  Padding \o EncodedAll(<<Len(regions)>> \o [i \in 1..2 * Len(regions) |-> regions[(i + 1) \div 2][IF i % 2 = 1 THEN 1 ELSE 2]])

RECURSIVE RegionStart(_, _)
RegionStart(regions, i) == IF i = 0 THEN 0 ELSE regions[i][1] + RegionStart(regions, i - 1)

\* The header: a number for each flag that has one, and the regions, or the map of them.
HeaderFlags == {"Bbt", "HasUnwindMap", "HasTryBlockMap", "HasMultipleFunclets", "IsCatchFunclet"}
Header(flags) ==
  LET Field(f, v) == IF f \in flags THEN <<v>> ELSE <<>>
  IN Field("Bbt", 1) \o Field("HasUnwindMap", 2) \o Field("HasTryBlockMap", 3)
       \o <<IF "HasMultipleFunclets" \in flags THEN <<<<10, 40>>, <<20, 41>>>> ELSE 41>> \o Field("IsCatchFunclet", 5)

-----------------------------------------------------------------------------
UnwindArgs(op, arg) == [op |-> op, arg |-> arg]

Regions == {<<>>} \union [1..1 -> {1, 200} \X {0, 3}] \union [1..2 -> {1, 200} \X {0, 1, 130}]
FunctionTables == {<<>>, <<<<1, 3>>>>, <<<<1, 2>>, <<2, 4>>, <<5, 6>>>>, <<<<0, 1>>, <<2, 3>>, <<3, 5>>, <<6, 7>>>>}
Offsets == {[vbtable_ptr |-> 0, entry |-> 0, member |-> 0], [vbtable_ptr |-> 0, entry |-> 0, member |-> 8],
            [vbtable_ptr |-> 8, entry |-> 16, member |-> 4]}
Catchable(type, properties, copy_fn, offset) ==
  [type |-> type, properties |-> properties, copy_fn |-> copy_fn, offset |-> offset]

UnwindCall ==
  /\ result = NoResult
  /\ \/ \E v \in Numbers : call = UnwindArgs("read_unsigned", v)
     \/ \E r \in Regions, pc \in {0, 1, 2, 199, 200, 201, 400} : call = UnwindArgs("lookup_region", [regions |-> r, pc |-> pc])
     \/ \E flags \in SUBSET HeaderFlags, begin \in {20, 30} :
          call = UnwindArgs("load_exception_info", [flags |-> flags, begin |-> begin])
     \/ \E t \in FunctionTables, addr \in -1..Image : call = UnwindArgs("find_function_entry", [functions |-> t, addr |-> addr])
     \/ \E p \in Frames : call = UnwindArgs("unwind", p)
     \/ \E adjectives \in SUBSET {"IsConst", "IsReference", "IsEllipsis"}, attributes \in SUBSET {"IsConst", "IsVolatile"},
          type \in {"Base", "Derived", "Other"}, properties \in SUBSET {"IsSimpleType", "ByReferenceOnly", "HasVirtualBase"},
          copy_fn \in BOOLEAN, offset \in Offsets :
          /\ offset.member # 0 => /\ properties \intersect {"IsSimpleType"} = {} /\ ~copy_fn
                                 /\ "IsReference" \notin adjectives
          /\ call = UnwindArgs("process_catch_block",
               [adjectives |-> adjectives, attributes |-> attributes, type |-> type,
                catchables |-> <<Catchable("Derived", properties, copy_fn, [vbtable_ptr |-> 0, entry |-> 0, member |-> 0]),
                                 Catchable("Base", properties, copy_fn, offset)>>])

Object == 100

ReadTables ==
  LET a == call.arg
  IN \/ Do("read_unsigned", read_unsigned(Padding \o Encoded(a), 4))
     \/ Do("lookup_region", lookup_region(RegionTable(a.regions), 4, a.pc))
     \/ Do("load_exception_info", load_exception_info(a.flags, Header(a.flags), a.begin))
     \/ Do("find_function_entry", find_function_entry(a.functions, a.addr))

UnwindFrame == Do("unwind", unwind(Codes(call.arg), Running(call.arg)))

ProcessCatch ==
  LET a == call.arg
  IN Do("process_catch_block", process_catch(a.adjectives, a.type, [attributes |-> a.attributes, catchables |-> a.catchables], Object))

UnwindNext == ReadTables \/ UnwindFrame \/ ProcessCatch
-----------------------------------------------------------------------------
(* Properties.                                                             *)

\* What the compiler wrote is what the engine reads: a compressed number and where it ends, the state a function is in at an
\* address, the part of a function's exception data its flags announce, and the function an address belongs to
\* (read_unsigned, lookup_region, load_exception_info, find_function_entry).
TablesDecoded ==
  LET a == call.arg
      Shown(f, v) == IF f \in a.flags THEN v ELSE 0
  IN result # NoResult =>
       CASE call.op = "read_unsigned" -> result = [value |-> a, p |-> 4 + Len(Encoded(a))]
         [] call.op = "lookup_region" ->
              LET started == {i \in DOMAIN a.regions : RegionStart(a.regions, i) <= a.pc}
              IN result = IF started = {} THEN -1 ELSE a.regions[Cardinality(started)][2] - 1
         [] call.op = "load_exception_info" ->
              result = [unwind_graph |-> Shown("HasUnwindMap", 2), try_blocks |-> Shown("HasTryBlockMap", 3),
                        regions |-> IF "HasMultipleFunclets" \in a.flags /\ a.begin = 30 THEN 0 ELSE 41,
                        primary_frame_ptr |-> Shown("IsCatchFunclet", 5)]
         [] call.op = "find_function_entry" ->
              LET found == {i \in DOMAIN a.functions : a.functions[i][1] <= a.addr /\ a.addr < a.functions[i][2]}
              IN IF a.addr \in 0..(Image - 1) THEN IF found = {} THEN result = 0 ELSE result \in found
                 ELSE result = Stopped
         [] OTHER -> TRUE

\* Unwinding a frame gives its caller back what the prologue found: every non-volatile register, the stack pointer, the
\* address of the call; whatever the body did to the registers, with a frame pointer or without, entered by a call or through
\* a machine frame (frame_walk_pdata::unwind).
UnwindRestores ==
  Done("unwind") => result.ctx = Caller.ctx /\ result.rsp = Caller.rsp /\ result.rip = Caller.rip

\* The walk from frame to frame: the tables that tell where a frame's function is and what its state is, and the codes that
\* lead to the frame of its caller.
FramesWalked == TablesDecoded /\ UnwindRestores

\* A catch block takes an exception exactly when it is `catch (...)` or names the thrown type or a base of it without dropping
\* a qualifier; the variable is then the exception object or is initialized from the base class's part of it
\* (process_catch_block).
CatchBinds ==
  LET a == call.arg
      matches == "IsEllipsis" \in a.adjectives \/ (a.attributes \subseteq a.adjectives /\ a.type # "Other")
      catchable == CHOOSE c \in {a.catchables[1], a.catchables[2]} : c.type = a.type
      offset == catchable.offset
      part == Object + offset.vbtable_ptr + offset.entry + offset.member
  IN Done("process_catch_block") =>
       /\ (result # <<"no match", 0>>) = matches
       /\ matches /\ "IsEllipsis" \notin a.adjectives =>
            /\ result[1] = "nothing" => "ByReferenceOnly" \in catchable.properties \ a.adjectives
            /\ result[1] # "nothing" => result[2] = part
            /\ (result[1] = "reference") = ("IsReference" \in a.adjectives)
=============================================================================

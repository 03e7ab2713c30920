----------------------------- MODULE IndexSlice -----------------------------
(***************************************************************************)
(* ak::index::detail, include/awkward/index.hpp: from the slice or the     *)
(* integers of a caller to row positions of an array.                      *)
(*                                                                         *)
(* One behaviour is one call, either of indices_for_slice or of            *)
(* normalize_integer_array; the loops of both are steps.  Positions are    *)
(* std::ptrdiff_t, -Top-1 .. Top, and become std::size_t in the result.    *)
(* Signed overflow is undefined: the sum wraps in an unoptimised build; an *)
(* optimised one has been seen to push positions until memory runs out.    *)
(***************************************************************************)
EXTENDS Integers, Sequences

CONSTANTS
  Top,         \* the largest std::ptrdiff_t
  MaxLength,   \* bound: the longest array selected from
  MaxIntegers  \* bound: how many integers a call passes

ASSUME TopAssumption         == Top \in Nat
ASSUME MaxLengthAssumption   == MaxLength \in 0..Top
ASSUME MaxIntegersAssumption == MaxIntegers \in Nat

VARIABLES
  request,  \* the slice or the integers of the call
  length,   \* the length of the array selected from
  pc,       \* "call", "loop", "done"
  i,        \* the loop's position in the array, or in the integers
  stop,     \* where the loop stops
  result,   \* the positions found so far
  outcome   \* how the call ended

vars == <<request, length, pc, i, stop, result, outcome>>

Ptrdiff   == -Top-1 .. Top
Omitted   == Top + 1          \* an empty std::optional
Bound     == Ptrdiff \cup {Omitted}
AsSize(p) == IF p < 0 THEN p + 2 * (Top + 1) ELSE p

IntegerArrays == UNION {[1..k -> Ptrdiff] : k \in 0..MaxIntegers}

Requests ==
  [kind : {"slice"}, start : Bound, stop : Bound, step : Ptrdiff]
    \cup [kind : {"integers"}, values : IntegerArrays]

IsSlice == request.kind = "slice"
Forward == request.step > 0

GivenOr(bound, default) == IF bound = Omitted THEN default ELSE bound
FromEnd(p)              == IF p < 0 THEN p + length ELSE p

\* fault: only the upper bound is enforced
Cap(low, p, high) == IF p < high THEN p ELSE high

Clamp(low, p, high) ==
  LET capped == IF p < high THEN p ELSE high
  IN  IF capped < low THEN low ELSE capped

-----------------------------------------------------------------------------
Init ==
  /\ request \in Requests
  /\ length \in 0..MaxLength
  /\ pc = "call"
  /\ i = 0
  /\ stop = 0
  /\ result = <<>>
  /\ outcome = "ok"

Return(how) ==
  /\ pc' = "done"
  /\ outcome' = how

RefuseStep ==
  /\ pc = "call" /\ IsSlice
  /\ request.step = 0
  /\ Return("invalid_argument")
  /\ UNCHANGED <<request, length, i, stop, result>>

EnterLoop(first, end) ==
  /\ pc = "call"
  /\ pc' = "loop"
  /\ i' = first
  /\ stop' = end
  /\ UNCHANGED <<request, length, result, outcome>>

StartForward ==
  /\ IsSlice /\ Forward
  /\ EnterLoop(Clamp(0, FromEnd(GivenOr(request.start, 0)), length),
               Clamp(0, FromEnd(GivenOr(request.stop, length)), length))

\* fault: an omitted stop is taken for the index -1, the last element
StartBackwardToLast ==
  /\ IsSlice /\ request.step < 0
  /\ EnterLoop(Clamp(-1, FromEnd(GivenOr(request.start, length - 1)), length - 1),
               Clamp(-1, FromEnd(GivenOr(request.stop, -1)), length - 1))

\* An omitted stop is -1 as a position; a stop of -1 is the last element.
StartBackward ==
  /\ IsSlice /\ request.step < 0
  /\ EnterLoop(Clamp(-1, FromEnd(GivenOr(request.start, length - 1)), length - 1),
               IF request.stop = Omitted THEN -1
               ELSE Clamp(-1, FromEnd(request.stop), length - 1))

Continues == IF Forward THEN i < stop ELSE i > stop

Advance ==
  IF i + request.step <= Top
  THEN i' = i + request.step /\ UNCHANGED <<pc, outcome>>
  ELSE \/ i' = i + request.step - 2 * (Top + 1) /\ UNCHANGED <<pc, outcome>>
       \/ Return("bad_alloc") /\ UNCHANGED i

PushPosition ==
  /\ pc = "loop" /\ IsSlice
  /\ Continues
  /\ result' = Append(result, AsSize(i))
  /\ Advance
  /\ UNCHANGED <<request, length, stop>>

\* fault: the loop is left only when it meets its end exactly
FinishAtStop ==
  /\ pc = "loop" /\ IsSlice
  /\ i = stop
  /\ Return("ok")
  /\ UNCHANGED <<request, length, i, stop, result>>

FinishSlice ==
  /\ pc = "loop" /\ IsSlice
  /\ ~ Continues
  /\ Return("ok")
  /\ UNCHANGED <<request, length, i, stop, result>>

StartIntegers ==
  /\ ~ IsSlice
  /\ EnterLoop(1, Len(request.values) + 1)

\* fault: the index one past the end is accepted
AcceptedAtEnd(v) == FromEnd(v) >= 0 /\ FromEnd(v) <= length

\* normalize_integer
Accepted(v) == FromEnd(v) >= 0 /\ FromEnd(v) < length

PushInteger ==
  /\ pc = "loop" /\ ~ IsSlice /\ i < stop
  /\ Accepted(request.values[i])
  /\ result' = Append(result, FromEnd(request.values[i]))
  /\ i' = i + 1
  /\ UNCHANGED <<request, length, pc, stop, outcome>>

RefuseInteger ==
  /\ pc = "loop" /\ ~ IsSlice /\ i < stop
  /\ ~ Accepted(request.values[i])
  /\ Return("out_of_range")
  /\ UNCHANGED <<request, length, i, stop, result>>

FinishIntegers ==
  /\ pc = "loop" /\ ~ IsSlice /\ i = stop
  /\ Return("ok")
  /\ UNCHANGED <<request, length, i, stop, result>>

Next ==
  \/ RefuseStep
  \/ StartForward \/ StartBackward \/ PushPosition \/ FinishSlice
  \/ StartIntegers \/ PushInteger \/ RefuseInteger \/ FinishIntegers

Spec == Init /\ [][Next]_vars

\* A call runs to its end: nothing in it waits.
FairSpec == Spec /\ WF_vars(Next)

-----------------------------------------------------------------------------
(***************************************************************************)
(* What a slice asks for, without clamping and without a loop: of the      *)
(* positions on the right side of both bounds, every |step|-th one from    *)
(* the first in the step's direction.                                      *)
(***************************************************************************)
After(p, bound)  == bound = Omitted \/ p > FromEnd(bound)
Before(p, bound) == bound = Omitted \/ p < FromEnd(bound)
AtBound(p, bound) == bound # Omitted /\ p = FromEnd(bound)

Asked ==
  {p \in 0..length-1 :
     IF Forward
     THEN /\ After(p, request.start) \/ AtBound(p, request.start)
          /\ Before(p, request.stop)
     ELSE /\ Before(p, request.start) \/ AtBound(p, request.start)
          /\ After(p, request.stop)}

Precedes(p, q) == IF Forward THEN p <= q ELSE p >= q

EveryStepOf(found) ==
  /\ \A k \in DOMAIN found : found[k] \in Asked
  /\ found # <<>> => \A p \in Asked : Precedes(found[1], p)
  /\ \A k \in DOMAIN found : k # 1 => found[k] = found[k-1] + request.step

\* The sums of the forward loop stay within std::ptrdiff_t.
Fits == IsSlice /\ Forward => length + request.step - 1 <= Top

TypeOK ==
  /\ request \in Requests
  /\ length \in 0..MaxLength
  /\ pc \in {"call", "loop", "done"}
  /\ IF IsSlice THEN i \in Ptrdiff /\ stop \in -1..length
                ELSE i \in 0..MaxIntegers+1 /\ stop \in 0..MaxIntegers+1
  /\ result \in Seq(Nat)
  /\ outcome \in {"ok", "invalid_argument", "out_of_range", "bad_alloc"}

(***************************************************************************)
(* A slice whose steps fit selects exactly what it asks for: all positions *)
(* are asked for, the first of them leads, they are one step apart and no  *)
(* further one is left.  (indices_for_slice, both directions.)             *)
(***************************************************************************)
SliceSelectsAsked ==
  pc = "done" /\ IsSlice /\ Fits /\ outcome = "ok" =>
    /\ EveryStepOf(result)
    /\ result = <<>> => Asked = {}
    /\ result # <<>> => result[Len(result)] + request.step \notin Asked

(***************************************************************************)
(* An integer array is resolved as a whole or refused: each integer gives  *)
(* its own position, counted from the end when negative, and a single one  *)
(* that names no element refuses the call.  (normalize_integer_array.)     *)
(***************************************************************************)
IntegersResolve ==
  pc = "done" /\ ~ IsSlice =>
    /\ outcome = "ok" <=>
         \A k \in DOMAIN request.values : request.values[k] \in -length..length-1
    /\ outcome = "ok" =>
         /\ Len(result) = Len(request.values)
         /\ \A k \in DOMAIN result :
              /\ result[k] \in 0..length-1
              /\ result[k] - request.values[k] \in {0, length}

(***************************************************************************)
(* Whatever slice the caller writes, the positions returned are positions  *)
(* of the array; the layouts use them without a further check.             *)
(***************************************************************************)
PositionsInArray ==
  \A k \in DOMAIN result : result[k] < length

(***************************************************************************)
(* The loops end, in either direction, for every bound and every step that *)
(* fits.                                                                   *)
(***************************************************************************)
CallEnds == Fits ~> pc = "done"
=============================================================================

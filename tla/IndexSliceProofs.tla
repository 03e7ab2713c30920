-------------------------- MODULE IndexSliceProofs --------------------------
(***************************************************************************)
(* Theorems about index normalization, for every width of std::ptrdiff_t,  *)
(* every array length and every request; about the positions the layouts   *)
(* compute in its place; and about the rows of list layouts that are       *)
(* selected by them, for contents, rows and selections of every size.      *)
(***************************************************************************)
EXTENDS IndexSlice, Loops

\* What the layouts compute with instead of the loops.
Index == INSTANCE ListRows

(***************************************************************************)
(* The loops' invariant.  `Found' describes the positions pushed so far,   *)
(* `Left' what the loop still has to do: everything from i to stop is      *)
(* asked for, nothing beyond stop is, and i is where the next one belongs. *)
(***************************************************************************)
Found == EveryStepOf(result)

LeftForward ==
  /\ i >= 0 /\ stop <= length
  /\ \A p \in Asked : p < stop
  /\ \A p \in Int : i <= p /\ p < stop => p \in Asked
  /\ result = <<>> => \A p \in Asked : i <= p

LeftBackward ==
  /\ i < length /\ stop >= -1
  /\ \A p \in Asked : p > stop
  /\ \A p \in Int : stop < p /\ p <= i => p \in Asked
  /\ result = <<>> => \A p \in Asked : p <= i

FollowsLast == result # <<>> => i = result[Len(result)] + request.step

SliceLoop ==
  pc = "loop" /\ IsSlice =>
    /\ request.step # 0
    /\ Fits => /\ Found
               /\ FollowsLast
               /\ IF Forward THEN LeftForward ELSE LeftBackward

IntegerLoop ==
  pc = "loop" /\ ~ IsSlice =>
    /\ stop = Len(request.values) + 1
    /\ i \in 1..stop
    /\ Len(result) = i - 1
    /\ \A k \in 1..i-1 : /\ Accepted(request.values[k])
                         /\ result[k] = FromEnd(request.values[k])

BeforeDone ==
  /\ pc = "call" => result = <<>>
  /\ pc # "done" => outcome = "ok"

SliceInv ==
  TypeOK /\ BeforeDone /\ SliceLoop /\ IntegerLoop /\ SliceSelectsAsked /\ IntegersResolve

-----------------------------------------------------------------------------
LEMMA SliceRequest ==
  ASSUME request \in Requests, IsSlice
  PROVE  /\ request.start \in Int /\ request.stop \in Int /\ request.step \in Int
         /\ request.step <= Top /\ request.step >= -Top-1
<1>1. request \in [kind : {"slice"}, start : Bound, stop : Bound, step : Ptrdiff]
  <2>1. request \notin [kind : {"integers"}, values : IntegerArrays]
    BY DEF IsSlice
  <2>2. QED
    BY <2>1 DEF Requests
<1>2. request.start \in Bound /\ request.stop \in Bound /\ request.step \in Ptrdiff
  BY <1>1
<1>3. QED
  BY <1>2, TopAssumption DEF Bound, Ptrdiff, Omitted

LEMMA IntegersRequest ==
  ASSUME request \in Requests, ~ IsSlice
  PROVE  request.values \in Seq(Int) /\ Len(request.values) <= MaxIntegers
<1>1. request \in [kind : {"integers"}, values : IntegerArrays]
  <2>1. request \notin [kind : {"slice"}, start : Bound, stop : Bound, step : Ptrdiff]
    BY DEF IsSlice
  <2>2. QED
    BY <2>1 DEF Requests
<1>2. request.values \in IntegerArrays
  BY <1>1
<1>3. PICK k \in 0..MaxIntegers : request.values \in [1..k -> Ptrdiff]
  BY <1>2 DEF IntegerArrays
<1>4. k \in Nat /\ k <= MaxIntegers /\ Ptrdiff \subseteq Int
  BY MaxIntegersAssumption, TopAssumption DEF Ptrdiff
<1>5. request.values \in Seq(Int)
  <2>1. request.values \in [1..k -> Int]
    BY <1>3, <1>4
  <2>2. QED
    BY <2>1, <1>4
<1>6. Len(request.values) = k
  BY <1>3, <1>4
<1>7. QED
  BY <1>4, <1>5, <1>6, MaxIntegersAssumption

LEMMA LengthType ==
  ASSUME length \in 0..MaxLength
  PROVE  length \in Nat /\ length <= Top
BY TopAssumption, MaxLengthAssumption

LEMMA ClampBounds ==
  ASSUME NEW low \in Int, NEW high \in Int, NEW p \in Int, low <= high
  PROVE  /\ Clamp(low, p, high) \in Int
         /\ low <= Clamp(low, p, high) /\ Clamp(low, p, high) <= high
         /\ low <= p /\ p <= high => Clamp(low, p, high) = p
         /\ p < low => Clamp(low, p, high) = low
         /\ p > high => Clamp(low, p, high) = high
BY DEF Clamp

\* What a state keeps while the request and the length stay as they are.
LEMMA AskedStays ==
  ASSUME UNCHANGED <<request, length>>
  PROVE  /\ Asked' = Asked /\ (Fits <=> Fits') /\ (IsSlice <=> IsSlice')
         /\ (Forward <=> Forward')
BY DEF Asked, Fits, IsSlice, Forward, After, Before, AtBound, FromEnd

\* The loop of a slice enters with both its ends in range.
LEMMA LoopEnds ==
  ASSUME TypeOK, IsSlice, NEW low \in {-1, 0}, NEW high \in Int, high <= length, low <= high,
         NEW a \in Int, NEW b \in Int,
         EnterLoop(Clamp(low, a, high), Clamp(low, b, high))
  PROVE  TypeOK'
<1>1. length \in Nat /\ length <= Top
  BY LengthType DEF TypeOK
<1>2. /\ Clamp(low, a, high) \in Int /\ low <= Clamp(low, a, high) /\ Clamp(low, a, high) <= high
      /\ Clamp(low, b, high) \in Int /\ low <= Clamp(low, b, high) /\ Clamp(low, b, high) <= high
  BY ClampBounds
<1>3. i' \in Ptrdiff /\ stop' \in -1..length
  BY <1>1, <1>2, TopAssumption DEF EnterLoop, Ptrdiff
<1>4. QED
  BY <1>3 DEF EnterLoop, TypeOK, IsSlice

LEMMA TypeCorrectStep ==
  ASSUME TypeOK, IntegerLoop, [Next]_vars
  PROVE  TypeOK'
<1> USE DEF TypeOK
<1>0. length \in Nat /\ length <= Top
  BY LengthType
<1>1. CASE RefuseStep
  BY <1>1 DEF RefuseStep, Return, IsSlice
<1>2. CASE StartForward
  <2>1. request.start \in Int /\ request.stop \in Int /\ IsSlice
    BY <1>2, SliceRequest DEF StartForward
  <2>2. FromEnd(GivenOr(request.start, 0)) \in Int /\ FromEnd(GivenOr(request.stop, length)) \in Int
    BY <1>0, <2>1 DEF FromEnd, GivenOr
  <2>3. 0 <= length /\ length <= length /\ length \in Int
    BY <1>0
  <2>4. EnterLoop(Clamp(0, FromEnd(GivenOr(request.start, 0)), length),
                  Clamp(0, FromEnd(GivenOr(request.stop, length)), length))
    BY <1>2 DEF StartForward
  <2>5. QED
    BY <2>1, <2>2, <2>3, <2>4, LoopEnds
<1>3. CASE StartBackward
  <2>1. request.start \in Int /\ request.stop \in Int /\ IsSlice
    BY <1>3, SliceRequest DEF StartBackward
  <2>2. FromEnd(GivenOr(request.start, length - 1)) \in Int /\ FromEnd(request.stop) \in Int
    BY <1>0, <2>1 DEF FromEnd, GivenOr
  <2>3. Clamp(-1, -1, length - 1) = -1
    BY <1>0 DEF Clamp
  <2>4. -1 <= length - 1 /\ length - 1 <= length /\ length - 1 \in Int
    BY <1>0
  <2>5. EnterLoop(Clamp(-1, FromEnd(GivenOr(request.start, length - 1)), length - 1),
                  Clamp(-1, IF request.stop = Omitted THEN -1 ELSE FromEnd(request.stop), length - 1))
    BY <1>3, <2>3 DEF StartBackward
  <2>6. (IF request.stop = Omitted THEN -1 ELSE FromEnd(request.stop)) \in Int
    BY <2>2
  <2>7. QED
    BY <2>1, <2>2, <2>4, <2>5, <2>6, LoopEnds
<1>4. CASE PushPosition
  <2>1. request.step \in Int /\ request.step <= Top /\ request.step >= -Top-1 /\ IsSlice
    BY <1>4, SliceRequest DEF PushPosition
  <2>2. i \in Int /\ i >= -Top-1 /\ i <= Top /\ stop \in Int /\ -1 <= stop
    BY <1>0, <2>1, TopAssumption DEF Ptrdiff
  <2>3. AsSize(i) \in Nat
    BY <2>2, TopAssumption DEF AsSize
  <2>4. request.step > 0 \/ i >= 0
    BY <1>4, <2>1, <2>2 DEF PushPosition, Continues, Forward
  <2>5. i' \in Ptrdiff
    BY <1>4, <2>1, <2>2, <2>4, TopAssumption DEF PushPosition, Advance, Ptrdiff
  <2>6. pc' \in {"call", "loop", "done"} /\ outcome' \in {"ok", "invalid_argument", "out_of_range", "bad_alloc"}
    BY <1>4 DEF PushPosition, Advance, Return
  <2>7. result' \in Seq(Nat)
    BY <1>4, <2>3 DEF PushPosition
  <2>8. QED
    BY <1>4, <2>1, <2>5, <2>6, <2>7 DEF PushPosition, IsSlice
<1>5. CASE FinishSlice
  BY <1>5 DEF FinishSlice, Return, IsSlice
<1>6. CASE StartIntegers
  <2>1. Len(request.values) \in 0..MaxIntegers
    BY <1>6, IntegersRequest, MaxIntegersAssumption DEF StartIntegers
  <2>2. QED
    BY <1>6, <2>1, MaxIntegersAssumption DEF StartIntegers, EnterLoop, IsSlice
<1>7. CASE PushInteger
  <2>1. i \in 0..MaxIntegers+1 /\ stop \in 0..MaxIntegers+1 /\ i < stop
    BY <1>7 DEF PushInteger
  <2>2. i' \in 0..MaxIntegers+1
    BY <1>7, <2>1, MaxIntegersAssumption DEF PushInteger
  <2>3. FromEnd(request.values[i]) \in Nat
    <3>1. i \in 1..Len(request.values) /\ request.values \in Seq(Int)
      BY <1>7, <2>1, IntegersRequest DEF IntegerLoop, PushInteger
    <3>2. request.values[i] \in Int
      BY <3>1
    <3>3. FromEnd(request.values[i]) \in Int
      BY <1>0, <3>2 DEF FromEnd
    <3>4. QED
      BY <1>7, <3>3 DEF PushInteger, Accepted
  <2>4. QED
    BY <1>7, <2>2, <2>3 DEF PushInteger, IsSlice
<1>8. CASE RefuseInteger
  BY <1>8 DEF RefuseInteger, Return, IsSlice
<1>9. CASE FinishIntegers
  BY <1>9 DEF FinishIntegers, Return, IsSlice
<1>10. CASE UNCHANGED vars
  BY <1>10 DEF vars, IsSlice
<1>11. QED
  BY <1>1, <1>2, <1>3, <1>4, <1>5, <1>6, <1>7, <1>8, <1>9, <1>10 DEF Next

-----------------------------------------------------------------------------
\* A forward slice starts its loop with everything asked for between the ends.
LEMMA ForwardEntry ==
  ASSUME TypeOK, BeforeDone, StartForward
  PROVE  SliceLoop'
<1>1. length \in Nat /\ IsSlice /\ Forward /\ result = <<>> /\ pc = "call"
  BY LengthType DEF TypeOK, StartForward, EnterLoop, BeforeDone
<1>2. request.start \in Int /\ request.stop \in Int /\ request.step \in Int /\ Omitted \in Int
  BY <1>1, SliceRequest, TopAssumption DEF TypeOK, Omitted
<1>3. UNCHANGED <<request, length>> /\ result' = <<>>
  BY <1>1 DEF StartForward, EnterLoop
<1> DEFINE a == FromEnd(GivenOr(request.start, 0))
           b == FromEnd(GivenOr(request.stop, length))
<1>4. a \in Int /\ b \in Int
  BY <1>1, <1>2 DEF FromEnd, GivenOr
<1>5. i' = Clamp(0, a, length) /\ stop' = Clamp(0, b, length)
  BY DEF StartForward, EnterLoop
<1>6. \A p \in Int : p \in Asked <=> p >= 0 /\ p < length /\ a <= p /\ p < b
  BY <1>1, <1>2 DEF Asked, After, Before, AtBound, FromEnd, GivenOr
<1> HIDE DEF a, b
<1>7. \A p \in Int : p \in Asked <=> i' <= p /\ p < stop'
  <2>1. /\ i' \in Int /\ 0 <= i' /\ i' <= length
        /\ 0 <= a /\ a <= length => i' = a
        /\ a < 0 => i' = 0
        /\ a > length => i' = length
    BY <1>1, <1>4, <1>5 DEF Clamp
  <2>2. /\ stop' \in Int /\ 0 <= stop' /\ stop' <= length
        /\ 0 <= b /\ b <= length => stop' = b
        /\ b < 0 => stop' = 0
        /\ b > length => stop' = length
    BY <1>1, <1>4, <1>5 DEF Clamp
  <2>3. QED
    BY <1>1, <1>4, <1>6, <2>1, <2>2
<1>8. /\ i' \in Int /\ stop' \in Int /\ 0 <= i' /\ stop' <= length
  BY <1>1, <1>4, <1>5 DEF Clamp
<1>9. Asked \subseteq Int
  BY <1>1 DEF Asked
<1>10. LeftForward'
  BY <1>3, <1>7, <1>8, <1>9, AskedStays DEF LeftForward
<1>11. Found' /\ FollowsLast'
  BY <1>3 DEF Found, EveryStepOf, FollowsLast
<1>12. QED
  BY <1>1, <1>2, <1>3, <1>10, <1>11, AskedStays DEF SliceLoop, Forward

LEMMA BackwardEntry ==
  ASSUME TypeOK, BeforeDone, StartBackward
  PROVE  SliceLoop'
<1>1. length \in Nat /\ IsSlice /\ ~ Forward /\ result = <<>> /\ request.step < 0
  <2>1. request.step \in Int
    BY SliceRequest DEF TypeOK, StartBackward
  <2>2. QED
    BY <2>1, LengthType DEF TypeOK, StartBackward, EnterLoop, BeforeDone, Forward
<1>2. request.start \in Int /\ request.stop \in Int /\ request.step \in Int /\ Omitted \in Int
  BY <1>1, SliceRequest, TopAssumption DEF TypeOK, Omitted
<1>3. UNCHANGED <<request, length>> /\ result' = <<>>
  BY <1>1 DEF StartBackward, EnterLoop
<1> DEFINE a == FromEnd(GivenOr(request.start, length - 1))
           b == IF request.stop = Omitted THEN -1 ELSE FromEnd(request.stop)
<1>4. a \in Int /\ b \in Int
  BY <1>1, <1>2 DEF FromEnd, GivenOr
<1>5. i' = Clamp(-1, a, length - 1) /\ stop' = Clamp(-1, b, length - 1)
  <2>1. Clamp(-1, -1, length - 1) = -1
    BY <1>1 DEF Clamp
  <2>2. QED
    BY <2>1 DEF StartBackward, EnterLoop
<1>6. \A p \in Int : p \in Asked <=> p >= 0 /\ p < length /\ p <= a /\ b < p
  BY <1>1, <1>2 DEF Asked, After, Before, AtBound, FromEnd, GivenOr
<1> HIDE DEF a, b
<1>7. \A p \in Int : p \in Asked <=> stop' < p /\ p <= i'
  <2>1. /\ i' \in Int /\ -1 <= i' /\ i' <= length - 1
        /\ -1 <= a /\ a <= length - 1 => i' = a
        /\ a < -1 => i' = -1
        /\ a > length - 1 => i' = length - 1
    BY <1>1, <1>4, <1>5 DEF Clamp
  <2>2. /\ stop' \in Int /\ -1 <= stop' /\ stop' <= length - 1
        /\ -1 <= b /\ b <= length - 1 => stop' = b
        /\ b < -1 => stop' = -1
        /\ b > length - 1 => stop' = length - 1
    BY <1>1, <1>4, <1>5 DEF Clamp
  <2>3. QED
    BY <1>1, <1>4, <1>6, <2>1, <2>2
<1>8. /\ i' \in Int /\ stop' \in Int /\ i' < length /\ stop' >= -1
  BY <1>1, <1>4, <1>5 DEF Clamp
<1>9. Asked \subseteq Int
  BY <1>1 DEF Asked
<1>10. LeftBackward'
  BY <1>3, <1>7, <1>8, <1>9, AskedStays DEF LeftBackward
<1>11. Found' /\ FollowsLast'
  BY <1>3 DEF Found, EveryStepOf, FollowsLast
<1>12. QED
  BY <1>1, <1>2, <1>3, <1>10, <1>11, AskedStays DEF SliceLoop, Forward

(***************************************************************************)
(* What a slice that fits pushes is a position of the array as it stands,  *)
(* and the loop moves on by one step without overflow.                     *)
(***************************************************************************)
LEMMA PushedPosition ==
  ASSUME TypeOK, SliceLoop, PushPosition, Fits
  PROVE  /\ i \in Asked /\ i >= 0 /\ i < length
         /\ AsSize(i) = i /\ i' = i + request.step
         /\ pc' = "loop" /\ outcome' = outcome
<1>1. /\ length \in Nat /\ IsSlice /\ pc = "loop" /\ Continues /\ Advance
  BY LengthType DEF TypeOK, PushPosition
<1>2. request.step \in Int /\ request.step # 0 /\ i \in Int /\ stop \in Int
  BY <1>1, SliceRequest, TopAssumption DEF TypeOK, SliceLoop, Ptrdiff
<1>3. IF Forward THEN LeftForward ELSE LeftBackward
  BY <1>1 DEF SliceLoop
<1>4. i \in Asked
  BY <1>1, <1>2, <1>3 DEF Continues, LeftForward, LeftBackward
<1>5. i >= 0 /\ i < length
  BY <1>1, <1>4 DEF Asked
<1>6. i + request.step <= Top
  BY <1>1, <1>2, <1>5, TopAssumption, LengthType DEF Fits, Forward, TypeOK
<1>7. QED
  BY <1>1, <1>2, <1>4, <1>5, <1>6 DEF Advance, AsSize

(***************************************************************************)
(* One more position: it is asked for, it follows the last one, and the    *)
(* loop has moved on by one step without overflow.                         *)
(***************************************************************************)
LEMMA PushKeepsLoop ==
  ASSUME TypeOK, SliceLoop, PushPosition
  PROVE  SliceLoop'
<1>1. /\ length \in Nat /\ IsSlice /\ pc = "loop" /\ UNCHANGED <<request, length, stop>>
      /\ result' = Append(result, AsSize(i)) /\ Continues /\ Advance /\ result \in Seq(Nat)
  BY LengthType DEF TypeOK, PushPosition
<1>2. request.step \in Int /\ request.step # 0 /\ i \in Int /\ stop \in Int
  BY <1>1, SliceRequest, TopAssumption DEF TypeOK, SliceLoop, Ptrdiff
<1>3. SUFFICES ASSUME Fits
               PROVE  Found' /\ FollowsLast' /\ IF Forward THEN LeftForward' ELSE LeftBackward'
  BY <1>1, <1>2, AskedStays DEF SliceLoop
<1>4. Found /\ FollowsLast /\ IF Forward THEN LeftForward ELSE LeftBackward
  BY <1>1, <1>3 DEF SliceLoop
<1>5. i \in Asked /\ i >= 0 /\ i < length
  BY <1>3, PushedPosition
<1>6. AsSize(i) = i /\ i' = i + request.step
  BY <1>3, PushedPosition
<1>7. /\ result' = Append(result, i) /\ Len(result') = Len(result) + 1
      /\ DOMAIN result' = 1..Len(result)+1 /\ DOMAIN result = 1..Len(result)
      /\ \A k \in DOMAIN result : result'[k] = result[k]
      /\ result'[Len(result)+1] = i /\ Len(result) \in Nat
  BY <1>1, <1>5, <1>6
<1>8. FollowsLast'
  BY <1>1, <1>6, <1>7 DEF FollowsLast
<1>9. Found'
  <2>1. \A k \in DOMAIN result' : result'[k] \in Asked
    BY <1>4, <1>5, <1>7 DEF Found, EveryStepOf
  <2>2. \A p \in Asked : Precedes(result'[1], p)
    <3>1. CASE result = <<>>
      <4>1. result'[1] = i
        BY <3>1, <1>7
      <4>2. QED
        BY <3>1, <4>1, <1>4, <1>2, <1>1 DEF Precedes, LeftForward, LeftBackward, Asked
    <3>2. CASE result # <<>>
      <4>1. result'[1] = result[1]
        BY <3>2, <1>7, <1>1
      <4>2. QED
        BY <3>2, <4>1, <1>4 DEF Found, EveryStepOf
    <3>3. QED
      BY <3>1, <3>2
  <2>3. \A k \in DOMAIN result' : k # 1 => result'[k] = result'[k-1] + request.step
    <3>1. SUFFICES ASSUME NEW k \in 1..Len(result)+1, k # 1
                   PROVE  result'[k] = result'[k-1] + request.step
      BY <1>7
    <3>2. CASE k \in DOMAIN result
      <4>1. k - 1 \in DOMAIN result
        BY <3>1, <3>2, <1>7
      <4>2. QED
        BY <3>1, <3>2, <4>1, <1>4, <1>7 DEF Found, EveryStepOf
    <3>3. CASE k = Len(result) + 1
      <4>1. result # <<>> /\ Len(result) \in DOMAIN result /\ k - 1 = Len(result)
        BY <3>1, <3>3, <1>7
      <4>2. QED
        BY <3>3, <4>1, <1>4, <1>7 DEF FollowsLast
    <3>4. QED
      BY <3>1, <3>2, <3>3, <1>7
  <2>4. QED
    BY <2>1, <2>2, <2>3, <1>1, AskedStays DEF Found, EveryStepOf, Precedes
<1>10. result' # <<>> /\ Asked' = Asked /\ stop' = stop /\ length' = length
  BY <1>1, <1>7, AskedStays
<1>11. CASE Forward
  <2>1. request.step > 0
    BY <1>11 DEF Forward
  <2>2. LeftForward'
    BY <2>1, <1>1, <1>2, <1>4, <1>5, <1>6, <1>10, <1>11 DEF LeftForward
  <2>3. QED
    BY <2>2, <1>8, <1>9, <1>1, <1>11, AskedStays
<1>12. CASE ~ Forward
  <2>1. request.step < 0
    BY <1>12, <1>2 DEF Forward
  <2>2. LeftBackward'
    BY <2>1, <1>1, <1>2, <1>4, <1>5, <1>6, <1>10, <1>12 DEF LeftBackward
  <2>3. QED
    BY <2>2, <1>8, <1>9, <1>1, <1>12, AskedStays
<1>13. QED
  BY <1>11, <1>12

LEMMA SliceLoopStep ==
  ASSUME TypeOK, BeforeDone, SliceLoop, [Next]_vars
  PROVE  SliceLoop'
<1>1. CASE StartForward
  BY <1>1, ForwardEntry
<1>2. CASE StartBackward
  BY <1>2, BackwardEntry
<1>3. CASE PushPosition
  BY <1>3, PushKeepsLoop
<1>4. CASE RefuseStep \/ FinishSlice \/ RefuseInteger \/ FinishIntegers
  BY <1>4 DEF RefuseStep, FinishSlice, RefuseInteger, FinishIntegers, Return, SliceLoop
<1>5. CASE StartIntegers \/ PushInteger
  BY <1>5 DEF StartIntegers, EnterLoop, PushInteger, SliceLoop, IsSlice
<1>6. CASE UNCHANGED vars
  <2>1. /\ UNCHANGED <<request, length>> /\ i' = i /\ stop' = stop /\ result' = result
        /\ pc' = pc /\ request' = request
    BY <1>6 DEF vars
  <2>2. QED
    BY <2>1, AskedStays
       DEF SliceLoop, Found, FollowsLast, LeftForward, LeftBackward, EveryStepOf, Precedes
<1>7. QED
  BY <1>1, <1>2, <1>3, <1>4, <1>5, <1>6 DEF Next

(***************************************************************************)
(* A loop that ends has found everything that was asked for.               *)
(***************************************************************************)
LEMMA FinishSelects ==
  ASSUME TypeOK, SliceLoop, FinishSlice
  PROVE  SliceSelectsAsked'
<1>1. /\ length \in Nat /\ IsSlice /\ pc = "loop" /\ ~ Continues
      /\ UNCHANGED <<request, length>> /\ result' = result /\ result \in Seq(Nat)
  BY LengthType DEF TypeOK, FinishSlice
<1>2. request.step \in Int /\ request.step # 0 /\ i \in Int /\ stop \in Int
  BY <1>1, SliceRequest, TopAssumption DEF TypeOK, SliceLoop, Ptrdiff
<1>3. SUFFICES ASSUME Fits
               PROVE  /\ EveryStepOf(result)
                      /\ result = <<>> => Asked = {}
                      /\ result # <<>> => result[Len(result)] + request.step \notin Asked
  BY <1>1, AskedStays DEF SliceSelectsAsked, EveryStepOf, Precedes
<1>4. Found /\ FollowsLast /\ IF Forward THEN LeftForward ELSE LeftBackward
  BY <1>1, <1>3 DEF SliceLoop
<1>5. Asked \subseteq Int
  BY <1>1 DEF Asked
<1>6. result = <<>> => Asked = {}
  BY <1>1, <1>2, <1>4, <1>5 DEF Continues, LeftForward, LeftBackward
<1>7. i \notin Asked
  BY <1>1, <1>2, <1>4, <1>5 DEF Continues, LeftForward, LeftBackward
<1>8. QED
  BY <1>4, <1>6, <1>7 DEF Found, FollowsLast

LEMMA SelectionStep ==
  ASSUME TypeOK, SliceLoop, SliceSelectsAsked, [Next]_vars
  PROVE  SliceSelectsAsked'
<1>1. CASE FinishSlice
  BY <1>1, FinishSelects
<1>2. CASE PushPosition
  <2>1. /\ IsSlice /\ pc = "loop" /\ Advance /\ UNCHANGED <<request, length>>
    BY <1>2 DEF PushPosition
  <2>2. pc' = "done" => outcome' = "bad_alloc"
    BY <2>1 DEF Advance, Return
  <2>3. QED
    BY <2>2 DEF SliceSelectsAsked
<1>3. CASE RefuseStep \/ RefuseInteger
  BY <1>3 DEF RefuseStep, RefuseInteger, Return, SliceSelectsAsked
<1>4. CASE StartForward \/ StartBackward \/ StartIntegers \/ PushInteger
  <2>1. pc' = "loop"
    BY <1>4 DEF StartForward, StartBackward, StartIntegers, EnterLoop, PushInteger
  <2>2. QED
    BY <2>1 DEF SliceSelectsAsked
<1>5. CASE FinishIntegers
  BY <1>5 DEF FinishIntegers, SliceSelectsAsked, IsSlice
<1>6. CASE UNCHANGED vars
  <2>1. /\ UNCHANGED <<request, length>> /\ result' = result /\ request' = request
        /\ pc' = pc /\ outcome' = outcome
    BY <1>6 DEF vars
  <2>2. QED
    BY <2>1, AskedStays DEF SliceSelectsAsked, EveryStepOf, Precedes
<1>7. QED
  BY <1>1, <1>2, <1>3, <1>4, <1>5, <1>6 DEF Next

-----------------------------------------------------------------------------
\* normalize_integer accepts exactly the indices of the array.
LEMMA AcceptedIndices ==
  ASSUME NEW v \in Int, length \in Nat
  PROVE  /\ Accepted(v) <=> v \in -length..length-1
         /\ Accepted(v) => FromEnd(v) \in 0..length-1 /\ FromEnd(v) - v \in {0, length}
BY DEF Accepted, FromEnd

LEMMA IntegerLoopStep ==
  ASSUME TypeOK, BeforeDone, IntegerLoop, [Next]_vars
  PROVE  IntegerLoop'
<1>1. CASE StartIntegers
  <2>1. /\ ~ IsSlice /\ UNCHANGED <<request, length>> /\ result' = <<>>
        /\ i' = 1 /\ stop' = Len(request.values) + 1
    BY <1>1 DEF StartIntegers, EnterLoop, BeforeDone
  <2>2. Len(request.values) \in Nat
    BY <2>1, IntegersRequest DEF TypeOK
  <2>3. QED
    BY <2>1, <2>2 DEF IntegerLoop, IsSlice
<1>2. CASE PushInteger
  <2>1. /\ ~ IsSlice /\ pc = "loop" /\ i < stop /\ UNCHANGED <<request, length, stop>>
        /\ i' = i + 1 /\ Accepted(request.values[i])
        /\ result' = Append(result, FromEnd(request.values[i])) /\ result \in Seq(Nat)
    BY <1>2 DEF PushInteger, TypeOK
  <2>2. /\ stop = Len(request.values) + 1 /\ i \in 1..stop /\ Len(result) = i - 1
        /\ \A k \in 1..i-1 : Accepted(request.values[k]) /\ result[k] = FromEnd(request.values[k])
    BY <2>1 DEF IntegerLoop
  <2>3. request.values \in Seq(Int) /\ length \in Nat
    BY <2>1, IntegersRequest, LengthType DEF TypeOK
  <2>4. FromEnd(request.values[i]) \in Nat
    <3>1. i \in 1..Len(request.values) /\ request.values[i] \in Int
      BY <2>1, <2>2, <2>3
    <3>2. QED
      BY <2>1, <2>3, <3>1, AcceptedIndices
  <2>5. /\ Len(result') = i /\ result'[i] = FromEnd(request.values[i])
        /\ \A k \in 1..i-1 : result'[k] = result[k]
    BY <2>1, <2>2, <2>4
  <2>6. i' \in 1..stop /\ i' - 1 = i
    BY <2>1, <2>2, <2>3
  <2>7. \A k \in 1..i : Accepted(request.values[k]) /\ result'[k] = FromEnd(request.values[k])
    BY <2>1, <2>2, <2>5
  <2>8. QED
    BY <2>1, <2>2, <2>5, <2>6, <2>7 DEF IntegerLoop, IsSlice, Accepted, FromEnd
<1>3. CASE RefuseStep \/ FinishSlice \/ RefuseInteger \/ FinishIntegers
  BY <1>3 DEF RefuseStep, FinishSlice, RefuseInteger, FinishIntegers, Return, IntegerLoop
<1>4. CASE StartForward \/ StartBackward \/ PushPosition
  BY <1>4 DEF StartForward, StartBackward, EnterLoop, PushPosition, IntegerLoop, IsSlice
<1>5. CASE UNCHANGED vars
  BY <1>5 DEF vars, IntegerLoop, IsSlice, Accepted, FromEnd
<1>6. QED
  BY <1>1, <1>2, <1>3, <1>4, <1>5 DEF Next

LEMMA IntegersStep ==
  ASSUME TypeOK, BeforeDone, IntegerLoop, IntegersResolve, [Next]_vars
  PROVE  IntegersResolve'
<1>1. CASE FinishIntegers \/ RefuseInteger
  <2>1. /\ ~ IsSlice /\ pc = "loop" /\ UNCHANGED <<request, length, result>>
        /\ stop = Len(request.values) + 1 /\ i \in 1..stop /\ Len(result) = i - 1
        /\ \A k \in 1..i-1 : Accepted(request.values[k]) /\ result[k] = FromEnd(request.values[k])
    BY <1>1 DEF FinishIntegers, RefuseInteger, IntegerLoop
  <2>2. request.values \in Seq(Int) /\ length \in Nat /\ result \in Seq(Nat)
    BY <2>1, IntegersRequest, LengthType DEF TypeOK
  <2>3. \A k \in DOMAIN request.values : request.values[k] \in Int
    BY <2>2
  <2>4. CASE FinishIntegers
    <3>1. i - 1 = Len(request.values) /\ outcome' = "ok"
      BY <2>1, <2>2, <2>4 DEF FinishIntegers, Return
    <3>2. /\ DOMAIN request.values = 1..i-1 /\ DOMAIN result = 1..i-1
          /\ Len(result) = Len(request.values)
      BY <2>1, <2>2, <3>1
    <3>3. \A k \in 1..i-1 : /\ request.values[k] \in -length..length-1
                            /\ result[k] \in 0..length-1
                            /\ result[k] - request.values[k] \in {0, length}
      BY <2>1, <2>2, <2>3, <3>2, AcceptedIndices
    <3>4. QED
      BY <2>1, <3>1, <3>2, <3>3 DEF IntegersResolve, IsSlice
  <2>5. CASE RefuseInteger
    <3>1. i \in DOMAIN request.values /\ ~ Accepted(request.values[i]) /\ outcome' = "out_of_range"
      BY <2>1, <2>2, <2>5 DEF RefuseInteger, Return
    <3>2. request.values[i] \notin -length..length-1
      BY <2>2, <2>3, <3>1, AcceptedIndices
    <3>3. QED
      BY <2>1, <3>1, <3>2 DEF IntegersResolve, IsSlice
  <2>6. QED
    BY <1>1, <2>4, <2>5
<1>2. CASE RefuseStep \/ FinishSlice \/ PushPosition
  BY <1>2 DEF RefuseStep, FinishSlice, PushPosition, IntegersResolve, IsSlice
<1>3. CASE StartForward \/ StartBackward \/ StartIntegers \/ PushInteger
  <2>1. pc' = "loop"
    BY <1>3 DEF StartForward, StartBackward, StartIntegers, EnterLoop, PushInteger
  <2>2. QED
    BY <2>1 DEF IntegersResolve
<1>4. CASE UNCHANGED vars
  BY <1>4 DEF vars, IntegersResolve, IsSlice
<1>5. QED
  BY <1>1, <1>2, <1>3, <1>4 DEF Next

LEMMA BeforeDoneStep ==
  ASSUME BeforeDone, [Next]_vars
  PROVE  BeforeDone'
<1>1. CASE StartForward \/ StartBackward \/ StartIntegers
  BY <1>1 DEF StartForward, StartBackward, StartIntegers, EnterLoop, BeforeDone
<1>2. CASE PushPosition
  <2>1. \/ pc' = pc /\ outcome' = outcome
        \/ pc' = "done"
    BY <1>2 DEF PushPosition, Advance, Return
  <2>2. QED
    BY <1>2, <2>1 DEF PushPosition, BeforeDone
<1>3. CASE PushInteger
  BY <1>3 DEF PushInteger, BeforeDone
<1>4. CASE RefuseStep \/ FinishSlice \/ RefuseInteger \/ FinishIntegers
  BY <1>4 DEF RefuseStep, FinishSlice, RefuseInteger, FinishIntegers, Return, BeforeDone
<1>5. CASE UNCHANGED vars
  BY <1>5 DEF vars, BeforeDone
<1>6. QED
  BY <1>1, <1>2, <1>3, <1>4, <1>5 DEF Next

LEMMA SliceInvInit == Init => SliceInv
<1> SUFFICES ASSUME Init PROVE SliceInv
  OBVIOUS
<1>1. TypeOK
  <2>1. 0 \in Ptrdiff /\ 0 \in -1..length /\ 0 \in 0..MaxIntegers+1
    BY LengthType, TopAssumption, MaxIntegersAssumption DEF Init, Ptrdiff
  <2>2. QED
    BY <2>1 DEF Init, TypeOK
<1>2. QED
  BY <1>1 DEF Init, SliceInv, BeforeDone, SliceLoop, IntegerLoop, SliceSelectsAsked, IntegersResolve

LEMMA SliceInvStep == SliceInv /\ [Next]_vars => SliceInv'
BY TypeCorrectStep, BeforeDoneStep, SliceLoopStep, SelectionStep, IntegerLoopStep, IntegersStep
   DEF SliceInv

LEMMA SliceInvariant == Spec => []SliceInv
BY SliceInvInit, SliceInvStep, PTL DEF Spec

-----------------------------------------------------------------------------
\* Positions stay std::ptrdiff_t and the clamped ends stay within the array.
THEOREM TypeCorrect == Spec => []TypeOK
<1>1. SliceInv => TypeOK
  BY DEF SliceInv
<1>2. QED
  BY <1>1, SliceInvariant, PTL

(***************************************************************************)
(* indices_for_slice returns exactly the positions a slice asks for, for   *)
(* every array, every pair of bounds and every step that fits.             *)
(***************************************************************************)
THEOREM SlicesSelectExactly == Spec => []SliceSelectsAsked
<1>1. SliceInv => SliceSelectsAsked
  BY DEF SliceInv
<1>2. QED
  BY <1>1, SliceInvariant, PTL

(***************************************************************************)
(* normalize_integer_array resolves all of its integers or refuses, for    *)
(* arrays and integer arrays of every length.                              *)
(***************************************************************************)
THEOREM IntegersResolveOrRefuse == Spec => []IntegersResolve
<1>1. SliceInv => IntegersResolve
  BY DEF SliceInv
<1>2. QED
  BY <1>1, SliceInvariant, PTL

-----------------------------------------------------------------------------
(***************************************************************************)
(* The positions of Indexes, which have a closed form, against those the   *)
(* loops arrive at.                                                        *)
(***************************************************************************)
Given(b) == IF b = Omitted THEN {} ELSE {b}

AsIndex ==
  IF IsSlice THEN Index!SliceOf(Given(request.start), Given(request.stop), request.step)
             ELSE Index!IntegersOf(request.values)

(***************************************************************************)
(* A call whose steps fit answers with the positions the layouts use, or   *)
(* refuses with the exception they refuse with.                            *)
(***************************************************************************)
AnswersAgree ==
  pc = "done" /\ Fits =>
    /\ outcome = Index!Refusal(AsIndex, length)
    /\ outcome = "ok" => result = Index!Positions(AsIndex, length)

\* How far the loop of a slice has come.
Stepping ==
  pc = "loop" /\ IsSlice /\ Fits =>
    /\ stop = Index!EndPosition(AsIndex, length)
    /\ i = Index!FirstPosition(AsIndex, length) + Len(result) * request.step
    /\ \A k \in DOMAIN result :
         result[k] = Index!FirstPosition(AsIndex, length) + (k - 1) * request.step
    /\ result # <<>> => IF Forward THEN result[Len(result)] < stop ELSE result[Len(result)] > stop

AgreeInv == SliceInv /\ Stepping /\ AnswersAgree

\* A bound of the layouts is the clamped bound of the loops.
LEMMA BoundIsClamped ==
  ASSUME NEW b \in Int, NEW default \in Int, NEW low \in Int, NEW high \in Int,
         length \in Nat, high - low = length
  PROVE  Index!Bound(Given(b), default, low, high)
           = IF b = Omitted THEN default ELSE Clamp(low, FromEnd(b), high)
<1>1. CASE b = Omitted
  BY <1>1 DEF Index!Bound, Given
<1>2. CASE b # Omitted
  <2>1. Given(b) = {b} /\ Given(b) # {}
    BY <1>2 DEF Given
  <2>2. (CHOOSE only \in {b} : TRUE) = b
    OBVIOUS
  <2>3. QED
    BY <1>2, <2>1, <2>2 DEF Index!Bound, Clamp, FromEnd
<1>3. QED
  BY <1>1, <1>2

\* The fields of the index a slice is.
LEMMA SliceIndex ==
  ASSUME IsSlice
  PROVE  /\ AsIndex.kind = "slice"
         /\ AsIndex.start = Given(request.start) /\ AsIndex.stop = Given(request.stop)
         /\ AsIndex.step = request.step
BY DEF AsIndex, Index!SliceOf

\* The loop enters at the first position and with the end that the layouts compute.
LEMMA ForwardEnds ==
  ASSUME TypeOK, StartForward
  PROVE  /\ i' = Index!FirstPosition(AsIndex, length) /\ i' \in Int
         /\ stop' = Index!EndPosition(AsIndex, length)
<1>1. length \in Nat /\ IsSlice /\ request.step > 0
  BY LengthType DEF TypeOK, StartForward, Forward
<1>2. request.start \in Int /\ request.stop \in Int
  BY <1>1, SliceRequest DEF TypeOK
<1>3. /\ i' = Clamp(0, FromEnd(GivenOr(request.start, 0)), length)
      /\ stop' = Clamp(0, FromEnd(GivenOr(request.stop, length)), length)
  BY DEF StartForward, EnterLoop
<1>4. /\ Index!FirstPosition(AsIndex, length) = Index!Bound(Given(request.start), 0, 0, length)
      /\ Index!EndPosition(AsIndex, length) = Index!Bound(Given(request.stop), length, 0, length)
  BY <1>1, SliceIndex DEF Index!FirstPosition, Index!EndPosition
<1>5. Clamp(0, FromEnd(0), length) = 0 /\ Clamp(0, FromEnd(length), length) = length
  BY <1>1 DEF Clamp, FromEnd
<1>6. /\ Index!Bound(Given(request.start), 0, 0, length)
           = IF request.start = Omitted THEN 0 ELSE Clamp(0, FromEnd(request.start), length)
      /\ Index!Bound(Given(request.stop), length, 0, length)
           = IF request.stop = Omitted THEN length ELSE Clamp(0, FromEnd(request.stop), length)
  BY <1>1, <1>2, BoundIsClamped
<1>7. FromEnd(GivenOr(request.start, 0)) \in Int
  BY <1>1, <1>2 DEF FromEnd, GivenOr
<1>8. i' \in Int
  BY <1>1, <1>3, <1>7, ClampBounds
<1>9. QED
  BY <1>3, <1>4, <1>5, <1>6, <1>8 DEF GivenOr

LEMMA BackwardEnds ==
  ASSUME TypeOK, StartBackward
  PROVE  /\ i' = Index!FirstPosition(AsIndex, length) /\ i' \in Int
         /\ stop' = Index!EndPosition(AsIndex, length)
<1>1. length \in Nat /\ IsSlice /\ request.step < 0
  BY LengthType DEF TypeOK, StartBackward
<1>2. request.start \in Int /\ request.stop \in Int /\ request.step \in Int
  BY <1>1, SliceRequest DEF TypeOK
<1>3. /\ i' = Clamp(-1, FromEnd(GivenOr(request.start, length - 1)), length - 1)
      /\ stop' = IF request.stop = Omitted THEN -1 ELSE Clamp(-1, FromEnd(request.stop), length - 1)
  BY DEF StartBackward, EnterLoop
<1>4. /\ Index!FirstPosition(AsIndex, length) = Index!Bound(Given(request.start), length - 1, -1, length - 1)
      /\ Index!EndPosition(AsIndex, length) = Index!Bound(Given(request.stop), -1, -1, length - 1)
  BY <1>1, <1>2, SliceIndex DEF Index!FirstPosition, Index!EndPosition
<1>5. Clamp(-1, FromEnd(length - 1), length - 1) = length - 1
  BY <1>1 DEF Clamp, FromEnd
<1>6. /\ Index!Bound(Given(request.start), length - 1, -1, length - 1)
           = IF request.start = Omitted THEN length - 1 ELSE Clamp(-1, FromEnd(request.start), length - 1)
      /\ Index!Bound(Given(request.stop), -1, -1, length - 1)
           = IF request.stop = Omitted THEN -1 ELSE Clamp(-1, FromEnd(request.stop), length - 1)
  BY <1>1, <1>2, BoundIsClamped
<1>7. FromEnd(GivenOr(request.start, length - 1)) \in Int
  BY <1>1, <1>2 DEF FromEnd, GivenOr
<1>8. i' \in Int
  BY <1>1, <1>3, <1>7, ClampBounds
<1>9. QED
  BY <1>3, <1>4, <1>5, <1>6, <1>8 DEF GivenOr

-----------------------------------------------------------------------------
\* A product grows with a factor.
LEMMA ProductGrows ==
  ASSUME NEW a \in Int, NEW b \in Int, a <= b, NEW p \in Nat
  PROVE  a * p <= b * p
<1>1. (b - a) * p >= 0 /\ (b - a) * p = b * p - a * p
  OBVIOUS
<1>2. QED
  BY <1>1

\* The rounds a loop needs to reach its end, step by step or by a division.
LEMMA RoundsNeeded ==
  ASSUME NEW reach \in Int, NEW pace \in Nat \ {0}, NEW n \in Nat,
         n * pace >= reach, n = 0 \/ (n - 1) * pace < reach
  PROVE  n = IF reach > 0 THEN (reach + pace - 1) \div pace ELSE 0
<1>1. CASE reach > 0
  <2> DEFINE q == (reach + pace - 1) \div pace
  <2>1. q \in Nat /\ q * pace <= reach + pace - 1 /\ reach + pace - 1 < (q + 1) * pace
    BY <1>1
  <2> HIDE DEF q
  <2>2. (q + 1) * pace = q * pace + pace /\ (n - 1) * pace = n * pace - pace
    BY <2>1
  <2>3. n >= q
    <3>1. SUFFICES ASSUME n + 1 <= q PROVE FALSE
      BY <2>1
    <3>2. (n + 1) * pace <= q * pace /\ (n + 1) * pace = n * pace + pace
      BY <2>1, <3>1, ProductGrows
    <3>3. n * pace \in Int /\ q * pace \in Int
      BY <2>1
    <3>4. QED
      BY <2>1, <3>2, <3>3
  <2>4. n <= q
    <3>1. SUFFICES ASSUME q + 1 <= n PROVE FALSE
      BY <2>1
    <3>2. (q + 1) * pace <= n * pace /\ n # 0
      BY <2>1, <3>1, ProductGrows
    <3>3. n * pace \in Int /\ q * pace \in Int
      BY <2>1
    <3>4. QED
      BY <2>1, <2>2, <3>2, <3>3
  <2>5. n = q
    BY <2>1, <2>3, <2>4
  <2>6. QED
    BY <1>1, <2>5 DEF q
<1>2. CASE reach <= 0
  <2>1. n = 0
    <3>1. SUFFICES ASSUME n - 1 >= 0 PROVE FALSE
      OBVIOUS
    <3>2. 0 * pace <= (n - 1) * pace /\ 0 * pace = 0 /\ (n - 1) * pace \in Int
      BY <3>1, ProductGrows
    <3>3. QED
      BY <1>2, <3>1, <3>2
  <2>2. QED
    BY <1>2, <2>1
<1>3. QED
  BY <1>1, <1>2

\* What a slice's loop has found, when it ends, are the positions of the closed form.
LEMMA SteppedIs ==
  ASSUME NEW start \in Int, NEW end \in Int, NEW step \in Int, step # 0, NEW found \in Seq(Int),
         \A k \in DOMAIN found : found[k] = start + (k - 1) * step,
         IF step > 0 THEN start + Len(found) * step >= end ELSE start + Len(found) * step <= end,
         found # <<>> => IF step > 0 THEN found[Len(found)] < end ELSE found[Len(found)] > end
  PROVE  found = Index!Stepped(start, end, step)
<1> DEFINE pace  == IF step > 0 THEN step ELSE -step
           reach == IF step > 0 THEN end - start ELSE start - end
           n     == Len(found)
<1>1. pace \in Nat \ {0} /\ reach \in Int /\ n \in Nat
  OBVIOUS
<1>2. n * step \in Int /\ (n - 1) * step \in Int
  BY <1>1
<1>3. n * pace >= reach
  <2>1. CASE step > 0
    BY <1>2, <2>1
  <2>2. CASE step < 0
    <3>1. n * (-step) = -(n * step)
      BY <1>1
    <3>2. QED
      BY <1>2, <2>2, <3>1
  <2>3. QED
    BY <2>1, <2>2
<1>4. n = 0 \/ (n - 1) * pace < reach
  <2>1. SUFFICES ASSUME n # 0 PROVE (n - 1) * pace < reach
    OBVIOUS
  <2>2. found # <<>> /\ n \in DOMAIN found
    BY <1>1, <2>1
  <2>3. found[n] = start + (n - 1) * step
    BY <2>2
  <2>4. CASE step > 0
    BY <1>2, <2>2, <2>3, <2>4
  <2>5. CASE step < 0
    <3>1. (n - 1) * (-step) = -((n - 1) * step)
      BY <1>1
    <3>2. start + (n - 1) * step > end
      BY <2>2, <2>3, <2>5
    <3>3. pace = -step /\ reach = start - end
      BY <2>5
    <3>4. -((n - 1) * step) < start - end
      BY <1>2, <3>2
    <3>5. QED
      BY <3>1, <3>3, <3>4
  <2>6. QED
    BY <2>4, <2>5
<1> HIDE DEF pace, reach
<1>5. n = IF reach > 0 THEN (reach + pace - 1) \div pace ELSE 0
  BY <1>1, <1>3, <1>4, RoundsNeeded
<1>6. Index!Stepped(start, end, step) = [k \in 1..n |-> start + (k - 1) * step]
  BY <1>5 DEF Index!Stepped, pace, reach
<1>7. found = [k \in 1..n |-> found[k]] /\ DOMAIN found = 1..n
  OBVIOUS
<1>8. QED
  BY <1>6, <1>7

LEMMA FirstIsInteger ==
  ASSUME TypeOK, IsSlice
  PROVE  Index!FirstPosition(AsIndex, length) \in Int
<1>1. length \in Nat /\ request.start \in Int /\ request.stop \in Int
  BY LengthType, SliceRequest DEF TypeOK
<1>2. /\ Index!Bound(Given(request.start), 0, 0, length)
           = IF request.start = Omitted THEN 0 ELSE Clamp(0, FromEnd(request.start), length)
      /\ Index!Bound(Given(request.start), length - 1, -1, length - 1)
           = IF request.start = Omitted THEN length - 1 ELSE Clamp(-1, FromEnd(request.start), length - 1)
  BY <1>1, BoundIsClamped
<1>3. FromEnd(request.start) \in Int
  BY <1>1 DEF FromEnd
<1>4. Clamp(0, FromEnd(request.start), length) \in Int /\ Clamp(-1, FromEnd(request.start), length - 1) \in Int
  BY <1>1, <1>3 DEF Clamp
<1>5. QED
  BY <1>1, <1>2, <1>4, SliceIndex DEF Index!FirstPosition

-----------------------------------------------------------------------------
\* What a state keeps while the request and the length stay as they are.
LEMMA IndexStays ==
  ASSUME UNCHANGED <<request, length>>
  PROVE  /\ AsIndex' = AsIndex
         /\ (Index!FirstPosition(AsIndex, length))' = Index!FirstPosition(AsIndex, length)
         /\ (Index!EndPosition(AsIndex, length))' = Index!EndPosition(AsIndex, length)
         /\ (Index!Refusal(AsIndex, length))' = Index!Refusal(AsIndex, length)
         /\ (Index!Positions(AsIndex, length))' = Index!Positions(AsIndex, length)
<1>1. AsIndex' = AsIndex /\ length' = length
  BY DEF AsIndex, IsSlice, Given
<1>2. QED
  BY <1>1

LEMMA SteppingPush ==
  ASSUME SliceInv, Stepping, PushPosition
  PROVE  Stepping'
<1>1. /\ TypeOK /\ SliceLoop /\ length \in Nat /\ IsSlice /\ pc = "loop" /\ Continues
      /\ UNCHANGED <<request, length, stop>>
      /\ result' = Append(result, AsSize(i)) /\ result \in Seq(Nat)
  BY LengthType DEF SliceInv, TypeOK, PushPosition
<1>2. SUFFICES ASSUME Fits
               PROVE  /\ stop' = Index!EndPosition(AsIndex, length)
                      /\ i' = Index!FirstPosition(AsIndex, length) + Len(result') * request.step
                      /\ \A k \in DOMAIN result' :
                           result'[k] = Index!FirstPosition(AsIndex, length) + (k - 1) * request.step
                      /\ IF Forward THEN result'[Len(result')] < stop
                                    ELSE result'[Len(result')] > stop
  BY <1>1, IndexStays, AskedStays DEF Stepping
<1> DEFINE first == Index!FirstPosition(AsIndex, length)
<1>3. /\ stop = Index!EndPosition(AsIndex, length)
      /\ i = first + Len(result) * request.step
      /\ \A k \in DOMAIN result : result[k] = first + (k - 1) * request.step
      /\ first \in Int
  BY <1>1, <1>2, FirstIsInteger DEF Stepping
<1> HIDE DEF first
<1>4. AsSize(i) = i /\ i' = i + request.step /\ i \in Nat
  <2>1. i \in Int
    BY <1>1, TopAssumption DEF TypeOK, Ptrdiff
  <2>2. QED
    BY <1>1, <1>2, <2>1, PushedPosition
<1>5. request.step \in Int
  BY <1>1, SliceRequest DEF TypeOK
<1>6. /\ Len(result') = Len(result) + 1 /\ Len(result) \in Nat
      /\ DOMAIN result' = DOMAIN result \cup {Len(result) + 1}
      /\ \A k \in DOMAIN result : result'[k] = result[k]
      /\ result'[Len(result) + 1] = i
  BY <1>1, <1>4
<1>7. i' = first + Len(result') * request.step
  <2>1. (Len(result) + 1) * request.step = Len(result) * request.step + request.step
    BY <1>5, <1>6
  <2>2. Len(result) * request.step \in Int
    BY <1>5, <1>6
  <2>3. QED
    BY <1>3, <1>4, <1>5, <1>6, <2>1, <2>2
<1>8. \A k \in DOMAIN result' : result'[k] = first + (k - 1) * request.step
  <2>1. SUFFICES ASSUME NEW k \in DOMAIN result'
                 PROVE  result'[k] = first + (k - 1) * request.step
    OBVIOUS
  <2>2. CASE k \in DOMAIN result
    BY <1>3, <1>6, <2>2
  <2>3. CASE k = Len(result) + 1
    <3>1. k - 1 = Len(result)
      BY <1>6, <2>3
    <3>2. QED
      BY <1>3, <1>6, <2>3, <3>1
  <2>4. QED
    BY <1>6, <2>1, <2>2, <2>3
<1>9. IF Forward THEN result'[Len(result')] < stop ELSE result'[Len(result')] > stop
  BY <1>1, <1>6 DEF Continues
<1>10. QED
  BY <1>1, <1>3, <1>7, <1>8, <1>9 DEF first

LEMMA SteppingStep ==
  ASSUME SliceInv, Stepping, [Next]_vars
  PROVE  Stepping'
<1>1. CASE StartForward
  <2>1. /\ UNCHANGED <<request, length, result>> /\ result = <<>> /\ TypeOK
    BY <1>1 DEF StartForward, EnterLoop, SliceInv, BeforeDone
  <2>2. Len(result) = 0 /\ DOMAIN result = {} /\ 0 * request.step = 0
    <3>1. request.step \in Int
      BY <1>1, <2>1, SliceRequest DEF TypeOK, StartForward
    <3>2. QED
      BY <2>1, <3>1
  <2>3. QED
    BY <1>1, <2>1, <2>2, ForwardEnds, IndexStays DEF Stepping
<1>2. CASE StartBackward
  <2>1. /\ UNCHANGED <<request, length, result>> /\ result = <<>> /\ TypeOK
    BY <1>2 DEF StartBackward, EnterLoop, SliceInv, BeforeDone
  <2>2. Len(result) = 0 /\ DOMAIN result = {} /\ 0 * request.step = 0
    <3>1. request.step \in Int
      BY <1>2, <2>1, SliceRequest DEF TypeOK, StartBackward
    <3>2. QED
      BY <2>1, <3>1
  <2>3. QED
    BY <1>2, <2>1, <2>2, BackwardEnds, IndexStays DEF Stepping
<1>3. CASE PushPosition
  BY <1>3, SteppingPush
<1>4. CASE RefuseStep \/ FinishSlice \/ RefuseInteger \/ FinishIntegers
  BY <1>4 DEF RefuseStep, FinishSlice, RefuseInteger, FinishIntegers, Return, Stepping
<1>5. CASE StartIntegers \/ PushInteger
  BY <1>5 DEF StartIntegers, EnterLoop, PushInteger, Stepping, IsSlice
<1>6. CASE UNCHANGED vars
  <2>1. /\ UNCHANGED <<request, length>> /\ i' = i /\ stop' = stop /\ result' = result
        /\ pc' = pc /\ request' = request
    BY <1>6 DEF vars
  <2>2. QED
    BY <2>1, AskedStays, IndexStays DEF Stepping
<1>7. QED
  BY <1>1, <1>2, <1>3, <1>4, <1>5, <1>6 DEF Next

\* A slice whose loop ends answers with the closed form.
LEMMA FinishAgrees ==
  ASSUME SliceInv, Stepping, FinishSlice, Fits
  PROVE  result = Index!Positions(AsIndex, length) /\ Index!Refusal(AsIndex, length) = "ok"
<1>1. /\ TypeOK /\ IsSlice /\ pc = "loop" /\ ~ Continues /\ length \in Nat
      /\ request.step # 0 /\ result \in Seq(Nat)
  BY LengthType DEF FinishSlice, SliceInv, SliceLoop, TypeOK
<1>2. request.step \in Int /\ request.start \in Int /\ request.stop \in Int /\ i \in Int /\ stop \in Int
  BY <1>1, SliceRequest, TopAssumption DEF TypeOK, Ptrdiff
<1> DEFINE first == Index!FirstPosition(AsIndex, length)
<1>3. /\ stop = Index!EndPosition(AsIndex, length)
      /\ i = first + Len(result) * request.step
      /\ \A k \in DOMAIN result : result[k] = first + (k - 1) * request.step
      /\ result # <<>> => IF Forward THEN result[Len(result)] < stop ELSE result[Len(result)] > stop
  BY <1>1 DEF Stepping
<1>4. first \in Int
  BY <1>1, FirstIsInteger
<1> HIDE DEF first
<1>5. IF request.step > 0 THEN i >= stop ELSE i <= stop
  BY <1>1, <1>2 DEF Continues, Forward
<1>6. result \in Seq(Int)
  BY <1>1
<1>7. result = Index!Stepped(first, stop, request.step)
  BY <1>1, <1>2, <1>3, <1>4, <1>5, <1>6, SteppedIs DEF Forward
<1>8. Index!Positions(AsIndex, length) = Index!Stepped(first, stop, request.step)
  BY <1>1, <1>3, SliceIndex DEF first, Index!Positions, Index!SlicePositions
<1>9. Index!Refusal(AsIndex, length) = "ok"
  BY <1>1, SliceIndex DEF Index!Refusal
<1>10. QED
  BY <1>7, <1>8, <1>9

LEMMA AgreementStep ==
  ASSUME SliceInv, Stepping, AnswersAgree, [Next]_vars
  PROVE  AnswersAgree'
<1>0. TypeOK /\ BeforeDone /\ IntegerLoop /\ length \in Nat
  BY LengthType DEF SliceInv, TypeOK
<1>1. CASE RefuseStep
  <2>1. IsSlice /\ request.step = 0 /\ UNCHANGED <<request, length>> /\ outcome' = "invalid_argument"
    BY <1>1 DEF RefuseStep, Return
  <2>2. Index!Refusal(AsIndex, length) = "invalid_argument"
    BY <2>1, SliceIndex DEF Index!Refusal
  <2>3. QED
    BY <2>1, <2>2, IndexStays DEF AnswersAgree
<1>2. CASE FinishSlice
  <2>1. UNCHANGED <<request, length, result>> /\ outcome' = "ok"
    BY <1>2 DEF FinishSlice, Return
  <2>2. QED
    BY <1>2, <2>1, FinishAgrees, IndexStays, AskedStays DEF AnswersAgree
<1>3. CASE PushPosition
  <2>1. Fits' => pc' = "loop"
    BY <1>0, <1>3, PushedPosition, AskedStays DEF PushPosition, SliceInv
  <2>2. QED
    BY <2>1 DEF AnswersAgree
<1>4. CASE StartForward \/ StartBackward \/ StartIntegers \/ PushInteger
  <2>1. pc' = "loop"
    BY <1>4 DEF StartForward, StartBackward, StartIntegers, EnterLoop, PushInteger
  <2>2. QED
    BY <2>1 DEF AnswersAgree
<1>5. CASE RefuseInteger \/ FinishIntegers
  <2>1. /\ ~ IsSlice /\ pc = "loop" /\ UNCHANGED <<request, length, result>> /\ result \in Seq(Nat)
        /\ stop = Len(request.values) + 1 /\ i \in 1..stop /\ Len(result) = i - 1
        /\ \A k \in 1..i-1 : Accepted(request.values[k]) /\ result[k] = FromEnd(request.values[k])
    BY <1>0, <1>5 DEF RefuseInteger, FinishIntegers, IntegerLoop, TypeOK
  <2>2. request.values \in Seq(Int) /\ \A k \in DOMAIN request.values : request.values[k] \in Int
    <3>1. request.values \in Seq(Int)
      BY <1>0, <2>1, IntegersRequest DEF TypeOK
    <3>2. QED
      BY <3>1
  <2>3. AsIndex.kind = "integers" /\ AsIndex.values = request.values
    BY <2>1 DEF AsIndex, Index!IntegersOf
  <2>4. \A k \in DOMAIN request.values :
          Accepted(request.values[k]) <=> -length <= request.values[k] /\ request.values[k] < length
    BY <1>0, <2>2 DEF Accepted, FromEnd
  <2>5. Index!Refusal(AsIndex, length)
          = IF \A k \in DOMAIN request.values : Accepted(request.values[k]) THEN "ok" ELSE "out_of_range"
    BY <2>3, <2>4 DEF Index!Refusal
  <2>6. CASE RefuseInteger
    <3>1. i \in DOMAIN request.values /\ ~ Accepted(request.values[i]) /\ outcome' = "out_of_range"
      BY <2>1, <2>2, <2>6 DEF RefuseInteger, Return
    <3>2. QED
      BY <2>1, <2>5, <3>1, IndexStays DEF AnswersAgree
  <2>7. CASE FinishIntegers
    <3>1. i - 1 = Len(request.values) /\ outcome' = "ok"
      BY <2>1, <2>2, <2>7 DEF FinishIntegers, Return
    <3>2. DOMAIN request.values = 1..i-1 /\ DOMAIN result = 1..i-1
      BY <2>1, <2>2, <3>1
    <3>3. Index!Refusal(AsIndex, length) = "ok"
      BY <2>1, <2>5, <3>2
    <3>4. result = [k \in DOMAIN request.values |-> Index!CountedFromFront(request.values[k], length)]
      <4>1. \A k \in 1..i-1 : result[k] = Index!CountedFromFront(request.values[k], length)
        BY <1>0, <2>1, <2>2, <3>2 DEF FromEnd, Index!CountedFromFront
      <4>2. result = [k \in 1..i-1 |-> result[k]]
        BY <2>1, <3>2
      <4>3. QED
        BY <3>2, <4>1, <4>2
    <3>5. result = Index!Positions(AsIndex, length)
      BY <2>3, <3>4 DEF Index!Positions, Index!IntegerPositions
    <3>6. QED
      BY <2>1, <3>1, <3>3, <3>5, IndexStays DEF AnswersAgree
  <2>8. QED
    BY <1>5, <2>6, <2>7
<1>6. CASE UNCHANGED vars
  <2>1. /\ UNCHANGED <<request, length>> /\ result' = result /\ request' = request
        /\ pc' = pc /\ outcome' = outcome
    BY <1>6 DEF vars
  <2>2. QED
    BY <2>1, AskedStays, IndexStays DEF AnswersAgree
<1>7. QED
  BY <1>1, <1>2, <1>3, <1>4, <1>5, <1>6 DEF Next

(***************************************************************************)
(* The loops of indices_for_slice and normalize_integer_array answer with  *)
(* the positions and the exceptions that the models of the layouts compute *)
(* in one step, for every width, length, bound, step that fits and integer *)
(* array: what is checked of the layouts holds of the loops.               *)
(***************************************************************************)
THEOREM LoopsAnswerAsIndexes == Spec => []AnswersAgree
<1>1. Init => AgreeInv
  BY SliceInvInit DEF AgreeInv, Stepping, AnswersAgree, Init
<1>2. AgreeInv /\ [Next]_vars => AgreeInv'
  BY SliceInvStep, SteppingStep, AgreementStep DEF AgreeInv
<1>3. AgreeInv => AnswersAgree
  BY DEF AgreeInv
<1>4. QED
  BY <1>1, <1>2, <1>3, PTL DEF Spec

-----------------------------------------------------------------------------
(***************************************************************************)
(* Where the layouts look: every slice and every integer array, on every   *)
(* dimension.  Masks are left to the runs.                                 *)
(***************************************************************************)
SliceBounds  == {{}} \cup {{b} : b \in Int}
SliceIndexes ==
  {Index!SliceOf(first, end, step) : first \in SliceBounds, end \in SliceBounds, step \in Int}
IndexesToTake == SliceIndexes \cup {Index!IntegersOf(values) : values \in Seq(Int)}

LEMMA BoundStaysBetween ==
  ASSUME NEW b \in SliceBounds, NEW default \in Int, NEW low \in Int, NEW high \in Int,
         low <= high, low <= default, default <= high
  PROVE  /\ Index!Bound(b, default, low, high) \in Int
         /\ low <= Index!Bound(b, default, low, high) /\ Index!Bound(b, default, low, high) <= high
<1>1. CASE b = {}
  BY <1>1 DEF Index!Bound
<1>2. CASE b # {}
  <2>1. PICK given \in Int : b = {given}
    BY <1>2 DEF SliceBounds
  <2>2. (CHOOSE only \in b : TRUE) = given
    BY <2>1
  <2> DEFINE front == IF given < 0 THEN given + high - low ELSE given
  <2>3. Index!Bound(b, default, low, high) = IF front < low THEN low ELSE IF front > high THEN high ELSE front
    BY <1>2, <2>2 DEF Index!Bound
  <2>4. front \in Int
    OBVIOUS
  <2> HIDE DEF front
  <2>5. QED
    BY <2>3, <2>4
<1>3. QED
  BY <1>1, <1>2

\* The k-th step of the closed form stops short of the end.
LEMMA StepStopsShort ==
  ASSUME NEW reach \in Int, reach > 0, NEW pace \in Nat \ {0},
         NEW k \in 1..((reach + pace - 1) \div pace)
  PROVE  (k - 1) * pace \in Nat /\ (k - 1) * pace < reach
<1> DEFINE q == (reach + pace - 1) \div pace
<1>1. q \in Nat /\ q * pace <= reach + pace - 1
  OBVIOUS
<1>2. k \in Int /\ 1 <= k /\ k <= q
  BY <1>1
<1> HIDE DEF q
<1>3. k * pace <= q * pace
  BY <1>1, <1>2, ProductGrows
<1>4. (k - 1) * pace = k * pace - pace /\ k * pace \in Int /\ q * pace \in Int
  BY <1>1, <1>2
<1>5. (k - 1) * pace \in Nat
  BY <1>2
<1>6. QED
  BY <1>1, <1>3, <1>4, <1>5

LEMMA SteppedBetween ==
  ASSUME NEW start \in Int, NEW end \in Int, NEW step \in Int, step # 0
  PROVE  LET p == Index!Stepped(start, end, step)
         IN  /\ p \in Seq(Int)
             /\ \A k \in DOMAIN p : IF step > 0 THEN start <= p[k] /\ p[k] < end
                                                ELSE end < p[k] /\ p[k] <= start
             /\ \A j, k \in DOMAIN p : p[j] = p[k] => j = k
<1> DEFINE pace  == IF step > 0 THEN step ELSE -step
           reach == IF step > 0 THEN end - start ELSE start - end
           n     == IF reach > 0 THEN (reach + pace - 1) \div pace ELSE 0
           p     == Index!Stepped(start, end, step)
<1>1. pace \in Nat \ {0} /\ reach \in Int
  OBVIOUS
<1>2. n \in Nat
  BY <1>1
<1>3. p = [k \in 1..n |-> start + (k - 1) * step]
  BY DEF Index!Stepped
<1> HIDE DEF p
<1>4. p \in Seq(Int) /\ DOMAIN p = 1..n
  BY <1>2, <1>3
<1>5. ASSUME NEW k \in 1..n
      PROVE  IF step > 0 THEN start <= p[k] /\ p[k] < end ELSE end < p[k] /\ p[k] <= start
  <2>1. reach > 0 /\ k \in 1..((reach + pace - 1) \div pace)
    BY <1>5
  <2>2. (k - 1) * pace \in Nat /\ (k - 1) * pace < reach
    BY <1>1, <2>1, StepStopsShort
  <2>3. p[k] = start + (k - 1) * step /\ k - 1 \in Int
    BY <1>3, <1>5, <1>2
  <2>4. CASE step > 0
    BY <2>2, <2>3, <2>4
  <2>5. CASE step < 0
    <3>1. (k - 1) * (-step) = -((k - 1) * step) /\ (k - 1) * step \in Int
      BY <2>3
    <3>2. pace = -step /\ reach = start - end
      BY <2>5
    <3>3. -((k - 1) * step) >= 0 /\ -((k - 1) * step) < start - end
      BY <2>2, <3>1, <3>2
    <3>4. QED
      BY <2>3, <2>5, <3>1, <3>3
  <2>6. QED
    BY <2>4, <2>5
<1>6. ASSUME NEW j \in 1..n, NEW k \in 1..n, p[j] = p[k]
      PROVE  j = k
  <2>1. j \in Int /\ k \in Int
    BY <1>2
  <2>2. (j - 1) * step = (k - 1) * step
    <3>1. (j - 1) * step \in Int /\ (k - 1) * step \in Int
      BY <2>1
    <3>2. QED
      BY <1>3, <1>6, <3>1
  <2>3. (j - 1) * step - (k - 1) * step = (j - k) * step
    BY <2>1
  <2>4. (j - k) * step = 0
    BY <2>1, <2>2, <2>3
  <2>5. QED
    BY <2>1, <2>4
<1>7. QED
  BY <1>4, <1>5, <1>6 DEF p

LEMMA RestrictedSeq ==
  ASSUME NEW T, NEW p \in Seq(Int), \A k \in DOMAIN p : p[k] \in T
  PROVE  p \in Seq(T)
<1>1. p = [k \in 1..Len(p) |-> p[k]] /\ Len(p) \in Nat
  OBVIOUS
<1>2. \A k \in 1..Len(p) : p[k] \in T
  OBVIOUS
<1>3. QED
  BY <1>1, <1>2

\* What is picked at positions of a sequence are its elements.
LEMMA PickStays ==
  ASSUME NEW T, NEW s \in Seq(T), NEW p \in Seq(0..Len(s)-1)
  PROVE  Index!Pick(s, p) \in Seq(T)
<1>1. \A k \in 1..Len(p) : p[k] + 1 \in 1..Len(s)
  OBVIOUS
<1>2. \A k \in 1..Len(p) : s[p[k] + 1] \in T
  BY <1>1
<1>3. Index!Pick(s, p) = [k \in 1..Len(p) |-> s[p[k] + 1]]
  BY DEF Index!Pick
<1>4. QED
  BY <1>2, <1>3

(***************************************************************************)
(* Whatever slice or integer array is accepted, on a dimension of any      *)
(* size: the layouts look only at positions of the dimension, and a slice  *)
(* selects none of them twice (indices_for_slice, normalize_integer).      *)
(***************************************************************************)
THEOREM PositionsStayInside ==
  ASSUME NEW n \in Nat, NEW x \in IndexesToTake, Index!Refusal(x, n) = "ok"
  PROVE  /\ Index!Positions(x, n) \in Seq(0..n-1)
         /\ x \in SliceIndexes =>
              \A j, k \in DOMAIN Index!Positions(x, n) :
                Index!Positions(x, n)[j] = Index!Positions(x, n)[k] => j = k
<1>1. CASE x \in SliceIndexes
  <2>1. PICK start \in SliceBounds, stp \in SliceBounds, step \in Int : x = Index!SliceOf(start, stp, step)
    BY <1>1 DEF SliceIndexes
  <2>2. x.kind = "slice" /\ x.start = start /\ x.stop = stp /\ x.step = step
    BY <2>1 DEF Index!SliceOf
  <2>3. step # 0
    BY <2>2 DEF Index!Refusal
  <2> DEFINE first == Index!FirstPosition(x, n)
             end   == Index!EndPosition(x, n)
             p     == Index!Stepped(first, end, step)
  <2>4. Index!Positions(x, n) = p
    BY <2>2 DEF Index!Positions, Index!SlicePositions
  <2>5. /\ first \in Int /\ end \in Int
        /\ IF step > 0 THEN 0 <= first /\ end <= n ELSE first <= n - 1 /\ -1 <= end
    <3>1. CASE step > 0
      <4>1. first = Index!Bound(start, 0, 0, n) /\ end = Index!Bound(stp, n, 0, n)
        BY <2>2, <3>1 DEF Index!FirstPosition, Index!EndPosition
      <4>2. first \in Int /\ 0 <= first
        BY <4>1, BoundStaysBetween
      <4>3. end \in Int /\ end <= n
        BY <4>1, BoundStaysBetween
      <4>4. QED
        BY <3>1, <4>2, <4>3
    <3>2. CASE ~ (step > 0)
      <4>1. first = Index!Bound(start, n - 1, -1, n - 1) /\ end = Index!Bound(stp, -1, -1, n - 1)
        BY <2>2, <3>2 DEF Index!FirstPosition, Index!EndPosition
      <4>2. n - 1 \in Int /\ -1 \in Int /\ -1 <= n - 1
        OBVIOUS
      <4>3. first \in Int /\ first <= n - 1
        BY <4>1, <4>2, BoundStaysBetween
      <4>4. end \in Int /\ -1 <= end
        BY <4>1, <4>2, BoundStaysBetween
      <4>5. QED
        BY <3>2, <4>3, <4>4
    <3>3. QED
      BY <3>1, <3>2
  <2> HIDE DEF first, end
  <2>6. /\ p \in Seq(Int)
        /\ \A k \in DOMAIN p : IF step > 0 THEN first <= p[k] /\ p[k] < end
                                           ELSE end < p[k] /\ p[k] <= first
        /\ \A j, k \in DOMAIN p : p[j] = p[k] => j = k
    BY <2>3, <2>5, SteppedBetween
  <2> HIDE DEF p
  <2>7. \A k \in DOMAIN p : p[k] \in Int
    BY <2>6
  <2>8. \A k \in DOMAIN p : p[k] \in 0..n-1
    BY <2>5, <2>6, <2>7
  <2>9. p \in Seq(0..n-1)
    BY <2>6, <2>8, RestrictedSeq
  <2>10. QED
    BY <2>4, <2>6, <2>9
<1>2. CASE x \notin SliceIndexes
  <2>1. PICK values \in Seq(Int) : x = Index!IntegersOf(values)
    BY <1>2 DEF IndexesToTake
  <2>2. x.kind = "integers" /\ x.values = values
    BY <2>1 DEF Index!IntegersOf
  <2>3. \A k \in DOMAIN values : -n <= values[k] /\ values[k] < n
    BY <2>2 DEF Index!Refusal
  <2> DEFINE p == Index!Positions(x, n)
  <2>4. p = [k \in 1..Len(values) |-> Index!CountedFromFront(values[k], n)]
    BY <2>2 DEF Index!Positions, Index!IntegerPositions
  <2>5. \A k \in 1..Len(values) : Index!CountedFromFront(values[k], n) \in 0..n-1
    BY <2>3 DEF Index!CountedFromFront
  <2> HIDE DEF p
  <2>6. p \in Seq(0..n-1)
    BY <2>4, <2>5
  <2>7. QED
    BY <1>2, <2>6 DEF p
<1>3. QED
  BY <1>1, <1>2

(***************************************************************************)
(* An index into the rows of a list layout, and one into each row that it  *)
(* chooses, look only at what the rows hold: with rows inside a content,   *)
(* everything a selection refers to is inside it (take_rows, slice_rows,   *)
(* slice_inner, take_inner).                                               *)
(***************************************************************************)
THEOREM SelectionsStayInRows ==
  ASSUME NEW S, NEW rows \in Seq(Seq(S)), NEW x \in IndexesToTake, NEW y \in IndexesToTake,
         Index!Refusal(x, Len(rows)) = "ok"
  PROVE  LET chosen == Index!Pick(rows, Index!Positions(x, Len(rows)))
         IN  /\ chosen \in Seq(Seq(S))
             /\ \A k \in DOMAIN chosen :
                  Index!Refusal(y, Len(chosen[k])) = "ok" =>
                    Index!Pick(chosen[k], Index!Positions(y, Len(chosen[k]))) \in Seq(S)
<1> DEFINE chosen == Index!Pick(rows, Index!Positions(x, Len(rows)))
<1>1. Index!Positions(x, Len(rows)) \in Seq(0..Len(rows)-1)
  BY PositionsStayInside
<1>2. chosen \in Seq(Seq(S))
  BY <1>1, PickStays
<1> HIDE DEF chosen
<1>3. ASSUME NEW k \in DOMAIN chosen, Index!Refusal(y, Len(chosen[k])) = "ok"
      PROVE  Index!Pick(chosen[k], Index!Positions(y, Len(chosen[k]))) \in Seq(S)
  <2>1. chosen[k] \in Seq(S)
    BY <1>2
  <2>2. Index!Positions(y, Len(chosen[k])) \in Seq(0..Len(chosen[k])-1)
    BY <1>3, <2>1, PositionsStayInside
  <2>3. QED
    BY <2>1, <2>2, PickStays
<1>4. QED
  BY <1>2, <1>3 DEF chosen

-----------------------------------------------------------------------------
(***************************************************************************)
(* Rows of a list layout.                                                  *)
(***************************************************************************)
LEMMA SpanStays ==
  ASSUME NEW n \in Nat, NEW a \in Nat, NEW b \in Int, b <= n
  PROVE  Index!Span(a, b) \in Seq(0..n-1)
<1>1. \A k \in 1..(b - a) : a + k - 1 \in 0..n-1
  OBVIOUS
<1>2. Index!Span(a, b) = [k \in 1..(b - a) |-> a + k - 1]
  BY DEF Index!Span
<1>3. CASE b - a \in Nat
  BY <1>1, <1>2, <1>3
<1>4. CASE b - a < 0
  <2>1. 1..(b - a) = 1..0
    BY <1>4
  <2>2. Index!Span(a, b) = [k \in 1..0 |-> a + k - 1]
    BY <1>2, <2>1
  <2>3. QED
    BY <2>2
<1>5. QED
  BY <1>3, <1>4

(***************************************************************************)
(* A node that validate() accepts has all of its rows inside its content,  *)
(* whichever class of lists it is of: the row loops of to_list, take,      *)
(* flatten and num read without a further check.                           *)
(***************************************************************************)
THEOREM SoundRowsStayInContent ==
  ASSUME NEW n \in Nat
  PROVE  /\ \A offsets \in Seq(Int) : Index!SoundOffsets(offsets, n) =>
              \A r \in 0..Len(offsets)-2 : Index!OffsetRow(offsets, r) \in Seq(0..n-1)
         /\ \A starts \in Seq(Nat), stops \in Seq(Nat) : Index!SoundRanges(starts, stops, n) =>
              \A r \in 0..Len(starts)-1 : Index!RangeRow(starts, stops, r) \in Seq(0..n-1)
         /\ \A size \in Nat, count \in Nat : count * size = n =>
              \A r \in 0..count-1 : Index!RegularRow(size, r) \in Seq(0..n-1)
<1>1. ASSUME NEW offsets \in Seq(Int), Index!SoundOffsets(offsets, n), NEW r \in 0..Len(offsets)-2
      PROVE  Index!OffsetRow(offsets, r) \in Seq(0..n-1)
  <2>1. /\ 1 \in DOMAIN offsets /\ r + 1 \in DOMAIN offsets /\ r + 2 \in DOMAIN offsets
        /\ Len(offsets) \in DOMAIN offsets /\ r \in Int
    BY <1>1
  <2>2. /\ offsets[1] = 0 /\ offsets[Len(offsets)] = n
        /\ \A a, b \in DOMAIN offsets : a <= b => offsets[a] <= offsets[b]
    BY <1>1 DEF Index!SoundOffsets, Index!Last
  <2>3. /\ offsets[r + 1] \in Int /\ offsets[r + 2] \in Int
        /\ offsets[1] <= offsets[r + 1] /\ offsets[r + 2] <= offsets[Len(offsets)]
    <3>1. 1 <= r + 1 /\ r + 2 <= Len(offsets)
      BY <1>1
    <3>2. QED
      BY <2>1, <2>2, <3>1
  <2> DEFINE a == offsets[r + 1]
             b == offsets[r + 2]
  <2>4. Index!OffsetRow(offsets, r) = Index!Span(a, b)
    BY DEF Index!OffsetRow
  <2>5. a \in Nat /\ b \in Int /\ b <= n
    BY <2>2, <2>3
  <2> HIDE DEF a, b
  <2>6. QED
    BY <2>4, <2>5, SpanStays
<1>2. ASSUME NEW starts \in Seq(Nat), NEW stops \in Seq(Nat), Index!SoundRanges(starts, stops, n),
             NEW r \in 0..Len(starts)-1
      PROVE  Index!RangeRow(starts, stops, r) \in Seq(0..n-1)
  <2>1. r + 1 \in DOMAIN starts /\ r + 1 \in DOMAIN stops
    BY <1>2 DEF Index!SoundRanges
  <2>2. starts[r + 1] \in Nat /\ stops[r + 1] \in Nat /\ stops[r + 1] <= n
    BY <1>2, <2>1 DEF Index!SoundRanges
  <2> DEFINE a == starts[r + 1]
             b == stops[r + 1]
  <2>3. Index!RangeRow(starts, stops, r) = Index!Span(a, b)
    BY DEF Index!RangeRow
  <2>4. a \in Nat /\ b \in Int /\ b <= n
    BY <2>2
  <2> HIDE DEF a, b
  <2>5. QED
    BY <2>3, <2>4, SpanStays
<1>3. ASSUME NEW size \in Nat, NEW count \in Nat, count * size = n, NEW r \in 0..count-1
      PROVE  Index!RegularRow(size, r) \in Seq(0..n-1)
  <2>1. r \in Nat /\ r + 1 \in Int /\ r + 1 <= count
    BY <1>3
  <2>2. (r + 1) * size <= count * size
    BY <2>1, ProductGrows
  <2>3. r * size \in Nat /\ (r + 1) * size \in Int /\ (r + 1) * size <= n
    BY <1>3, <2>1, <2>2
  <2>4. QED
    BY <2>3, SpanStays DEF Index!RegularRow
<1>4. QED
  BY <1>1, <1>2, <1>3

-----------------------------------------------------------------------------
(***************************************************************************)
(* Rows put one after the other, with offsets between them.                *)
(***************************************************************************)
\* The first k rows, one after the other.
Laid(rows, k) == FlattenSeq(SubSeq(rows, 1, k))

LEMMA FlattenIsFlatten ==
  ASSUME NEW parts
  PROVE  Index!FlattenSeq(parts) = FlattenSeq(parts)
BY DEF Index!FlattenSeq, FlattenSeq

\* One row more is put behind the others.
LEMMA LaidStep ==
  ASSUME NEW S, NEW rows \in Seq(Seq(S)), NEW k \in 1..Len(rows)
  PROVE  /\ Laid(rows, k-1) \in Seq(S) /\ Laid(rows, k) \in Seq(S)
         /\ Laid(rows, k) = Laid(rows, k-1) \o rows[k]
         /\ Len(Laid(rows, k)) = Len(Laid(rows, k-1)) + Len(rows[k])
<1> DEFINE before == SubSeq(rows, 1, k-1)
<1>1. before \in Seq(Seq(S)) /\ SubSeq(rows, 1, k) \in Seq(Seq(S)) /\ rows[k] \in Seq(S)
  OBVIOUS
<1>2. SubSeq(rows, 1, k) = Append(before, rows[k])
  OBVIOUS
<1> HIDE DEF before
<1>3. FlattenSeq(Append(before, rows[k])) = FlattenSeq(before) \o rows[k]
  BY <1>1, FlattenAppend
<1>4. FlattenSeq(before) \in Seq(S) /\ FlattenSeq(SubSeq(rows, 1, k)) \in Seq(S)
  BY <1>1, FlattenType
<1>5. /\ Laid(rows, k-1) = FlattenSeq(before) /\ Laid(rows, k) = FlattenSeq(before) \o rows[k]
      /\ Laid(rows, k) \in Seq(S)
  BY <1>2, <1>3, <1>4 DEF Laid, before
<1>6. Len(FlattenSeq(before) \o rows[k]) = Len(FlattenSeq(before)) + Len(rows[k])
  BY <1>1, <1>4
<1>7. QED
  BY <1>4, <1>5, <1>6

LEMMA LaidEnds ==
  ASSUME NEW S, NEW rows \in Seq(Seq(S))
  PROVE  Laid(rows, 0) = <<>> /\ Laid(rows, Len(rows)) = FlattenSeq(rows)
<1>1. SubSeq(rows, 1, 0) = <<>> /\ SubSeq(rows, 1, Len(rows)) = rows
  OBVIOUS
<1>2. QED
  BY <1>1, FlattenEmpty DEF Laid

\* What has been laid stays where it is.
LEMMA LaidStays ==
  ASSUME NEW S, NEW rows \in Seq(Seq(S)), NEW k \in 0..Len(rows)
  PROVE  \A m \in k..Len(rows) :
           /\ Laid(rows, m) \in Seq(S)
           /\ Len(Laid(rows, k)) <= Len(Laid(rows, m))
           /\ \A p \in 1..Len(Laid(rows, k)) : Laid(rows, m)[p] = Laid(rows, k)[p]
<1> DEFINE Stays(m) == /\ Laid(rows, m) \in Seq(S)
                       /\ Len(Laid(rows, k)) <= Len(Laid(rows, m))
                       /\ \A p \in 1..Len(Laid(rows, k)) : Laid(rows, m)[p] = Laid(rows, k)[p]
           n == Len(rows) - k
           T == {m \in 0..n : Stays(k + m)}
<1>1. n \in Nat /\ k \in Nat
  OBVIOUS
<1>2. Laid(rows, k) \in Seq(S)
  <2>1. SubSeq(rows, 1, k) \in Seq(Seq(S))
    OBVIOUS
  <2>2. QED
    BY <2>1, FlattenType DEF Laid
<1>3. 0 \in T
  <2>1. k + 0 = k /\ Stays(k)
    BY <1>2
  <2>2. QED
    BY <1>1, <2>1
<1>4. ASSUME NEW m \in 1..n, m - 1 \in T PROVE m \in T
  <2>1. k + m \in 1..Len(rows) /\ (k + m) - 1 = k + (m - 1) /\ m \in 0..n
    BY <1>1
  <2>2. Stays(k + (m - 1))
    BY <1>4
  <2> DEFINE old == Laid(rows, (k + m) - 1)
             new == Laid(rows, k + m)
             row == rows[k + m]
  <2>3. old \in Seq(S) /\ new \in Seq(S) /\ new = old \o row /\ Len(new) = Len(old) + Len(row)
    BY <2>1, LaidStep
  <2>4. row \in Seq(S)
    BY <2>1
  <2>5. /\ Len(Laid(rows, k)) <= Len(old)
        /\ \A p \in 1..Len(Laid(rows, k)) : old[p] = Laid(rows, k)[p]
    BY <2>1, <2>2
  <2> HIDE DEF old, new, row
  <2>6. Len(Laid(rows, k)) \in Nat /\ Len(old) \in Nat /\ Len(row) \in Nat
    BY <1>2, <2>3, <2>4
  <2>7. \A p \in 1..Len(old) : new[p] = old[p]
    BY <2>3, <2>4
  <2>8. Len(Laid(rows, k)) <= Len(new)
    BY <2>3, <2>5, <2>6
  <2>9. \A p \in 1..Len(Laid(rows, k)) : new[p] = Laid(rows, k)[p]
    BY <2>5, <2>6, <2>7
  <2>10. Stays(k + m)
    BY <2>3, <2>8, <2>9 DEF new
  <2>11. QED
    BY <2>1, <2>10
<1> HIDE DEF T, Stays, n
<1>5. \A m \in 0..n : m \in T
  BY <1>1, <1>3, <1>4, UpTo
<1>6. \A m \in 0..n : Stays(k + m)
  BY <1>5 DEF T
<1>7. ASSUME NEW m \in k..Len(rows) PROVE Stays(m)
  <2>1. m - k \in 0..n /\ k + (m - k) = m
    BY DEF n
  <2>2. QED
    BY <1>6, <2>1
<1>8. QED
  BY <1>7 DEF Stays

(***************************************************************************)
(* Rows put one after the other with the offsets between them make a node  *)
(* that validate() accepts, and its rows are those that were put there:    *)
(* what the collecting loops of select_rows, select_inner_slice and        *)
(* select_inner_array leave, for any number of rows of any lengths.        *)
(***************************************************************************)
THEOREM CollectedRowsComeBack ==
  ASSUME NEW S, NEW rows \in Seq(Seq(S))
  PROVE  LET offsets == Index!OffsetsOf(rows)
             content == Index!FlattenSeq(rows)
         IN  /\ content \in Seq(S)
             /\ Index!SoundOffsets(offsets, Len(content))
             /\ Len(offsets) = Len(rows) + 1
             /\ \A r \in 0..Len(rows)-1 :
                  Index!Pick(content, Index!OffsetRow(offsets, r)) = rows[r + 1]
<1> DEFINE offsets == Index!OffsetsOf(rows)
           content == Index!FlattenSeq(rows)
           n       == Len(rows)
<1>1. n \in Nat
  OBVIOUS
<1>2. content = Laid(rows, n) /\ content \in Seq(S)
  BY FlattenIsFlatten, LaidEnds, FlattenType
<1>3. offsets = [k \in 1..n+1 |-> Len(Laid(rows, k-1))]
  BY FlattenIsFlatten DEF Index!OffsetsOf, Laid
<1>4. /\ DOMAIN offsets = 1..n+1 /\ Len(offsets) = n + 1
      /\ \A k \in 1..n+1 : offsets[k] = Len(Laid(rows, k-1))
  BY <1>1, <1>3
<1> HIDE DEF offsets, content
<1>5. \A k \in 0..n : Laid(rows, k) \in Seq(S)
  BY <1>1, LaidStays DEF n
<1>6. Index!SoundOffsets(offsets, Len(content))
  <2>1. offsets # <<>>
    BY <1>1, <1>4
  <2>2. offsets[1] = 0
    <3>1. 1 \in 1..n+1 /\ 1 - 1 = 0
      BY <1>1
    <3>2. Laid(rows, 0) = <<>>
      BY LaidEnds
    <3>3. QED
      BY <1>4, <3>1, <3>2
  <2>3. ASSUME NEW a \in 1..n+1, NEW b \in 1..n+1, a <= b PROVE offsets[a] <= offsets[b]
    <3>1. a - 1 \in 0..n /\ b - 1 \in (a-1)..n
      BY <1>1, <2>3
    <3>2. Len(Laid(rows, a-1)) <= Len(Laid(rows, b-1))
      BY <3>1, LaidStays DEF n
    <3>3. QED
      BY <1>4, <3>2
  <2>4. Index!Last(offsets) = Len(content)
    <3>1. n + 1 \in 1..n+1 /\ (n + 1) - 1 = n
      BY <1>1
    <3>2. QED
      BY <1>2, <1>4, <3>1 DEF Index!Last
  <2>5. QED
    BY <1>4, <2>1, <2>2, <2>3, <2>4 DEF Index!SoundOffsets
<1>7. ASSUME NEW r \in 0..n-1
      PROVE  Index!Pick(content, Index!OffsetRow(offsets, r)) = rows[r + 1]
  <2> DEFINE row    == rows[r + 1]
             before == Laid(rows, r)
             after  == Laid(rows, r + 1)
  <2>1. r + 1 \in 1..n /\ (r + 1) - 1 = r /\ (r + 2) - 1 = r + 1
        /\ r + 1 \in 1..n+1 /\ r + 2 \in 1..n+1
    BY <1>1
  <2>2. /\ before \in Seq(S) /\ after \in Seq(S) /\ row \in Seq(S)
        /\ after = before \o row /\ Len(after) = Len(before) + Len(row)
    <3>1. row \in Seq(S)
      BY <2>1
    <3>2. QED
      BY <2>1, <3>1, LaidStep DEF n
  <2>3. offsets[r + 1] = Len(before) /\ offsets[r + 2] = Len(after)
    BY <1>4, <2>1
  <2>4. \A p \in 1..Len(after) : content[p] = after[p]
    <3>1. r + 1 \in 0..n /\ n \in (r+1)..n
      BY <1>1, <2>1
    <3>2. QED
      BY <1>2, <3>1, LaidStays DEF n
  <2> HIDE DEF before, after, row
  <2>5. Len(before) \in Nat /\ Len(row) \in Nat /\ Len(after) - Len(before) = Len(row)
    BY <2>2
  <2>6. Index!OffsetRow(offsets, r) = [k \in 1..Len(row) |-> Len(before) + k - 1]
    BY <2>3, <2>5 DEF Index!OffsetRow, Index!Span
  <2>7. ASSUME NEW k \in 1..Len(row) PROVE content[(Len(before) + k - 1) + 1] = row[k]
    <3>1. (Len(before) + k - 1) + 1 = Len(before) + k /\ Len(before) + k \in 1..Len(after)
      BY <2>5
    <3>2. after[Len(before) + k] = row[k]
      BY <2>2, <2>5
    <3>3. QED
      BY <2>4, <3>1, <3>2
  <2>8. Index!Pick(content, Index!OffsetRow(offsets, r)) = [k \in 1..Len(row) |-> row[k]]
    BY <2>6, <2>7 DEF Index!Pick
  <2>9. row = [k \in 1..Len(row) |-> row[k]]
    BY <2>2
  <2>10. QED
    BY <2>8, <2>9 DEF row
<1>8. QED
  BY <1>2, <1>4, <1>6, <1>7 DEF offsets, content

(***************************************************************************)
(* A selection from a list layout whose rows lie in a content of n values, *)
(* by an index into the rows and one into each row chosen, makes a node    *)
(* that lies in that content as well: the constructors that its loops end  *)
(* in, which validate, cannot refuse it.                                   *)
(***************************************************************************)
THEOREM SelectedListsAreSound ==
  ASSUME NEW n \in Nat, NEW rows \in Seq(Seq(0..n-1)),
         NEW x \in IndexesToTake, NEW y \in IndexesToTake,
         Index!Refusal(x, Len(rows)) = "ok"
  PROVE  LET chosen == Index!Pick(rows, Index!Positions(x, Len(rows)))
             picked == [k \in DOMAIN chosen |->
                          Index!Pick(chosen[k], Index!Positions(y, Len(chosen[k])))]
             index  == Index!FlattenSeq(picked)
         IN  (\A k \in DOMAIN chosen : Index!Refusal(y, Len(chosen[k])) = "ok") =>
               /\ Index!SoundIndex(index, n)
               /\ Index!SoundOffsets(Index!OffsetsOf(picked), Len(index))
<1> DEFINE chosen == Index!Pick(rows, Index!Positions(x, Len(rows)))
           picked == [k \in DOMAIN chosen |->
                        Index!Pick(chosen[k], Index!Positions(y, Len(chosen[k])))]
           index  == Index!FlattenSeq(picked)
           S      == 0..n-1
<1>1. SUFFICES ASSUME \A k \in DOMAIN chosen : Index!Refusal(y, Len(chosen[k])) = "ok"
               PROVE  /\ Index!SoundIndex(index, n)
                      /\ Index!SoundOffsets(Index!OffsetsOf(picked), Len(index))
  OBVIOUS
<1>2. /\ chosen \in Seq(Seq(S))
      /\ \A k \in DOMAIN chosen :
           Index!Refusal(y, Len(chosen[k])) = "ok" =>
             Index!Pick(chosen[k], Index!Positions(y, Len(chosen[k]))) \in Seq(S)
  <2> HIDE DEF S
  <2>1. rows \in Seq(Seq(S))
    BY DEF S
  <2>2. QED
    BY <2>1, SelectionsStayInRows
<1> HIDE DEF chosen, S
<1>3. \A k \in 1..Len(chosen) : Index!Pick(chosen[k], Index!Positions(y, Len(chosen[k]))) \in Seq(S)
  BY <1>1, <1>2
<1>4. picked = [k \in 1..Len(chosen) |-> Index!Pick(chosen[k], Index!Positions(y, Len(chosen[k])))]
  BY <1>2
<1>5. picked \in Seq(Seq(S))
  BY <1>2, <1>3, <1>4
<1> HIDE DEF picked
<1>6. index \in Seq(S) /\ Index!SoundOffsets(Index!OffsetsOf(picked), Len(index))
  BY <1>5, CollectedRowsComeBack
<1> HIDE DEF index
<1>7. \A k \in DOMAIN index : index[k] \in S
  BY <1>6
<1>8. Index!SoundIndex(index, n)
  BY <1>7 DEF Index!SoundIndex, S
<1>9. QED
  BY <1>6, <1>8

(***************************************************************************)
(* Taking positions of a list, indexed or option node, whose starts, stops *)
(* or index are picked and whose content is shared, leaves it sound: the   *)
(* take_rows of those classes cannot be refused by the constructor.        *)
(***************************************************************************)
THEOREM TakenNodesStaySound ==
  ASSUME NEW n \in Nat, NEW m \in Nat, NEW p \in Seq(0..m-1)
  PROVE  /\ \A index \in Seq(Int) : Len(index) = m =>
              /\ Index!SoundIndex(index, n) => Index!SoundIndex(Index!Pick(index, p), n)
              /\ Index!SoundOptionIndex(index, n) => Index!SoundOptionIndex(Index!Pick(index, p), n)
         /\ \A starts \in Seq(Nat), stops \in Seq(Nat) :
              Len(starts) = m /\ Index!SoundRanges(starts, stops, n) =>
                Index!SoundRanges(Index!Pick(starts, p), Index!Pick(stops, p), n)
<1>1. \A k \in DOMAIN p : p[k] + 1 \in 1..m
  OBVIOUS
<1>2. /\ \A s : DOMAIN Index!Pick(s, p) = DOMAIN p
      /\ \A s : \A k \in DOMAIN p : Index!Pick(s, p)[k] = s[p[k] + 1]
  BY DEF Index!Pick
<1>3. ASSUME NEW index \in Seq(Int), Len(index) = m
      PROVE  /\ Index!SoundIndex(index, n) => Index!SoundIndex(Index!Pick(index, p), n)
             /\ Index!SoundOptionIndex(index, n) => Index!SoundOptionIndex(Index!Pick(index, p), n)
  <2>1. DOMAIN index = 1..m
    BY <1>3
  <2>2. QED
    BY <1>1, <1>2, <2>1 DEF Index!SoundIndex, Index!SoundOptionIndex
<1>4. ASSUME NEW starts \in Seq(Nat), NEW stops \in Seq(Nat),
             Len(starts) = m, Index!SoundRanges(starts, stops, n)
      PROVE  Index!SoundRanges(Index!Pick(starts, p), Index!Pick(stops, p), n)
  <2>1. DOMAIN starts = 1..m
    BY <1>4
  <2>2. \A s : Index!Pick(s, p) = [k \in 1..Len(p) |-> s[p[k] + 1]]
    BY DEF Index!Pick
  <2>3. Len(Index!Pick(starts, p)) = Len(p) /\ Len(Index!Pick(stops, p)) = Len(p)
    BY <2>2
  <2>4. QED
    BY <1>1, <1>2, <1>4, <2>1, <2>3 DEF Index!SoundRanges
<1>5. QED
  BY <1>3, <1>4
=============================================================================

--------------------------- MODULE DeviceSizeProofs ---------------------------
(***************************************************************************)
(* The search of compute_device_size finds an end, for every device and     *)
(* every choice of the steps.                                               *)
(***************************************************************************)
EXTENDS DeviceSize, TLAPS

(* What is known of the bounds.  The last block read in the doubling is     *)
(* itself the lower bound, and the block that could not be read the upper;  *)
(* once the bisection has moved a bound, it is the neighbour of such a      *)
(* block.  A bound of the first kind is never crossed.                      *)
LowerBound == l = 0 \/ l - 1 \in readable \/ (l \in readable /\ l <= r)

UpperBound == r + 1 \notin readable \/ (r \notin readable /\ l <= r) \/ r >= Cap

(* The block read last is next to the bound that it moved. *)
LastRead ==
  pc = "searching" /\ l > r =>
    /\ l = r + 1
    /\ valid => l = x + 1
    /\ ~ valid => l = x

SearchInv ==
  /\ TypeOK
  /\ pc = "doubling" => l < r /\ (l = 0 \/ l \in readable)
  /\ pc = "searching" => l <= r + 1 /\ LowerBound /\ UpperBound
  /\ LastRead
  /\ ResultIsAnEnd

(* The bounds before the first block is read.                               *)
LEMMA SearchInit == Init => SearchInv
<1> SUFFICES ASSUME Init
             PROVE  SearchInv
  OBVIOUS
<1>1. valid \in BOOLEAN /\ readable \in Devices
  BY DEF Init
<1>2. pc = "doubling" /\ l = 0 /\ r \in Nat /\ r > 0 /\ x = 0
  BY StepsAssumption DEF Init
<1> QED
  BY <1>1, <1>2 DEF SearchInv, TypeOK, LastRead, ResultIsAnEnd

(* Every step of the routine keeps what is known of the bounds.             *)
LEMMA SearchStep == SearchInv /\ [Next]_vars => SearchInv'
<1> SUFFICES ASSUME SearchInv, [Next]_vars
             PROVE  SearchInv'
  OBVIOUS
<1> USE DevicesAssumption, StepsAssumption
<1>1. l \in Nat /\ r \in Nat /\ x \in Nat
  BY DEF SearchInv, TypeOK
<1>2. CASE NoBuffer
  BY <1>1, <1>2 DEF NoBuffer, SearchInv, TypeOK, LastRead, ResultIsAnEnd
<1>3. CASE Double
  <2> DEFINE s == IF r <= First THEN r * Factor ELSE r * 2
  <2>1. r > 0 /\ l < r /\ r \in readable /\ r' = s /\ l' = r
    BY <1>1, <1>3 DEF Double, SearchInv
  <2>2. s \in Nat /\ s > r
    <3>1. r * Factor \in Nat /\ r * Factor >= r * 2
      BY <1>1
    <3> QED
      BY <1>1, <2>1, <3>1
  <2> HIDE DEF s
  <2>3. TypeOK'
    BY <1>1, <1>3, <2>1, <2>2 DEF Double, SearchInv, TypeOK
  <2>4. pc' = "searching" => LowerBound' /\ UpperBound'
    BY <1>1, <1>3, <2>1, <2>2 DEF Double, LowerBound, UpperBound, s
  <2> QED
    BY <1>1, <1>3, <2>1, <2>2, <2>3, <2>4
    DEF Double, SearchInv, LastRead, ResultIsAnEnd
<1>4. CASE OffTheEnd
  BY <1>1, <1>4
  DEF OffTheEnd, SearchInv, TypeOK, LowerBound, UpperBound, LastRead, ResultIsAnEnd
<1>5. CASE Bisect
  <2> DEFINE mid == (l + r) \div 2
  <2>1. mid \in Nat /\ l <= mid /\ mid <= r /\ l <= r /\ pc = "searching"
    BY <1>1, <1>5 DEF Bisect
  <2>2. x' = mid /\ readable' = readable /\ valid' = (mid \in readable)
    BY <1>5 DEF Bisect
  <2>3. LowerBound /\ UpperBound
    BY <2>1 DEF SearchInv
  <2>4. /\ valid' => l' = mid + 1 /\ r' = r /\ pc' = pc
        /\ ~ valid' /\ mid > 0 => l' = l /\ r' = mid - 1 /\ pc' = pc
        /\ ~ valid' /\ ~ (mid > 0) => l' = l /\ r' = r /\ pc' = "done"
    BY <1>5, <2>2 DEF Bisect
  <2> HIDE DEF mid
  <2>5. valid' \in BOOLEAN /\ readable' \in Devices
    BY <2>2 DEF SearchInv, TypeOK
  <2>6. CASE valid'
    <3>1. mid \in readable /\ l' = mid + 1 /\ r' = r /\ pc' = pc
      BY <2>2, <2>4, <2>6
    <3>2. l' - 1 = mid /\ l' \in Nat /\ r' \in Nat
      BY <1>1, <2>1, <3>1
    <3>3. l' <= r' + 1 /\ (l' > r' => l' = r' + 1 /\ l' = x' + 1)
      BY <1>1, <2>1, <2>2, <3>1
    <3>4. LowerBound'
      BY <2>2, <3>1, <3>2 DEF LowerBound
    <3>5. UpperBound'
      <4>1. CASE r + 1 \notin readable \/ r >= Cap
        BY <2>2, <3>1, <4>1 DEF UpperBound
      <4>2. CASE r \notin readable /\ l <= r
        <5>1. mid # r
          BY <3>1, <4>2
        <5>2. l' <= r'
          BY <1>1, <2>1, <3>1, <5>1
        <5> QED
          BY <2>2, <3>1, <4>2, <5>2 DEF UpperBound
      <4> QED
        BY <2>3, <4>1, <4>2 DEF UpperBound
    <3>6. TypeOK'
      BY <2>1, <2>2, <2>5, <3>1, <3>2 DEF SearchInv, TypeOK
    <3>7. LastRead'
      BY <2>6, <3>3 DEF LastRead
    <3> QED
      BY <2>1, <3>1, <3>3, <3>4, <3>5, <3>6, <3>7 DEF SearchInv, ResultIsAnEnd
  <2>7. CASE ~ valid' /\ mid > 0
    <3>1. mid \notin readable /\ l' = l /\ r' = mid - 1 /\ pc' = pc
      BY <2>2, <2>4, <2>7
    <3>2. r' + 1 = mid /\ l' \in Nat /\ r' \in Nat
      BY <1>1, <2>1, <2>7, <3>1
    <3>3. l' <= r' + 1 /\ (l' > r' => l' = r' + 1 /\ l' = x')
      BY <1>1, <2>1, <2>2, <2>7, <3>1
    <3>4. LowerBound'
      <4>1. CASE l = 0 \/ l - 1 \in readable
        BY <2>2, <3>1, <4>1 DEF LowerBound
      <4>2. CASE l \in readable /\ l <= r
        <5>1. mid # l
          BY <3>1, <4>2
        <5>2. l' <= r'
          BY <1>1, <2>1, <3>1, <5>1
        <5> QED
          BY <2>2, <3>1, <4>2, <5>2 DEF LowerBound
      <4> QED
        BY <2>3, <4>1, <4>2 DEF LowerBound
    <3>5. UpperBound'
      BY <2>2, <3>1, <3>2 DEF UpperBound
    <3>6. TypeOK'
      BY <2>1, <2>2, <2>5, <3>1, <3>2 DEF SearchInv, TypeOK
    <3>7. LastRead'
      BY <2>7, <3>3 DEF LastRead
    <3> QED
      BY <2>1, <3>1, <3>3, <3>4, <3>5, <3>6, <3>7 DEF SearchInv, ResultIsAnEnd
  <2>8. CASE ~ valid' /\ ~ (mid > 0)
    <3>0. ~ (mid > 0) => mid = 0
      BY <2>1
    <3>1. mid \notin readable /\ mid = 0 /\ l' = l /\ r' = r /\ pc' = "done"
      BY <2>2, <2>4, <2>8, <3>0, Zenon
    <3>2. TypeOK'
      BY <1>1, <2>1, <2>2, <2>5, <3>1 DEF TypeOK
    <3> QED
      BY <2>2, <3>1, <3>2 DEF SearchInv, LastRead, ResultIsAnEnd
  <2> QED
    BY <2>6, <2>7, <2>8
<1>6. CASE Finish
  <2>1. pc = "searching" /\ l > r /\ l = r + 1
    BY <1>6 DEF Finish, SearchInv, LastRead
  <2>2. x' = l /\ pc' = "done" /\ UNCHANGED <<readable, l, r, valid>>
    BY <1>1, <1>6, <2>1 DEF Finish, SearchInv, LastRead
  <2>3. LowerBound /\ UpperBound
    BY <2>1 DEF SearchInv
  <2>4. ResultIsAnEnd'
    BY <1>1, <2>1, <2>2, <2>3 DEF ResultIsAnEnd, LowerBound, UpperBound
  <2> QED
    BY <1>1, <2>2, <2>4 DEF SearchInv, TypeOK, LastRead
<1>7. CASE UNCHANGED vars
  BY <1>7
  DEF vars, SearchInv, TypeOK, LowerBound, UpperBound, LastRead, ResultIsAnEnd
<1> QED
  BY <1>2, <1>3, <1>4, <1>5, <1>6, <1>7 DEF Next

THEOREM SearchInvariant == Spec => []SearchInv
<1> QED
  BY SearchInit, SearchStep, PTL DEF Spec

(* Whatever compute_device_size returns is an end of what can be read: bad  *)
(* blocks may move it, but never to the middle of readable or unreadable    *)
(* blocks.                                                                  *)
THEOREM FindsAnEnd == Spec => []ResultIsAnEnd
<1>1. SearchInv => ResultIsAnEnd
  BY DEF SearchInv
<1> QED
  BY <1>1, SearchInvariant, PTL

=============================================================================

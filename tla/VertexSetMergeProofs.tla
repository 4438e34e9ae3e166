------------------------ MODULE VertexSetMergeProofs ------------------------
(***************************************************************************)
(* Proofs about VertexSetMerge: for all sorted lists, bounds and ancestors *)
(* the merge loops stay inside their arrays, never overwrite an element    *)
(* that is still to be read, and return exactly what they are asked for.   *)
(***************************************************************************)
EXTENDS VertexSetMerge, TLAPS

-----------------------------------------------------------------------------
(* The inductive invariant.                                                *)

Sorted == Ascending(a0, set_size) /\ Ascending(b, other_size)

\* Every result is a wanted element that has been read.
OutSound ==
  \A i \in 0 .. n_out - 1 :
    \E l \in 0 .. idx_l - 1 : Result(i) = a0[l] /\ Wanted(a0[l])

\* Every wanted element that has been read is a result.
OutComplete ==
  \A l \in 0 .. idx_l - 1 :
    Wanted(a0[l]) => \E i \in 0 .. n_out - 1 : Result(i) = a0[l]

OutSorted == \A i, k \in 0 .. n_out - 1 : i < k => Result(i) < Result(k)

\* In the first loop what one side has passed is below what the other still
\* has to read.
Frontier ==
  phase = "merge" =>
    /\ \A r \in 0 .. idx_r - 1 : \A l \in idx_l .. set_size - 1 : b[r] < a0[l]
    /\ \A l \in 0 .. idx_l - 1 : \A r \in idx_r .. other_size - 1 : a0[l] < b[r]

\* In the second loop other has none of the elements left below the bound.
TailFact ==
  phase = "tail" =>
    /\ op = "difference"
    /\ \A l \in idx_l .. set_size - 1 : a0[l] < upper => ~InOther(a0[l])

\* After the loops no wanted element is left.
DoneFact ==
  phase = "done" => \A l \in idx_l .. set_size - 1 : ~Wanted(a0[l])

OutInv == WriteBehindRead /\ OutSound /\ OutComplete /\ OutSorted

IInv == TypeOK /\ Sorted /\ OutInv /\ Frontier /\ TailFact /\ DoneFact

-----------------------------------------------------------------------------
\* A call starts with nothing read and nothing written.
LEMMA InitIInv == Init => IInv
  <1> SUFFICES ASSUME Init PROVE IInv
    OBVIOUS
  <1>1. TypeOK
    BY ValuesAssumption, BoundsAssumption, MaxLenAssumption DEF Init, TypeOK, ArgsType
  <1>2. Sorted
    BY DEF Init, Sorted
  <1>3. OutInv
    BY <1>1 DEF Init, OutInv, WriteBehindRead, OutSound, OutComplete, OutSorted, TypeOK
  <1>4. Frontier /\ TailFact /\ DoneFact
    BY <1>1 DEF Init, Frontier, TailFact, DoneFact, TypeOK
  <1> QED BY <1>1, <1>2, <1>3, <1>4 DEF IInv

\* Reading one more element, and storing it exactly when it is wanted, keeps
\* what is known of the results: the store is below every unread element.
LEMMA Consume ==
  ASSUME TypeOK, Sorted, OutInv, UNCHANGED args,
         idx_l < set_size, idx_l' = idx_l + 1,
         \/ Wanted(a0[idx_l]) /\ Emit(a0[idx_l])
         \/ ~Wanted(a0[idx_l]) /\ Drop
  PROVE  /\ OutInv'
         /\ a' \in [0 .. set_size - 1 -> Values]
         /\ out' \in [0 .. set_size - 1 -> Values \cup {Unset}]
         /\ n_out' \in Nat
  <1>1. /\ set_size \in Nat /\ idx_l \in Nat /\ n_out \in Nat /\ n_out <= idx_l
        /\ a0 \in [0 .. set_size - 1 -> Values]
        /\ a \in [0 .. set_size - 1 -> Values]
        /\ out \in [0 .. set_size - 1 -> Values \cup {Unset}]
        /\ idx_l \in 0 .. set_size - 1 /\ n_out \in 0 .. set_size - 1
    BY DEF TypeOK, ArgsType, OutInv, WriteBehindRead
  <1>2. \A x : Wanted(x)' <=> Wanted(x)
    BY DEF Wanted, InOther, args
  <1>3. a0' = a0 /\ set_size' = set_size /\ place' = place
    BY DEF args
  <1>4. \A i \in 0 .. n_out - 1 : Result(i)' = Result(i)
    BY <1>1, <1>3 DEF Result, Emit, Drop
  <1>5. /\ a' \in [0 .. set_size - 1 -> Values]
        /\ out' \in [0 .. set_size - 1 -> Values \cup {Unset}]
        /\ n_out' \in Nat
    BY <1>1 DEF Emit, Drop
  <1>6. WriteBehindRead'
    <2>1. n_out' <= idx_l'
      BY <1>1 DEF Emit, Drop
    <2>2. \A i \in idx_l + 1 .. set_size - 1 : a'[i] = a[i]
      BY <1>1 DEF Emit, Drop
    <2>3. \A i \in idx_l .. set_size - 1 : a[i] = a0[i]
      BY DEF OutInv, WriteBehindRead
    <2> QED BY <1>1, <1>3, <2>1, <2>2, <2>3 DEF WriteBehindRead
  <1>7. CASE ~Wanted(a0[idx_l]) /\ Drop
    <2>1. n_out' = n_out
      BY <1>7 DEF Drop
    <2>2. OutSound'
      BY <1>1, <1>2, <1>3, <1>4, <2>1 DEF OutInv, OutSound
    <2>3. OutComplete'
      BY <1>1, <1>2, <1>3, <1>4, <1>7, <2>1 DEF OutInv, OutComplete
    <2>4. OutSorted'
      BY <1>4, <2>1 DEF OutInv, OutSorted
    <2> QED BY <1>5, <1>6, <2>2, <2>3, <2>4 DEF OutInv
  <1>8. CASE Wanted(a0[idx_l]) /\ Emit(a0[idx_l])
    <2>1. n_out' = n_out + 1
      BY <1>8 DEF Emit
    <2>2. ASSUME NEW i, i = n_out PROVE Result(i)' = a0[idx_l]
      <3>1. CASE place = "own"
        BY <1>1, <1>3, <1>8, <2>2, <3>1 DEF Result, Emit
      <3>2. CASE place # "own"
        BY <1>1, <1>3, <1>8, <2>2, <3>2 DEF Result, Emit
      <3> QED BY <3>1, <3>2
    <2>3. OutSound'
      <3> SUFFICES ASSUME NEW i \in 0 .. n_out
                   PROVE  \E l \in 0 .. idx_l : Result(i)' = a0[l] /\ Wanted(a0[l])
        BY <1>1, <1>2, <1>3, <2>1 DEF OutSound
      <3>1. CASE i = n_out
        BY <1>1, <1>8, <2>2, <3>1
      <3>2. CASE i \in 0 .. n_out - 1
        BY <1>1, <1>4, <3>2 DEF OutInv, OutSound
      <3> QED BY <1>1, <3>1, <3>2
    <2>4. OutComplete'
      <3> SUFFICES ASSUME NEW l \in 0 .. idx_l, Wanted(a0[l])
                   PROVE  \E i \in 0 .. n_out : Result(i)' = a0[l]
        BY <1>1, <1>2, <1>3, <2>1 DEF OutComplete
      <3>1. CASE l = idx_l
        BY <1>1, <2>2, <3>1
      <3>2. CASE l \in 0 .. idx_l - 1
        BY <1>1, <1>4, <3>2 DEF OutInv, OutComplete
      <3> QED BY <1>1, <3>1, <3>2
    <2>5. OutSorted'
      <3> SUFFICES ASSUME NEW i \in 0 .. n_out, NEW k \in 0 .. n_out, i < k
                   PROVE  Result(i)' < Result(k)'
        BY <1>1, <2>1 DEF OutSorted
      <3>1. i \in 0 .. n_out - 1
        BY <1>1
      <3>2. CASE k = n_out
        <4>1. PICK l \in 0 .. idx_l - 1 : Result(i) = a0[l]
          BY <3>1 DEF OutInv, OutSound
        <4>2. a0[l] < a0[idx_l]
          BY <1>1 DEF Sorted, Ascending
        <4> QED BY <1>4, <2>2, <3>1, <3>2, <4>1, <4>2
      <3>3. CASE k \in 0 .. n_out - 1
        BY <1>4, <3>1, <3>3 DEF OutInv, OutSorted
      <3> QED BY <1>1, <3>2, <3>3
    <2> QED BY <1>5, <1>6, <2>3, <2>4, <2>5 DEF OutInv
  <1> QED BY <1>7, <1>8

\* What the proofs of the actions use of the types.
LEMMA Facts ==
  ASSUME IInv
  PROVE  /\ set_size \in Nat /\ other_size \in Nat /\ upper \in Nat
         /\ idx_l \in 0 .. set_size /\ idx_r \in 0 .. other_size
         /\ \A l \in 0 .. set_size - 1 : a0[l] \in Nat
         /\ \A r \in 0 .. other_size - 1 : b[r] \in Nat
         /\ op \in {"intersect", "difference"}
  <1>1. TypeOK /\ ArgsType
    BY DEF IInv, TypeOK
  <1>2. a0 \in [0 .. set_size - 1 -> Values] /\ b \in [0 .. other_size - 1 -> Values]
    BY <1>1 DEF ArgsType
  <1>3. /\ \A l \in 0 .. set_size - 1 : a0[l] \in Nat
        /\ \A r \in 0 .. other_size - 1 : b[r] \in Nat
    BY <1>2, ValuesAssumption
  <1> QED BY <1>1, <1>3 DEF TypeOK, ArgsType

\* In the first loop the element that is passed on the left is stored exactly
\* when it is wanted: other has it only as its current element.
LEMMA MergeDecides ==
  ASSUME IInv, phase = "merge", InLoop, a[idx_l] <= b[idx_r]
  PROVE  Wants(a[idx_l], b[idx_r]) <=> Wanted(a0[idx_l])
  <1>1. /\ set_size \in Nat /\ other_size \in Nat
        /\ idx_l \in 0 .. set_size - 1 /\ idx_r \in 0 .. other_size - 1
        /\ \A l \in 0 .. set_size - 1 : a0[l] \in Nat
        /\ \A r \in 0 .. other_size - 1 : b[r] \in Nat
        /\ op \in {"intersect", "difference"}
    BY Facts DEF InLoop
  <1>2. a[idx_l] = a0[idx_l]
    BY <1>1 DEF IInv, OutInv, WriteBehindRead
  <1>3. a0[idx_l] < upper
    BY <1>2 DEF InLoop
  <1>4. InOther(a0[idx_l]) <=> a0[idx_l] = b[idx_r]
    <2>1. \A r \in 0 .. idx_r - 1 : b[r] < a0[idx_l]
      BY <1>1 DEF IInv, Frontier
    <2>2. \A r \in idx_r + 1 .. other_size - 1 : b[idx_r] < b[r]
      BY <1>1 DEF IInv, Sorted, Ascending
    <2>3. a0[idx_l] <= b[idx_r]
      BY <1>2
    <2> SUFFICES ASSUME NEW r \in 0 .. other_size - 1, b[r] = a0[idx_l]
                 PROVE  a0[idx_l] = b[idx_r]
      BY <1>1 DEF InOther
    <2>4. ~(r < idx_r)
      BY <1>1, <2>1
    <2>5. ~(r > idx_r)
      BY <1>1, <2>2, <2>3
    <2> QED BY <1>1, <2>4, <2>5
  <1> QED BY <1>1, <1>2, <1>3, <1>4 DEF Wants, Wanted

\* An iteration of the first loop keeps the invariant.
LEMMA MergePreserves == IInv /\ Merge => IInv'
  <1> SUFFICES ASSUME IInv, Merge PROVE IInv'
    OBVIOUS
  <1> DEFINE left == a[idx_l]
             right == b[idx_r]
  <1>1. /\ set_size \in Nat /\ other_size \in Nat
        /\ idx_l \in 0 .. set_size - 1 /\ idx_r \in 0 .. other_size - 1
        /\ \A l \in 0 .. set_size - 1 : a0[l] \in Nat
        /\ \A r \in 0 .. other_size - 1 : b[r] \in Nat
    BY Facts DEF Merge, InLoop
  <1>2. left = a0[idx_l]
    BY <1>1 DEF IInv, OutInv, WriteBehindRead
  <1>3. UNCHANGED args /\ phase = "merge" /\ phase' = "merge" /\ InLoop
    BY DEF Merge
  <1>4. Advance(left, right)
    BY DEF Merge
  <1>5. ArgsType' /\ Sorted'
    BY <1>3 DEF args, IInv, TypeOK, ArgsType, Sorted, Ascending
  <1>6. OutInv' /\ /\ a' \in [0 .. set_size - 1 -> Values]
                   /\ out' \in [0 .. set_size - 1 -> Values \cup {Unset}]
                   /\ n_out' \in Nat
    <2>1. CASE left <= right
      <3>1. idx_l' = idx_l + 1
        BY <1>4, <2>1 DEF Advance
      <3>2. Wants(left, right) <=> Wanted(a0[idx_l])
        BY <1>3, <2>1, MergeDecides
      <3>3. \/ Wanted(a0[idx_l]) /\ Emit(a0[idx_l])
            \/ ~Wanted(a0[idx_l]) /\ Drop
        BY <1>2, <3>2 DEF Merge
      <3> QED BY <1>1, <1>3, <3>1, <3>3, Consume DEF IInv
    <2>2. CASE ~(left <= right)
      <3>1. idx_l' = idx_l
        BY <1>4, <2>2 DEF Advance
      <3>2. ~Wants(left, right)
        BY <1>1, <1>2, <2>2 DEF Wants
      <3>3. Drop
        BY <3>2 DEF Merge
      <3>4. OutInv'
        BY <1>3, <3>1, <3>3 DEF IInv, OutInv, WriteBehindRead, OutSound, OutComplete,
             OutSorted, Result, Wanted, InOther, Drop, args
      <3> QED BY <3>3, <3>4 DEF IInv, TypeOK, Drop
    <2> QED BY <2>1, <2>2
  <1>7. idx_l' \in 0 .. set_size /\ idx_r' \in 0 .. other_size
    BY <1>1, <1>4 DEF Advance
  <1>8. TypeOK'
    BY <1>3, <1>5, <1>6, <1>7 DEF TypeOK, args
  <1>9. Frontier'
    <2>1. \A r \in 0 .. idx_r' - 1 : \A l \in idx_l' .. set_size - 1 : b[r] < a0[l]
      <3> SUFFICES ASSUME NEW r \in 0 .. idx_r' - 1, NEW l \in idx_l' .. set_size - 1
                   PROVE  b[r] < a0[l]
        OBVIOUS
      <3>1. l \in idx_l .. set_size - 1
        BY <1>1, <1>4 DEF Advance
      <3>2. CASE r \in 0 .. idx_r - 1
        BY <1>3, <3>1, <3>2 DEF IInv, Frontier
      <3>3. CASE r \notin 0 .. idx_r - 1
        <4>1. r = idx_r /\ right <= left
          BY <1>1, <1>4, <3>3 DEF Advance
        <4>2. left = right => l # idx_l
          BY <1>1, <1>2, <1>4 DEF Advance
        <4>3. l # idx_l => a0[idx_l] < a0[l]
          BY <1>1, <3>1 DEF IInv, Sorted, Ascending
        <4>4. a0[l] \in Nat /\ a0[idx_l] \in Nat /\ b[idx_r] \in Nat
          BY <1>1, <3>1
        <4> QED BY <1>2, <4>1, <4>2, <4>3, <4>4
      <3> QED BY <3>2, <3>3
    <2>2. \A l \in 0 .. idx_l' - 1 : \A r \in idx_r' .. other_size - 1 : a0[l] < b[r]
      <3> SUFFICES ASSUME NEW l \in 0 .. idx_l' - 1, NEW r \in idx_r' .. other_size - 1
                   PROVE  a0[l] < b[r]
        OBVIOUS
      <3>1. r \in idx_r .. other_size - 1
        BY <1>1, <1>4 DEF Advance
      <3>2. CASE l \in 0 .. idx_l - 1
        BY <1>3, <3>1, <3>2 DEF IInv, Frontier
      <3>3. CASE l \notin 0 .. idx_l - 1
        <4>1. l = idx_l /\ left <= right
          BY <1>1, <1>4, <3>3 DEF Advance
        <4>2. left = right => r # idx_r
          BY <1>1, <1>2, <1>4 DEF Advance
        <4>3. r # idx_r => b[idx_r] < b[r]
          BY <1>1, <3>1 DEF IInv, Sorted, Ascending
        <4>4. b[r] \in Nat /\ a0[idx_l] \in Nat /\ b[idx_r] \in Nat
          BY <1>1, <3>1
        <4> QED BY <1>2, <4>1, <4>2, <4>3, <4>4
      <3> QED BY <3>2, <3>3
    <2> QED BY <1>3, <2>1, <2>2 DEF Frontier, args
  <1>10. TailFact' /\ DoneFact'
    BY <1>3 DEF TailFact, DoneFact
  <1> QED BY <1>5, <1>6, <1>8, <1>9, <1>10 DEF IInv

\* Leaving the first loop keeps the invariant: what other still has, or has had,
\* decides about none of the elements left below the bound.
LEMMA MergeEndPreserves == IInv /\ MergeEnd => IInv'
  <1> SUFFICES ASSUME IInv, MergeEnd PROVE IInv'
    OBVIOUS
  <1>1. /\ set_size \in Nat /\ other_size \in Nat /\ upper \in Nat
        /\ idx_l \in 0 .. set_size /\ idx_r \in 0 .. other_size
        /\ \A l \in 0 .. set_size - 1 : a0[l] \in Nat
        /\ \A r \in 0 .. other_size - 1 : b[r] \in Nat
        /\ op \in {"intersect", "difference"}
    BY Facts
  <1>2. UNCHANGED <<args, a, idx_l, idx_r, out, n_out>> /\ phase = "merge" /\ ~InLoop
    BY DEF MergeEnd
  <1>3. phase' = IF op = "difference" THEN "tail" ELSE "done"
    BY DEF MergeEnd
  <1>4. TypeOK' /\ Sorted'
    BY <1>2, <1>3 DEF IInv, TypeOK, ArgsType, Sorted, Ascending, args
  <1>5. OutInv'
    BY <1>2 DEF IInv, OutInv, WriteBehindRead, OutSound, OutComplete,
         OutSorted, Result, Wanted, InOther, args
  <1>6. Frontier'
    BY <1>3 DEF Frontier
  <1>7. \A l \in idx_l .. set_size - 1 : a0[l] < upper => ~InOther(a0[l])
    <2> SUFFICES ASSUME NEW l \in idx_l .. set_size - 1, a0[l] < upper,
                        NEW r \in 0 .. other_size - 1, b[r] = a0[l]
                 PROVE  FALSE
      BY DEF InOther
    <2>1. ~(r < idx_r)
      BY <1>1, <1>2 DEF IInv, Frontier
    <2>2. a[idx_l] = a0[idx_l] /\ idx_l \in 0 .. set_size - 1 /\ idx_r \in 0 .. other_size - 1
      BY <1>1, <2>1 DEF IInv, OutInv, WriteBehindRead
    <2>3. a0[idx_l] <= a0[l]
      BY <1>1, <2>2 DEF IInv, Sorted, Ascending
    <2>4. b[idx_r] <= b[r]
      BY <1>1, <2>1, <2>2 DEF IInv, Sorted, Ascending
    <2>5. a0[idx_l] < upper /\ b[idx_r] < upper
      <3>1. a0[l] \in Nat /\ a0[idx_l] \in Nat /\ b[idx_r] \in Nat
        BY <1>1, <2>2
      <3> QED BY <1>1, <2>3, <2>4, <3>1
    <2> QED BY <1>1, <1>2, <2>2, <2>5 DEF InLoop
  <1>8. TailFact'
    BY <1>2, <1>3, <1>7 DEF TailFact, InOther, args
  <1>9. DoneFact'
    <2> SUFFICES ASSUME op = "intersect", NEW l \in idx_l .. set_size - 1
                 PROVE  ~Wanted(a0[l])
      BY <1>1, <1>2, <1>3 DEF DoneFact, Wanted, InOther, args
    <2> QED BY <1>7 DEF Wanted
  <1> QED BY <1>4, <1>5, <1>6, <1>8, <1>9 DEF IInv

\* An iteration of the second loop of difference keeps the invariant.
LEMMA TailPreserves == IInv /\ Tail => IInv'
  <1> SUFFICES ASSUME IInv, Tail PROVE IInv'
    OBVIOUS
  <1>1. /\ set_size \in Nat /\ idx_l \in 0 .. set_size - 1
    BY DEF IInv, TypeOK, ArgsType, Tail, InTail
  <1>2. UNCHANGED args /\ phase = "tail" /\ phase' = "tail" /\ idx_l' = idx_l + 1 /\ idx_r' = idx_r
    BY DEF Tail
  <1>3. a[idx_l] = a0[idx_l]
    BY <1>1 DEF IInv, OutInv, WriteBehindRead
  <1>4. op = "difference" /\ ~InOther(a0[idx_l])
    BY <1>1, <1>2, <1>3 DEF IInv, TailFact, Tail, InTail
  <1>5. \/ Wanted(a0[idx_l]) /\ Emit(a0[idx_l])
        \/ ~Wanted(a0[idx_l]) /\ Drop
    BY <1>3, <1>4 DEF Tail, InTail, Wanted
  <1>6. OutInv' /\ /\ a' \in [0 .. set_size - 1 -> Values]
                   /\ out' \in [0 .. set_size - 1 -> Values \cup {Unset}]
                   /\ n_out' \in Nat
    BY <1>1, <1>2, <1>5, Consume DEF IInv
  <1>7. ArgsType' /\ Sorted'
    BY <1>2 DEF args, IInv, TypeOK, ArgsType, Sorted, Ascending
  <1>8. TypeOK'
    BY <1>1, <1>2, <1>6, <1>7 DEF IInv, TypeOK, args
  <1>9. Frontier' /\ DoneFact'
    BY <1>2 DEF Frontier, DoneFact
  <1>10. TailFact'
    BY <1>1, <1>2, <1>4 DEF IInv, TailFact, InOther, args
  <1> QED BY <1>6, <1>7, <1>8, <1>9, <1>10 DEF IInv

\* The end of the second loop keeps the invariant: the rest is at the bound.
LEMMA TailEndPreserves == IInv /\ TailEnd => IInv'
  <1> SUFFICES ASSUME IInv, TailEnd PROVE IInv'
    OBVIOUS
  <1>1. /\ set_size \in Nat /\ upper \in Nat /\ idx_l \in 0 .. set_size
        /\ \A l \in 0 .. set_size - 1 : a0[l] \in Nat
    BY Facts
  <1>2. UNCHANGED <<args, a, idx_l, idx_r, out, n_out>> /\ phase = "tail" /\ phase' = "done" /\ ~InTail
    BY DEF TailEnd
  <1>3. TypeOK' /\ Sorted'
    BY <1>2 DEF IInv, TypeOK, ArgsType, Sorted, Ascending, args
  <1>4. OutInv'
    BY <1>2 DEF IInv, OutInv, WriteBehindRead, OutSound, OutComplete,
         OutSorted, Result, Wanted, InOther, args
  <1>5. Frontier' /\ TailFact'
    BY <1>2 DEF Frontier, TailFact
  <1>6. DoneFact'
    <2> SUFFICES ASSUME NEW l \in idx_l .. set_size - 1
                 PROVE  ~Wanted(a0[l])
      BY <1>2 DEF DoneFact, Wanted, InOther, args
    <2>1. idx_l \in 0 .. set_size - 1 /\ a[idx_l] = a0[idx_l]
      BY <1>1 DEF IInv, OutInv, WriteBehindRead
    <2>2. a0[idx_l] <= a0[l]
      BY <1>1, <2>1 DEF IInv, Sorted, Ascending
    <2>3. ~(a0[l] < upper)
      BY <1>1, <1>2, <2>1, <2>2 DEF InTail
    <2> QED BY <2>3 DEF Wanted
  <1> QED BY <1>3, <1>4, <1>5, <1>6 DEF IInv

\* Every step of the loops keeps the invariant.
LEMMA NextIInv == IInv /\ [Next]_vars => IInv'
  <1> SUFFICES ASSUME IInv, [Next]_vars PROVE IInv'
    OBVIOUS
  <1>1. CASE Next
    BY <1>1, MergePreserves, MergeEndPreserves, TailPreserves, TailEndPreserves DEF Next
  <1>2. CASE UNCHANGED vars
    BY <1>2 DEF vars, args, IInv, TypeOK, ArgsType, Sorted, Ascending, OutInv,
         WriteBehindRead, OutSound, OutComplete, OutSorted, Frontier, TailFact,
         DoneFact, Result, Wanted, InOther
  <1> QED BY <1>1, <1>2

(***************************************************************************)
(* The invariant holds of every call.                                      *)
(***************************************************************************)
THEOREM MergeInvariant == Spec => []IInv
  BY InitIInv, NextIInv, PTL DEF Spec

(***************************************************************************)
(* The indices stay inside the arrays.                                     *)
(***************************************************************************)
THEOREM MergeTypeCorrect == Spec => []TypeOK
  <1>1. IInv => TypeOK
    BY DEF IInv
  <1> QED BY <1>1, MergeInvariant, PTL

(***************************************************************************)
(* The output never overtakes the input: the assertions of difference_buf  *)
(* hold, and its output may lie on its input.                              *)
(***************************************************************************)
THEOREM MergeInPlaceSafe == Spec => []WriteBehindRead
  <1>1. IInv => WriteBehindRead
    BY DEF IInv, OutInv
  <1> QED BY <1>1, MergeInvariant, PTL

(***************************************************************************)
(* The merges compute the bounded intersection or difference without the   *)
(* ancestors, as a sorted list, for all sorted inputs.                     *)
(***************************************************************************)
THEOREM MergeCorrect == Spec => []ResultCorrect
  <1>1. ASSUME IInv, phase = "done"
        PROVE  /\ Ascending([i \in 0 .. n_out - 1 |-> Result(i)], n_out)
               /\ \A i \in 0 .. n_out - 1 : \E l \in 0 .. set_size - 1 : Result(i) = a0[l]
               /\ \A l \in 0 .. set_size - 1 :
                    Wanted(a0[l]) <=> \E i \in 0 .. n_out - 1 : Result(i) = a0[l]
    <2>1. set_size \in Nat /\ idx_l \in 0 .. set_size /\ n_out \in Nat
      BY <1>1 DEF IInv, TypeOK, ArgsType
    <2>2. OutSound /\ OutComplete /\ OutSorted /\ Ascending(a0, set_size)
      BY <1>1 DEF IInv, OutInv, Sorted
    <2>3. Ascending([i \in 0 .. n_out - 1 |-> Result(i)], n_out)
      BY <2>2 DEF OutSorted, Ascending
    <2>4. \A i \in 0 .. n_out - 1 : \E l \in 0 .. set_size - 1 : Result(i) = a0[l] /\ Wanted(a0[l])
      BY <2>1, <2>2 DEF OutSound
    <2>5. ASSUME NEW l \in 0 .. set_size - 1, Wanted(a0[l])
          PROVE  \E i \in 0 .. n_out - 1 : Result(i) = a0[l]
      <3>1. l \in 0 .. idx_l - 1
        BY <1>1, <2>1, <2>5 DEF IInv, DoneFact
      <3> QED BY <2>2, <2>5, <3>1 DEF OutComplete
    <2>6. ASSUME NEW l \in 0 .. set_size - 1, NEW i \in 0 .. n_out - 1, Result(i) = a0[l]
          PROVE  Wanted(a0[l])
      BY <2>4, <2>6
    <2> QED BY <2>3, <2>4, <2>5, <2>6
  <1>2. IInv => ResultCorrect
    BY <1>1 DEF ResultCorrect
  <1> QED BY <1>2, MergeInvariant, PTL
=============================================================================

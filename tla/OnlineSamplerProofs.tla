------------------------ MODULE OnlineSamplerProofs -------------------------
(***************************************************************************)
(* Proofs about OnlineSampler, for every team, window size, loop limit,    *)
(* set of weights, error target and width of avg: the reductions lose no   *)
(* sample, the races on hits and counter_sq only lose updates, the stop    *)
(* rule is sound where counter_sq is reduced, the estimate is the mean,    *)
(* and the profiler's prediction is right.                                 *)
(***************************************************************************)
EXTENDS OnlineSampler, PrefixSumProofs

-----------------------------------------------------------------------------
(* Arithmetic of the stop rules and of the prediction. *)

\* Products of integers: monotone, and cancellable by a positive factor.
LEMMA MulMono ==
  ASSUME NEW a \in Nat, NEW x \in Int, NEW y \in Int, x <= y
  PROVE  a * x <= a * y
OBVIOUS

LEMMA MulCancelLess ==
  ASSUME NEW a \in Nat \ {0}, NEW x \in Int, NEW y \in Int, a * x < a * y
  PROVE  x < y
OBVIOUS

LEMMA MulCancel ==
  ASSUME NEW a \in Nat \ {0}, NEW x \in Int, NEW y \in Int, a * x <= a * y
  PROVE  x <= y
OBVIOUS

LEMMA MulStrict ==
  ASSUME NEW a \in Nat \ {0}, NEW x \in Int, NEW y \in Int, x < y
  PROVE  a * x < a * y
OBVIOUS

LEMMA MulNat ==
  ASSUME NEW x \in Nat, NEW y \in Nat
  PROVE  x * y \in Nat
OBVIOUS

\* What \div and % of naturals bound.
LEMMA DivBounds ==
  ASSUME NEW a \in Nat, NEW b \in Nat \ {0}
  PROVE  a \div b \in Nat /\ b * (a \div b) <= a /\ a < b * (a \div b + 1)
OBVIOUS

LEMMA ModBounds ==
  ASSUME NEW a \in Nat, NEW b \in Nat \ {0}
  PROVE  a % b \in Nat /\ a % b <= a
OBVIOUS

(***************************************************************************)
(* The stop rule of ns_final: D/d >= 1 is what the dumbbell sampler divides *)
(* by (D = d = 1 elsewhere), A and E the squared constants of the target.  *)
(* Dividing the average only makes the error look larger.                  *)
(***************************************************************************)
LEMMA FinalSound ==
  ASSUME NEW n \in Nat, NEW sq \in Nat, NEW c \in Nat, NEW A \in Nat, NEW E \in Nat,
         NEW D \in Nat, NEW d \in Nat \ {0}, d <= D,
         A * (n * D * sq - d * c * c) < E * n * d * c * c
  PROVE  A * (n * sq - c * c) < E * n * c * c
<1> DEFINE X == n * sq
           Y == c * c
           Z == E * n * c * c
<1>1. X \in Nat /\ Y \in Nat /\ Z \in Nat
  BY MulNat
<1>2. n * D * sq - d * c * c = D * X - d * Y
  OBVIOUS
<1>3. E * n * d * c * c = d * Z
  OBVIOUS
<1> SUFFICES A * (X - Y) < Z
  OBVIOUS
<1> HIDE DEF X, Y, Z
<1>4. X * d <= X * D
  BY <1>1, MulMono
<1>5. d * (X - Y) <= D * X - d * Y
  BY <1>1, <1>4
<1>6. A * (d * (X - Y)) <= A * (D * X - d * Y)
  BY <1>1, <1>5, MulMono
<1>7. A * (d * (X - Y)) < d * Z
  BY <1>1, <1>2, <1>3, <1>6
<1>8. d * (A * (X - Y)) < d * Z
  BY <1>1, <1>7
<1> QED
  BY <1>1, <1>8, MulCancelLess

(***************************************************************************)
(* The stop rule of ns_online: a is the truncated average, r its square as *)
(* it wraps.  Truncating and wrapping only make the variance look larger.  *)
(***************************************************************************)
LEMMA OnlineSound ==
  ASSUME NEW n \in Nat \ {0}, NEW sq \in Nat, NEW c \in Nat, NEW A \in Nat, NEW E \in Nat \ {0},
         NEW a \in Nat, NEW r \in Nat, a > 0, n * a <= c, r <= a * a,
         A * (sq - n * r) < (E * n * a) * (E * n * a)
  PROVE  c > 0 /\ A * (n * sq - c * c) < E * E * n * c * c
<1> DEFINE p == n * a
<1>1. p \in Nat /\ p > 0 /\ p <= c
  OBVIOUS
<1>2. c > 0
  BY <1>1
<1>3. p * p <= c * c
  <2> HIDE DEF p
  <2>1. p * p <= p * c /\ c * p <= c * c
    BY <1>1, MulMono
  <2> QED
    BY <1>1, <2>1
<1>4. n * n * r <= p * p
  <2>1. (n * n) * r <= (n * n) * (a * a)
    BY MulMono, MulNat
  <2> QED
    BY <2>1
<1>5. n * (sq - n * r) >= n * sq - c * c
  <2>1. n * (sq - n * r) = n * sq - n * n * r
    OBVIOUS
  <2>2. n * sq \in Int /\ n * n * r \in Int /\ p * p \in Int /\ c * c \in Int
    OBVIOUS
  <2> HIDE DEF p
  <2> QED
    BY <1>3, <1>4, <2>1, <2>2
<1>6. n * (A * (sq - n * r)) < n * ((E * p) * (E * p))
  <2>1. (E * n * a) * (E * n * a) = (E * p) * (E * p) /\ (E * p) * (E * p) \in Int
    OBVIOUS
  <2>2. A * (sq - n * r) \in Int
    OBVIOUS
  <2> HIDE DEF p
  <2> QED
    BY <2>1, <2>2, MulStrict
<1>7. n * ((E * p) * (E * p)) <= E * E * n * c * c
  <2>1. (n * E * E) * (p * p) <= (n * E * E) * (c * c)
    BY <1>1, <1>3, MulMono, MulNat
  <2> HIDE DEF p
  <2> QED
    BY <1>1, <2>1
<1>8. A * (n * sq - c * c) <= n * (A * (sq - n * r))
  <2>1. A * (n * sq - c * c) <= A * (n * (sq - n * r))
    BY <1>5, MulMono
  <2> QED
    BY <2>1
<1>9. /\ A * (n * sq - c * c) \in Int /\ n * (A * (sq - n * r)) \in Int
      /\ n * ((E * p) * (E * p)) \in Int /\ E * E * n * c * c \in Int
  OBVIOUS
<1> QED
  BY <1>2, <1>6, <1>7, <1>8, <1>9

-----------------------------------------------------------------------------
(***************************************************************************)
(* The inductive invariant.                                                *)
(***************************************************************************)

\* The names sample_pattern calls.
Samplers == {"clique", "house", "dumbbell", "path", "star", "diamond", "cycle",
             "tailedtriangle"}

TypeOK ==
  /\ program \in {"ns_final", "ns_online", "ns_fast_profiler"}
  /\ todo \in Seq(Samplers)
  /\ phase \in {"call", "window", "elp", "done"}
  /\ total \in Nat /\ true_count \in Nat /\ j \in Nat
  /\ final_err \in Nat \X (Nat \ {0})
  /\ counter \in Nat /\ counter_sq \in Nat /\ hits \in Nat
  /\ handed \in Nat
  /\ pc \in [Threads -> {"loop", "hit", "hit_store", "sq", "sq_store", "joined"}]
  /\ priv \in [Threads -> [c : Nat, sq : Nat]]
  /\ got \in [Threads -> Nat] /\ tmp \in [Threads -> Nat]
  /\ drawn \in [n : Nat, sum : Nat, sq : Nat, hit : Nat]

\* A sampler is left to run until sample_pattern returns, and the team exists
\* only inside a window.
Running ==
  /\ phase \in {"call", "window"} => Len(todo) >= 1
  /\ phase # "window" => \A t \in Threads : pc[t] = "joined"

\* The barrier: a thread leaves the loop only when every iteration is handed
\* out, and the iterations handed out are the samples drawn.
Counted ==
  phase = "window" =>
    /\ drawn.n = num_samples * j + handed
    /\ \A t \in Threads : pc[t] = "joined" => handed = num_samples

\* What a sampler that does not reduce counter_sq keeps out of its private
\* copies, and what one that reduces it never stores to the shared variable.
Reduced ==
  phase = "window" =>
    \A t \in Threads : IF ReducesSq(sampler) THEN pc[t] \notin {"sq", "sq_store"}
                                             ELSE priv[t].sq = 0

\* The updates of hits and of an unreduced counter_sq that threads have yet to
\* store.
HitDue == [t \in Threads |-> IF pc[t] \in {"hit", "hit_store"} THEN 1 ELSE 0]

OwesSq(t) ==
  \/ pc[t] \in {"sq", "sq_store"}
  \/ pc[t] \in {"hit", "hit_store"} /\ AfterHit(got[t]) = "sq"

SqDue == [t \in Threads |-> IF OwesSq(t) THEN got[t] * got[t] ELSE 0]

(***************************************************************************)
(* Neither the shared variable nor a value some thread has loaded from it  *)
(* is above what was drawn, even when every update that is due is added:   *)
(* a store of a stale value can then not overshoot either.                 *)
(***************************************************************************)
HitsBelow ==
  phase = "window" =>
    /\ hits + SumOver(HitDue, Threads) <= drawn.hit
    /\ \A t \in Threads :
         pc[t] = "hit_store" => tmp[t] + SumOver(HitDue, Threads) <= drawn.hit

HitsSeen ==
  phase = "window" /\ drawn.hit > 0 =>
    hits > 0 \/ \E t \in Threads : pc[t] \in {"hit", "hit_store"}

SqBelow ==
  phase = "window" /\ ~ReducesSq(sampler) =>
    /\ counter_sq + SumOver(SqDue, Threads) <= drawn.sq
    /\ \A t \in Threads :
         pc[t] = "sq_store" => tmp[t] + SumOver(SqDue, Threads) <= drawn.sq

IInv ==
  /\ TypeOK /\ Running /\ Counted /\ Reduced
  /\ SumsExact /\ HitsBelow /\ HitsSeen /\ SqBelow

\* What SumsExact says, with its two sums named.
PrivC == [t \in Threads |-> priv[t].c]
PrivSq == [t \in Threads |-> priv[t].sq]
Active == {t \in Threads : pc[t] # "joined"}

LEMMA ActiveFinite == IsFiniteSet(Threads) /\ IsFiniteSet(Active) /\ IsFiniteSet(Active')
BY ThreadsAssumption, FS_Subset DEF Active

\* The sums are sums of naturals.
LEMMA DueTypes ==
  ASSUME TypeOK
  PROVE  /\ \A t \in Threads : PrivC[t] \in Nat /\ PrivSq[t] \in Nat
         /\ \A t \in Threads : HitDue[t] \in Nat /\ SqDue[t] \in Nat
         /\ SumOver(PrivC, Active) \in Nat /\ SumOver(PrivSq, Active) \in Nat
         /\ SumOver(HitDue, Threads) \in Nat /\ SumOver(SqDue, Threads) \in Nat
<1>1. \A t \in Threads : PrivC[t] \in Nat /\ PrivSq[t] \in Nat
  BY DEF TypeOK, PrivC, PrivSq
<1>2. \A t \in Threads : HitDue[t] \in Nat /\ SqDue[t] \in Nat
  <2>1. \A t \in Threads : got[t] * got[t] \in Nat
    BY DEF TypeOK
  <2> QED
    BY <2>1 DEF HitDue, SqDue
<1>3. Active \subseteq Threads
  BY DEF Active
<1>4. \A t \in Active : PrivC[t] \in Nat /\ PrivSq[t] \in Nat
  BY <1>1, <1>3
<1>5. SumOver(PrivC, Active) \in Nat /\ SumOver(PrivSq, Active) \in Nat
  BY <1>4, ActiveFinite, SumNat
<1>6. SumOver(HitDue, Threads) \in Nat /\ SumOver(SqDue, Threads) \in Nat
  BY <1>2, ActiveFinite, SumNat
<1> QED
  BY <1>1, <1>2, <1>5, <1>6

\* No thread is active and nothing is due when the team has joined.
LEMMA JoinedSums ==
  ASSUME \A t \in Threads : pc[t] = "joined"
  PROVE  /\ SumOver(PrivC, Active) = 0 /\ SumOver(PrivSq, Active) = 0
         /\ SumOver(HitDue, Threads) = 0 /\ SumOver(SqDue, Threads) = 0
<1>1. Active = {}
  BY DEF Active
<1>2. SumOver(PrivC, Active) = 0 /\ SumOver(PrivSq, Active) = 0
  BY <1>1, ActiveFinite, SumZero
<1>3. \A t \in Threads : HitDue[t] = 0 /\ SqDue[t] = 0
  BY DEF HitDue, SqDue, OwesSq
<1> QED
  BY <1>2, <1>3, ActiveFinite, SumZero

\* The same when the team has just entered a window.
LEMMA EnteredSums ==
  ASSUME EnterWindow
  PROVE  /\ SumOver(PrivC', Active') = 0 /\ SumOver(PrivSq', Active') = 0
         /\ SumOver(HitDue', Threads) = 0 /\ SumOver(SqDue', Threads) = 0
<1>1. \A t \in Threads : PrivC'[t] = 0 /\ PrivSq'[t] = 0
  BY DEF EnterWindow, PrivC, PrivSq
<1>2. \A t \in Active' : PrivC'[t] = 0 /\ PrivSq'[t] = 0
  BY <1>1 DEF Active
<1>3. SumOver(PrivC', Active') = 0 /\ SumOver(PrivSq', Active') = 0
  BY <1>2, ActiveFinite, SumZero
<1>4. \A t \in Threads : HitDue'[t] = 0 /\ SqDue'[t] = 0
  BY DEF EnterWindow, HitDue, SqDue, OwesSq
<1> QED
  BY <1>3, <1>4, ActiveFinite, SumZero

\* The invariant after a window is entered, once the counts are settled.
LEMMA EnterIInv ==
  ASSUME IInv, EnterWindow, UNCHANGED <<program, todo, total, profile>>,
         counter' \in Nat, counter_sq' \in Nat, hits' \in Nat, j' \in Nat,
         drawn' \in [n : Nat, sum : Nat, sq : Nat, hit : Nat],
         phase \in {"call", "window"},
         drawn'.n = num_samples * j', counter' = drawn'.sum,
         ReducesSq(sampler) => counter_sq' = drawn'.sq,
         counter_sq' <= drawn'.sq, hits' <= drawn'.hit,
         drawn'.hit > 0 => hits' > 0
  PROVE  IInv'
<1> USE DEF IInv
<1>1. TypeOK'
  BY DEF EnterWindow, TypeOK, profile
<1>2. Running'
  BY DEF EnterWindow, Running
<1>3. Counted'
  <2>1. num_samples * j' + 0 = num_samples * j'
    BY BoundsAssumption
  <2> QED
    BY <2>1 DEF EnterWindow, Counted
<1>4. Reduced'
  BY DEF EnterWindow, Reduced
<1>5. ReducesSq(sampler)' <=> ReducesSq(sampler)
  BY DEF ReducesSq, sampler, Final
<1>6. SumsExact'
  <2>1. /\ counter' + SumOver(PrivC', Active') = drawn'.sum
        /\ ReducesSq(sampler) => counter_sq' + SumOver(PrivSq', Active') = drawn'.sq
    BY EnteredSums
  <2> QED
    BY <1>5, <2>1 DEF SumsExact, Pending, PrivC, PrivSq, Active
<1>7. HitsBelow'
  BY EnteredSums DEF EnterWindow, HitsBelow
<1>8. HitsSeen'
  BY DEF HitsSeen
<1>9. SqBelow'
  BY EnteredSums DEF EnterWindow, SqBelow
<1> QED
  BY <1>1, <1>2, <1>3, <1>4, <1>6, <1>7, <1>8, <1>9

-----------------------------------------------------------------------------
(* Every action preserves the invariant. *)

LEMMA InitIInv == Init => IInv
<1> SUFFICES ASSUME Init
             PROVE  IInv
  OBVIOUS
<1>1. PICK c \in Commands :
        /\ program = c.program /\ todo = sample_pattern(c.pattern)
        /\ true_count \in ExactCount(c.pattern)
  BY DEF Init
<1>2. program \in {"ns_final", "ns_online", "ns_fast_profiler"}
  BY <1>1, CommandsAssumption
<1>3. todo \in Seq(Samplers) /\ Len(todo) >= 1
  <2>1. Motif4 \in Seq(Samplers) /\ Len(Motif4) >= 1
    BY DEF Motif4, Samplers
  <2>2. \A x \in Samplers : <<x>> \in Seq(Samplers) /\ Len(<<x>>) >= 1
    OBVIOUS
  <2>3. todo \in {<<"clique">>, <<"house">>, <<"dumbbell">>, <<"path">>, Motif4}
    BY <1>1, Zenon DEF sample_pattern
  <2> QED
    BY <2>1, <2>2, <2>3 DEF Samplers
<1>4. true_count \in Nat
  BY <1>1, BoundsAssumption DEF ExactCount
<1>5. TypeOK
  BY <1>2, <1>3, <1>4 DEF Init, TypeOK, Nothing
<1>6. Running /\ Counted /\ Reduced /\ SumsExact /\ HitsBelow /\ HitsSeen /\ SqBelow
  BY <1>3 DEF Init, Running, Counted, Reduced, SumsExact, HitsBelow, HitsSeen, SqBelow
<1> QED
  BY <1>5, <1>6 DEF IInv

LEMMA CallSamplerIInv == IInv /\ CallSampler => IInv'
<1> SUFFICES ASSUME IInv, CallSampler
             PROVE  IInv'
  OBVIOUS
<1>1. num_samples * 0 = 0
  BY BoundsAssumption
<1> QED
  BY <1>1, EnterIInv DEF CallSampler, Nothing

\* What the end of a window knows: all sums are complete.
LEMMA WindowOverSums ==
  ASSUME IInv, WindowOver
  PROVE  /\ drawn.n = total_ns /\ total_ns \in Nat \ {0} /\ counter = drawn.sum
         /\ ReducesSq(sampler) => counter_sq = drawn.sq
         /\ counter_sq <= drawn.sq /\ hits <= drawn.hit
         /\ drawn.hit > 0 => hits > 0
<1> USE DEF IInv
<1>1. phase = "window" /\ \A t \in Threads : pc[t] = "joined"
  BY DEF WindowOver
<1>2. handed = num_samples
  BY <1>1, ThreadsAssumption DEF Counted
<1>3. drawn.n = total_ns /\ total_ns \in Nat \ {0}
  <2>1. drawn.n = num_samples * j + num_samples
    BY <1>1, <1>2 DEF Counted
  <2>2. j \in Nat /\ num_samples \in Nat \ {0}
    BY BoundsAssumption DEF TypeOK
  <2>3. num_samples * (j + 1) = num_samples * j + num_samples /\ num_samples * j \in Nat
    BY <2>2
  <2> QED
    BY <2>1, <2>2, <2>3 DEF total_ns
<1>4. /\ SumOver(PrivC, Active) = 0 /\ SumOver(PrivSq, Active) = 0
      /\ SumOver(HitDue, Threads) = 0 /\ SumOver(SqDue, Threads) = 0
  BY <1>1, JoinedSums
<1>5. /\ counter + SumOver(PrivC, Active) = drawn.sum
      /\ ReducesSq(sampler) => counter_sq + SumOver(PrivSq, Active) = drawn.sq
  BY <1>1 DEF SumsExact, Pending, PrivC, PrivSq, Active
<1>6. counter \in Nat /\ counter_sq \in Nat /\ hits \in Nat /\ drawn.sq \in Nat
  BY DEF TypeOK
<1>7. counter = drawn.sum /\ (ReducesSq(sampler) => counter_sq = drawn.sq)
  BY <1>4, <1>5, <1>6
<1>8. counter_sq <= drawn.sq
  BY <1>1, <1>4, <1>6, <1>7 DEF SqBelow
<1>9. hits <= drawn.hit
  BY <1>1, <1>4, <1>6 DEF HitsBelow
<1>10. drawn.hit > 0 => hits > 0
  BY <1>1 DEF HitsSeen
<1> QED
  BY <1>3, <1>7, <1>8, <1>9, <1>10

LEMMA NextWindowIInv == IInv /\ NextWindow => IInv'
<1> SUFFICES ASSUME IInv, NextWindow
             PROVE  IInv'
  OBVIOUS
<1>1. WindowOver /\ EnterWindow /\ j' = j + 1
      /\ UNCHANGED <<program, profile, todo, total, shared, drawn>>
  BY DEF NextWindow
<1>2. TypeOK
  BY DEF IInv
<1>3. drawn'.n = num_samples * j' /\ j' \in Nat
  BY <1>1, <1>2, WindowOverSums DEF total_ns, TypeOK
<1>4. phase \in {"call", "window"}
  BY <1>1 DEF WindowOver
<1> QED
  BY <1>1, <1>2, <1>3, <1>4, EnterIInv, WindowOverSums DEF shared, TypeOK

\* A step of thread t inside a window leaves the others where they are.
OnlyMoves(t) ==
  /\ phase = "window" /\ UNCHANGED <<program, todo, phase, total, j, profile>>
  /\ \A u \in Threads \ {t} :
       /\ pc'[u] = pc[u] /\ priv'[u] = priv[u]
       /\ got'[u] = got[u] /\ tmp'[u] = tmp[u]

\* A draw of weight w that adds q to the private counter_sq, counts k hits and
\* sends its thread to l.
Draws(t, w, q, k, l) ==
  /\ ReducesSq(sampler) => q = w * w
  /\ ~ReducesSq(sampler) => q = 0
  /\ handed' = handed + 1
  /\ got' = [got EXCEPT ![t] = w]
  /\ priv' = [priv EXCEPT ![t] = [c |-> priv[t].c + w, sq |-> priv[t].sq + q]]
  /\ drawn' = [n |-> drawn.n + 1, sum |-> drawn.sum + w, sq |-> drawn.sq + w * w,
               hit |-> drawn.hit + k]
  /\ pc' = [pc EXCEPT ![t] = l]

LEMMA DrawShape ==
  ASSUME TypeOK, NEW t \in Threads, Draw(t)
  PROVE  \E w \in Nat, q \in Nat : \/ Draws(t, w, q, 1, "hit")
                                  \/ Draws(t, w, q, 0, AfterHit(w))
<1>1. PICK w \in Weights : \E h \in CountsHit(sampler, w) :
        /\ got' = [got EXCEPT ![t] = w]
        /\ priv' = [priv EXCEPT ![t] =
             [c |-> @.c + w, sq |-> @.sq + (IF ReducesSq(sampler) THEN w * w ELSE 0)]]
        /\ drawn' = [drawn EXCEPT !.n = @ + 1, !.sum = @ + w, !.sq = @ + w * w,
                                  !.hit = IF h THEN @ + 1 ELSE @]
        /\ pc' = [pc EXCEPT ![t] = IF h THEN "hit" ELSE AfterHit(w)]
  BY DEF Draw
<1>2. PICK h \in CountsHit(sampler, w) :
        /\ got' = [got EXCEPT ![t] = w]
        /\ priv' = [priv EXCEPT ![t] =
             [c |-> @.c + w, sq |-> @.sq + (IF ReducesSq(sampler) THEN w * w ELSE 0)]]
        /\ drawn' = [drawn EXCEPT !.n = @ + 1, !.sum = @ + w, !.sq = @ + w * w,
                                  !.hit = IF h THEN @ + 1 ELSE @]
        /\ pc' = [pc EXCEPT ![t] = IF h THEN "hit" ELSE AfterHit(w)]
  BY <1>1
<1>3. w \in Nat /\ w * w \in Nat
  BY BoundsAssumption
<1>4. handed' = handed + 1
  BY DEF Draw
<1>5. /\ priv \in [Threads -> [c : Nat, sq : Nat]]
      /\ drawn \in [n : Nat, sum : Nat, sq : Nat, hit : Nat]
  BY DEF TypeOK
<1>6. PICK q \in Nat :
        /\ ReducesSq(sampler) => q = w * w
        /\ ~ReducesSq(sampler) => q = 0
        /\ priv' = [priv EXCEPT ![t] = [c |-> priv[t].c + w, sq |-> priv[t].sq + q]]
  <2>1. CASE ReducesSq(sampler)
    BY <1>2, <1>3, <2>1
  <2>2. CASE ~ReducesSq(sampler)
    BY <1>2, <2>2
  <2> QED
    BY <2>1, <2>2
<1>7. CASE h
  <2>1. drawn' = [n |-> drawn.n + 1, sum |-> drawn.sum + w, sq |-> drawn.sq + w * w,
                  hit |-> drawn.hit + 1]
    BY <1>2, <1>5, <1>7
  <2>2. pc' = [pc EXCEPT ![t] = "hit"]
    BY <1>2, <1>7
  <2> QED
    BY <1>2, <1>3, <1>4, <1>6, <2>1, <2>2 DEF Draws
<1>8. CASE ~h
  <2>1. drawn' = [n |-> drawn.n + 1, sum |-> drawn.sum + w, sq |-> drawn.sq + w * w,
                  hit |-> drawn.hit]
    BY <1>2, <1>5, <1>8
  <2>3. drawn.hit = drawn.hit + 0
    BY <1>5
  <2>2. pc' = [pc EXCEPT ![t] = AfterHit(w)]
    BY <1>2, <1>8
  <2> QED
    BY <1>2, <1>3, <1>4, <1>6, <2>1, <2>2, <2>3 DEF Draws
<1> QED
  BY <1>7, <1>8

LEMMA DrawnType ==
  ASSUME NEW d \in [n : Nat, sum : Nat, sq : Nat, hit : Nat],
         NEW w \in Nat, NEW k \in Nat
  PROVE  [n |-> d.n + 1, sum |-> d.sum + w, sq |-> d.sq + w * w,
          hit |-> d.hit + k]
         \in [n : Nat, sum : Nat, sq : Nat, hit : Nat]
OBVIOUS

LEMMA DrawTypes ==
  ASSUME TypeOK, NEW t \in Threads, NEW w \in Nat, NEW q \in Nat, NEW k \in Nat,
         NEW l \in {"hit", "loop", "sq"}, Draws(t, w, q, k, l)
  PROVE  /\ handed' \in Nat /\ got' \in [Threads -> Nat]
         /\ pc' \in [Threads -> {"loop", "hit", "hit_store", "sq", "sq_store", "joined"}]
         /\ priv' \in [Threads -> [c : Nat, sq : Nat]]
         /\ drawn' \in [n : Nat, sum : Nat, sq : Nat, hit : Nat]
<1>0. /\ handed \in Nat /\ got \in [Threads -> Nat]
      /\ pc \in [Threads -> {"loop", "hit", "hit_store", "sq", "sq_store", "joined"}]
      /\ priv \in [Threads -> [c : Nat, sq : Nat]]
      /\ drawn \in [n : Nat, sum : Nat, sq : Nat, hit : Nat]
  BY Zenon DEF TypeOK
<1>1. /\ handed' \in Nat /\ got' \in [Threads -> Nat]
      /\ pc' \in [Threads -> {"loop", "hit", "hit_store", "sq", "sq_store", "joined"}]
  <2>1. handed' = handed + 1 /\ got' = [got EXCEPT ![t] = w] /\ pc' = [pc EXCEPT ![t] = l]
    BY Zenon DEF Draws
  <2> QED
    BY <1>0, <2>1
<1>2. priv' \in [Threads -> [c : Nat, sq : Nat]]
  <2>1. priv' = [priv EXCEPT ![t] = [c |-> priv[t].c + w, sq |-> priv[t].sq + q]]
    BY Zenon DEF Draws
  <2> QED
    BY <1>0, <2>1
<1>3. drawn' \in [n : Nat, sum : Nat, sq : Nat, hit : Nat]
  <2>1. drawn' = [n |-> drawn.n + 1, sum |-> drawn.sum + w, sq |-> drawn.sq + w * w,
                  hit |-> drawn.hit + k]
    BY Zenon DEF Draws
  <2> QED
    BY <1>0, <2>1, DrawnType, Zenon
<1> QED
  BY <1>1, <1>2, <1>3

\* A square that wraps is no more than the exact one.
LEMMA SquareOfBelow ==
  ASSUME NEW w \in Nat
  PROVE  w * w \in Nat /\ SquareOf(w) \in Nat /\ SquareOf(w) <= w * w
<1> DEFINE x == w * w
<1>1. x \in Nat
  BY MulNat
<1>2. (x % AvgModulus) \in Nat /\ (x % AvgModulus) <= x
  <2> HIDE DEF x
  <2> QED
    BY <1>1, ModulusAssumption, ModBounds
<1> QED
  BY <1>1, <1>2 DEF SquareOf

LEMMA ThreadStepMoves ==
  ASSUME IInv, NEW t \in Threads, ThreadStep(t)
  PROVE  TypeOK' /\ OnlyMoves(t)
<1>0. TypeOK /\ Running
  BY DEF IInv
<1>1. pc[t] # "joined"
  BY DEF ThreadStep, Draw, LoadHits, StoreHits, LoadSq, StoreSq, Leave
<1>2. phase = "window"
  BY <1>0, <1>1 DEF Running
<1>3. \A w \in Nat : AfterHit(w) \in {"loop", "sq"}
  BY DEF AfterHit
<1>4. CASE Draw(t)
  <2>1. PICK w \in Nat, q \in Nat :
          Draws(t, w, q, 1, "hit") \/ Draws(t, w, q, 0, AfterHit(w))
    BY <1>0, <1>4, DrawShape
  <2>2. w * w \in Nat /\ AfterHit(w) \in {"loop", "sq"}
    BY <1>3
  <2>3. PICK k \in {0, 1}, l \in {"hit", "loop", "sq"} : Draws(t, w, q, k, l)
    BY <2>1, <2>2
  <2>6. UNCHANGED <<program, profile, todo, phase, total, j, shared, tmp>>
    BY <1>4 DEF Draw
  <2>4. /\ handed' \in Nat /\ got' \in [Threads -> Nat]
        /\ pc' \in [Threads -> {"loop", "hit", "hit_store", "sq", "sq_store", "joined"}]
        /\ priv' \in [Threads -> [c : Nat, sq : Nat]]
        /\ drawn' \in [n : Nat, sum : Nat, sq : Nat, hit : Nat]
    <3>1. k \in Nat
      OBVIOUS
    <3> QED
      BY <1>0, <2>3, <3>1, DrawTypes, Zenon
  <2>7. TypeOK'
    BY <1>0, <2>4, <2>6 DEF TypeOK, profile, shared
  <2>8. OnlyMoves(t)
    BY <1>0, <1>2, <2>3, <2>6 DEF OnlyMoves, Draws, TypeOK
  <2> QED
    BY <2>7, <2>8
<1>5. CASE LoadHits(t)
  BY <1>0, <1>2, <1>5 DEF LoadHits, OnlyMoves, TypeOK, profile, shared
<1>9. CASE LoadSq(t)
  BY <1>0, <1>2, <1>9 DEF LoadSq, OnlyMoves, TypeOK, profile, shared
<1>6. CASE StoreHits(t)
  <2>1. AfterHit(got[t]) \in {"loop", "sq"} /\ tmp[t] + 1 \in Nat
    BY <1>0, <1>3 DEF TypeOK
  <2> QED
    BY <1>0, <1>2, <1>6, <2>1 DEF StoreHits, OnlyMoves, TypeOK, profile, shared
<1>7. CASE StoreSq(t)
  <2>1. tmp[t] \in Nat /\ got[t] \in Nat
    BY <1>0 DEF TypeOK
  <2>2. tmp[t] + SquareOf(got[t]) \in Nat
    BY <2>1, SquareOfBelow
  <2> QED
    BY <1>0, <1>2, <1>7, <2>2 DEF StoreSq, OnlyMoves, TypeOK, profile, shared
<1>8. CASE Leave(t)
  <2>3. counter \in Nat /\ counter_sq \in Nat /\ priv[t] \in [c : Nat, sq : Nat]
    BY <1>0 DEF TypeOK
  <2>1. counter + priv[t].c \in Nat /\ counter_sq + priv[t].sq \in Nat
    BY <2>3
  <2> QED
    BY <1>0, <1>2, <1>8, <2>1 DEF Leave, OnlyMoves, TypeOK, profile, shared
<1> QED
  BY <1>4, <1>5, <1>6, <1>7, <1>8, <1>9 DEF ThreadStep

\* How the sums change with it.
LEMMA OnlyMovesSums ==
  ASSUME TypeOK, TypeOK', NEW t \in Threads, OnlyMoves(t)
  PROVE  /\ SumOver(HitDue', Threads) + HitDue[t] = SumOver(HitDue, Threads) + HitDue'[t]
         /\ SumOver(SqDue', Threads) + SqDue[t] = SumOver(SqDue, Threads) + SqDue'[t]
         /\ pc[t] # "joined" /\ pc'[t] # "joined" =>
              /\ SumOver(PrivC', Active') + priv[t].c = SumOver(PrivC, Active) + priv'[t].c
              /\ SumOver(PrivSq', Active') + priv[t].sq
                   = SumOver(PrivSq, Active) + priv'[t].sq
<1>1. /\ \A u \in Threads : HitDue[u] \in Nat /\ SqDue[u] \in Nat
      /\ \A u \in Threads : PrivC[u] \in Nat /\ PrivSq[u] \in Nat
  BY DueTypes
<1>2. /\ \A u \in Threads : HitDue'[u] \in Nat /\ SqDue'[u] \in Nat
      /\ \A u \in Threads : PrivC'[u] \in Nat /\ PrivSq'[u] \in Nat
  <2>1. \A u \in Threads : got'[u] \in Nat
    BY DEF TypeOK
  <2> QED
    BY <2>1, MulNat DEF TypeOK, HitDue, SqDue, PrivC, PrivSq
<1>3. \A u \in Threads \ {t} : HitDue'[u] = HitDue[u]
  BY DEF OnlyMoves, HitDue
<1>4. \A u \in Threads \ {t} : SqDue'[u] = SqDue[u]
  BY DEF OnlyMoves, SqDue, OwesSq, AfterHit, ReducesSq, sampler, Final
<1>5. SumOver(HitDue', Threads) + HitDue[t] = SumOver(HitDue, Threads) + HitDue'[t]
  BY <1>1, <1>2, <1>3, ActiveFinite, SumChange
<1>6. SumOver(SqDue', Threads) + SqDue[t] = SumOver(SqDue, Threads) + SqDue'[t]
  BY <1>1, <1>2, <1>4, ActiveFinite, SumChange
<1>7. ASSUME pc[t] # "joined", pc'[t] # "joined"
      PROVE  /\ SumOver(PrivC', Active') + priv[t].c = SumOver(PrivC, Active) + priv'[t].c
             /\ SumOver(PrivSq', Active') + priv[t].sq
                  = SumOver(PrivSq, Active) + priv'[t].sq
  <2>1. Active' = Active /\ t \in Active /\ Active \subseteq Threads
    BY <1>7 DEF OnlyMoves, Active
  <2>2. \A u \in Active \ {t} : PrivC'[u] = PrivC[u] /\ PrivSq'[u] = PrivSq[u]
    BY <2>1 DEF OnlyMoves, PrivC, PrivSq
  <2>3. \A u \in Active : PrivC[u] \in Nat /\ PrivSq[u] \in Nat
    BY <1>1, <2>1
  <2>4. PrivC'[t] \in Nat /\ PrivSq'[t] \in Nat
    BY <1>2
  <2>5. SumOver(PrivC', Active) + PrivC[t] = SumOver(PrivC, Active) + PrivC'[t]
    BY <2>1, <2>2, <2>3, <2>4, ActiveFinite, SumChange
  <2>6. SumOver(PrivSq', Active) + PrivSq[t] = SumOver(PrivSq, Active) + PrivSq'[t]
    BY <2>1, <2>2, <2>3, <2>4, ActiveFinite, SumChange
  <2>7. PrivC[t] = priv[t].c /\ PrivC'[t] = priv'[t].c
    BY DEF PrivC
  <2>8. PrivSq[t] = priv[t].sq /\ PrivSq'[t] = priv'[t].sq
    BY DEF PrivSq
  <2> QED
    BY <2>1, <2>5, <2>6, <2>7, <2>8
<1> QED
  BY <1>5, <1>6, <1>7

\* The updates due are the same when those of the thread that moves are.
LEMMA SameDue ==
  ASSUME TypeOK, TypeOK', NEW t \in Threads, OnlyMoves(t)
  PROVE  /\ HitDue'[t] = HitDue[t] =>
              SumOver(HitDue', Threads) = SumOver(HitDue, Threads)
         /\ SqDue'[t] = SqDue[t] =>
              SumOver(SqDue', Threads) = SumOver(SqDue, Threads)
<1>1. /\ \A u \in Threads : HitDue[u] \in Nat /\ SqDue[u] \in Nat
      /\ SumOver(HitDue, Threads) \in Nat /\ SumOver(SqDue, Threads) \in Nat
  BY DueTypes
<1>2. /\ \A u \in Threads \ {t} : HitDue'[u] = HitDue[u]
      /\ \A u \in Threads \ {t} : SqDue'[u] = SqDue[u]
  BY DEF OnlyMoves, HitDue, SqDue, OwesSq, AfterHit, ReducesSq, sampler, Final
<1> QED
  BY <1>1, <1>2, ActiveFinite, SumSame

\* What no thread disturbs.
LEMMA OnlyMovesRest ==
  ASSUME IInv, NEW t \in Threads, OnlyMoves(t)
  PROVE  /\ Running' /\ (ReducesSq(sampler)' <=> ReducesSq(sampler))
         /\ \A w : AfterHit(w)' = AfterHit(w)
<1>1. Running'
  BY DEF IInv, OnlyMoves, Running
<1>3. ReducesSq(sampler)' <=> ReducesSq(sampler)
  BY DEF OnlyMoves, ReducesSq, sampler, Final
<1> QED
  BY <1>1, <1>3 DEF OnlyMoves, AfterHit, ReducesSq, sampler, Final

\* SumsExact in a step that leaves the private copies and the team alone.
LEMMA SameSumsExact ==
  ASSUME IInv, NEW t \in Threads, OnlyMoves(t), priv' = priv,
         pc[t] # "joined", pc'[t] # "joined", counter' = counter, drawn' = drawn,
         ReducesSq(sampler) => counter_sq' = counter_sq
  PROVE  SumsExact'
<1>1. PrivC' = PrivC /\ PrivSq' = PrivSq
  BY DEF PrivC, PrivSq
<1>2. Active' = Active
  BY DEF OnlyMoves, Active
<1>3. ReducesSq(sampler)' <=> ReducesSq(sampler)
  BY OnlyMovesRest
<1>4. SumsExact
  BY DEF IInv
<1>5. /\ counter + SumOver(PrivC, Active) = drawn.sum
      /\ ReducesSq(sampler) => counter_sq + SumOver(PrivSq, Active) = drawn.sq
  BY <1>4 DEF OnlyMoves, SumsExact, Pending, PrivC, PrivSq, Active
<1>6. /\ counter' + SumOver(PrivC', Active') = drawn'.sum
      /\ ReducesSq(sampler)' => counter_sq' + SumOver(PrivSq', Active') = drawn'.sq
  BY <1>1, <1>2, <1>3, <1>5
<1> QED
  BY <1>6 DEF SumsExact, Pending, PrivC, PrivSq, Active

LEMMA LoadHitsIInv ==
  ASSUME IInv, NEW t \in Threads, LoadHits(t)
  PROVE  IInv'
<1>1. TypeOK /\ TypeOK' /\ OnlyMoves(t)
  BY ThreadStepMoves DEF IInv, ThreadStep
<1>2. Running' /\ (ReducesSq(sampler)' <=> ReducesSq(sampler))
  BY <1>1, OnlyMovesRest
<1>3. pc[t] = "hit" /\ pc'[t] = "hit_store" /\ tmp'[t] = hits
  BY <1>1 DEF LoadHits, TypeOK
<1>4. /\ counter' = counter /\ counter_sq' = counter_sq /\ hits' = hits
      /\ handed' = handed /\ priv' = priv /\ got' = got /\ drawn' = drawn
  BY DEF LoadHits, shared
<1>5. Counted' /\ Reduced'
  BY <1>1, <1>2, <1>3, <1>4 DEF IInv, OnlyMoves, Counted, Reduced
<1>6. SumsExact'
  BY <1>1, <1>3, <1>4, SameSumsExact
<1>7. HitDue'[t] = HitDue[t] /\ SqDue'[t] = SqDue[t]
  <2>1. \A w : AfterHit(w)' = AfterHit(w)
    BY <1>1, OnlyMovesRest
  <2> QED
    BY <1>3, <1>4, <2>1 DEF HitDue, SqDue, OwesSq
<1>8. /\ SumOver(HitDue', Threads) = SumOver(HitDue, Threads)
      /\ SumOver(SqDue', Threads) = SumOver(SqDue, Threads)
  BY <1>1, <1>7, SameDue
<1>9. HitsBelow' /\ SqBelow' /\ HitsSeen'
  BY <1>1, <1>2, <1>3, <1>4, <1>8 DEF IInv, OnlyMoves, HitsBelow, SqBelow, HitsSeen
<1> QED
  BY <1>1, <1>2, <1>5, <1>6, <1>9 DEF IInv

LEMMA StoreHitsIInv ==
  ASSUME IInv, NEW t \in Threads, StoreHits(t)
  PROVE  IInv'
<1>1. TypeOK /\ TypeOK' /\ OnlyMoves(t)
  BY ThreadStepMoves DEF IInv, ThreadStep
<1>2. Running' /\ (ReducesSq(sampler)' <=> ReducesSq(sampler))
  BY <1>1, OnlyMovesRest
<1>3. /\ pc[t] = "hit_store" /\ pc'[t] = AfterHit(got[t]) /\ AfterHit(got[t]) \in {"loop", "sq"}
      /\ ReducesSq(sampler) => AfterHit(got[t]) = "loop"
  BY <1>1 DEF StoreHits, TypeOK, AfterHit
<1>4. /\ counter' = counter /\ counter_sq' = counter_sq /\ hits' = tmp[t] + 1 /\ tmp' = tmp
      /\ handed' = handed /\ priv' = priv /\ got' = got /\ drawn' = drawn
  BY DEF StoreHits
<1>5. Counted' /\ Reduced'
  BY <1>1, <1>2, <1>3, <1>4 DEF IInv, OnlyMoves, Counted, Reduced
<1>6. SumsExact'
  BY <1>1, <1>3, <1>4, SameSumsExact
<1>7. SumOver(SqDue', Threads) = SumOver(SqDue, Threads)
  <2>1. \A w : AfterHit(w)' = AfterHit(w)
    BY <1>1, OnlyMovesRest
  <2>2. SqDue'[t] = SqDue[t]
    BY <1>3, <1>4, <2>1 DEF SqDue, OwesSq
  <2> QED
    BY <1>1, <2>2, SameDue
<1>8. /\ SumOver(HitDue', Threads) + 1 = SumOver(HitDue, Threads)
      /\ SumOver(HitDue', Threads) \in Nat
  <2>1. HitDue[t] = 1 /\ HitDue'[t] = 0
    BY <1>3 DEF HitDue
  <2>2. SumOver(HitDue', Threads) + 1 = SumOver(HitDue, Threads) + 0
    BY <1>1, <2>1, OnlyMovesSums
  <2>3. SumOver(HitDue, Threads) \in Nat
    BY <1>1, DueTypes
  <2>4. SumOver(HitDue', Threads) \in Nat
    <3>1. \A u \in Threads : HitDue'[u] \in Nat
      BY DEF HitDue
    <3> QED
      BY <3>1, ActiveFinite, SumNat
  <2> QED
    BY <2>2, <2>3, <2>4
<1>9. HitsBelow'
  <2>1. tmp[t] \in Nat /\ drawn.hit \in Nat /\ \A u \in Threads : tmp[u] \in Nat
    BY <1>1 DEF TypeOK
  <2>2. /\ tmp[t] + SumOver(HitDue, Threads) <= drawn.hit
        /\ \A u \in Threads : pc[u] = "hit_store" =>
             tmp[u] + SumOver(HitDue, Threads) <= drawn.hit
    BY <1>1, <1>3 DEF IInv, OnlyMoves, HitsBelow
  <2>3. hits' + SumOver(HitDue', Threads) <= drawn'.hit
    BY <1>4, <1>8, <2>1, <2>2
  <2>4. ASSUME NEW u \in Threads, pc'[u] = "hit_store"
        PROVE  tmp'[u] + SumOver(HitDue', Threads) <= drawn'.hit
    <3>1. pc[u] = "hit_store"
      BY <1>1, <1>3, <2>4 DEF OnlyMoves
    <3> QED
      BY <1>4, <1>8, <2>1, <2>2, <3>1
  <2> QED
    BY <2>3, <2>4 DEF HitsBelow
<1>10. HitsSeen'
  <2>1. tmp[t] \in Nat
    BY <1>1 DEF TypeOK
  <2>2. hits' > 0
    BY <1>4, <2>1
  <2> QED
    BY <2>2 DEF HitsSeen
<1>11. SqBelow'
  BY <1>1, <1>2, <1>3, <1>4, <1>7 DEF IInv, OnlyMoves, SqBelow
<1> QED
  BY <1>1, <1>2, <1>5, <1>6, <1>9, <1>10, <1>11 DEF IInv

LEMMA LoadSqIInv ==
  ASSUME IInv, NEW t \in Threads, LoadSq(t)
  PROVE  IInv'
<1>1. TypeOK /\ TypeOK' /\ OnlyMoves(t)
  BY ThreadStepMoves DEF IInv, ThreadStep
<1>2. Running' /\ (ReducesSq(sampler)' <=> ReducesSq(sampler))
  BY <1>1, OnlyMovesRest
<1>3. pc[t] = "sq" /\ pc'[t] = "sq_store" /\ tmp'[t] = counter_sq
  BY <1>1 DEF LoadSq, TypeOK
<1>4. /\ counter' = counter /\ counter_sq' = counter_sq /\ hits' = hits
      /\ handed' = handed /\ priv' = priv /\ got' = got /\ drawn' = drawn
  BY DEF LoadSq, shared
<1>5. Counted' /\ Reduced'
  BY <1>1, <1>2, <1>3, <1>4 DEF IInv, OnlyMoves, Counted, Reduced
<1>6. SumsExact'
  BY <1>1, <1>3, <1>4, SameSumsExact
<1>7. HitDue'[t] = HitDue[t] /\ SqDue'[t] = SqDue[t]
  BY <1>3, <1>4 DEF HitDue, SqDue, OwesSq
<1>8. /\ SumOver(HitDue', Threads) = SumOver(HitDue, Threads)
      /\ SumOver(SqDue', Threads) = SumOver(SqDue, Threads)
  BY <1>1, <1>7, SameDue
<1>9. HitsBelow' /\ SqBelow' /\ HitsSeen'
  BY <1>1, <1>2, <1>3, <1>4, <1>8 DEF IInv, OnlyMoves, HitsBelow, SqBelow, HitsSeen
<1> QED
  BY <1>1, <1>2, <1>5, <1>6, <1>9 DEF IInv

LEMMA StoreSqIInv ==
  ASSUME IInv, NEW t \in Threads, StoreSq(t)
  PROVE  IInv'
<1>1. TypeOK /\ TypeOK' /\ OnlyMoves(t)
  BY ThreadStepMoves DEF IInv, ThreadStep
<1>2. Running' /\ (ReducesSq(sampler)' <=> ReducesSq(sampler))
  BY <1>1, OnlyMovesRest
<1>3. pc[t] = "sq_store" /\ pc'[t] = "loop" /\ ~ReducesSq(sampler)
  BY <1>1 DEF StoreSq, TypeOK, IInv, OnlyMoves, Reduced
<1>4. /\ counter' = counter /\ counter_sq' = tmp[t] + SquareOf(got[t]) /\ hits' = hits
      /\ handed' = handed /\ priv' = priv /\ got' = got /\ tmp' = tmp /\ drawn' = drawn
  BY DEF StoreSq
<1>5. Counted' /\ Reduced'
  BY <1>1, <1>2, <1>3, <1>4 DEF IInv, OnlyMoves, Counted, Reduced
<1>6. SumsExact'
  BY <1>1, <1>3, <1>4, SameSumsExact
<1>7. SumOver(HitDue', Threads) = SumOver(HitDue, Threads)
  <2>1. HitDue'[t] = HitDue[t]
    BY <1>3 DEF HitDue
  <2> QED
    BY <1>1, <2>1, SameDue
<1>8. /\ SumOver(SqDue', Threads) + got[t] * got[t] = SumOver(SqDue, Threads)
      /\ SumOver(SqDue', Threads) \in Nat
  <2>1. SqDue[t] = got[t] * got[t] /\ SqDue'[t] = 0
    BY <1>3 DEF SqDue, OwesSq
  <2>2. SumOver(SqDue', Threads) + SqDue[t] = SumOver(SqDue, Threads) + 0
    BY <1>1, <2>1, OnlyMovesSums
  <2>3. SumOver(SqDue, Threads) \in Nat
    BY <1>1, DueTypes
  <2>4. SumOver(SqDue', Threads) \in Nat
    <3>1. \A u \in Threads : got'[u] \in Nat
      BY <1>1 DEF TypeOK
    <3>2. \A u \in Threads : SqDue'[u] \in Nat
      BY <3>1, MulNat DEF SqDue
    <3> QED
      BY <3>2, ActiveFinite, SumNat
  <2> QED
    BY <2>1, <2>2, <2>3, <2>4
<1>9. SqBelow'
  <2>1. /\ tmp[t] \in Nat /\ drawn.sq \in Nat /\ \A u \in Threads : tmp[u] \in Nat
        /\ got[t] \in Nat
    BY <1>1 DEF TypeOK
  <2>2. got[t] * got[t] \in Nat /\ SquareOf(got[t]) \in Nat /\ SquareOf(got[t]) <= got[t] * got[t]
    BY <2>1, SquareOfBelow
  <2>3. /\ tmp[t] + SumOver(SqDue, Threads) <= drawn.sq
        /\ \A u \in Threads : pc[u] = "sq_store" =>
             tmp[u] + SumOver(SqDue, Threads) <= drawn.sq
    BY <1>1, <1>3 DEF IInv, OnlyMoves, SqBelow
  <2>4. counter_sq' + SumOver(SqDue', Threads) <= drawn'.sq
    BY <1>4, <1>8, <2>1, <2>2, <2>3
  <2>5. ASSUME NEW u \in Threads, pc'[u] = "sq_store"
        PROVE  tmp'[u] + SumOver(SqDue', Threads) <= drawn'.sq
    <3>1. pc[u] = "sq_store"
      BY <1>1, <1>3, <2>5 DEF OnlyMoves
    <3> QED
      BY <1>4, <1>8, <2>1, <2>2, <2>3, <3>1
  <2> QED
    BY <2>4, <2>5 DEF SqBelow
<1>10. HitsBelow' /\ HitsSeen'
  BY <1>1, <1>3, <1>4, <1>7 DEF IInv, OnlyMoves, HitsBelow, HitsSeen
<1> QED
  BY <1>1, <1>2, <1>5, <1>6, <1>9, <1>10 DEF IInv

LEMMA LeaveIInv ==
  ASSUME IInv, NEW t \in Threads, Leave(t)
  PROVE  IInv'
<1>1. TypeOK /\ TypeOK' /\ OnlyMoves(t)
  BY ThreadStepMoves DEF IInv, ThreadStep
<1>2. Running' /\ (ReducesSq(sampler)' <=> ReducesSq(sampler))
  BY <1>1, OnlyMovesRest
<1>3. pc[t] = "loop" /\ pc'[t] = "joined" /\ handed = num_samples
  BY <1>1 DEF Leave, TypeOK
<1>4. /\ counter' = counter + priv[t].c /\ counter_sq' = counter_sq + priv[t].sq
      /\ hits' = hits /\ tmp' = tmp
      /\ handed' = handed /\ priv' = priv /\ got' = got /\ drawn' = drawn
  BY DEF Leave
<1>5. Counted' /\ Reduced'
  BY <1>1, <1>2, <1>3, <1>4 DEF IInv, OnlyMoves, Counted, Reduced
<1>6. SumsExact'
  <2>1. PrivC' = PrivC /\ PrivSq' = PrivSq
    BY <1>4 DEF PrivC, PrivSq
  <2>2. Active' = Active \ {t} /\ t \in Active /\ Active \subseteq Threads
    BY <1>1, <1>3 DEF OnlyMoves, Active
  <2>3. \A u \in Active : PrivC[u] \in Nat /\ PrivSq[u] \in Nat
    BY <1>1, <2>2, DueTypes
  <2>4. /\ SumOver(PrivC, Active) = PrivC[t] + SumOver(PrivC, Active')
        /\ SumOver(PrivSq, Active) = PrivSq[t] + SumOver(PrivSq, Active')
    BY <2>2, <2>3, ActiveFinite, SumTake
  <2>5. SumOver(PrivC, Active') \in Nat /\ SumOver(PrivSq, Active') \in Nat
    <3>1. \A u \in Active' : PrivC[u] \in Nat /\ PrivSq[u] \in Nat
      BY <2>2, <2>3
    <3> QED
      BY <3>1, ActiveFinite, SumNat
  <2>6. /\ counter + SumOver(PrivC, Active) = drawn.sum
        /\ ReducesSq(sampler) => counter_sq + SumOver(PrivSq, Active) = drawn.sq
    <3>1. SumsExact
      BY DEF IInv
    <3> QED
      BY <1>1, <3>1 DEF OnlyMoves, SumsExact, Pending, PrivC, PrivSq, Active
  <2>7. /\ PrivC[t] = priv[t].c /\ PrivSq[t] = priv[t].sq
        /\ priv[t].c \in Nat /\ priv[t].sq \in Nat /\ counter \in Nat /\ counter_sq \in Nat
    BY <1>1 DEF PrivC, PrivSq, TypeOK
  <2>8. /\ counter' + SumOver(PrivC', Active') = drawn'.sum
        /\ ReducesSq(sampler) => counter_sq' + SumOver(PrivSq', Active') = drawn'.sq
    BY <1>4, <2>1, <2>4, <2>5, <2>6, <2>7
  <2> QED
    BY <1>2, <2>8 DEF SumsExact, Pending, PrivC, PrivSq, Active
<1>7. HitDue'[t] = HitDue[t] /\ SqDue'[t] = SqDue[t]
  BY <1>3, <1>4 DEF HitDue, SqDue, OwesSq
<1>8. /\ SumOver(HitDue', Threads) = SumOver(HitDue, Threads)
      /\ SumOver(SqDue', Threads) = SumOver(SqDue, Threads)
  BY <1>1, <1>7, SameDue
<1>9. HitsBelow' /\ HitsSeen'
  BY <1>1, <1>2, <1>3, <1>4, <1>8 DEF IInv, OnlyMoves, HitsBelow, HitsSeen
<1>10. SqBelow'
  <2>1. ~ReducesSq(sampler) => counter_sq' = counter_sq
    BY <1>1, <1>4 DEF IInv, OnlyMoves, Reduced, TypeOK
  <2> QED
    BY <1>1, <1>2, <1>3, <1>4, <1>8, <2>1 DEF IInv, OnlyMoves, SqBelow
<1> QED
  BY <1>1, <1>2, <1>5, <1>6, <1>9, <1>10 DEF IInv

LEMMA DrawIInv ==
  ASSUME IInv, NEW t \in Threads, Draw(t)
  PROVE  IInv'
<1>1. TypeOK /\ TypeOK' /\ OnlyMoves(t)
  BY ThreadStepMoves DEF IInv, ThreadStep
<1>2. Running' /\ (ReducesSq(sampler)' <=> ReducesSq(sampler))
  BY <1>1, OnlyMovesRest
<1>3. pc[t] = "loop" /\ handed < num_samples
  BY DEF Draw
<1>4. /\ counter' = counter /\ counter_sq' = counter_sq /\ hits' = hits /\ tmp' = tmp
  BY DEF Draw, shared
<1>5. PICK w \in Nat, q \in Nat :
        Draws(t, w, q, 1, "hit") \/ Draws(t, w, q, 0, AfterHit(w))
  BY <1>1, DrawShape
<1>6. PICK k \in Nat, l \in {"hit", "loop", "sq"} :
        /\ Draws(t, w, q, k, l)
        /\ (k = 1 /\ l = "hit") \/ (k = 0 /\ l = AfterHit(w))
  <2>1. AfterHit(w) \in {"loop", "sq"}
    BY DEF AfterHit
  <2>2. /\ 0 \in Nat /\ 1 \in Nat /\ "hit" \in {"hit", "loop", "sq"}
        /\ AfterHit(w) \in {"hit", "loop", "sq"}
    BY <2>1
  <2>3. CASE Draws(t, w, q, 1, "hit")
    <3> WITNESS 1 \in Nat, "hit" \in {"hit", "loop", "sq"}
    <3> QED
      BY <2>3
  <2>4. CASE Draws(t, w, q, 0, AfterHit(w))
    BY <2>2, <2>4, Zenon
  <2> QED
    BY <1>5, <2>3, <2>4, Zenon
<1>7. /\ ReducesSq(sampler) => q = w * w
      /\ ~ReducesSq(sampler) => q = 0
      /\ handed' = handed + 1
      /\ got' = [got EXCEPT ![t] = w]
      /\ priv' = [priv EXCEPT ![t] = [c |-> priv[t].c + w, sq |-> priv[t].sq + q]]
      /\ drawn' = [n |-> drawn.n + 1, sum |-> drawn.sum + w, sq |-> drawn.sq + w * w,
                   hit |-> drawn.hit + k]
      /\ pc' = [pc EXCEPT ![t] = l]
  BY <1>6, Zenon DEF Draws
<1> DEFINE ww == w * w
<1>8. ww \in Nat
  BY MulNat
<1>9. /\ pc'[t] = l /\ priv'[t].c = priv[t].c + w /\ priv'[t].sq = priv[t].sq + q
      /\ got'[t] = w
      /\ drawn'.n = drawn.n + 1 /\ drawn'.sum = drawn.sum + w /\ drawn'.sq = drawn.sq + ww
      /\ drawn'.hit = drawn.hit + k
  <2>1. /\ t \in DOMAIN pc /\ t \in DOMAIN priv /\ t \in DOMAIN got
    BY <1>1 DEF TypeOK
  <2> QED
    BY <1>7, <2>1
<1>10. ReducesSq(sampler) => (AfterHit(w) = "loop" /\ q = ww)
  BY <1>7 DEF AfterHit
<1>11. /\ drawn.n \in Nat /\ drawn.sum \in Nat /\ drawn.sq \in Nat /\ drawn.hit \in Nat
       /\ priv[t].c \in Nat /\ priv[t].sq \in Nat /\ counter \in Nat /\ counter_sq \in Nat
       /\ hits \in Nat /\ handed \in Nat /\ j \in Nat /\ \A u \in Threads : tmp[u] \in Nat
  BY <1>1 DEF TypeOK
<1>12. ~ReducesSq(sampler) => q = 0
  BY <1>7
<1>13. handed' = handed + 1
  BY <1>7
<1> HIDE DEF ww
<1>14. Counted'
  <2>1. /\ drawn.n = num_samples * j + handed
        /\ \A u \in Threads : pc[u] # "joined"
    BY <1>1, <1>3, <1>11, BoundsAssumption DEF IInv, OnlyMoves, Counted
  <2>2. num_samples * j \in Nat
    BY <1>11, BoundsAssumption, MulNat
  <2>3. drawn'.n = num_samples * j + handed'
    BY <1>9, <1>11, <1>13, <2>1, <2>2
  <2>4. \A u \in Threads : pc'[u] # "joined"
    BY <1>1, <1>9, <2>1 DEF OnlyMoves
  <2>5. j' = j
    BY <1>1 DEF OnlyMoves
  <2> QED
    BY <2>3, <2>4, <2>5 DEF Counted
<1>15. Reduced'
  <2>1. ASSUME NEW u \in Threads
        PROVE  IF ReducesSq(sampler) THEN pc'[u] \notin {"sq", "sq_store"} ELSE priv'[u].sq = 0
    <3>1. IF ReducesSq(sampler) THEN pc[u] \notin {"sq", "sq_store"} ELSE priv[u].sq = 0
      BY <1>1 DEF IInv, OnlyMoves, Reduced
    <3>2. CASE u = t
      BY <1>6, <1>9, <1>10, <1>11, <1>12, <3>1, <3>2
    <3>3. CASE u # t
      BY <1>1, <3>1, <3>3 DEF OnlyMoves
    <3> QED
      BY <3>2, <3>3
  <2> QED
    BY <1>2, <2>1 DEF Reduced
<1>16. SumsExact'
  <2>1. /\ SumOver(PrivC', Active') + priv[t].c = SumOver(PrivC, Active) + priv'[t].c
        /\ SumOver(PrivSq', Active') + priv[t].sq = SumOver(PrivSq, Active) + priv'[t].sq
    BY <1>1, <1>3, <1>9, OnlyMovesSums
  <2>2. /\ counter + SumOver(PrivC, Active) = drawn.sum
        /\ ReducesSq(sampler) => counter_sq + SumOver(PrivSq, Active) = drawn.sq
    <3>1. SumsExact
      BY DEF IInv
    <3> QED
      BY <1>1, <3>1 DEF OnlyMoves, SumsExact, Pending, PrivC, PrivSq, Active
  <2>3. /\ SumOver(PrivC, Active) \in Nat /\ SumOver(PrivSq, Active) \in Nat
        /\ SumOver(PrivC', Active') \in Nat /\ SumOver(PrivSq', Active') \in Nat
    <3>1. \A u \in Active' : PrivC'[u] \in Nat /\ PrivSq'[u] \in Nat
      BY <1>1 DEF TypeOK, PrivC, PrivSq, Active
    <3> QED
      BY <1>1, <3>1, DueTypes, ActiveFinite, SumNat
  <2>4. counter' + SumOver(PrivC', Active') = drawn'.sum
    BY <1>4, <1>9, <1>11, <2>1, <2>2, <2>3
  <2>5. ReducesSq(sampler) => counter_sq' + SumOver(PrivSq', Active') = drawn'.sq
    BY <1>4, <1>8, <1>9, <1>10, <1>11, <2>1, <2>2, <2>3
  <2> QED
    BY <1>2, <2>4, <2>5 DEF SumsExact, Pending, PrivC, PrivSq, Active
<1>17. HitsBelow'
  <2>1. HitDue[t] = 0 /\ HitDue'[t] = k
    <3>1. AfterHit(w) \in {"loop", "sq"}
      BY DEF AfterHit
    <3> QED
      BY <1>3, <1>6, <1>9, <3>1 DEF HitDue
  <2>2. SumOver(HitDue', Threads) + 0 = SumOver(HitDue, Threads) + k
    BY <1>1, <2>1, OnlyMovesSums
  <2>3. SumOver(HitDue, Threads) \in Nat /\ SumOver(HitDue', Threads) \in Nat
    <3>1. \A u \in Threads : HitDue'[u] \in Nat
      BY DEF HitDue
    <3> QED
      BY <1>1, <3>1, DueTypes, ActiveFinite, SumNat
  <2>4. /\ hits + SumOver(HitDue, Threads) <= drawn.hit
        /\ \A u \in Threads : pc[u] = "hit_store" =>
             tmp[u] + SumOver(HitDue, Threads) <= drawn.hit
    BY <1>1 DEF IInv, OnlyMoves, HitsBelow
  <2>5. hits' + SumOver(HitDue', Threads) <= drawn'.hit
    BY <1>4, <1>9, <1>11, <2>2, <2>3, <2>4
  <2>6. ASSUME NEW u \in Threads, pc'[u] = "hit_store"
        PROVE  tmp'[u] + SumOver(HitDue', Threads) <= drawn'.hit
    <3>1. pc[u] = "hit_store"
      BY <1>1, <1>9, <2>6 DEF OnlyMoves
    <3> QED
      BY <1>4, <1>9, <1>11, <2>2, <2>3, <2>4, <3>1
  <2> QED
    BY <2>5, <2>6 DEF HitsBelow
<1>18. HitsSeen'
  <2>1. CASE k = 1
    <3>1. pc'[t] = "hit"
      BY <1>6, <1>9, <2>1
    <3> QED
      BY <3>1 DEF HitsSeen
  <2>2. CASE k = 0
    <3>1. drawn'.hit = drawn.hit
      BY <1>9, <1>11, <2>2
    <3>2. \A u \in Threads : pc[u] \in {"hit", "hit_store"} => pc'[u] = pc[u]
      BY <1>1, <1>3 DEF OnlyMoves
    <3> QED
      BY <1>1, <1>4, <3>1, <3>2 DEF IInv, OnlyMoves, HitsSeen
  <2> QED
    BY <1>6, <2>1, <2>2
<1>19. SqBelow'
  <2>1. SqDue[t] = 0 /\ SqDue'[t] \in Nat /\ SqDue'[t] <= ww
    <3>1. SqDue[t] = 0
      BY <1>3 DEF SqDue, OwesSq
    <3>2. SqDue'[t] = w * w \/ SqDue'[t] = 0
      BY <1>9 DEF SqDue
    <3> QED
      BY <1>8, <3>1, <3>2 DEF ww
  <2>2. SumOver(SqDue', Threads) + 0 = SumOver(SqDue, Threads) + SqDue'[t]
    BY <1>1, <2>1, OnlyMovesSums
  <2>3. SumOver(SqDue, Threads) \in Nat /\ SumOver(SqDue', Threads) \in Nat
    <3>1. \A u \in Threads : got'[u] \in Nat
      BY <1>1 DEF TypeOK
    <3>2. \A u \in Threads : SqDue'[u] \in Nat
      BY <3>1, MulNat DEF SqDue
    <3> QED
      BY <1>1, <3>2, DueTypes, ActiveFinite, SumNat
  <2>4. ASSUME ~ReducesSq(sampler)
        PROVE  /\ counter_sq + SumOver(SqDue, Threads) <= drawn.sq
               /\ \A u \in Threads : pc[u] = "sq_store" =>
                    tmp[u] + SumOver(SqDue, Threads) <= drawn.sq
    BY <1>1, <2>4 DEF IInv, OnlyMoves, SqBelow
  <2>5. ASSUME ~ReducesSq(sampler)
        PROVE  counter_sq' + SumOver(SqDue', Threads) <= drawn'.sq
    BY <1>4, <1>8, <1>9, <1>11, <2>1, <2>2, <2>3, <2>4, <2>5
  <2>6. ASSUME ~ReducesSq(sampler), NEW u \in Threads, pc'[u] = "sq_store"
        PROVE  tmp'[u] + SumOver(SqDue', Threads) <= drawn'.sq
    <3>1. pc[u] = "sq_store"
      BY <1>1, <1>9, <2>6 DEF OnlyMoves
    <3> QED
      BY <1>4, <1>8, <1>9, <1>11, <2>1, <2>2, <2>3, <2>4, <2>6, <3>1
  <2> QED
    BY <1>2, <2>5, <2>6 DEF SqBelow
<1> QED
  BY <1>1, <1>2, <1>14, <1>15, <1>16, <1>17, <1>18, <1>19 DEF IInv

\* The divisor of an average is at least 1, and its two parts are positive.
LEMMA DivFacts ==
  ASSUME NEW s
  PROVE  /\ DivNum(s) \in Nat \ {0} /\ DivDen(s) \in Nat \ {0}
         /\ DivDen(s) <= DivNum(s)
BY DEF DivNum, DivDen

LEMMA ProductPositive ==
  ASSUME NEW x \in Nat \ {0}, NEW y \in Nat \ {0}
  PROVE  x * y \in Nat \ {0}
OBVIOUS

LEMMA AverageNat ==
  ASSUME NEW s, NEW n \in Nat \ {0}, NEW c \in Nat
  PROVE  Average(s, n, c) \in Nat
<1>1. c * DivDen(s) \in Nat /\ n * DivNum(s) \in Nat \ {0}
  BY DivFacts, MulNat, ProductPositive
<1> QED
  BY <1>1, DivBounds DEF Average

\* The error of a sampler that broke is a fraction.
LEMMA SquaredErrorType ==
  ASSUME NEW s, NEW n \in Nat \ {0}, NEW c \in Nat, NEW sq \in Nat, StopFinal(s, n, c, sq)
  PROVE  SquaredError(s, n, c, sq) \in Nat \X (Nat \ {0})
<1> DEFINE spread == n * DivNum(s) * sq - DivDen(s) * c * c
<1>1. c > 0 /\ spread >= 0
  BY DEF StopFinal
<1>2. spread \in Int
  BY DivFacts
<1>3. n * DivDen(s) * c * c \in Nat \ {0}
  BY <1>1, DivFacts, ProductPositive
<1>4. Square(std_devs) \in Nat
  BY BoundsAssumption, MulNat DEF Square
<1>5. Square(std_devs) * spread \in Nat
  <2> HIDE DEF spread
  <2> QED
    BY <1>1, <1>2, <1>4, MulNat
<1> QED
  BY <1>3, <1>5 DEF SquaredError

LEMMA ReturnIInv == IInv /\ Return => IInv'
<1> SUFFICES ASSUME IInv, Return
             PROVE  IInv'
  OBVIOUS
<1>1. TypeOK /\ Running
  BY DEF IInv
<1>2. /\ WindowOver /\ phase = "window" /\ \A t \in Threads : pc[t] = "joined"
      /\ Len(todo) >= 1
  BY <1>1 DEF Return, WindowOver, Running
<1>3. /\ program' = program /\ true_count' = true_count /\ j' = j
      /\ counter' = counter /\ counter_sq' = counter_sq /\ hits' = hits
      /\ handed' = handed /\ pc' = pc /\ priv' = priv /\ got' = got /\ tmp' = tmp
      /\ todo' = Tail(todo)
      /\ total' = EstimateOf(sampler) /\ final_err' = FinalError
      /\ drawn' = drawn
  BY DEF Return, shared, team
<1>4. phase' = IF Len(todo) > 1 THEN "call"
               ELSE IF program = "ns_fast_profiler" THEN "elp" ELSE "done"
  BY Zenon DEF Return
<1>5. phase' \in {"call", "elp", "done"}
  BY <1>4
<1>6. sampler \in Samplers /\ todo' \in Seq(Samplers) /\ Len(todo') = Len(todo) - 1
  BY <1>1, <1>2, <1>3 DEF sampler, TypeOK
<1>7. /\ drawn.n = total_ns /\ total_ns \in Nat \ {0} /\ counter = drawn.sum
  BY <1>2, WindowOverSums
<1>9. total' \in Nat
  <2>1. counter \in Nat /\ num_samples \in Nat \ {0}
    BY <1>1, BoundsAssumption DEF TypeOK
  <2>2. Average(sampler, total_ns, counter) \in Nat /\ counter \div num_samples \in Nat
    BY <1>7, <2>1, AverageNat, DivBounds
  <2> QED
    BY <1>3, <2>2 DEF EstimateOf
<1>10. program = "ns_fast_profiler" =>
         (Stops <=> StopFinal(sampler, total_ns, counter, counter_sq))
  BY DEF Stops, ErrorBelowTarget, Final
<1>11. final_err' \in Nat \X (Nat \ {0})
  <2>1. CASE program = "ns_fast_profiler" /\ Stops
    <3>1. final_err' = SquaredError(sampler, total_ns, counter, counter_sq)
      BY <1>3, <2>1 DEF FinalError
    <3>2. StopFinal(sampler, total_ns, counter, counter_sq)
      BY <1>10, <2>1
    <3>3. counter \in Nat /\ counter_sq \in Nat
      BY <1>1 DEF TypeOK
    <3> QED
      BY <1>7, <3>1, <3>2, <3>3, SquaredErrorType
  <2>2. CASE ~(program = "ns_fast_profiler" /\ Stops)
    BY <1>1, <1>3, <2>2 DEF FinalError, TypeOK
  <2> QED
    BY <2>1, <2>2
<1>12. TypeOK'
  BY <1>1, <1>3, <1>5, <1>6, <1>9, <1>11 DEF TypeOK
<1>13. Running'
  BY <1>1, <1>2, <1>3, <1>4, <1>6 DEF Running, TypeOK
<1>14. Counted' /\ Reduced' /\ SumsExact' /\ HitsBelow' /\ HitsSeen' /\ SqBelow'
  BY <1>5 DEF Counted, Reduced, SumsExact, HitsBelow, HitsSeen, SqBelow
<1> QED
  BY <1>12, <1>13, <1>14 DEF IInv

LEMMA ELPIInv == IInv /\ ELP => IInv'
<1> SUFFICES ASSUME IInv, ELP
             PROVE  IInv'
  OBVIOUS
<1>1. TypeOK /\ Running
  BY DEF IInv
<1>2. /\ phase = "elp" /\ phase' = "done" /\ predicted' = Prediction
      /\ program' = program /\ todo' = todo /\ total' = total /\ j' = j
      /\ counter' = counter /\ counter_sq' = counter_sq /\ hits' = hits
      /\ handed' = handed /\ pc' = pc /\ priv' = priv /\ got' = got /\ tmp' = tmp
      /\ drawn' = drawn /\ true_count' = true_count /\ final_err' = final_err
  BY DEF ELP, shared, team
<1>3. TypeOK' /\ Running'
  BY <1>1, <1>2 DEF TypeOK, Running
<1>4. Counted' /\ Reduced' /\ SumsExact' /\ HitsBelow' /\ HitsSeen' /\ SqBelow'
  BY <1>2 DEF Counted, Reduced, SumsExact, HitsBelow, HitsSeen, SqBelow
<1> QED
  BY <1>3, <1>4 DEF IInv

LEMMA StutterIInv == IInv /\ UNCHANGED vars => IInv'
<1> SUFFICES ASSUME IInv, UNCHANGED vars
             PROVE  IInv'
  OBVIOUS
<1>1. /\ phase' = phase /\ predicted' = predicted
      /\ program' = program /\ todo' = todo /\ total' = total /\ j' = j
      /\ counter' = counter /\ counter_sq' = counter_sq /\ hits' = hits
      /\ handed' = handed /\ pc' = pc /\ priv' = priv /\ got' = got /\ tmp' = tmp
      /\ drawn' = drawn /\ true_count' = true_count /\ final_err' = final_err
  BY DEF vars, shared, team, profile
<1>2. TypeOK' /\ Running' /\ Counted'
  BY <1>1 DEF IInv, TypeOK, Running, Counted
<1>3. ReducesSq(sampler)' <=> ReducesSq(sampler)
  BY <1>1 DEF ReducesSq, sampler, Final
<1>4. Reduced' /\ HitsSeen'
  BY <1>1, <1>3 DEF IInv, Reduced, HitsSeen
<1>5. PrivC' = PrivC /\ PrivSq' = PrivSq /\ Active' = Active /\ HitDue' = HitDue /\ SqDue' = SqDue
  BY <1>1 DEF PrivC, PrivSq, Active, HitDue, SqDue, OwesSq, AfterHit, ReducesSq, sampler, Final
<1>6. HitsBelow' /\ SqBelow'
  BY <1>1, <1>3, <1>5 DEF IInv, HitsBelow, SqBelow
<1>7. SumsExact'
  BY <1>1, <1>3 DEF IInv, SumsExact, Pending
<1> QED
  BY <1>2, <1>4, <1>6, <1>7 DEF IInv

LEMMA NextIInv == IInv /\ [Next]_vars => IInv'
<1> SUFFICES ASSUME IInv, [Next]_vars
             PROVE  IInv'
  OBVIOUS
<1>1. CASE CallSampler
  BY <1>1, CallSamplerIInv
<1>2. CASE NextWindow
  BY <1>2, NextWindowIInv
<1>3. CASE Return
  BY <1>3, ReturnIInv
<1>4. CASE ELP
  BY <1>4, ELPIInv
<1>5. ASSUME NEW t \in Threads, ThreadStep(t)
      PROVE  IInv'
  BY <1>5, DrawIInv, LoadHitsIInv, StoreHitsIInv, LoadSqIInv, StoreSqIInv, LeaveIInv
     DEF ThreadStep
<1>6. CASE UNCHANGED vars
  BY <1>6, StutterIInv
<1> QED
  BY <1>1, <1>2, <1>3, <1>4, <1>5, <1>6 DEF Next, MasterStep

(***************************************************************************)
(* Every reachable state of the engine satisfies the inductive invariant,  *)
(* its types included.                                                     *)
(***************************************************************************)
THEOREM OnlineInvariant == Spec => []IInv
<1>1. Init => IInv
  BY InitIInv
<1>2. IInv /\ [Next]_vars => IInv'
  BY NextIInv
<1> QED
  BY <1>1, <1>2, PTL DEF Spec

-----------------------------------------------------------------------------
(***************************************************************************)
(* The reduction clauses lose no sample and count none twice, in any       *)
(* interleaving of any number of threads, over any number of windows.      *)
(***************************************************************************)
THEOREM OnlineSumsExact == Spec => []SumsExact
<1>1. IInv => SumsExact
  BY DEF IInv
<1> QED
  BY <1>1, OnlineInvariant, PTL

LEMMA IInvHits == IInv => HitsNeverOver
<1> SUFFICES ASSUME IInv
             PROVE  HitsNeverOver
  OBVIOUS
<1>1. TypeOK
  BY DEF IInv
<1>2. /\ SumOver(PrivC, Active) \in Nat /\ SumOver(PrivSq, Active) \in Nat
      /\ SumOver(HitDue, Threads) \in Nat /\ SumOver(SqDue, Threads) \in Nat
  BY <1>1, DueTypes
<1>3. ASSUME phase = "window"
      PROVE  hits <= drawn.hit /\ counter_sq <= drawn.sq
  <2>1. /\ hits \in Nat /\ counter_sq \in Nat /\ drawn.hit \in Nat /\ drawn.sq \in Nat
    BY <1>1 DEF TypeOK
  <2>2. hits + SumOver(HitDue, Threads) <= drawn.hit
    BY <1>3 DEF IInv, HitsBelow
  <2>3. CASE ReducesSq(sampler)
    <3>1. SumsExact
      BY DEF IInv
    <3>2. counter_sq + SumOver(PrivSq, Active) = drawn.sq
      BY <1>3, <2>3, <3>1 DEF SumsExact, Pending, PrivSq, Active
    <3> QED
      BY <1>2, <2>1, <2>2, <3>2
  <2>4. CASE ~ReducesSq(sampler)
    <3>1. counter_sq + SumOver(SqDue, Threads) <= drawn.sq
      BY <1>3, <2>4 DEF IInv, SqBelow
    <3> QED
      BY <1>2, <2>1, <2>2, <3>1
  <2> QED
    BY <2>3, <2>4
<1>4. WindowOver /\ drawn.hit > 0 => hits > 0
  BY WindowOverSums
<1> QED
  BY <1>3, <1>4 DEF HitsNeverOver

(***************************************************************************)
(* The unsynchronised updates of hits and counter_sq only lose updates:    *)
(* the shared values never exceed the true ones, and a sampler that hit    *)
(* reports a hit.                                                          *)
(***************************************************************************)
THEOREM OnlineHitsNeverOver == Spec => []HitsNeverOver
BY IInvHits, OnlineInvariant, PTL

\* The two stop rules imply the target on the exact sums.
LEMMA StopRules ==
  ASSUME NEW s, NEW n \in Nat \ {0}, NEW c \in Nat, NEW sq \in Nat,
         ErrorBelowTarget(s, n, c, sq)
  PROVE  WithinTarget(n, c, sq)
<1> DEFINE A == Square(std_devs * ErrDen)
           E == Square(ErrNum)
<1>1. A \in Nat /\ E \in Nat /\ ErrNum \in Nat \ {0}
  BY BoundsAssumption, MulNat DEF Square
<1>2. CASE Final
  <2>1. /\ c > 0
        /\ A * (n * DivNum(s) * sq - DivDen(s) * c * c) < E * n * DivDen(s) * c * c
    BY <1>2 DEF ErrorBelowTarget, StopFinal
  <2> HIDE DEF A, E
  <2>2. A * (n * sq - c * c) < E * n * c * c
    BY <1>1, <2>1, DivFacts, FinalSound
  <2> QED
    BY <2>1, <2>2 DEF WithinTarget, A, E
<1>3. CASE ~Final
  <2> DEFINE a == c \div n
             r == (a * a) % AvgModulus
  <2>1. StopOnline(n, c, sq)
    BY <1>3 DEF ErrorBelowTarget
  <2>2. a > 0 /\ A * (sq - n * r) < Square(ErrNum * n * a)
    BY <2>1 DEF StopOnline
  <2>3. a \in Nat /\ n * a <= c
    BY DivBounds
  <2>4. a * a \in Nat
    BY <2>3, MulNat
  <2>5. r \in Nat /\ r <= a * a
    <3> HIDE DEF a
    <3> QED
      BY <2>4, ModulusAssumption, ModBounds
  <2>6. Square(ErrNum * n * a) = (ErrNum * n * a) * (ErrNum * n * a)
    BY DEF Square
  <2> HIDE DEF A, a, r
  <2>7. c > 0 /\ A * (n * sq - c * c) < ErrNum * ErrNum * n * c * c
    BY <1>1, <2>2, <2>3, <2>5, <2>6, OnlineSound
  <2>8. E = ErrNum * ErrNum
    BY DEF Square
  <2> QED
    BY <2>7, <2>8 DEF WithinTarget, A
<1> QED
  BY <1>2, <1>3

LEMMA IInvStop == IInv => StopSoundReduced
<1> SUFFICES ASSUME IInv, WindowOver, Stops, ReducesSq(sampler)
             PROVE  WithinTarget(drawn.n, drawn.sum, drawn.sq)
  BY DEF StopSoundReduced, StopSound, EndedEarly
<1>1. /\ drawn.n = total_ns /\ total_ns \in Nat \ {0} /\ counter = drawn.sum
      /\ counter_sq = drawn.sq
  BY WindowOverSums
<1>2. counter \in Nat /\ counter_sq \in Nat
  BY DEF IInv, TypeOK
<1>3. ErrorBelowTarget(sampler, total_ns, counter, counter_sq)
  BY DEF Stops
<1>4. WithinTarget(total_ns, counter, counter_sq)
  BY <1>1, <1>2, <1>3, StopRules, Zenon
<1> QED
  BY <1>1, <1>4, Zenon

(***************************************************************************)
(* A sampler that reduces counter_sq leaves its window loop early only     *)
(* when the samples drawn meet the error target, with the integer average  *)
(* of ns_online at any width and with the divided average of the dumbbell  *)
(* sampler.                                                                *)
(***************************************************************************)
THEOREM OnlineStopSound == Spec => []StopSoundReduced
BY IInvStop, OnlineInvariant, PTL

(***************************************************************************)
(* What main prints for a sampler that divides by total_ns is the mean of  *)
(* all the samples of all its windows.                                     *)
(***************************************************************************)
THEOREM OnlineEstimateIsMean == Spec => EstimateIsMeanOfAll
<1>1. ASSUME IInv, [Next]_vars, phase = "window", phase' # "window",
             Final \/ sampler = "clique"
      PROVE  total' = Average(sampler, drawn.n, drawn.sum)
  <2>1. Return
    <3>1. ~CallSampler /\ ~NextWindow /\ ~ELP /\ ~UNCHANGED vars
      BY <1>1 DEF CallSampler, NextWindow, EnterWindow, ELP, vars
    <3>2. \A t \in Threads : ~ThreadStep(t)
      BY <1>1, ThreadStepMoves DEF OnlyMoves
    <3> QED
      BY <1>1, <3>1, <3>2 DEF Next, MasterStep
  <2>2. total' = Average(sampler, total_ns, counter)
    BY <1>1, <2>1 DEF Return, EstimateOf
  <2>3. drawn.n = total_ns /\ counter = drawn.sum
    BY <1>1, <2>1, WindowOverSums DEF Return
  <2> QED
    BY <2>2, <2>3
<1>2. IInv /\ [Next]_vars =>
        [phase = "window" /\ phase' # "window" /\ (Final \/ sampler = "clique") =>
           total' = Average(sampler, drawn.n, drawn.sum)]_vars
  BY <1>1
<1> QED
  BY <1>2, OnlineInvariant, PTL DEF Spec, EstimateIsMeanOfAll

=============================================================================

--------------------------- MODULE OnlineSampler ---------------------------
(***************************************************************************)
(* The NS-Online engine (sansa/src/approx/NS/ns_final.cc, ns_online.cc):   *)
(* sample_pattern picks the samplers of a pattern, and a sampler draws     *)
(* windows of num_samples samples with an OpenMP parallel for until the    *)
(* relative error it computes from the sums is below err_target.  The      *)
(* profiler (fast-profiler/ns_fast_profiler.cc) runs the samplers of       *)
(* ns_final on a subgraph and predicts from the error at which they broke  *)
(* how many samples the whole graph needs.                                 *)
(*                                                                         *)
(* What a sample costs and finds is data here: a draw yields a weight (the *)
(* scaled count of one random walk, 0 when the walk fails).  The model     *)
(* keeps the threads, their private copies of the reduction variables, the *)
(* read-modify-writes of the variables that are shared but not reduced,    *)
(* the window loop and its stop rule.  Sums are exact integers, as doubles *)
(* are up to 2^53; sqrt and the divisions of the stop rule are removed by  *)
(* squaring and cross-multiplying, which keeps the outcome of every        *)
(* comparison, the ones with NaN and infinity included.                    *)
(***************************************************************************)
EXTENDS Sums, Sequences

CONSTANTS
  Commands,     \* the program and pattern name of a command line,
                \* [program, pattern]
  Threads,      \* the OpenMP team
  num_samples,  \* samples per window
  MaxWindows,   \* the limit of the window loop (1000000000 in the code)
  Weights,      \* the weights a sample may yield
  std_devs,     \* the command line's std_devs
  ErrNum, ErrDen, \* err_target = ErrNum / ErrDen
  AvgBits,      \* width of ns_online's uint64_t avg and scale
  TrueCounts,   \* what the profiler's kernels may count on the subgraph
  SizeRatio     \* scale_factor over the same product for the subgraph

ASSUME CommandsAssumption ==
  \A c \in Commands : c.program \in {"ns_final", "ns_online", "ns_fast_profiler"}
ASSUME BoundsAssumption ==
  /\ num_samples \in Nat \ {0} /\ MaxWindows \in Nat \ {0}
  /\ Weights \subseteq Nat /\ std_devs \in Nat
  /\ ErrNum \in Nat \ {0} /\ ErrDen \in Nat \ {0} /\ AvgBits \in Nat
  /\ TrueCounts \subseteq Nat /\ SizeRatio \in Nat \ {0}
ASSUME ThreadsAssumption == IsFiniteSet(Threads) /\ Threads # {}

Square(x) == x * x

\* An unsigned integer of AvgBits bits wraps here.  The provers know nothing
\* of ^, so that the range of the modulus is stated as a fact.
AvgModulus == 2^AvgBits
ASSUME ModulusAssumption == AvgModulus \in Nat \ {0}

VARIABLES
  program,     \* the program that was started
  todo,        \* samplers still to run; the head is the running one
  phase,       \* "call", "window", "elp" or "done"
  total,       \* the estimate handed to main
  true_count,  \* the profiler's exact count on the subgraph
  final_err,   \* the error at which its samplers broke, squared, a fraction
  predicted,   \* the number of samples it predicts
  j,           \* windows completed
  counter, counter_sq, hits,  \* the shared sums
  handed,      \* iterations of the window already given to a thread
  pc,          \* where each thread is
  priv,        \* each thread's private counter and counter_sq
  got,         \* the weight of each thread's current sample
  tmp,         \* the value a thread has loaded for a read-modify-write
  drawn        \* what was drawn since the sampler was called (history)

shared == <<counter, counter_sq, hits>>
team == <<handed, pc, priv, got, tmp>>
profile == <<true_count, final_err, predicted>>
vars == <<program, todo, phase, total, j, shared, team, drawn, profile>>

\* ns_fast_profiler has the samplers of ns_final.
Final == program # "ns_online"

Motif4 == <<"star", "clique", "path", "diamond", "cycle", "tailedtriangle">>

CliqueNames == {"triangle", "4clique", "5clique", "6clique", "9clique"}

\* sample_pattern: the samplers run for a pattern name, in order.  ns_online
\* does not test for the plain name clique.
sample_pattern(p) ==
  IF p \in CliqueNames \/ (p = "clique" /\ Final) THEN <<"clique">>
  ELSE IF p = "house" THEN <<"house">>
  ELSE IF p \in {"triangletriangle", "dumbbell", "dumbell"} THEN <<"dumbbell">>
  ELSE IF p = "4motif" /\ Final THEN Motif4
  ELSE <<"path">>

sampler == Head(todo)

\* The samplers whose pragma names counter_sq in its reduction clause.
ReducesSq(s) == IF Final THEN s # "path" ELSE s = "clique"

\* Whether a sample of weight w increments hits, for the loop body of each
\* sampler.  A walk of the clique sampler may fail before or after that.
clique_hit(w) == IF w = 0 THEN BOOLEAN ELSE {TRUE}
path_hit(w) == {TRUE}
cycle_hit(w) == {TRUE}
house_hit(w) == {w > 0}
dumbbell_hit(w) == {w > 0}
diamond_hit(w) == {w > 0}
star_hit(w) == {w > 0}
tailedtriangle_hit(w) == {w > 0}

\* ns_online only counts the successes of the dumbbell sampler.
online_hit(s, w) == {s = "dumbbell" /\ w > 0}

CountsHit(s, w) ==
  IF program = "ns_online" THEN online_hit(s, w) ELSE
  CASE s = "clique" -> clique_hit(w)
    [] s = "path" -> path_hit(w)
    [] s = "cycle" -> cycle_hit(w)
    [] s = "house" -> house_hit(w)
    [] s = "dumbbell" -> dumbbell_hit(w)
    [] s = "diamond" -> diamond_hit(w)
    [] s = "star" -> star_hit(w)
    [] s = "tailedtriangle" -> tailedtriangle_hit(w)

\* The dumbbell sampler of ns_final divides its average by 2.2 = 11/5.
DivNum(s) == IF Final /\ s = "dumbbell" THEN 11 ELSE 1
DivDen(s) == IF Final /\ s = "dumbbell" THEN 5 ELSE 1

\* avg of a sampler after n samples, as main would print it.
Average(s, n, c) == (c * DivDen(s)) \div (n * DivNum(s))

(***************************************************************************)
(* error < err_target, where                                               *)
(*   avg = counter/total_ns, var = counter_sq/total_ns - avg*avg,          *)
(*   error = std_devs * sqrt(var/total_ns) / avg.                          *)
(* A negative var or a zero avg makes the comparison false.                *)
(***************************************************************************)
StopFinal(s, n, c, sq) ==
  LET spread == n * DivNum(s) * sq - DivDen(s) * c * c IN
  /\ c > 0 /\ spread >= 0
  /\ Square(std_devs * ErrDen) * spread < Square(ErrNum) * n * DivDen(s) * c * c

\* In ns_online avg is an integer, and avg*avg wraps.
StopOnline(n, c, sq) ==
  LET avg == c \div n
      spread == sq - n * ((avg * avg) % AvgModulus)
  IN  /\ avg > 0 /\ spread >= 0
      /\ Square(std_devs * ErrDen) * spread < Square(ErrNum * n * avg)

\* Fault: var is divided by total_ns twice.
ErrorBelowTarget_DividedTwice(s, n, c, sq) ==
  c > 0 /\ Square(std_devs * ErrDen) * (n * sq - c * c) < Square(ErrNum) * n * n * c * c

ErrorBelowTarget(s, n, c, sq) ==
  IF Final THEN StopFinal(s, n, c, sq) ELSE StopOnline(n, c, sq)

\* The square of the error of a window that breaks the loop.
SquaredError(s, n, c, sq) ==
  <<Square(std_devs) * (n * DivNum(s) * sq - DivDen(s) * c * c), n * DivDen(s) * c * c>>

\* The patterns for which gs.h has a kernel; it counts 0 of the others.
KernelNames == {"house", "pentagon", "rectangle", "diamond", "triangle",
                "4clique", "5clique", "6clique", "9clique", "5path"}

ExactCount(p) ==
  IF program = "ns_fast_profiler" /\ p \in KernelNames THEN TrueCounts ELSE {0}

Nothing == [n |-> 0, sum |-> 0, sq |-> 0, hit |-> 0]

Init ==
  /\ \E c \in Commands :
       /\ program = c.program /\ todo = sample_pattern(c.pattern)
       /\ true_count \in ExactCount(c.pattern)
  /\ phase = "call" /\ total = 0 /\ j = 0
  /\ counter = 0 /\ counter_sq = 0 /\ hits = 0
  /\ handed = 0 /\ pc = [t \in Threads |-> "joined"]
  /\ priv = [t \in Threads |-> [c |-> 0, sq |-> 0]]
  /\ got = [t \in Threads |-> 0] /\ tmp = [t \in Threads |-> 0]
  /\ drawn = Nothing /\ final_err = <<0, 1>> /\ predicted = 0

\* The parallel for is entered: iterations to hand out, fresh private copies.
EnterWindow ==
  /\ phase' = "window"
  /\ handed' = 0
  /\ pc' = [t \in Threads |-> "loop"]
  /\ priv' = [t \in Threads |-> [c |-> 0, sq |-> 0]]
  /\ UNCHANGED <<got, tmp>>

\* Fault: hits is not reset between the samplers of a 4-motif run.
CallSampler_KeepsHits ==
  /\ phase = "call"
  /\ counter' = 0 /\ counter_sq' = 0 /\ j' = 0 /\ drawn' = Nothing
  /\ EnterWindow
  /\ UNCHANGED <<program, profile, todo, total, hits>>

\* A sampler is called: its sums start at 0 and its first window begins.
CallSampler ==
  /\ phase = "call"
  /\ counter' = 0 /\ counter_sq' = 0 /\ hits' = 0 /\ j' = 0
  /\ drawn' = Nothing
  /\ EnterWindow
  /\ UNCHANGED <<program, profile, todo, total>>

\* Where a thread goes with a sample of weight w.  A failed walk skips the
\* sums (continue), except in the path sampler, which adds 0 to them.
AfterHit(w) ==
  IF ReducesSq(sampler) \/ (w = 0 /\ sampler # "path") THEN "loop" ELSE "sq"

(***************************************************************************)
(* A thread takes an iteration and draws a sample.  The variables of the   *)
(* reduction clause are its private copies.                                *)
(***************************************************************************)
Draw(t) ==
  /\ pc[t] = "loop" /\ handed < num_samples
  /\ handed' = handed + 1
  /\ \E w \in Weights : \E h \in CountsHit(sampler, w) :
       /\ got' = [got EXCEPT ![t] = w]
       /\ priv' = [priv EXCEPT ![t] =
            [c |-> @.c + w, sq |-> @.sq + (IF ReducesSq(sampler) THEN w * w ELSE 0)]]
       /\ drawn' = [drawn EXCEPT !.n = @ + 1, !.sum = @ + w, !.sq = @ + w * w,
                                 !.hit = IF h THEN @ + 1 ELSE @]
       /\ pc' = [pc EXCEPT ![t] = IF h THEN "hit" ELSE AfterHit(w)]
  /\ UNCHANGED <<program, profile, todo, phase, total, j, shared, tmp>>

\* hits += 1 on the shared variable: the load ...
LoadHits(t) ==
  /\ pc[t] = "hit"
  /\ tmp' = [tmp EXCEPT ![t] = hits]
  /\ pc' = [pc EXCEPT ![t] = "hit_store"]
  /\ UNCHANGED <<program, profile, todo, phase, total, j, shared, handed, priv, got, drawn>>

\* ... and the store.
StoreHits(t) ==
  /\ pc[t] = "hit_store"
  /\ hits' = tmp[t] + 1
  /\ pc' = [pc EXCEPT ![t] = AfterHit(got[t])]
  /\ UNCHANGED <<program, profile, todo, phase, total, j, counter, counter_sq, handed, priv, got, tmp, drawn>>

\* counter_sq += scale*scale where the pragma does not reduce counter_sq.
LoadSq(t) ==
  /\ pc[t] = "sq"
  /\ tmp' = [tmp EXCEPT ![t] = counter_sq]
  /\ pc' = [pc EXCEPT ![t] = "sq_store"]
  /\ UNCHANGED <<program, profile, todo, phase, total, j, shared, handed, priv, got, drawn>>

\* scale*scale is a product of uint64_t in the path sampler of ns_online, and
\* wraps; the others multiply doubles.
SquareOf(w) == IF program = "ns_online" /\ sampler = "path" THEN (w * w) % AvgModulus ELSE w * w

StoreSq(t) ==
  /\ pc[t] = "sq_store"
  /\ counter_sq' = tmp[t] + SquareOf(got[t])
  /\ pc' = [pc EXCEPT ![t] = "loop"]
  /\ UNCHANGED <<program, profile, todo, phase, total, j, counter, hits, handed, priv, got, tmp, drawn>>

\* Fault: the private sum replaces the shared one.
Leave_Overwrites(t) ==
  /\ pc[t] = "loop" /\ handed = num_samples
  /\ counter' = priv[t].c
  /\ counter_sq' = counter_sq + priv[t].sq
  /\ pc' = [pc EXCEPT ![t] = "joined"]
  /\ UNCHANGED <<program, profile, todo, phase, total, j, hits, handed, priv, got, tmp, drawn>>

\* A thread leaves the loop: the runtime adds its private copies.
Leave(t) ==
  /\ pc[t] = "loop" /\ handed = num_samples
  /\ counter' = counter + priv[t].c
  /\ counter_sq' = counter_sq + priv[t].sq
  /\ pc' = [pc EXCEPT ![t] = "joined"]
  /\ UNCHANGED <<program, profile, todo, phase, total, j, hits, handed, priv, got, tmp, drawn>>

WindowOver == phase = "window" /\ \A t \in Threads : pc[t] = "joined"

total_ns == num_samples * (j + 1)

Stops == ErrorBelowTarget(sampler, total_ns, counter, counter_sq)

\* The end of a window whose error is not yet below the target.
NextWindow ==
  /\ WindowOver /\ ~Stops /\ j + 1 < MaxWindows
  /\ j' = j + 1
  /\ EnterWindow
  /\ UNCHANGED <<program, profile, todo, total, shared, drawn>>

\* Fault: every sampler divides by the size of one window.
EstimateOf_OneWindow(s) == counter \div num_samples

\* What the sampler assigns to total when its loop is over.
EstimateOf(s) ==
  IF Final \/ s = "clique"
  THEN Average(s, total_ns, counter)
  ELSE counter \div num_samples

\* What a sampler of the profiler leaves in final_err: the error only when it
\* breaks, otherwise what was there.
FinalError ==
  IF program = "ns_fast_profiler" /\ Stops
  THEN SquaredError(sampler, total_ns, counter, counter_sq) ELSE final_err

\* The end of the last window: the sampler returns, sample_pattern goes on.
Return ==
  /\ WindowOver /\ (Stops \/ j + 1 = MaxWindows)
  /\ total' = EstimateOf(sampler) /\ final_err' = FinalError
  /\ todo' = Tail(todo)
  /\ phase' = IF Len(todo) > 1 THEN "call"
              ELSE IF program = "ns_fast_profiler" THEN "elp" ELSE "done"
  /\ UNCHANGED <<program, true_count, predicted, j, shared, team, drawn>>

\* A division by a true_count of 0.
Infinite == -1

\* The error at which the sampler broke, scaled to the whole graph.
Prediction ==
  IF true_count = 0 THEN Infinite
  ELSE (final_err[1] * total * total_ns * SizeRatio * Square(ErrDen))
         \div (final_err[2] * true_count * Square(ErrNum))

ELP ==
  /\ phase = "elp" /\ phase' = "done"
  /\ predicted' = Prediction
  /\ UNCHANGED <<program, todo, total, j, shared, team, drawn, true_count, final_err>>

ThreadStep(t) ==
  Draw(t) \/ LoadHits(t) \/ StoreHits(t) \/ LoadSq(t) \/ StoreSq(t) \/ Leave(t)

MasterStep == CallSampler \/ NextWindow \/ Return \/ ELP

Next == MasterStep \/ \E t \in Threads : ThreadStep(t)

Spec == Init /\ [][Next]_vars

-----------------------------------------------------------------------------
\* The part of a sum that is still in the private copy of a running thread.
Pending(val) == SumOver(val, {t \in Threads : pc[t] # "joined"})

(***************************************************************************)
(* No sample is lost or counted twice across threads and windows: the      *)
(* shared sum and what the running threads hold privately are the sum of   *)
(* everything drawn, for counter always and for counter_sq where the       *)
(* pragma reduces it.                                                      *)
(***************************************************************************)
SumsExact ==
  phase = "window" =>
    /\ counter + Pending([t \in Threads |-> priv[t].c]) = drawn.sum
    /\ ReducesSq(sampler) =>
         counter_sq + Pending([t \in Threads |-> priv[t].sq]) = drawn.sq

(***************************************************************************)
(* The races on hits (and on an unreduced counter_sq) only lose updates:   *)
(* the reported hit rate is never above the true one, and a sampler that   *)
(* hit at all reports a hit.                                               *)
(***************************************************************************)
HitsNeverOver ==
  /\ phase = "window" => hits <= drawn.hit /\ counter_sq <= drawn.sq
  /\ WindowOver /\ drawn.hit > 0 => hits > 0

\* The relative error of the mean of n samples, times std_devs, is below the
\* target, from the exact sums.
WithinTarget(n, sum, sq) ==
  sum > 0 /\ Square(std_devs * ErrDen) * (n * sq - sum * sum) < Square(ErrNum) * n * sum * sum

EndedEarly == WindowOver /\ Stops

(***************************************************************************)
(* The loop breaks only when the samples drawn so far really meet the      *)
(* error target the user gave (err_target at std_devs deviations).         *)
(***************************************************************************)
StopSound == EndedEarly => WithinTarget(drawn.n, drawn.sum, drawn.sq)

\* The samplers that reduce counter_sq break only within the target, also
\* with ns_online's truncated, wrapping average and with the 2.2 of the
\* dumbbell sampler: both err on the side of drawing more.
StopSoundReduced == EndedEarly /\ ReducesSq(sampler) => StopSound

\* The samplers that divide by total_ns (all of ns_final, the clique sampler of
\* ns_online) hand over the mean, also after several windows.
EstimateIsMeanOfAll ==
  [][phase = "window" /\ phase' # "window" /\ (Final \/ sampler = "clique") =>
       total' = Average(sampler, drawn.n, drawn.sum)]_vars
=============================================================================

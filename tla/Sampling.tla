------------------------------ MODULE Sampling ------------------------------
(***************************************************************************)
(* engine/sampling.py and the grouping of near-duplicate names of           *)
(* engine/graphrag_pack.py: how a population is cut to a sample, how Neo4j   *)
(* ranks it, and which sampled names fall into one group.  Pure operators.   *)
(***************************************************************************)
EXTENDS Integers, Sequences, FiniteSetsExt, SequencesExt

------------------------------------------------------------------------------
(* SamplingPolicy.decide: everything, or a part of it.                      *)
Decide(population, exhaustive, size) ==
  LET exact == population <= exhaustive \/ population <= size
  IN  [population |-> population, size |-> IF exact THEN population ELSE size, exact |-> exact]

(* An estimate comes with a sampled decision only.                          *)
IsEstimated(decision) == ~decision.exact

------------------------------------------------------------------------------
(* deterministic_sample_indices: Floyd's algorithm.  A draw for every top   *)
(* candidate; one drawn before is replaced by the top itself.               *)
Tops(population, size) == [i \in 1..size |-> population - size + i - 1]

(* The numbers the generator may return: draw i is below top i plus one.    *)
Draws(population, size) ==
  {d \in [1..size -> 0..population - 1] : \A i \in 1..size : d[i] <= Tops(population, size)[i]}

Pick(selected, top, draw) == selected \cup {IF draw \in selected THEN top ELSE draw}

Selected(population, size, draws) ==
  LET chosen[i \in 0..size] ==
        IF i = 0 THEN {} ELSE Pick(chosen[i - 1], Tops(population, size)[i], draws[i])
  IN  chosen[size]

------------------------------------------------------------------------------
(* The seeded cubic hash that ranks nodes in Neo4j (cypher_hash_value), over *)
(* a prime modulus p.                                                       *)
Coefficients(p) == [1..4 -> 0..p - 1]

(* A seed-derived affine ordering.                                          *)
AffineHash(value, c, p) == (c[3] * (value % p) + c[4]) % p

Hash(value, c, p) ==
  LET v == value % p
  IN  (((((c[1] * v + c[2]) % p) * v + c[3]) % p) * v + c[4]) % p

------------------------------------------------------------------------------
(* duplicate_groups: normalized names, each a sequence of letters 0..n, are *)
(* joined when the Dice coefficient of their bigrams exceeds threshold, a   *)
(* pair <<numerator, denominator>>; buckets bounds the overlap before it is *)
(* counted.                                                                 *)
Grams(key) == [i \in 1..Len(key) - 1 |-> <<key[i], key[i + 1]>>]
Copies(g, gs) == Cardinality({i \in DOMAIN gs : gs[i] = g})
Lesser(m, n) == IF m < n THEN m ELSE n
Overlap(a, b) == SumFunction([g \in ToSet(a) |-> Lesser(Copies(g, a), Copies(g, b))])

Bucket(g, buckets) == (g[1] * 131 + g[2]) % buckets
Mask(gs, buckets) == {Bucket(gs[i], buckets) : i \in DOMAIN gs}

(* Each shared bucket counted once, however often its grams repeat.         *)
MaskBound(a, b, buckets) == Cardinality(Mask(a, buckets) \cap Mask(b, buckets))

(* At most so many grams are shared: one per common bucket, and repeats.    *)
OverlapBound(a, b, buckets) ==
  Cardinality(Mask(a, buckets) \cap Mask(b, buckets))
    + Lesser(Len(a) - Cardinality(Mask(a, buckets)), Len(b) - Cardinality(Mask(b, buckets)))

Similar(overlap, total, threshold) == 2 * overlap * threshold[2] > threshold[1] * total

(* The code halves the paths it walks, which changes no root.               *)
RootOf(parents, i) ==
  LET up[j \in DOMAIN parents] == IF parents[j] = j THEN j ELSE up[parents[j]] IN up[i]

(* One pair: skipped when already joined or when the bound rules it out.    *)
JoinPair(parents, grams, left, right, threshold, buckets) ==
  LET a == grams[left]
      b == grams[right]
      total == Len(a) + Len(b)
      bound == Lesser(Lesser(Len(a), Len(b)), OverlapBound(a, b, buckets))
  IN  IF \/ RootOf(parents, left) = RootOf(parents, right)
         \/ total = 0 \/ ~Similar(bound, total, threshold)
         \/ ~Similar(Overlap(a, b), total, threshold)
      THEN parents
      ELSE [parents EXCEPT ![RootOf(parents, right)] = RootOf(parents, left)]

(* All pairs, the right one in the outer loop.                              *)
Parents(grams, threshold, buckets) ==
  LET n == Len(grams)
      pair[k \in 0..n * n] ==
        IF k = 0 THEN [i \in 1..n |-> i]
        ELSE LET right == ((k - 1) \div n) + 1
                 left == ((k - 1) % n) + 1
             IN  IF left < right THEN JoinPair(pair[k - 1], grams, left, right, threshold, buckets)
                 ELSE pair[k - 1]
  IN  IF threshold[1] < threshold[2] THEN pair[n * n] ELSE pair[0]

(* Groups of distinct normalized names; a group is reported when it holds   *)
(* more than one node.                                                      *)
Groups(keys, threshold, buckets) ==
  LET parents == Parents([i \in DOMAIN keys |-> Grams(keys[i])], threshold, buckets)
  IN  {{keys[j] : j \in {k \in DOMAIN keys : RootOf(parents, k) = RootOf(parents, i)}} : i \in DOMAIN keys}

Reported(keys, held, threshold, buckets) ==
  {g \in Groups(keys, threshold, buckets) : SumFunctionOnSet(held, g) > 1}
=============================================================================

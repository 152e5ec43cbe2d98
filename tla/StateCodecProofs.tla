-------------------------- MODULE StateCodecProofs --------------------------
(***************************************************************************)
(* The packing of product states is lossless, for every query length,      *)
(* distance bound, algorithm and width of StateId: whatever an encoder     *)
(* returns decodes to what was encoded, so two product states never share  *)
(* an id.                                                                  *)
(***************************************************************************)
EXTENDS StateCodec, TLAPS

(* Division with remainder, and the uniqueness of quotient and remainder.  *)
LEMMA Division ==
    ASSUME NEW x \in Int, NEW w \in Int, w > 0
    PROVE  /\ x \div w \in Int
           /\ x % w \in 0 .. w - 1
           /\ x = (x \div w) * w + (x % w)
<1>1. x = (x \div w) * w + (x % w)
  BY Z3
<1>2. x \div w \in Int /\ x % w \in 0 .. w - 1
  BY Z3
<1> QED BY <1>1, <1>2

(* A quotient with a remainder in range is not exceeded.                   *)
LEMMA QuotientNotSmaller ==
    ASSUME NEW n \in Int, NEW q \in Int, NEW w \in Int, w > 0,
           NEW a \in 0 .. w - 1, NEW r \in 0 .. w - 1,
           n * w + a = q * w + r
    PROVE  ~ (n > q)
<1>1. SUFFICES ASSUME n > q PROVE FALSE
  OBVIOUS
<1>2. n - q - 1 \in Nat /\ n = q + 1 + (n - q - 1)
  BY <1>1
<1>3. PICK d \in Nat : n = q + 1 + d
  BY <1>2
<1>4. n * w = q * w + w + d * w
  BY <1>3
<1>5. d * w >= 0 /\ d * w \in Int /\ q * w \in Int
  BY <1>3
<1> QED BY <1>4, <1>5

(* Division undoes a packing in mixed radix.                               *)
LEMMA DivMod ==
    ASSUME NEW n \in Int, NEW w \in Int, w > 0, NEW a \in 0 .. w - 1
    PROVE  (n * w + a) \div w = n /\ (n * w + a) % w = a
<1>1. PICK x \in Int : x = n * w + a
  OBVIOUS
<1>2. PICK q \in Int, r \in 0 .. w - 1 :
        q = x \div w /\ r = x % w /\ n * w + a = q * w + r
  BY <1>1, Division
<1>3. ~ (n > q) /\ ~ (q > n)
  BY <1>2, QuotientNotSmaller
<1>4. n = q
  BY <1>3
<1>5. n * w = q * w /\ q * w \in Int
  BY <1>4
<1>6. a = r
  BY <1>2, <1>5
<1> QED BY <1>1, <1>2, <1>4, <1>6

(* Whatever try_encode returns is a u32 that decode splits into the node   *)
(* id and the automaton id it was made of.                                 *)
THEOREM ProductStateRoundTrip ==
    ASSUME NEW n \in Nat, NEW a \in Nat, NEW w \in Nat, NEW id \in try_encode(n, a, w)
    PROVE  id \in 0 .. MaxU32 /\ NodeOf(id, w) = n /\ AutomatonOf(id, w) = a
<1>1. id = n * w + a /\ w > 0 /\ a < w /\ id <= MaxU32
  BY DEF try_encode
<1>2. n * w \in Nat
  OBVIOUS
<1>3. id \in 0 .. MaxU32
  BY <1>1, <1>2, MaxU32Assumption
<1>4. id \div w = n /\ id % w = a
  BY <1>1, DivMod
<1> QED BY <1>3, <1>4 DEF NodeOf, AutomatonOf

(* The slots of the continuation kinds do not overlap.                     *)
LEMMA SlotsDistinct ==
    ASSUME NEW c, c.algorithm \in Algorithms, NEW m1 \in Modes, NEW m2 \in Modes,
           NEW s \in SlotOf(c, m1), s \in SlotOf(c, m2)
    PROVE  m1 = m2 /\ s \in Nat
BY Z3 DEF Algorithms, Modes, SlotOf, transpose_second_slot, merge_second_slot,
          split_second_slot

(* A codec's radices are positive and its fields are its parameters.       *)
LEMMA CodecFacts ==
    ASSUME NEW query_len \in Nat, NEW max_distance \in Nat, max_distance < MaxU32,
           NEW algorithm \in Algorithms, NEW c,
           c = Codec(query_len, max_distance, algorithm)
    PROVE  /\ c.normal \in Int /\ c.normal > 0
           /\ automaton_stride(c) = max_distance + 1
           /\ c.query_len = query_len /\ c.max_distance = max_distance
           /\ c.algorithm = algorithm
<1>1. (query_len + 1) * (max_distance + 1) \in Nat \ {0}
  <2>1. PICK p \in Nat : p = query_len * (max_distance + 1)
    OBVIOUS
  <2>2. (query_len + 1) * (max_distance + 1) = p + max_distance + 1
    BY <2>1
  <2> QED BY <2>2
<1>2. c.normal \in Int /\ c.normal > 0
  BY <1>1, MaxU32Assumption DEF Codec, bounded_levenshtein_states, Saturate
<1>3. c.query_len = query_len /\ c.max_distance = max_distance /\ c.algorithm = algorithm
  BY DEF Codec
<1>4. automaton_stride(c) = max_distance + 1
  BY <1>3, MaxU32Assumption DEF automaton_stride, Saturate
<1> QED BY <1>2, <1>3, <1>4

(* Whatever the encoder of a mode returns decodes to that mode, position   *)
(* and cost and to nothing else: the slots of normal, transposition, merge *)
(* and split states never alias, also when the number of automaton states  *)
(* saturates.                                                              *)
THEOREM AutomatonStateRoundTrip ==
    ASSUME NEW query_len \in Nat, NEW max_distance \in Nat, max_distance < MaxU32,
           NEW algorithm \in Algorithms, NEW c,
           c = Codec(query_len, max_distance, algorithm),
           NEW mode \in Modes,
           NEW pos \in 0 .. query_len, NEW cost \in 0 .. max_distance,
           NEW a \in continuation_state(c, mode, pos, cost)
    PROVE  decode_automaton_state(c, a) = {[mode |-> mode, pos |-> pos, cost |-> cost]}
<1> DEFINE stride == max_distance + 1
<1>1. /\ c.normal \in Int /\ c.normal > 0
      /\ automaton_stride(c) = stride
      /\ c.query_len = query_len /\ c.max_distance = max_distance
      /\ c.algorithm = algorithm
  BY CodecFacts
<1>2. PICK slot \in SlotOf(c, mode), base \in encode_automaton_state(c, pos, cost) :
        a = slot * c.normal + base /\ a < c.width
  BY DEF continuation_state
<1>3. slot \in Nat
  BY <1>1, SlotsDistinct
<1>4. base = pos * stride + cost /\ base < c.normal
  BY <1>1 DEF encode_automaton_state
<1>5. base \in 0 .. c.normal - 1
  <2>1. pos * stride \in Nat
    OBVIOUS
  <2> QED BY <2>1, <1>4, <1>1
<1>6. a \div c.normal = slot /\ a % c.normal = base
  <2>1. PICK w \in Int : w = c.normal
    BY <1>1
  <2>2. slot \in Int /\ w > 0 /\ base \in 0 .. w - 1 /\ a = slot * w + base
    BY <2>1, <1>1, <1>2, <1>3, <1>5
  <2>3. (slot * w + base) \div w = slot /\ (slot * w + base) % w = base
    BY <2>2, DivMod
  <2> QED BY <2>1, <2>2, <2>3
<1>7. base \div stride = pos /\ base % stride = cost
  <2>1. stride \in Int /\ stride > 0 /\ cost \in 0 .. stride - 1
    OBVIOUS
  <2> QED BY <2>1, <1>4, DivMod
<1>8. {m \in Modes : /\ a < c.width
                     /\ pos <= c.query_len
                     /\ cost <= c.max_distance
                     /\ a \div c.normal \in SlotOf(c, m)} = {mode}
  <2>1. a < c.width /\ pos <= c.query_len /\ cost <= c.max_distance
    BY <1>1, <1>2
  <2>2. \A m \in Modes : slot \in SlotOf(c, m) => m = mode
    BY <1>1, SlotsDistinct
  <2> QED BY <2>1, <2>2, <1>6
<1> QED BY <1>1, <1>6, <1>7, <1>8 DEF decode_automaton_state

=============================================================================

--------------------------- MODULE Blake2sProofs ---------------------------
(***************************************************************************)
(* Type correctness of BLAKE2s, that the last block of a message is still  *)
(* buffered when blake2s_final() flags it, that the counter counts, and    *)
(* that the implementation is a streaming hash, for every block length,    *)
(* counter width, key and message.                                         *)
(***************************************************************************)
EXTENDS Blake2s, SequenceTheorems, TLAPS

\* The loop of blake2s_update() starts with an empty buffer.
BufferDrained == updating => buf = <<>>

IInv == TypeOK /\ LastBlockHeld /\ BufferDrained

Words    == 0..(W-1)
Counters == Words \X Words
Blocks   == [block : Seq(Nat), t : Counters, last : BOOLEAN]

-----------------------------------------------------------------------------
(* The operators of the model.                                             *)

\* The counter words never leave their width.
LEMMA IncrementType ==
  ASSUME NEW c \in Counters, NEW inc \in Nat
  PROVE  Increment(c, inc) \in Counters
<1> DEFINE low == (c[1] + inc) % W
<1>1. W \in Nat /\ W > 0
  BY Blake2sAssumption
<1>2. c[1] \in Nat /\ c[2] \in Nat
  BY <1>1 DEF Counters, Words
<1>3. low \in 0..(W-1)
  BY <1>1, <1>2
<1>4. \A n \in Nat : n % W \in 0..(W-1)
  BY <1>1
<1>5. (c[2] + (IF low < inc THEN 1 ELSE 0)) % W \in 0..(W-1)
  BY <1>2, <1>4
<1> QED
  BY <1>3, <1>5 DEF Increment, Counters, Words

\* A compression extends the chain by one.
LEMMA CompressType ==
  ASSUME NEW chain \in Seq(Blocks), NEW block \in Seq(Nat),
         NEW c \in Counters, NEW last \in BOOLEAN
  PROVE  /\ Compress(chain, block, c, last) \in Seq(Blocks)
         /\ Compress(chain, block, c, last) # <<>>
<1> DEFINE r == [block |-> block, t |-> c, last |-> last]
<1>1. r \in Blocks
  BY DEF Blocks
<1>2. Append(chain, r) \in Seq(Blocks) /\ Len(Append(chain, r)) = Len(chain) + 1
  BY <1>1, AppendProperties
<1> QED
  BY <1>2, LenProperties, EmptySeq DEF Compress

\* A sequence is empty when its length is 0.
LEMMA Emptiness ==
  ASSUME NEW s \in Seq(Nat)
  PROVE  Len(s) \in Nat /\ (s = <<>> <=> Len(s) = 0)
BY EmptySeq, LenProperties

\* Padding gives whole blocks.
LEMMA PadType ==
  ASSUME NEW bytes \in Seq(Nat)
  PROVE  Pad(bytes) \in Seq(Nat) /\ Len(Pad(bytes)) = B
<1>1. B \in Nat
  BY Blake2sAssumption
<1>2. Pad(bytes) \in [1..B -> Nat]
  BY <1>1 DEF Pad
<1> QED
  BY <1>1, <1>2

\* A piece cut from a sequence of bytes, from somewhere up to its end.
LEMMA CutType ==
  ASSUME NEW s \in Seq(Nat), NEW m \in Nat, NEW n \in Nat, n <= Len(s), m >= 1
  PROVE  /\ SubSeq(s, m, n) \in Seq(Nat)
         /\ m <= n => SubSeq(s, m, n) # <<>>
<1>1. \A i \in m..n : s[i] \in Nat
  BY LenProperties
<1>2. /\ SubSeq(s, m, n) \in Seq(Nat)
      /\ Len(SubSeq(s, m, n)) = IF m <= n THEN n - m + 1 ELSE 0
  BY <1>1, SubSeqProperties
<1>3. m <= n => Len(SubSeq(s, m, n)) > 0
  BY <1>2
<1>4. Len(<<>>) = 0
  BY EmptySeq
<1> QED
  BY <1>2, <1>3, <1>4

\* What is left of a sequence of bytes is not empty.
LEMMA RestType ==
  ASSUME NEW s \in Seq(Nat), NEW m \in Nat, 1 <= m, m <= Len(s)
  PROVE  SubSeq(s, m, Len(s)) \in Seq(Nat) /\ SubSeq(s, m, Len(s)) # <<>>
<1> DEFINE n == Len(s)
<1>1. n \in Nat /\ n <= Len(s) /\ m <= n
  BY Emptiness
<1> HIDE DEF n
<1>2. SubSeq(s, m, n) \in Seq(Nat) /\ SubSeq(s, m, n) # <<>>
  BY <1>1, CutType
<1> QED
  BY <1>2 DEF n

\* Two pieces put together.
LEMMA ConcatType ==
  ASSUME NEW s \in Seq(Nat), NEW u \in Seq(Nat)
  PROVE  s \o u \in Seq(Nat) /\ Len(s \o u) = Len(s) + Len(u)
BY ConcatProperties

\* TypeOK, with its sets named.
LEMMA TypeOKNamed ==
  TypeOK <=> /\ param \in [outlen : 0..OutBytes, keylen : 0..KeyBytes]
             /\ h \in Seq(Blocks)
             /\ t \in Counters
             /\ f \in BOOLEAN
             /\ buf \in Seq(Nat)
             /\ pin \in Seq(Nat)
             /\ updating \in BOOLEAN
             /\ given \in Seq(Nat)
BY DEF TypeOK, Blocks, Counters, Words

-----------------------------------------------------------------------------
(* The inductive invariant.                                                *)

\* The invariant holds of a zeroed blake2s_state.
LEMMA InitInvariant == Init => IInv
<1>1. W \in Nat /\ W > 0
  BY Blake2sAssumption
<1>2. B \in Nat /\ OutBytes \in Nat /\ KeyBytes \in Nat
  BY Blake2sAssumption
<1>3. <<0, 0>> \in Counters
  BY <1>1 DEF Counters, Words
<1>4. <<>> \in Seq(Blocks) /\ <<>> \in Seq(Nat) /\ Len(<<>>) = 0
  BY EmptySeq
<1> SUFFICES ASSUME Init PROVE IInv
  OBVIOUS
<1>5. TypeOK
  <2>1. param \in [outlen : 0..OutBytes, keylen : 0..KeyBytes]
    BY <1>2 DEF Init
  <2> QED
    BY <1>3, <1>4, <2>1, TypeOKNamed DEF Init
<1>6. LastBlockHeld /\ BufferDrained
  BY <1>2, <1>4 DEF Init, LastBlockHeld, BufferDrained
<1> QED
  BY <1>5, <1>6 DEF IInv

\* blake2s_init() and blake2s_init_key() up to the buffer, which the caller sets.
LEMMA ResetType ==
  ASSUME TypeOK, NEW outlen \in OutLens, ValidOutLen(outlen),
         NEW keylen \in 0..KeyBytes, Reset(outlen, keylen),
         buf' \in Seq(Nat), given' \in Seq(Nat)
  PROVE  TypeOK'
<1>1. param' \in [outlen : 0..OutBytes, keylen : 0..KeyBytes]
  BY Blake2sAssumption DEF Reset, ValidOutLen
<1>2. t' \in Counters
  BY Blake2sAssumption DEF Reset, Counters, Words
<1> QED
  BY <1>1, <1>2, TypeOKNamed, EmptySeq DEF Reset, TypeOK, Blocks, Counters, Words

\* A compression counts its bytes and extends the chain, one block or a part.
LEMMA CompressStep ==
  ASSUME TypeOK, NEW inc \in Nat, NEW block \in Seq(Nat), NEW last \in BOOLEAN,
         t' = Increment(t, inc), h' = Compress(h, block, t', last)
  PROVE  t' \in Counters /\ h' \in Seq(Blocks)
BY TypeOKNamed, IncrementType, CompressType

\* A message longer than the room left starts the loop.
LEMMA UpdateInvariant ==
  ASSUME IInv, NEW chunk \in Chunks, Update(chunk)
  PROVE  IInv'
<1> DEFINE fill == B - Len(buf)
<1>1. /\ buf \in Seq(Nat) /\ pin \in Seq(Nat) /\ chunk \in Seq(Nat) /\ f \in BOOLEAN
      /\ h \in Seq(Blocks) /\ t \in Counters /\ TypeOK
  BY TypeOKNamed, Blake2sAssumption DEF IInv
<1>2. Len(buf) \in Nat /\ Len(chunk) \in Nat /\ B \in Nat /\ Len(buf) <= B
  BY <1>1, Emptiness, Blake2sAssumption DEF IInv, LastBlockHeld
<1>3. given' \in Seq(Nat)
  BY <1>1, TypeOKNamed, ConcatType DEF Update
<1>4. CASE Len(chunk) > fill
  <2> DEFINE first == SubSeq(chunk, 1, fill)
             rest  == SubSeq(chunk, fill + 1, Len(chunk))
  <2>1. fill \in Nat /\ fill + 1 \in Nat /\ fill + 1 >= 1 /\ fill + 1 <= Len(chunk)
    BY <1>2, <1>4
  <2>2. first \in Seq(Nat)
    BY <1>1, <1>2, <2>1, CutType
  <2>3. rest \in Seq(Nat) /\ rest # <<>>
    BY <1>1, <2>1, RestType
  <2>4. buf \o first \in Seq(Nat)
    BY <1>1, <2>2, ConcatType
  <2>5. /\ t' = Increment(t, B) /\ h' = Compress(h, buf \o first, t', f)
        /\ buf' = <<>> /\ pin' = rest /\ updating' = TRUE
        /\ UNCHANGED <<param, f, out>>
    BY <1>4 DEF Update
  <2>6. t' \in Counters /\ h' \in Seq(Blocks)
    BY <1>1, <1>2, <2>4, <2>5, CompressStep
  <2>7. TypeOK'
    BY <1>1, <1>3, <2>3, <2>5, <2>6, EmptySeq DEF TypeOK, Blocks, Counters, Words
  <2>8. LastBlockHeld' /\ BufferDrained'
    BY <1>2, <2>3, <2>5, EmptySeq DEF LastBlockHeld, BufferDrained
  <2> QED
    BY <2>7, <2>8 DEF IInv
<1>5. CASE ~(Len(chunk) > fill)
  <2>1. /\ buf' = buf \o chunk /\ UNCHANGED <<h, t, pin, updating, param, f, out>>
        /\ ~updating
    BY <1>5 DEF Update
  <2>2. buf' \in Seq(Nat) /\ Len(buf') = Len(buf) + Len(chunk)
    BY <1>1, <2>1, ConcatType
  <2>3. Len(buf') <= B /\ (buf' = <<>> => buf = <<>>)
    BY <1>1, <1>2, <1>5, <2>2, Emptiness
  <2>4. TypeOK'
    BY <1>1, <1>3, <2>1, <2>2 DEF TypeOK
  <2>5. LastBlockHeld' /\ BufferDrained'
    BY <2>1, <2>3 DEF IInv, LastBlockHeld, BufferDrained
  <2> QED
    BY <2>4, <2>5 DEF IInv
<1> QED
  BY <1>4, <1>5

\* The loop leaves at least one byte, and does not touch the buffer.
LEMMA UpdateBlockInvariant == IInv /\ UpdateBlock => IInv'
<1> SUFFICES ASSUME IInv, UpdateBlock PROVE IInv'
  OBVIOUS
<1>1. pin \in Seq(Nat) /\ f \in BOOLEAN /\ TypeOK
  BY TypeOKNamed DEF IInv
<1>2. Len(pin) \in Nat /\ B \in Nat /\ Len(pin) > B /\ B + 1 \in Nat
  BY <1>1, Emptiness, Blake2sAssumption DEF UpdateBlock
<1>3. SubSeq(pin, 1, B) \in Seq(Nat)
  BY <1>1, <1>2, CutType
<1>4. /\ SubSeq(pin, B + 1, Len(pin)) \in Seq(Nat)
      /\ SubSeq(pin, B + 1, Len(pin)) # <<>>
  <2>1. B + 1 <= Len(pin) /\ B + 1 >= 1
    BY <1>2
  <2> QED
    BY <1>1, <1>2, <2>1, RestType
<1>5. t' \in Counters /\ h' \in Seq(Blocks)
  BY <1>1, <1>2, <1>3, CompressStep DEF UpdateBlock
<1>6. TypeOK'
  BY <1>1, <1>4, <1>5 DEF TypeOK, UpdateBlock, Blocks, Counters, Words
<1>7. LastBlockHeld' /\ BufferDrained'
  BY <1>4 DEF IInv, LastBlockHeld, BufferDrained, UpdateBlock
<1> QED
  BY <1>6, <1>7 DEF IInv

\* What is left, at most a block, is buffered.
LEMMA UpdateTailInvariant == IInv /\ UpdateTail => IInv'
<1> SUFFICES ASSUME IInv, UpdateTail PROVE IInv'
  OBVIOUS
<1>1. pin \in Seq(Nat) /\ buf \in Seq(Nat) /\ TypeOK
  BY TypeOKNamed DEF IInv
<1>2. buf = <<>> /\ pin # <<>> /\ Len(pin) <= B /\ Len(pin) \in Nat
  BY <1>1, Emptiness DEF IInv, LastBlockHeld, BufferDrained, UpdateTail
<1>3. buf' \in Seq(Nat) /\ Len(buf') = Len(pin) /\ buf' # <<>>
  BY <1>1, <1>2, ConcatType, Emptiness DEF UpdateTail
<1>4. TypeOK'
  BY <1>1, <1>3, EmptySeq DEF TypeOK, UpdateTail
<1>5. LastBlockHeld' /\ BufferDrained'
  BY <1>2, <1>3 DEF LastBlockHeld, BufferDrained, UpdateTail
<1> QED
  BY <1>4, <1>5 DEF IInv

\* Every step keeps the invariant.
LEMMA NextInvariant == IInv /\ [Next]_vars => IInv'
<1> SUFFICES ASSUME IInv, [Next]_vars PROVE IInv'
  OBVIOUS
<1> USE DEF IInv
<1>1. TypeOK /\ buf \in Seq(Nat) /\ h \in Seq(Blocks) /\ B \in Nat /\ Len(buf) \in Nat
  BY TypeOKNamed, Blake2sAssumption, Emptiness
<1>2. ASSUME NEW n \in OutLens, InitHash(n) PROVE IInv'
  <2>1. /\ ValidOutLen(n) /\ Reset(n, 0) /\ buf' = <<>> /\ given' = <<>> /\ h' = <<>>
        /\ ~updating /\ UNCHANGED <<pin, updating>>
    BY <1>2 DEF InitHash, Reset
  <2>2. TypeOK'
    <3>1. 0 \in 0..KeyBytes /\ buf' \in Seq(Nat) /\ given' \in Seq(Nat)
      BY <2>1, Blake2sAssumption, EmptySeq
    <3> QED
      BY <1>1, <2>1, <3>1, ResetType
  <2>3. LastBlockHeld' /\ BufferDrained'
    BY <1>1, <2>1, EmptySeq DEF LastBlockHeld, BufferDrained
  <2> QED
    BY <2>2, <2>3
<1>3. ASSUME NEW n \in OutLens, NEW key \in Keys, InitKey(n, key) PROVE IInv'
  <2>1. /\ ValidOutLen(n) /\ Reset(n, Len(key)) /\ h' = <<>>
        /\ buf' = Pad(key) /\ given' = Pad(key)
        /\ ~updating /\ UNCHANGED <<pin, updating>>
    BY <1>3 DEF InitKey, Reset
  <2>2. buf' \in Seq(Nat) /\ Len(buf') = B /\ given' \in Seq(Nat)
    BY <2>1, PadType, Blake2sAssumption
  <2>3. Len(key) \in 0..KeyBytes
    BY <1>3, Blake2sAssumption DEF InitKey
  <2>4. TypeOK'
    BY <1>1, <2>1, <2>2, <2>3, ResetType
  <2>5. LastBlockHeld' /\ BufferDrained'
    BY <1>1, <2>1, <2>2 DEF LastBlockHeld, BufferDrained
  <2> QED
    BY <2>4, <2>5
<1>4. ASSUME NEW n \in OutLens, FinalHash(n) PROVE IInv'
  <2>1. Pad(buf) \in Seq(Nat)
    BY <1>1, PadType
  <2>2. t' \in Counters /\ h' \in Seq(Blocks)
    BY <1>1, <1>4, <2>1, CompressStep DEF FinalHash
  <2>3. TypeOK'
    BY <1>1, <1>4, <2>2 DEF FinalHash, TypeOK, Blocks, Counters, Words
  <2>4. LastBlockHeld' /\ BufferDrained'
    BY <1>4 DEF LastBlockHeld, BufferDrained, FinalHash
  <2> QED
    BY <2>3, <2>4
<1>5. ASSUME NEW chunk \in Chunks, Update(chunk) PROVE IInv'
  BY <1>5, UpdateInvariant
<1>6. CASE UpdateBlock
  BY <1>6, UpdateBlockInvariant
<1>7. CASE UpdateTail
  BY <1>7, UpdateTailInvariant
<1>8. CASE UNCHANGED vars
  BY <1>8 DEF vars, TypeOK, LastBlockHeld, BufferDrained
<1> QED
  BY <1>2, <1>3, <1>4, <1>5, <1>6, <1>7, <1>8 DEF Next

\* The state reached is always typed and its buffer within a block.
LEMMA InvariantHolds == Spec => []IInv
BY InitInvariant, NextInvariant, PTL DEF Spec

-----------------------------------------------------------------------------
(* The byte counter.                                                       *)

\* A remainder is the only one.
LEMMA Remainder ==
  ASSUME NEW m \in Nat, m > 0, NEW q \in Nat, NEW r \in 0..(m-1)
  PROVE  (m * q + r) % m = r
<1> DEFINE n  == m * q + r
           q2 == n \div m
           r2 == n % m
<1>1. m * q \in Nat
  BY Z3
<1>2. n \in Nat
  BY <1>1
<1>3. q2 \in Nat /\ r2 \in 0..(m-1) /\ n = m * q2 + r2
  BY <1>2, Z3
<1> HIDE DEF q2, r2
<1>4. m * q + r = m * q2 + r2
  BY <1>3
<1>5. ASSUME q2 >= q + 1 PROVE FALSE
  <2>1. m * q2 >= m * q + m
    BY <1>3, <1>5, Z3
  <2>2. m * q2 \in Nat
    BY <1>3, Z3
  <2> QED BY <1>1, <1>3, <1>4, <2>1, <2>2
<1>6. ASSUME q >= q2 + 1 PROVE FALSE
  <2>1. m * q >= m * q2 + m
    BY <1>3, <1>6, Z3
  <2>2. m * q2 \in Nat
    BY <1>3, Z3
  <2> QED BY <1>1, <1>3, <1>4, <2>1, <2>2
<1>7. q2 = q
  BY <1>3, <1>5, <1>6
<1>8. r2 = r
  BY <1>1, <1>3, <1>4, <1>7
<1> QED BY <1>8 DEF r2

\* To add is to add to the remainder.
LEMMA RemainderOfSum ==
  ASSUME NEW m \in Nat, m > 0, NEW n \in Nat, NEW k \in Nat
  PROVE  ((n % m) + k) % m = (n + k) % m
<1> DEFINE q  == n \div m
           s  == (n % m) + k
           qs == s \div m
           r  == s % m
<1>1. q \in Nat /\ n % m \in Nat /\ n = m * q + (n % m)
  BY Z3
<1>2. s \in Nat
  BY <1>1
<1>3. qs \in Nat /\ r \in 0..(m-1) /\ s = m * qs + r
  BY <1>2, Z3
<1>4. n + k = m * q + s
  BY <1>1
<1> HIDE DEF q, s, qs, r
<1>5. m * (q + qs) = m * q + m * qs
  BY <1>1, <1>3, Z3
<1>6. m * q \in Nat /\ m * qs \in Nat
  BY <1>1, <1>3, Z3
<1>7. n + k = m * (q + qs) + r
  BY <1>3, <1>4, <1>5, <1>6
<1>8. (m * (q + qs) + r) % m = r
  <2>1. q + qs \in Nat
    BY <1>1, <1>3
  <2> QED BY <1>3, <2>1, Remainder
<1> QED BY <1>7, <1>8 DEF r, s

\* The number that two words of a counter stand for.
Value(c) == c[1] + W * c[2]

LEMMA IncrementCounts ==
  ASSUME NEW c \in Counters, NEW inc \in 0..(W-1)
  PROVE  Value(Increment(c, inc)) = (Value(c) + inc) % (W * W)
<1> DEFINE a     == c[1]
           b     == c[2]
           low   == (a + inc) % W
           carry == IF low < inc THEN 1 ELSE 0
           high  == (b + carry) % W
           m     == W * W
<1>1. W \in Nat /\ W > 0 /\ a \in 0..(W-1) /\ b \in 0..(W-1)
  BY Blake2sAssumption DEF Counters, Words
<1>2. Increment(c, inc)[1] = low /\ Increment(c, inc)[2] = high
  BY DEF Increment
<1>3. m \in Nat /\ m > 0
  BY <1>1, Z3
<1>4. /\ carry = 0 => a + inc < W /\ low = a + inc
      /\ carry = 1 => low = a + inc - W
      /\ carry \in {0, 1} /\ low \in 0..(W-1)
  <2>1. CASE a + inc < W
    <3>1. a + inc \in Nat /\ a + inc = W * 0 + (a + inc) /\ a + inc \in 0..(W-1)
      BY <1>1, <2>1
    <3>2. low = a + inc
      BY <1>1, <2>1, <3>1, Remainder
    <3> QED BY <1>1, <2>1, <3>1, <3>2
  <2>2. CASE a + inc >= W
    <3>1. a + inc = W * 1 + (a + inc - W) /\ a + inc - W \in 0..(W-1)
      BY <1>1, <2>2
    <3>2. (W * 1 + (a + inc - W)) % W = a + inc - W
      BY <1>1, <3>1, Remainder
    <3>3. low = a + inc - W
      BY <3>1, <3>2
    <3> QED BY <1>1, <2>2, <3>1, <3>3
  <2> QED BY <1>1, <2>1, <2>2
<1>5. /\ b + carry < W => high = b + carry
      /\ b + carry >= W => b + carry = W /\ high = 0
  <2>1. CASE b + carry < W
    <3>1. b + carry = W * 0 + (b + carry) /\ b + carry \in 0..(W-1)
      BY <1>1, <1>4, <2>1
    <3>2. (W * 0 + (b + carry)) % W = b + carry
      BY <1>1, <3>1, Remainder
    <3> QED BY <1>1, <1>4, <2>1, <3>1, <3>2
  <2>2. CASE b + carry >= W
    <3>1. b + carry = W
      BY <1>1, <1>4, <2>2
    <3>2. b + carry = W * 1 + 0 /\ 0 \in 0..(W-1)
      BY <1>1, <3>1
    <3>3. (W * 1 + 0) % W = 0
      BY <1>1, <3>2, Remainder
    <3> QED BY <1>1, <1>4, <2>2, <3>1, <3>2, <3>3
  <2> QED BY <1>1, <1>4, <2>1, <2>2
<1>6. Value(c) + inc = a + inc + W * b
  BY <1>1, Z3 DEF Value
<1> HIDE DEF a, b, low, carry, high, m
<1>7. Value(c) + inc = low + W * (b + carry)
  <2>1. W * (b + carry) = W * b + W * carry
    BY <1>1, <1>4, Z3
  <2>2. W * b \in Nat /\ (carry = 0 => W * carry = 0) /\ (carry = 1 => W * carry = W)
    BY <1>1, Z3
  <2> QED BY <1>1, <1>4, <1>6, <2>1, <2>2
<1>8. CASE b + carry < W
  <2>1. low + W * (b + carry) \in 0..(m-1)
    <3>1. W * (b + carry) + W <= W * W /\ W * (b + carry) \in Nat
      BY <1>1, <1>4, <1>8, Z3
    <3> QED BY <1>1, <1>4, <3>1 DEF m
  <2>2. (m * 0 + (low + W * (b + carry))) % m = low + W * (b + carry)
    BY <1>3, <2>1, Remainder
  <2>3. m * 0 + (low + W * (b + carry)) = low + W * (b + carry)
    BY <1>3, <2>1
  <2>4. Value(Increment(c, inc)) = low + W * (b + carry)
    BY <1>2, <1>5, <1>8 DEF Value
  <2> QED BY <1>7, <2>2, <2>3, <2>4 DEF m
<1>9. CASE b + carry >= W
  <2>1. b + carry = W /\ high = 0
    BY <1>5, <1>9
  <2>2. Value(c) + inc = m * 1 + low
    BY <1>3, <1>4, <1>7, <2>1 DEF m
  <2>3. low \in 0..(m-1)
    <3>1. W <= m
      BY <1>1, Z3 DEF m
    <3> QED BY <1>1, <1>3, <1>4, <3>1
  <2>4. (m * 1 + low) % m = low
    BY <1>3, <2>3, Remainder
  <2>5. Value(Increment(c, inc)) = low
    BY <1>1, <1>2, <1>4, <2>1 DEF Value
  <2> QED BY <2>2, <2>4, <2>5 DEF m
<1> QED BY <1>1, <1>4, <1>8, <1>9

\* A piece cut from the front has the length asked for.
LEMMA FrontLength ==
  ASSUME NEW s \in Seq(Nat), NEW n \in Nat, n <= Len(s)
  PROVE  SubSeq(s, 1, n) \in Seq(Nat) /\ Len(SubSeq(s, 1, n)) = n
<1>1. \A i \in 1..n : s[i] \in Nat
  BY LenProperties
<1>2. Len(SubSeq(s, 1, n)) = IF 1 <= n THEN n - 1 + 1 ELSE 0
  BY <1>1, SubSeqProperties
<1> QED BY <1>2, CutType

\* A block more, and the words have counted its bytes.
LEMMA BlockCounted ==
  ASSUME TypeOK, CounterExact, NEW block \in Seq(Nat), Len(block) = B, f' = f,
         t' = Increment(t, B), h' = Compress(h, block, t', f)
  PROVE  CounterExact'
<1>1. h \in Seq(Blocks) /\ t \in Counters /\ f \in BOOLEAN /\ t' \in Counters
  BY TypeOKNamed, CompressStep, Blake2sAssumption
<1> DEFINE r == [block |-> block, t |-> t', last |-> f]
<1>2. r \in Blocks /\ r.block = block
  BY <1>1 DEF Blocks
<1>3. h' = Append(h, r)
  BY DEF Compress
<1> HIDE DEF r
<1>4. /\ DOMAIN h' = 1..(Len(h) + 1) /\ Len(h) \in Nat /\ Len(h') = Len(h) + 1
      /\ \A i \in 1..Len(h) : h'[i] = h[i]
      /\ h'[Len(h) + 1] = r
  BY <1>1, <1>2, <1>3, AppendProperties, LenProperties
<1>5. \A i \in DOMAIN h' : Len(h'[i].block) = B
  <2> SUFFICES ASSUME NEW i \in DOMAIN h' PROVE Len(h'[i].block) = B
    OBVIOUS
  <2>1. CASE i = Len(h) + 1
    BY <1>2, <1>4, <2>1
  <2>2. CASE i \in 1..Len(h)
    <3>1. i \in DOMAIN h
      BY <1>1, <2>2, LenProperties
    <3> QED BY <1>4, <2>2, <3>1 DEF CounterExact
  <2> QED BY <1>4, <2>1, <2>2
<1>6. ASSUME ~f PROVE t'[1] + W * t'[2] = (B * Len(h')) % (W * W)
  <2> DEFINE m == W * W
             n == B * Len(h)
  <2>1. /\ W \in Nat /\ W > 0 /\ B \in 0..(W-1) /\ B \in Nat
    BY Blake2sAssumption
  <2>2. m \in Nat /\ m > 0
    BY <2>1, Z3
  <2>3. n \in Nat
    BY <2>1, <1>4, Z3
  <2>4. Value(t) = n % m
    BY <1>6 DEF CounterExact, Value
  <2>5. Value(t') = (Value(t) + B) % m
    BY <1>1, <2>1, IncrementCounts
  <2>6. B * Len(h') = n + B
    <3>1. \A k \in Nat : B * (k + 1) = B * k + B
      BY <2>1, Z3
    <3> QED BY <1>4, <3>1
  <2> HIDE DEF m, n
  <2>7. Value(t') = (n + B) % m
    <3>1. ((n % m) + B) % m = (n + B) % m
      BY <2>1, <2>2, <2>3, RemainderOfSum
    <3> QED BY <2>4, <2>5, <3>1
  <2> QED BY <2>6, <2>7 DEF Value, m
<1> QED BY <1>5, <1>6 DEF CounterExact

\* The last block is padded; after it the words are not looked at.
LEMMA LastBlockCounted ==
  ASSUME TypeOK, CounterExact, NEW n \in OutLens, FinalHash(n)
  PROVE  CounterExact'
<1>1. h \in Seq(Blocks) /\ buf \in Seq(Nat) /\ t \in Counters /\ Len(buf) \in Nat
  BY TypeOKNamed, Emptiness
<1>2. Pad(buf) \in Seq(Nat) /\ Len(Pad(buf)) = B
  BY <1>1, PadType
<1>3. t' \in Counters
  BY <1>1, IncrementType DEF FinalHash
<1> DEFINE r == [block |-> Pad(buf), t |-> t', last |-> TRUE]
<1>4. r \in Blocks /\ r.block = Pad(buf)
  BY <1>2, <1>3 DEF Blocks
<1>5. h' = Append(h, r) /\ f'
  BY DEF FinalHash, Compress
<1> HIDE DEF r
<1>6. /\ DOMAIN h' = 1..(Len(h) + 1) /\ Len(h) \in Nat /\ DOMAIN h = 1..Len(h)
      /\ \A i \in 1..Len(h) : h'[i] = h[i]
      /\ h'[Len(h) + 1] = r
  BY <1>1, <1>4, <1>5, AppendProperties, LenProperties
<1>7. \A i \in DOMAIN h' : Len(h'[i].block) = B
  BY <1>2, <1>4, <1>6 DEF CounterExact
<1> QED BY <1>5, <1>7 DEF CounterExact

\* An initialisation starts at zero, with no blocks.
LEMMA ResetCounts ==
  ASSUME NEW n, NEW k, Reset(n, k) PROVE CounterExact'
<1>1. h' = <<>> /\ t' = <<0, 0>>
  BY DEF Reset
<1>2. W \in Nat /\ W > 0 /\ B \in Nat
  BY Blake2sAssumption
<1>3. W * W \in Nat /\ W * W > 0
  BY <1>2, Z3
<1>4. (W * W * 0 + 0) % (W * W) = 0
  BY <1>3, Remainder
<1>5. W * W * 0 + 0 = 0 /\ B * 0 = 0 /\ 0 + W * 0 = 0
  BY <1>2, <1>3
<1>6. Len(<<>>) = 0 /\ DOMAIN <<>> = {}
  OBVIOUS
<1> QED BY <1>1, <1>4, <1>5, <1>6 DEF CounterExact

\* Every step keeps the counter exact.
LEMMA NextCounts == IInv /\ CounterExact /\ [Next]_vars => CounterExact'
<1> SUFFICES ASSUME IInv, CounterExact, [Next]_vars PROVE CounterExact'
  OBVIOUS
<1>1. /\ TypeOK /\ buf \in Seq(Nat) /\ pin \in Seq(Nat) /\ B \in Nat
      /\ Len(buf) \in Nat /\ Len(pin) \in Nat /\ Len(buf) <= B
  BY TypeOKNamed, Blake2sAssumption, Emptiness DEF IInv, LastBlockHeld
<1>2. ASSUME NEW n \in OutLens, InitHash(n) PROVE CounterExact'
  BY <1>2, ResetCounts DEF InitHash
<1>3. ASSUME NEW n \in OutLens, NEW key \in Keys, InitKey(n, key) PROVE CounterExact'
  BY <1>3, ResetCounts DEF InitKey
<1>4. ASSUME NEW n \in OutLens, FinalHash(n) PROVE CounterExact'
  BY <1>1, <1>4, LastBlockCounted
<1>5. ASSUME NEW chunk \in Chunks, Update(chunk) PROVE CounterExact'
  <2> DEFINE fill == B - Len(buf)
  <2>1. CASE Len(chunk) > fill
    <3>1. fill \in Nat /\ chunk \in Seq(Nat) /\ fill <= Len(chunk)
      BY <1>1, <2>1, Blake2sAssumption, Emptiness
    <3> DEFINE first == SubSeq(chunk, 1, fill)
    <3>2. first \in Seq(Nat) /\ Len(first) = fill
      BY <3>1, FrontLength
    <3>3. /\ t' = Increment(t, B) /\ h' = Compress(h, buf \o first, t', f) /\ f' = f
      BY <1>5, <2>1 DEF Update
    <3> HIDE DEF first
    <3>4. buf \o first \in Seq(Nat) /\ Len(buf \o first) = B
      BY <1>1, <3>2, ConcatType
    <3> QED BY <1>1, <3>3, <3>4, BlockCounted
  <2>2. CASE ~(Len(chunk) > fill)
    BY <1>5, <2>2 DEF Update, CounterExact
  <2> QED BY <2>1, <2>2
<1>6. CASE UpdateBlock
  <2>1. Len(pin) > B
    BY <1>6 DEF UpdateBlock
  <2>2. SubSeq(pin, 1, B) \in Seq(Nat) /\ Len(SubSeq(pin, 1, B)) = B
    BY <1>1, <2>1, FrontLength
  <2>3. /\ t' = Increment(t, B) /\ h' = Compress(h, SubSeq(pin, 1, B), t', f) /\ f' = f
    BY <1>6 DEF UpdateBlock
  <2> QED BY <1>1, <2>2, <2>3, BlockCounted
<1>7. CASE UpdateTail
  BY <1>7 DEF UpdateTail, CounterExact
<1>8. CASE UNCHANGED vars
  BY <1>8 DEF vars, CounterExact
<1> QED BY <1>2, <1>3, <1>4, <1>5, <1>6, <1>7, <1>8 DEF Next

\* The counter of a zeroed blake2s_state says that there is nothing to count.
LEMMA InitCounts == Init => CounterExact
<1> SUFFICES ASSUME Init PROVE CounterExact
  OBVIOUS
<1>1. h = <<>> /\ t = <<0, 0>>
  BY DEF Init
<1>2. W \in Nat /\ W > 0 /\ B \in Nat
  BY Blake2sAssumption
<1>3. W * W \in Nat /\ W * W > 0
  BY <1>2, Z3
<1>4. (W * W * 0 + 0) % (W * W) = 0
  BY <1>3, Remainder
<1>5. W * W * 0 + 0 = 0 /\ B * 0 = 0 /\ 0 + W * 0 = 0
  BY <1>2, <1>3
<1>6. Len(<<>>) = 0 /\ DOMAIN <<>> = {}
  OBVIOUS
<1> QED BY <1>1, <1>4, <1>5, <1>6 DEF CounterExact

-----------------------------------------------------------------------------
(* The message that was absorbed.                                          *)

\* A place in a run of blocks is a block and a place in it.
LEMMA Quotient ==
  ASSUME NEW q \in Nat, NEW r \in 0..(B-1)
  PROVE  (B * q + r) \div B = q /\ (B * q + r) % B = r
<1> DEFINE n  == B * q + r
           q2 == n \div B
<1>1. B \in Nat /\ B > 0 /\ n % B = r
  BY Blake2sAssumption, Remainder
<1>2. B * q \in Nat
  BY <1>1, Z3
<1>3. n \in Nat
  BY <1>1, <1>2
<1>4. q2 \in Nat /\ n = B * q2 + (n % B)
  BY <1>1, <1>3, Z3
<1> HIDE DEF n, q2
<1>5. B * q2 + r = B * q + r
  BY <1>1, <1>4 DEF n
<1>6. q2 = q
  <2>1. B * q2 \in Nat
    BY <1>1, <1>4, Z3
  <2>2. B * q2 = B * q
    BY <1>1, <1>2, <1>5, <2>1
  <2> QED
    BY <1>1, <1>4, <2>2, Z3
<1> QED
  BY <1>1, <1>6 DEF n, q2

\* The place of a byte in a run of blocks.
LEMMA Place ==
  ASSUME NEW n \in Nat, NEW i \in 1..(B * n)
  PROVE  /\ (i - 1) \div B \in 0..(n-1) /\ (i - 1) % B \in 0..(B-1)
         /\ B * n \in Nat
<1>1. B \in Nat /\ B > 0
  BY Blake2sAssumption
<1>2. B * n \in Nat /\ i - 1 \in Nat /\ i - 1 < B * n
  BY <1>1, Z3
<1>3. PICK q, r : q = (i - 1) \div B /\ r = (i - 1) % B
  OBVIOUS
<1>4. q \in Nat /\ r \in 0..(B-1) /\ i - 1 = B * q + r
  BY <1>1, <1>2, <1>3, Z3
<1>5. ASSUME q >= n PROVE FALSE
  <2>1. B * q >= B * n
    BY <1>1, <1>4, <1>5, Z3
  <2>2. B * q \in Nat
    BY <1>1, <1>4, Z3
  <2> QED
    BY <1>1, <1>2, <1>4, <2>1, <2>2
<1> QED
  BY <1>2, <1>3, <1>4, <1>5

\* The bytes of the blocks of a chain.
Compressed(chain) ==
  [i \in 1..(B * Len(chain)) |->
     chain[((i - 1) \div B) + 1].block[((i - 1) % B) + 1]]

Whole(chain) == \A i \in DOMAIN chain : Len(chain[i].block) = B

\* The blocks of a chain are bytes.
LEMMA CompressedType ==
  ASSUME NEW chain \in Seq(Blocks), Whole(chain)
  PROVE  /\ Compressed(chain) \in Seq(Nat)
         /\ Len(Compressed(chain)) = B * Len(chain)
         /\ B * Len(chain) \in Nat
<1>1. Len(chain) \in Nat /\ DOMAIN chain = 1..Len(chain)
  BY LenProperties
<1>2. B \in Nat /\ B * Len(chain) \in Nat
  BY <1>1, Blake2sAssumption, Z3
<1>3. ASSUME NEW i \in 1..(B * Len(chain))
      PROVE  chain[((i - 1) \div B) + 1].block[((i - 1) % B) + 1] \in Nat
  <2>1. PICK q, r : q = (i - 1) \div B /\ r = (i - 1) % B
    OBVIOUS
  <2>2. q \in 0..(Len(chain) - 1) /\ r \in 0..(B-1)
    BY <1>1, <2>1, Place
  <2>3. q + 1 \in 1..Len(chain) /\ r + 1 \in 1..B
    BY <1>1, <1>2, <2>2
  <2>4. chain[q + 1] \in Blocks
    BY <2>3, ElementOfSeq
  <2>5. chain[q + 1].block \in Seq(Nat) /\ Len(chain[q + 1].block) = B
    BY <1>1, <2>3, <2>4 DEF Blocks, Whole
  <2>6. chain[q + 1].block[r + 1] \in Nat
    BY <2>3, <2>5, ElementOfSeq
  <2> QED
    BY <2>1, <2>6
<1>4. PICK n : n = B * Len(chain)
  OBVIOUS
<1>5. Compressed(chain) \in [1..n -> Nat]
  BY <1>3, <1>4 DEF Compressed
<1>6. n \in Nat
  BY <1>2, <1>4
<1> HIDE DEF Compressed
<1>7. Compressed(chain) \in Seq(Nat)
  BY <1>5, <1>6, SeqDef
<1>8. Len(Compressed(chain)) = n
  BY <1>5, <1>6, <1>7, LenProperties
<1> QED
  BY <1>2, <1>4, <1>7, <1>8

\* No block holds no byte.
LEMMA NothingCompressed == Compressed(<<>>) = <<>>
<1>1. PICK e : e = <<>>
  OBVIOUS
<1>2. B \in Nat /\ e \in Seq(Blocks) /\ Len(e) = 0 /\ DOMAIN e = {}
  BY <1>1, Blake2sAssumption, EmptySeq
<1>3. Whole(e)
  BY <1>2 DEF Whole
<1>4. Compressed(e) \in Seq(Nat) /\ Len(Compressed(e)) = B * Len(e)
  BY <1>2, <1>3, CompressedType
<1>5. B * Len(e) = 0
  BY <1>2
<1>6. Compressed(e) = <<>>
  BY <1>4, <1>5, Emptiness
<1> QED
  BY <1>1, <1>6

\* A block more is its bytes more.
LEMMA CompressedAppend ==
  ASSUME NEW chain \in Seq(Blocks), Whole(chain),
         NEW block \in Seq(Nat), Len(block) = B,
         NEW c \in Counters, NEW last \in BOOLEAN,
         NEW longer, longer = Compress(chain, block, c, last)
  PROVE  /\ Whole(longer) /\ longer \in Seq(Blocks) /\ Len(longer) = Len(chain) + 1
         /\ Compressed(longer) = Compressed(chain) \o block
<1> DEFINE n == Len(chain)
           x == [block |-> block, t |-> c, last |-> last]
<1>1. n \in Nat /\ DOMAIN chain = 1..n /\ B \in Nat /\ B > 0
  BY LenProperties, Blake2sAssumption
<1>2. x \in Blocks
  BY DEF Blocks
<1>3. /\ longer \in Seq(Blocks) /\ Len(longer) = n + 1
      /\ \A i \in 1..n : longer[i] = chain[i]
      /\ longer[n + 1] = x
  BY <1>1, <1>2, AppendProperties DEF Compress
<1>4. DOMAIN longer = 1..(n + 1)
  BY <1>3, LenProperties
<1> HIDE DEF n
<1>5. Whole(longer)
  <2> SUFFICES ASSUME NEW i \in 1..(n + 1) PROVE Len(longer[i].block) = B
    BY <1>4 DEF Whole
  <2>1. CASE i = n + 1
    BY <1>3, <2>1
  <2>2. CASE i # n + 1
    <3>1. i \in 1..n
      BY <1>1, <2>2
    <3> QED
      BY <1>1, <1>3, <3>1 DEF Whole
  <2> QED
    BY <2>1, <2>2
<1>6. /\ Compressed(longer) \in Seq(Nat) /\ Len(Compressed(longer)) = B * (n + 1)
      /\ Compressed(chain) \in Seq(Nat) /\ Len(Compressed(chain)) = B * n
      /\ B * (n + 1) \in Nat /\ B * n \in Nat
  BY <1>3, <1>5, CompressedType DEF n
<1>7. B * (n + 1) = B * n + B
  BY <1>1, Z3
<1>8. /\ Compressed(chain) \o block \in Seq(Nat)
      /\ Len(Compressed(chain) \o block) = B * n + B
      /\ \A i \in 1..(B * n + B) :
           (Compressed(chain) \o block)[i] =
             IF i <= B * n THEN Compressed(chain)[i] ELSE block[i - B * n]
  <2>1. PICK s, k : s = Compressed(chain) /\ k = B * n
    OBVIOUS
  <2>2. s \in Seq(Nat) /\ Len(s) = k
    BY <1>6, <2>1
  <2>3. /\ s \o block \in Seq(Nat) /\ Len(s \o block) = k + B
        /\ \A i \in 1..(k + B) :
             (s \o block)[i] = IF i <= k THEN s[i] ELSE block[i - k]
    BY <2>2, ConcatProperties
  <2> QED
    BY <2>1, <2>3
<1>9. ASSUME NEW i \in 1..(B * n + B)
      PROVE  Compressed(longer)[i] =
               IF i <= B * n THEN Compressed(chain)[i] ELSE block[i - B * n]
  <2>1. PICK q, r : q = (i - 1) \div B /\ r = (i - 1) % B
    OBVIOUS
  <2>2. Compressed(longer)[i] = longer[q + 1].block[r + 1]
    BY <1>3, <1>6, <1>7, <2>1 DEF Compressed
  <2>3. CASE i <= B * n
    <3>1. i \in 1..(B * n)
      BY <1>6, <2>3
    <3>2. Compressed(chain)[i] = chain[q + 1].block[r + 1]
      BY <2>1, <3>1 DEF Compressed, n
    <3>3. q \in 0..(n - 1)
      BY <1>1, <2>1, <3>1, Place
    <3>4. longer[q + 1] = chain[q + 1]
      BY <1>1, <1>3, <3>3
    <3> QED
      BY <2>2, <2>3, <3>2, <3>4
  <2>4. CASE ~(i <= B * n)
    <3>1. i - 1 - B * n \in 0..(B-1)
      BY <1>1, <1>6, <2>4
    <3>2. i - 1 = B * n + (i - 1 - B * n)
      BY <1>1, <1>6
    <3>3. q = n /\ r = i - 1 - B * n
      <4>1. PICK d : d = i - 1 - B * n
        OBVIOUS
      <4>2. d \in 0..(B-1) /\ i - 1 = B * n + d
        BY <3>1, <3>2, <4>1, Zenon
      <4>3. (B * n + d) \div B = n /\ (B * n + d) % B = d
        BY <1>1, <4>2, Quotient
      <4> QED
        BY <2>1, <4>1, <4>2, <4>3, Zenon
    <3>4. r + 1 = i - B * n
      BY <1>1, <1>6, <3>3
    <3> QED
      BY <1>3, <2>2, <2>4, <3>3, <3>4
  <2> QED
    BY <2>3, <2>4
<1>10. Compressed(longer) = Compressed(chain) \o block
  <2>1. PICK s, u, k : /\ s = Compressed(longer) /\ u = Compressed(chain) \o block
                       /\ k = B * n + B
    OBVIOUS
  <2>2. /\ s \in Seq(Nat) /\ u \in Seq(Nat) /\ Len(s) = k /\ Len(u) = k
        /\ \A i \in 1..k : s[i] = u[i]
    BY <1>6, <1>7, <1>8, <1>9, <2>1
  <2>3. s = u
    BY <2>2, SeqEqual
  <2> QED
    BY <2>1, <2>3
<1> QED
  BY <1>3, <1>5, <1>10 DEF n

\* The message of the model, by its three parts.
LEMMA MessageParts ==
  /\ Message = Compressed(h) \o buf \o pin
  /\ Message' = Compressed(h') \o buf' \o pin'
BY DEF Message, Compressed

\* A sequence is its two halves, and three sequences join in either order.
LEMMA Halves ==
  ASSUME NEW s \in Seq(Nat), NEW n \in Nat, n <= Len(s)
  PROVE  SubSeq(s, 1, n) \o SubSeq(s, n + 1, Len(s)) = s
<1>1. PICK k : k = Len(s)
  OBVIOUS
<1>2. k \in Nat
  BY <1>1, LenProperties
<1>3. 1 \in 1..(Len(s) + 1) /\ n \in (1 - 1)..Len(s) /\ Len(s) \in n..Len(s)
  BY <1>1, <1>2
<1>4. SubSeq(s, 1, n) \o SubSeq(s, n + 1, Len(s)) = SubSeq(s, 1, Len(s))
  BY <1>3, ConcatAdjacentSubSeq, Zenon
<1>5. SubSeq(s, 1, Len(s)) = s
  BY SubSeqFull, Zenon
<1> QED
  BY <1>4, <1>5, Zenon

LEMMA Joined ==
  ASSUME NEW a \in Seq(Nat), NEW b \in Seq(Nat), NEW c \in Seq(Nat)
  PROVE  a \o (b \o c) = (a \o b) \o c /\ (a \o b) \o c \in Seq(Nat)
<1>1. (a \o b) \o c = a \o (b \o c)
  BY ConcatAssociative, SMTT(30)
<1>2. a \o b \in Seq(Nat)
  BY ConcatType
<1>3. (a \o b) \o c \in Seq(Nat)
  BY <1>2, ConcatType
<1> QED
  BY <1>1, <1>3, Zenon

\* What update() takes is appended to the message.
LEMMA UpdateMessage ==
  ASSUME IInv, Whole(h), NEW chunk \in Chunks, Update(chunk)
  PROVE  Message' = Message \o chunk
<1>1. /\ h \in Seq(Blocks) /\ buf \in Seq(Nat) /\ chunk \in Seq(Nat)
      /\ t \in Counters /\ f \in BOOLEAN /\ Len(buf) \in Nat /\ Len(chunk) \in Nat
      /\ B \in Nat /\ Len(buf) <= B /\ TypeOK
  BY TypeOKNamed, LenProperties, Blake2sAssumption DEF IInv, LastBlockHeld
<1>2. pin = <<>>
  BY DEF Update, IInv, LastBlockHeld
<1>3. PICK c, m : c = Compressed(h) /\ m = c \o buf
  OBVIOUS
<1>4. c \in Seq(Nat)
  BY <1>1, <1>3, CompressedType
<1>5. m \in Seq(Nat)
  BY <1>1, <1>3, <1>4, ConcatProperties
<1>6. Message = m
  BY <1>2, <1>3, <1>5, MessageParts, ConcatEmptySeq
<1> DEFINE fill  == B - Len(buf)
           front == SubSeq(chunk, 1, fill)
           rest  == SubSeq(chunk, fill + 1, Len(chunk))
<1>7. CASE Len(chunk) > fill
  <2>1. fill \in Nat /\ fill < Len(chunk)
    BY <1>1, <1>7
  <2>2. front \in Seq(Nat) /\ Len(front) = fill /\ rest \in Seq(Nat)
    BY <1>1, <2>1, FrontLength, CutType, SMTT(30)
  <2>3. front \o rest = chunk
    <3>1. fill \in Nat /\ fill <= Len(chunk)
      BY <1>1, <2>1
    <3> QED
      BY <1>1, <3>1, Halves, Zenon
  <2>4. /\ t' = Increment(t, B) /\ h' = Compress(h, buf \o front, t', f)
        /\ buf' = <<>> /\ pin' = rest
    BY <1>7 DEF Update
  <2> HIDE DEF fill, front, rest
  <2>5. buf \o front \in Seq(Nat) /\ Len(buf \o front) = B
    BY <1>1, <2>2, ConcatType DEF fill
  <2>6. t' \in Counters
    BY <1>1, <2>4, IncrementType
  <2>7. Compressed(h') = c \o (buf \o front)
    <3>1. PICK b : b = buf \o front
      OBVIOUS
    <3>2. b \in Seq(Nat) /\ Len(b) = B /\ h' = Compress(h, b, t', f)
      BY <2>4, <2>5, <3>1, Zenon
    <3>3. Compressed(h') = Compressed(h) \o b
      BY <1>1, <2>6, <3>2, CompressedAppend
    <3> QED
      BY <1>3, <3>1, <3>3, Zenon
  <2>8. c \o (buf \o front) = m \o front /\ m \o front \in Seq(Nat)
    BY <1>1, <1>3, <1>4, <2>2, Joined, Zenon
  <2>9. Message' = (m \o front) \o <<>> \o rest
    BY <2>4, <2>7, <2>8, MessageParts
  <2>10. (m \o front) \o <<>> = m \o front
    BY <2>8, ConcatEmptySeq
  <2>11. (m \o front) \o rest = m \o (front \o rest)
    BY <1>5, <2>2, ConcatAssociative, SMTT(30)
  <2> QED
    BY <1>6, <2>3, <2>9, <2>10, <2>11
<1>8. CASE ~(Len(chunk) > fill)
  <2>1. h' = h /\ pin' = <<>> /\ buf' = buf \o chunk
    BY <1>2, <1>8 DEF Update
  <2>2. buf \o chunk \in Seq(Nat)
    BY <1>1, ConcatProperties
  <2>3. c \o (buf \o chunk) = m \o chunk /\ m \o chunk \in Seq(Nat)
    BY <1>1, <1>3, <1>4, Joined, Zenon
  <2>4. Message' = (m \o chunk) \o <<>>
    BY <1>3, <2>1, <2>3, MessageParts
  <2> QED
    BY <1>6, <2>3, <2>4, ConcatEmptySeq
<1> QED
  BY <1>7, <1>8

\* The loop moves bytes, and adds none.
LEMMA LoopMessage ==
  ASSUME IInv, Whole(h), UpdateBlock \/ UpdateTail
  PROVE  Message' = Message
<1>1. /\ h \in Seq(Blocks) /\ pin \in Seq(Nat) /\ Len(pin) \in Nat
      /\ t \in Counters /\ f \in BOOLEAN
      /\ B \in Nat /\ B > 0 /\ TypeOK /\ buf = <<>>
  BY TypeOKNamed, LenProperties, Blake2sAssumption
  DEF IInv, BufferDrained, UpdateBlock, UpdateTail
<1>2. PICK c : c = Compressed(h)
  OBVIOUS
<1>3. c \in Seq(Nat) /\ c \o <<>> = c
  BY <1>1, <1>2, CompressedType, ConcatEmptySeq
<1>4. Message = c \o pin
  BY <1>1, <1>2, <1>3, MessageParts
<1>5. CASE UpdateBlock
  <2> DEFINE front == SubSeq(pin, 1, B)
             rest  == SubSeq(pin, B + 1, Len(pin))
  <2>1. /\ t' = Increment(t, B) /\ h' = Compress(h, front, t', f)
        /\ buf' = <<>> /\ pin' = rest /\ Len(pin) > B
    BY <1>1, <1>5 DEF UpdateBlock
  <2>2. front \in Seq(Nat) /\ Len(front) = B /\ rest \in Seq(Nat)
    BY <1>1, <2>1, FrontLength, CutType
  <2>3. front \o rest = pin
    <3>1. B \in Nat /\ B <= Len(pin)
      BY <1>1, <2>1
    <3> QED
      BY <1>1, <3>1, Halves, Zenon
  <2> HIDE DEF front, rest
  <2>4. t' \in Counters
    BY <1>1, <2>1, IncrementType
  <2>5. Compressed(h') = c \o front
    <3>1. PICK l : l = h'
      OBVIOUS
    <3>2. l = Compress(h, front, t', f)
      BY <2>1, <3>1
    <3>3. Compressed(l) = Compressed(h) \o front
      BY <1>1, <2>2, <2>4, <3>2, CompressedAppend
    <3> QED
      BY <1>2, <3>1, <3>3, Zenon
  <2>6. c \o front \in Seq(Nat)
    BY <1>3, <2>2, ConcatProperties
  <2>7. Message' = (c \o front) \o <<>> \o rest
    BY <2>1, <2>5, MessageParts
  <2>8. (c \o front) \o <<>> = c \o front
    BY <2>6, ConcatEmptySeq
  <2>9. (c \o front) \o rest = c \o (front \o rest)
    BY <1>3, <2>2, ConcatAssociative
  <2> QED
    BY <1>4, <2>3, <2>7, <2>8, <2>9
<1>6. CASE UpdateTail
  <2>1. h' = h /\ buf' = <<>> \o pin /\ pin' = <<>>
    BY <1>1, <1>6 DEF UpdateTail
  <2>2. <<>> \o pin = pin /\ c \o pin \in Seq(Nat)
    BY <1>1, <1>3, ConcatEmptySeq, ConcatProperties
  <2>3. Message' = (c \o pin) \o <<>>
    BY <1>2, <2>1, <2>2, MessageParts
  <2> QED
    BY <1>4, <2>2, <2>3, ConcatEmptySeq
<1> QED
  BY <1>5, <1>6

-----------------------------------------------------------------------------
(* The digest.                                                             *)

\* Until the last block, blocks are unflagged and carry the number of bytes up
\* to their end.
Tagged ==
  ~f => \A i \in DOMAIN h : ~h[i].last /\ Value(h[i].t) = (B * i) % (W * W)

\* A block that is appended in front of the last one is tagged.
LEMMA BlockTagged ==
  ASSUME TypeOK, CounterExact, Tagged, NEW block \in Seq(Nat), Len(block) = B,
         f' = f, t' = Increment(t, B), h' = Compress(h, block, t', f)
  PROVE  Tagged'
<1> SUFFICES ASSUME ~f, NEW i \in DOMAIN h'
             PROVE  ~h'[i].last /\ Value(h'[i].t) = (B * i) % (W * W)
  BY DEF Tagged
<1> DEFINE n == Len(h)
<1>1. h \in Seq(Blocks) /\ t' \in Counters /\ f \in BOOLEAN /\ n \in Nat
        /\ DOMAIN h = 1..n
  <2>1. h \in Seq(Blocks) /\ t \in Counters /\ f \in BOOLEAN /\ B \in Nat
    BY TypeOKNamed, Blake2sAssumption
  <2> QED
    BY <2>1, IncrementType, LenProperties
<1> DEFINE x == [block |-> block, t |-> t', last |-> f]
<1>2. x \in Blocks
  BY <1>1 DEF Blocks
<1>3. /\ h' \in Seq(Blocks) /\ Len(h') = n + 1
      /\ \A j \in 1..n : h'[j] = h[j]
      /\ h'[n + 1] = x
  BY <1>1, <1>2, AppendProperties DEF Compress
<1>4. i \in 1..(n + 1)
  BY <1>3, LenProperties
<1>5. CASE i = n + 1
  <2>1. CounterExact'
    BY BlockCounted
  <2>2. Value(t') = (B * (n + 1)) % (W * W)
    BY <1>3, <2>1 DEF CounterExact, Value
  <2> QED
    BY <1>3, <1>5, <2>2
<1>6. CASE i # n + 1
  <2>1. i \in 1..n
    BY <1>1, <1>4, <1>6
  <2> QED
    BY <1>1, <1>3, <2>1 DEF Tagged
<1> QED
  BY <1>5, <1>6

\* The number of blocks of a message that ends in the buffer.
LEMMA BlockCount ==
  ASSUME NEW n \in Nat, NEW k \in 1..B
  PROVE  (B * n + k + B - 1) \div B = n + 1
<1>1. B \in Nat /\ B > 0 /\ B * n \in Nat
  BY Blake2sAssumption, Z3
<1>2. B * (n + 1) = B * n + B
  BY <1>1, Z3
<1>3. B * n + k + B - 1 = B * (n + 1) + (k - 1) /\ k - 1 \in 0..(B-1)
  BY <1>1, <1>2
<1> QED
  BY <1>1, <1>3, Quotient

\* Blocks in front of the buffer end before it does.
LEMMA BlockEnds ==
  ASSUME NEW n \in Nat, NEW i \in 1..n
  PROVE  /\ i * B = B * i /\ B * i \in Nat /\ B * n \in Nat /\ B * i <= B * n
         /\ (i - 1) * B = B * i - B
<1>1. B \in Nat
  BY Blake2sAssumption
<1>2. i * B = B * i /\ B * i \in Nat /\ B * n \in Nat
  BY <1>1, Z3
<1>3. B * i <= B * n
  BY <1>1, Z3
<1>4. (i - 1) * B = B * i - B
  BY <1>1, Z3
<1> QED
  BY <1>2, <1>3, <1>4

\* Where byte j of block i is.
LEMMA CompressedAt ==
  ASSUME NEW chain \in Seq(Blocks), NEW i \in 1..Len(chain), NEW j \in 1..B
  PROVE  /\ (i - 1) * B + j \in 1..(B * Len(chain))
         /\ Compressed(chain)[(i - 1) * B + j] = chain[i].block[j]
<1>1. Len(chain) \in Nat /\ B \in Nat
  BY LenProperties, Blake2sAssumption
<1>2. /\ (i - 1) * B = B * i - B /\ B * i \in Nat /\ B * Len(chain) \in Nat
      /\ B * i <= B * Len(chain)
  BY <1>1, BlockEnds
<1>3. B * (i - 1) = B * i - B /\ B * (i - 1) \in Nat
  BY <1>1, Z3
<1>4. PICK at : at = (i - 1) * B + j
  OBVIOUS
<1>5. at \in 1..(B * Len(chain)) /\ at - 1 = B * (i - 1) + (j - 1)
  BY <1>1, <1>2, <1>3, <1>4
<1>6. i - 1 \in Nat /\ j - 1 \in 0..(B-1)
  BY <1>1
<1>7. (at - 1) \div B = i - 1 /\ (at - 1) % B = j - 1
  BY <1>5, <1>6, Quotient
<1>8. Compressed(chain)[at] = chain[(i - 1) + 1].block[(j - 1) + 1]
  BY <1>5, <1>7 DEF Compressed
<1>9. (i - 1) + 1 = i /\ (j - 1) + 1 = j
  BY <1>1
<1> QED
  BY <1>4, <1>5, <1>8, <1>9

\* The message in front of blake2s_final(), byte by byte.
LEMMA MessageBytes ==
  ASSUME IInv, Whole(h), ~updating, NEW n, NEW k, n = Len(h), k = Len(buf)
  PROVE  /\ n \in Nat /\ k \in Nat /\ B * n \in Nat /\ k <= B
         /\ Message \in Seq(Nat) /\ Len(Message) = B * n + k
         /\ \A i \in 1..n, j \in 1..B : /\ (i - 1) * B + j \in 1..(B * n)
                                        /\ Message[(i - 1) * B + j] = h[i].block[j]
         /\ \A j \in 1..k : Message[B * n + j] = buf[j]
<1>1. h \in Seq(Blocks) /\ buf \in Seq(Nat) /\ pin = <<>> /\ B \in Nat /\ k <= B
  BY TypeOKNamed, Blake2sAssumption DEF IInv, LastBlockHeld
<1>2. n \in Nat /\ k \in Nat
  BY <1>1, LenProperties
<1>3. PICK c : c = Compressed(h)
  OBVIOUS
<1>4. c \in Seq(Nat) /\ Len(c) = B * n /\ B * n \in Nat
  BY <1>1, <1>3, CompressedType
<1>5. Message = c \o buf
  <2>1. c \o buf \in Seq(Nat)
    BY <1>1, <1>4, ConcatType
  <2> QED
    BY <1>1, <1>3, <2>1, MessageParts, ConcatEmptySeq
<1>6. PICK p : p = B * n
  OBVIOUS
<1>7. /\ Message \in Seq(Nat) /\ Len(Message) = p + k
      /\ \A i \in 1..(p + k) : Message[i] = IF i <= p THEN c[i] ELSE buf[i - p]
  <2>1. c \in Seq(Nat) /\ Len(c) = p /\ buf \in Seq(Nat) /\ Len(buf) = k
    BY <1>1, <1>4, <1>6
  <2>2. /\ c \o buf \in Seq(Nat) /\ Len(c \o buf) = p + k
        /\ \A i \in 1..(p + k) : (c \o buf)[i] = IF i <= p THEN c[i] ELSE buf[i - p]
    <3>1. PICK b : b = buf
      OBVIOUS
    <3>2. /\ c \o b \in Seq(Nat) /\ Len(c \o b) = Len(c) + Len(b)
          /\ \A i \in 1..(Len(c) + Len(b)) :
               (c \o b)[i] = IF i <= Len(c) THEN c[i] ELSE b[i - Len(c)]
      BY <2>1, <3>1, ConcatProperties
    <3> QED
      BY <2>1, <3>1, <3>2, Zenon
  <2> QED
    BY <1>5, <2>2
<1>8. ASSUME NEW i \in 1..n, NEW j \in 1..B
      PROVE  /\ (i - 1) * B + j \in 1..p
             /\ Message[(i - 1) * B + j] = h[i].block[j]
  <2>1. PICK at : at = (i - 1) * B + j
    OBVIOUS
  <2>2. at \in 1..p /\ c[at] = h[i].block[j]
    BY <1>1, <1>3, <1>6, <2>1, CompressedAt
  <2>3. at \in 1..(p + k) /\ at <= p
    BY <1>2, <1>4, <1>6, <2>2
  <2>4. Message[at] = c[at]
    BY <1>7, <2>3
  <2> QED
    BY <2>1, <2>2, <2>4
<1>9. ASSUME NEW j \in 1..k PROVE Message[p + j] = buf[j]
  <2>1. PICK at : at = p + j
    OBVIOUS
  <2>2. at \in 1..(p + k) /\ ~(at <= p) /\ at - p = j
    BY <1>2, <1>4, <1>6, <2>1
  <2>3. Message[at] = buf[at - p]
    BY <1>7, <2>2
  <2> QED
    BY <2>1, <2>2, <2>3
<1> QED
  BY <1>1, <1>2, <1>4, <1>6, <1>7, <1>8, <1>9

\* As many blocks as the one-shot digest has.
LEMMA MessageBlocks ==
  ASSUME IInv, Whole(h), ~updating, ~f
  PROVE  Stream!Blocks(Message) = Len(h) + 1
<1>1. PICK n, k : n = Len(h) /\ k = Len(buf)
  OBVIOUS
<1>2. /\ n \in Nat /\ k \in Nat /\ B * n \in Nat /\ k <= B
      /\ Message \in Seq(Nat) /\ Len(Message) = B * n + k
  BY <1>1, MessageBytes
<1>3. B \in Nat /\ B > 0
  BY Blake2sAssumption
<1>4. CASE k = 0
  <2>1. n = 0
    <3>1. buf \in Seq(Nat)
      BY TypeOKNamed DEF IInv
    <3>2. buf = <<>>
      BY <1>1, <1>4, <3>1, Emptiness
    <3>3. h = <<>>
      BY <3>2 DEF IInv, LastBlockHeld
    <3> QED
      BY <1>1, <3>3
  <2>2. B * n = 0
    BY <1>3, <2>1
  <2>3. Message = <<>>
    BY <1>2, <1>4, <2>2, Emptiness
  <2> QED
    BY <1>1, <2>1, <2>3 DEF Stream!Blocks
<1>5. CASE k # 0
  <2>1. k \in 1..B /\ Len(Message) # 0
    BY <1>2, <1>3, <1>5
  <2>2. Message # <<>>
    BY <1>2, <2>1, Emptiness
  <2>3. Stream!Blocks(Message) = (B * n + k + B - 1) \div B
    BY <1>2, <2>2 DEF Stream!Blocks
  <2> QED
    BY <1>1, <1>2, <2>1, <2>3, BlockCount
<1> QED
  BY <1>4, <1>5

\* The state holds the bytes the callers gave, until the last block is padded.
HoldsInput == ~f => Message = given

StreamInv == IInv /\ CounterExact /\ Tagged /\ HoldsInput

\* What blake2s_final() appends, and what it counts.
LEMMA FinalChain ==
  ASSUME StreamInv, NEW outlen, FinalHash(outlen), NEW n, NEW k,
         n = Len(h), k = Len(buf)
  PROVE  /\ h' \in Seq(Blocks) /\ DOMAIN h' = 1..(n + 1)
         /\ \A i \in 1..n : h'[i] = h[i]
         /\ h'[n + 1] = [block |-> Pad(buf), t |-> t', last |-> TRUE]
         /\ Value(t') = (B * n + k) % (W * W)
<1>1. /\ h \in Seq(Blocks) /\ buf \in Seq(Nat) /\ t \in Counters
      /\ n \in Nat /\ k \in Nat /\ k <= B /\ B \in Nat /\ W \in Nat /\ B < W /\ W > 0
  BY TypeOKNamed, LenProperties, Blake2sAssumption DEF StreamInv, IInv, LastBlockHeld
<1>2. /\ ~f /\ t' = Increment(t, k) /\ h' = Compress(h, Pad(buf), t', TRUE)
  BY DEF FinalHash
<1>3. t' \in Counters /\ Pad(buf) \in Seq(Nat)
  BY <1>1, <1>2, IncrementType, PadType
<1> DEFINE x == [block |-> Pad(buf), t |-> t', last |-> TRUE]
<1>4. x \in Blocks
  BY <1>3 DEF Blocks
<1>5. h' = Append(h, x)
  BY <1>2 DEF Compress
<1> HIDE DEF x
<1>6. /\ h' \in Seq(Blocks) /\ Len(h') = n + 1
      /\ \A i \in 1..n : h'[i] = h[i]
      /\ h'[n + 1] = x
  BY <1>1, <1>4, <1>5, AppendProperties
<1>7. DOMAIN h' = 1..(n + 1)
  BY <1>6, LenProperties
<1>8. Value(t') = (B * n + k) % (W * W)
  <2>1. Value(t) = (B * n) % (W * W)
    BY <1>2 DEF StreamInv, CounterExact, Value
  <2>2. k \in 0..(W-1)
    BY <1>1
  <2>3. Value(t') = (Value(t) + k) % (W * W)
    BY <1>1, <1>2, <2>2, IncrementCounts
  <2>4. W * W \in Nat /\ W * W > 0 /\ B * n \in Nat
    BY <1>1, Z3
  <2>5. PICK p, q : p = W * W /\ q = B * n
    OBVIOUS
  <2>6. ((q % p) + k) % p = (q + k) % p
    <3>1. p \in Nat /\ p > 0 /\ q \in Nat /\ k \in Nat
      BY <1>1, <2>4, <2>5, Zenon
    <3> QED
      BY <3>1, RemainderOfSum, Zenon
  <2> QED
    BY <2>1, <2>3, <2>5, <2>6
<1> QED
  BY <1>6, <1>7, <1>8 DEF x

\* The digest is the one-shot digest of the message.
LEMMA FinalDigest ==
  ASSUME StreamInv, NEW outlen, FinalHash(outlen)
  PROVE  View(out').blocks = Stream!OneShot(Message)
<1>1. PICK n, k, m : n = Len(h) /\ k = Len(buf) /\ m = Message
  OBVIOUS
<1>2. IInv /\ Whole(h) /\ ~updating /\ ~f /\ Tagged
  BY DEF StreamInv, CounterExact, Whole, FinalHash
<1>3. /\ n \in Nat /\ k \in Nat /\ B * n \in Nat /\ k <= B
      /\ m \in Seq(Nat) /\ Len(m) = B * n + k
      /\ \A i \in 1..n, j \in 1..B : /\ (i - 1) * B + j \in 1..(B * n)
                                     /\ m[(i - 1) * B + j] = h[i].block[j]
      /\ \A j \in 1..k : m[B * n + j] = buf[j]
  BY <1>1, <1>2, MessageBytes
<1>4. Stream!Blocks(m) = n + 1
  BY <1>1, <1>2, MessageBlocks
<1>5. /\ h' \in Seq(Blocks) /\ DOMAIN h' = 1..(n + 1)
      /\ \A i \in 1..n : h'[i] = h[i]
      /\ h'[n + 1] = [block |-> Pad(buf), t |-> t', last |-> TRUE]
      /\ Value(t') = (B * n + k) % (W * W)
  BY <1>1, FinalChain
<1>6. B \in Nat /\ B > 0 /\ h \in Seq(Blocks) /\ DOMAIN h = 1..n
  BY <1>1, <1>2, TypeOKNamed, Blake2sAssumption, LenProperties DEF IInv
<1> DEFINE Cut(i)   == [j \in 1..B |-> IF (i - 1) * B + j <= Len(m)
                                       THEN m[(i - 1) * B + j] ELSE 0]
           Seen(i)  == [block |-> h'[i].block, counter |-> h'[i].t[1] + W * h'[i].t[2],
                        last |-> h'[i].last]
           Shot(i)  == [block |-> Cut(i), counter |-> Stream!UpTo(m, i) % (W * W),
                        last |-> i = n + 1]
<1>7. View(out').blocks = [i \in 1..(n + 1) |-> Seen(i)]
  <2>1. out'.blocks = h'
    BY DEF FinalHash
  <2> QED
    BY <1>5, <2>1 DEF View
<1>8. Stream!OneShot(m) = [i \in 1..(n + 1) |-> Shot(i)]
  BY <1>4 DEF Stream!OneShot
<1>9. ASSUME NEW i \in 1..n PROVE Seen(i) = Shot(i)
  <2>1. h'[i] = h[i] /\ i # n + 1
    BY <1>3, <1>5
  <2>2. ~h[i].last /\ Value(h[i].t) = (B * i) % (W * W)
    BY <1>2, <1>6 DEF Tagged
  <2>3. h[i] \in Blocks /\ Len(h[i].block) = B
    BY <1>1, <1>2, <1>6, ElementOfSeq DEF Whole
  <2>4. h[i].block = Cut(i)
    <3>1. h[i].block \in [1..B -> Nat]
      BY <1>6, <2>3, LenProperties DEF Blocks
    <3>2. ASSUME NEW j \in 1..B PROVE Cut(i)[j] = h[i].block[j]
      <4>1. PICK at : at = (i - 1) * B + j
        OBVIOUS
      <4>2. at \in 1..(B * n) /\ m[at] = h[i].block[j]
        BY <1>3, <4>1
      <4>3. at <= Len(m)
        BY <1>3, <4>2
      <4> QED
        BY <4>1, <4>2, <4>3
    <3> HIDE DEF Cut
    <3>3. Cut(i) = [j \in 1..B |-> Cut(i)[j]]
      BY DEF Cut
    <3>4. h[i].block = [j \in 1..B |-> h[i].block[j]]
      BY <3>1
    <3> QED
      BY <3>2, <3>3, <3>4
  <2>5. Stream!UpTo(m, i) = B * i
    <3>1. /\ i * B = B * i /\ B * i \in Nat /\ B * i <= B * n
      BY <1>3, BlockEnds
    <3>2. B * i < Len(m) \/ B * i = Len(m)
      BY <1>3, <3>1
    <3> QED
      BY <3>1, <3>2 DEF Stream!UpTo
  <2> HIDE DEF Cut
  <2>6. Seen(i).last = FALSE
    BY <2>1, <2>2, <2>3 DEF Blocks
  <2> QED
    BY <2>1, <2>2, <2>3, <2>4, <2>5, <2>6 DEF Value
<1>10. Seen(n + 1) = Shot(n + 1)
  <2>1. PICK z : z = n + 1
    OBVIOUS
  <2>2. (z - 1) * B = B * n
    <3>1. z - 1 = n
      BY <1>3, <2>1
    <3>2. n * B = B * n
      BY <1>3, <1>6, Z3
    <3> QED
      BY <3>1, <3>2
  <2>3. Pad(buf) = Cut(z)
    <3>1. ASSUME NEW j \in 1..B
          PROVE  (IF j <= Len(buf) THEN buf[j] ELSE 0)
                   = IF (z - 1) * B + j <= Len(m) THEN m[(z - 1) * B + j] ELSE 0
      <4>1. PICK at : at = B * n + j
        OBVIOUS
      <4>2. j <= k <=> at <= Len(m)
        BY <1>3, <4>1
      <4>3. j <= k => m[at] = buf[j]
        BY <1>3, <4>1
      <4> QED
        BY <1>1, <2>2, <4>1, <4>2, <4>3
    <3> QED
      BY <3>1 DEF Pad
  <2>4. Stream!UpTo(m, z) = B * n + k
    <3>1. z * B = B * n + B
      <4>1. (n + 1) * B = n * B + B /\ n * B = B * n
        BY <1>3, <1>6, Z3
      <4> QED
        BY <2>1, <4>1
    <3>2. ~(z * B < Len(m))
      BY <1>3, <1>6, <3>1
    <3> QED
      BY <1>3, <3>2 DEF Stream!UpTo
  <2> HIDE DEF Cut
  <2>5. h'[z].block = Pad(buf) /\ h'[z].t = t' /\ h'[z].last = TRUE
    BY <1>5, <2>1
  <2>6. Value(t') = (B * n + k) % (W * W)
    BY <1>5
  <2>7. Seen(z) = [block |-> Cut(z), counter |-> (B * n + k) % (W * W), last |-> TRUE]
    BY <2>3, <2>5, <2>6 DEF Value
  <2>8. Shot(z) = [block |-> Cut(z), counter |-> (B * n + k) % (W * W), last |-> TRUE]
    BY <2>1, <2>4
  <2> QED
    BY <2>1, <2>7, <2>8
<1> HIDE DEF Seen, Shot
<1>11. \A i \in 1..(n + 1) : Seen(i) = Shot(i)
  <2> SUFFICES ASSUME NEW i \in 1..(n + 1), i \notin 1..n PROVE i = n + 1
    BY <1>9, <1>10
  <2> QED
    BY <1>3
<1> QED
  BY <1>1, <1>7, <1>8, <1>11

\* Every step keeps the tags.
LEMMA NextTagged == IInv /\ CounterExact /\ Tagged /\ [Next]_vars => Tagged'
<1> SUFFICES ASSUME IInv, CounterExact, Tagged, [Next]_vars PROVE Tagged'
  OBVIOUS
<1>1. /\ TypeOK /\ buf \in Seq(Nat) /\ pin \in Seq(Nat) /\ B \in Nat
      /\ Len(buf) \in Nat /\ Len(pin) \in Nat /\ Len(buf) <= B
  BY TypeOKNamed, Blake2sAssumption, Emptiness DEF IInv, LastBlockHeld
<1>2. ASSUME NEW n, NEW k, Reset(n, k) PROVE Tagged'
  BY <1>2 DEF Reset, Tagged
<1>3. ASSUME NEW n \in OutLens, FinalHash(n) PROVE Tagged'
  BY <1>3 DEF FinalHash, Tagged
<1>4. ASSUME NEW chunk \in Chunks, Update(chunk) PROVE Tagged'
  <2> DEFINE fill == B - Len(buf)
  <2>1. CASE Len(chunk) > fill
    <3>1. fill \in Nat /\ chunk \in Seq(Nat) /\ fill <= Len(chunk)
      BY <1>1, <2>1, Blake2sAssumption, Emptiness
    <3> DEFINE first == SubSeq(chunk, 1, fill)
    <3>2. first \in Seq(Nat) /\ Len(first) = fill
      BY <3>1, FrontLength
    <3>3. /\ t' = Increment(t, B) /\ h' = Compress(h, buf \o first, t', f) /\ f' = f
      BY <1>4, <2>1 DEF Update
    <3> HIDE DEF first
    <3>4. buf \o first \in Seq(Nat) /\ Len(buf \o first) = B
      BY <1>1, <3>2, ConcatType
    <3> QED BY <1>1, <3>3, <3>4, BlockTagged
  <2>2. CASE ~(Len(chunk) > fill)
    BY <1>4, <2>2 DEF Update, Tagged
  <2> QED BY <2>1, <2>2
<1>5. CASE UpdateBlock
  <2>1. Len(pin) > B
    BY <1>5 DEF UpdateBlock
  <2>2. SubSeq(pin, 1, B) \in Seq(Nat) /\ Len(SubSeq(pin, 1, B)) = B
    BY <1>1, <2>1, FrontLength
  <2>3. /\ t' = Increment(t, B) /\ h' = Compress(h, SubSeq(pin, 1, B), t', f) /\ f' = f
    BY <1>5 DEF UpdateBlock
  <2> QED BY <1>1, <2>2, <2>3, BlockTagged
<1>6. CASE UpdateTail
  BY <1>6 DEF UpdateTail, Tagged
<1>7. CASE UNCHANGED vars
  BY <1>7 DEF vars, Tagged
<1> QED
  BY <1>2, <1>3, <1>4, <1>5, <1>6, <1>7 DEF Next, InitHash, InitKey

\* A new hash holds its buffer, and nothing else.
LEMMA ResetMessage ==
  ASSUME IInv, ~updating, NEW n, NEW k, Reset(n, k), buf' \in Seq(Nat)
  PROVE  Message' = buf'
<1>1. h' = <<>> /\ pin' = <<>>
  BY DEF Reset, IInv, LastBlockHeld
<1>2. PICK b, c : b = buf' /\ c = Compressed(<<>>)
  OBVIOUS
<1>3. c = <<>>
  BY <1>2, NothingCompressed
<1>4. b \in Seq(Nat)
  BY <1>2
<1>5. <<>> \o b = b /\ b \o <<>> = b
  BY <1>4, ConcatEmptySeq
<1> QED
  BY <1>1, <1>2, <1>3, <1>5, MessageParts

\* Every step keeps the state's message the one that was given.
LEMMA NextHolds == IInv /\ Whole(h) /\ HoldsInput /\ [Next]_vars => HoldsInput'
<1> SUFFICES ASSUME IInv, Whole(h), HoldsInput, [Next]_vars PROVE HoldsInput'
  OBVIOUS
<1>1. ASSUME NEW n \in OutLens, InitHash(n) PROVE HoldsInput'
  <2>1. ~updating /\ Reset(n, 0) /\ buf' = <<>> /\ given' = <<>>
    BY <1>1 DEF InitHash
  <2>2. Message' = buf'
    BY <2>1, ResetMessage
  <2> QED
    BY <2>1, <2>2 DEF HoldsInput
<1>2. ASSUME NEW n \in OutLens, NEW key \in Keys, InitKey(n, key) PROVE HoldsInput'
  <2>1. ~updating /\ Reset(n, Len(key)) /\ buf' = Pad(key) /\ given' = Pad(key)
    BY <1>2 DEF InitKey
  <2>2. buf' \in Seq(Nat)
    BY <2>1, PadType, Blake2sAssumption
  <2>3. Message' = buf'
    BY <2>1, <2>2, ResetMessage
  <2> QED
    BY <2>1, <2>3 DEF HoldsInput
<1>3. ASSUME NEW n \in OutLens, FinalHash(n) PROVE HoldsInput'
  BY <1>3 DEF FinalHash, HoldsInput
<1>4. ASSUME NEW chunk \in Chunks, Update(chunk) PROVE HoldsInput'
  <2>1. f' = f /\ given' = given \o chunk
    BY <1>4 DEF Update
  <2>2. Message' = Message \o chunk
    BY <1>4, UpdateMessage
  <2> QED
    BY <2>1, <2>2 DEF HoldsInput
<1>5. CASE UpdateBlock \/ UpdateTail
  <2>1. f' = f /\ given' = given
    BY <1>5 DEF UpdateBlock, UpdateTail
  <2>2. Message' = Message
    BY <1>5, LoopMessage
  <2> QED
    BY <2>1, <2>2 DEF HoldsInput
<1>6. CASE UNCHANGED vars
  <2>1. Message' = Message /\ f' = f /\ given' = given
    BY <1>6, MessageParts DEF vars
  <2> QED
    BY <2>1 DEF HoldsInput
<1> QED
  BY <1>1, <1>2, <1>3, <1>4, <1>5, <1>6 DEF Next

\* A zeroed state holds nothing.
LEMMA InitHolds == Init => HoldsInput
<1> SUFFICES ASSUME Init PROVE Message = given
  BY DEF HoldsInput
<1>1. h = <<>> /\ buf = <<>> /\ pin = <<>> /\ given = <<>>
  BY DEF Init
<1>2. PICK c : c = Compressed(<<>>)
  OBVIOUS
<1>3. c = <<>>
  BY <1>2, NothingCompressed
<1>4. <<>> \in Seq(Nat) /\ <<>> \o <<>> = <<>>
  BY EmptySeq, ConcatEmptySeq
<1> QED
  BY <1>1, <1>2, <1>3, <1>4, MessageParts

\* The invariant of the refinement.
LEMMA StreamInvariance == Spec => []StreamInv
<1>1. Init => StreamInv
  BY InitInvariant, InitCounts, InitHolds DEF StreamInv, Init, Tagged
<1>2. StreamInv /\ [Next]_vars => StreamInv'
  BY NextInvariant, NextCounts, NextTagged, NextHolds DEF StreamInv, CounterExact, Whole
<1> QED
  BY <1>1, <1>2, PTL DEF Spec

\* Every step is a step of the streaming hash, or none of it.
LEMMA NextStream == StreamInv /\ [Next]_vars => [Stream!Next]_(Stream!vars)
<1> SUFFICES ASSUME StreamInv, [Next]_vars PROVE [Stream!Next]_(Stream!vars)
  OBVIOUS
<1>1. IInv /\ f \in BOOLEAN
  BY TypeOKNamed DEF StreamInv, IInv
<1>2. ASSUME NEW n, NEW k, Reset(n, k)
      PROVE  Stream!Start(n, k, given')
  <2>1. param' = [outlen |-> n, keylen |-> k] /\ f' = FALSE /\ out' = NoDigest
    BY <1>2 DEF Reset
  <2>2. View(out') = [param |-> NoDigest.param, blocks |-> <<>>]
    BY <2>1 DEF View, NoDigest
  <2>3. View(out)' = Stream!NoDigest
    BY <2>2 DEF View, NoDigest, Stream!NoDigest
  <2> QED
    BY <2>1, <2>3 DEF Stream!Start
<1>3. ASSUME NEW n \in OutLens, InitHash(n) PROVE Stream!Next
  <2>1. ValidOutLen(n) /\ Stream!Start(n, 0, <<>>)
    BY <1>2, <1>3 DEF InitHash
  <2> QED
    BY <2>1 DEF Stream!Next
<1>4. ASSUME NEW n \in OutLens, NEW key \in Keys, InitKey(n, key) PROVE Stream!Next
  <2>1. ValidOutLen(n) /\ Len(key) \in 1..KeyBytes /\ Stream!Start(n, Len(key), Pad(key))
    BY <1>2, <1>4 DEF InitKey
  <2>2. Pad(key) = Stream!KeyBlock(key)
    BY DEF Pad, Stream!KeyBlock
  <2> QED
    BY <2>1, <2>2 DEF Stream!Next
<1>5. ASSUME NEW n \in OutLens, FinalHash(n) PROVE Stream!Next
  <2>1. ~f /\ f' = TRUE /\ UNCHANGED param /\ out'.param = param
    BY <1>5 DEF FinalHash
  <2>2. View(out').blocks = Stream!OneShot(given)
    BY <1>5, <2>1, FinalDigest DEF StreamInv, HoldsInput
  <2>3. View(out') = [param |-> param, blocks |-> Stream!OneShot(given)]
    BY <2>1, <2>2 DEF View
  <2>4. View(out)' = View(out')
    BY DEF View
  <2>5. Stream!Finish
    BY <2>1, <2>3, <2>4 DEF Stream!Finish
  <2> QED
    BY <2>5 DEF Stream!Next
<1>6. ASSUME NEW chunk \in Chunks, Update(chunk)
      PROVE  Stream!Next \/ UNCHANGED Stream!vars
  <2>1. UNCHANGED <<param, f, out>> /\ given' = given \o chunk
    BY <1>6 DEF Update
  <2>2. UNCHANGED View(out)
    BY <2>1 DEF View
  <2>3. CASE f
    BY <2>1, <2>2, <2>3 DEF Stream!vars
  <2>4. CASE ~f
    BY <2>1, <2>2, <2>4 DEF Stream!Absorb, Stream!Next
  <2> QED
    BY <2>3, <2>4
<1>7. CASE UpdateBlock \/ UpdateTail \/ UNCHANGED vars
  <2>1. UNCHANGED <<param, f, out, given>>
    BY <1>7 DEF UpdateBlock, UpdateTail, vars
  <2>2. UNCHANGED View(out)
    BY <2>1 DEF View
  <2> QED
    BY <2>1, <2>2 DEF Stream!vars
<1> QED
  BY <1>3, <1>4, <1>5, <1>6, <1>7 DEF Next

\* A zeroed state is a hash nothing was absorbed by.
LEMMA InitStream == Init => Stream!Init
<1> SUFFICES ASSUME Init PROVE Stream!Init
  OBVIOUS
<1>1. View(out) = Stream!NoDigest
  BY DEF Init, View, NoDigest, Stream!NoDigest
<1> QED
  BY <1>1 DEF Init, Stream!Init

-----------------------------------------------------------------------------
(* Theorems.                                                               *)

(***************************************************************************)
(* blake2s_state keeps its types: the counter words their width, the       *)
(* parameter block its ranges (include/blake2.h).                          *)
(***************************************************************************)
THEOREM HashTypeCorrect == Spec => []TypeOK
<1>1. IInv => TypeOK
  BY DEF IInv
<1> QED
  BY <1>1, InvariantHolds, PTL

(***************************************************************************)
(* The buffer of blake2s_update() never overflows, and whatever the pieces *)
(* of a message it still holds the last block when blake2s_final() runs    *)
(* (blake2s-ref.c:217-237).                                                *)
(***************************************************************************)
THEOREM LastBlockIsHeld == Spec => []LastBlockHeld
<1>1. IInv => LastBlockHeld
  BY DEF IInv
<1> QED
  BY <1>1, InvariantHolds, PTL

(***************************************************************************)
(* For any block length below any word width, and however a message is     *)
(* cut, every compressed block is whole and the two counter words together *)
(* hold the bytes compressed, although the carry between them is found by  *)
(* a comparison after an overflow (blake2s-ref.c:61-65).                   *)
(***************************************************************************)
THEOREM CounterIsExact == Spec => []CounterExact
BY InitCounts, NextCounts, InvariantHolds, PTL DEF Spec

(***************************************************************************)
(* However a message is cut into updates, keyed or not, the implementation *)
(* is the streaming hash: its digest is the one-shot digest of the key     *)
(* block and of the pieces passed to blake2s_update() since the last init, *)
(* each byte once and in its place - the last block alone padded and       *)
(* flagged, every counter the bytes up to its block's end - and it is      *)
(* taken once (blake2s-ref.c:115-263).                                     *)
(***************************************************************************)
THEOREM HashIsStream == Spec => ImplementsStream
BY InitStream, NextStream, StreamInvariance, PTL DEF Spec, ImplementsStream, Stream!Spec

=============================================================================

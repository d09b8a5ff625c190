------------------------------ MODULE Blake2s ------------------------------
(***************************************************************************)
(* The BLAKE2s implementation the engine hashes control events with        *)
(* (ta/blake2s-ref.c): how blake2s_init(), blake2s_init_key(),             *)
(* blake2s_update() and blake2s_final() cut a message into blocks, count   *)
(* its bytes and flag its last block.                                      *)
(*                                                                         *)
(* The compression function itself is abstracted: the chaining value h is  *)
(* named by the compressions that led to it.                               *)
(***************************************************************************)
EXTENDS Integers, Sequences

CONSTANTS B,            \* BLAKE2S_BLOCKBYTES: 64
          W,            \* a counter word holds 0..W-1: 2^32
          OutBytes,     \* BLAKE2S_OUTBYTES: 32
          OutLens,      \* output lengths the callers ask for
          KeyBytes,     \* BLAKE2S_KEYBYTES: 32
          Keys,         \* keys the callers pass
          Chunks,       \* pieces of message the callers pass
          MaxBytes      \* bound on the bytes absorbed since the last init

ASSUME Blake2sAssumption ==
  /\ B \in Nat \ {0}
  /\ W \in Nat /\ B < W
  /\ OutBytes \in Nat \ {0}
  /\ KeyBytes \in 0..B
  /\ OutLens \subseteq Nat
  /\ Keys \subseteq Seq(Nat)
  /\ Chunks \subseteq Seq(Nat)
  /\ MaxBytes \in Nat

VARIABLES
  param,    \* what the parameter block says: digest_length, key_length
  h,        \* the chaining value: the compressions so far
  t,        \* the byte counter: words t[0] and t[1]
  f,        \* f[0] # 0: the last block was compressed
  buf,      \* the first buflen bytes of S->buf
  pin,      \* what blake2s_update() has still to take of its input
  updating, \* blake2s_update() is in its loop
  out,      \* the caller's digest, as blake2s_final() last wrote it
  given     \* history: the bytes the callers passed since the last init

vars == <<param, h, t, f, buf, pin, updating, out, given>>

NoDigest == [param |-> [outlen |-> 0, keylen |-> 0], blocks |-> <<>>]

\* A zeroed blake2s_state: what the functions see before any blake2s_init().
Init ==
  /\ param = [outlen |-> 0, keylen |-> 0]
  /\ h = <<>>
  /\ t = <<0, 0>>
  /\ f = FALSE
  /\ buf = <<>>
  /\ pin = <<>>
  /\ updating = FALSE
  /\ out = NoDigest
  /\ given = <<>>

\* Mutant: the words are wider than their carry.
IncrementUnbounded(c, inc) == <<c[1] + inc, c[2]>>

\* Mutant: the carry is lost.
IncrementNoCarry(c, inc) == <<(c[1] + inc) % W, c[2]>>

\* blake2s_increment_counter(): unsigned words, the carry found by comparison.
Increment(c, inc) ==
  LET low == (c[1] + inc) % W
  IN  <<low, (c[2] + (IF low < inc THEN 1 ELSE 0)) % W>>

\* blake2s_compress() with the counter and the flag it reads from the state.
Compress(chain, block, c, last) ==
  Append(chain, [block |-> block, t |-> c, last |-> last])

Pad(bytes) == [i \in 1..B |-> IF i <= Len(bytes) THEN bytes[i] ELSE 0]

\* blake2s_init_param(): memset to zero, IV XOR parameter block.  The caller
\* takes a new digest buffer with every initialisation.
Reset(outlen, keylen) ==
  /\ param' = [outlen |-> outlen, keylen |-> keylen]
  /\ h' = <<>>
  /\ t' = <<0, 0>>
  /\ f' = FALSE
  /\ out' = NoDigest
  /\ UNCHANGED <<pin, updating>>

ValidOutLen(outlen) == 0 < outlen /\ outlen <= OutBytes

InitHash(outlen) ==
  /\ ~updating
  /\ ValidOutLen(outlen)
  /\ Reset(outlen, 0)
  /\ buf' = <<>>
  /\ given' = <<>>

\* The key is absorbed as one whole block, which stays in the buffer.
InitKey(outlen, key) ==
  /\ ~updating
  /\ ValidOutLen(outlen)
  /\ Len(key) \in 1..KeyBytes
  /\ Reset(outlen, Len(key))
  /\ buf' = Pad(key)
  /\ given' = Pad(key)

\* Bytes absorbed since the last init, for the bound only.
Total == B * Len(h) + Len(buf)

\* Mutant: in += fill is forgotten, the loop takes the front of the input again.
UpdateForgetsFill(chunk) ==
  /\ ~updating
  /\ Total + Len(chunk) <= MaxBytes
  /\ LET fill == B - Len(buf) IN
     IF Len(chunk) > fill
     THEN /\ t' = Increment(t, B)
          /\ h' = Compress(h, buf \o SubSeq(chunk, 1, fill), t', f)
          /\ buf' = <<>>
          /\ pin' = SubSeq(chunk, 1, Len(chunk) - fill)
          /\ updating' = TRUE
     ELSE /\ buf' = buf \o chunk
          /\ UNCHANGED <<h, t, pin, updating>>
  /\ given' = given \o chunk
  /\ UNCHANGED <<param, f, out>>

\* blake2s_update(), up to its loop.  A block is compressed only when input is
\* left over: the buffer keeps the last block, full or not, for blake2s_final().
Update(chunk) ==
  /\ ~updating
  /\ Total + Len(chunk) <= MaxBytes
  /\ LET fill == B - Len(buf) IN
     IF Len(chunk) > fill
     THEN /\ t' = Increment(t, B)
          /\ h' = Compress(h, buf \o SubSeq(chunk, 1, fill), t', f)
          /\ buf' = <<>>
          /\ pin' = SubSeq(chunk, fill + 1, Len(chunk))
          /\ updating' = TRUE
     ELSE /\ buf' = buf \o chunk
          /\ UNCHANGED <<h, t, pin, updating>>
  /\ given' = given \o chunk
  /\ UNCHANGED <<param, f, out>>

\* Mutant: while (inlen >= BLAKE2S_BLOCKBYTES)
UpdateBlockEager ==
  /\ updating
  /\ Len(pin) >= B
  /\ t' = Increment(t, B)
  /\ h' = Compress(h, SubSeq(pin, 1, B), t', f)
  /\ pin' = SubSeq(pin, B + 1, Len(pin))
  /\ UNCHANGED <<param, f, buf, updating, out, given>>

\* while (inlen > BLAKE2S_BLOCKBYTES)
UpdateBlock ==
  /\ updating
  /\ Len(pin) > B
  /\ t' = Increment(t, B)
  /\ h' = Compress(h, SubSeq(pin, 1, B), t', f)
  /\ pin' = SubSeq(pin, B + 1, Len(pin))
  /\ UNCHANGED <<param, f, buf, updating, out, given>>

\* The rest goes to the buffer.
UpdateTail ==
  /\ updating
  /\ Len(pin) <= B
  /\ buf' = buf \o pin
  /\ pin' = <<>>
  /\ updating' = FALSE
  /\ UNCHANGED <<param, h, t, f, out, given>>

\* blake2s_final(): -1, and nothing changed, for a short output buffer or when
\* the last block was already compressed.  It copies outlen bytes out of a local
\* buffer of BLAKE2S_OUTBYTES: no caller passes a larger length.
FinalHash(outlen) ==
  /\ ~updating
  /\ outlen <= OutBytes
  /\ outlen >= param.outlen
  /\ ~f
  /\ t' = Increment(t, Len(buf))
  /\ f' = TRUE
  /\ h' = Compress(h, Pad(buf), t', TRUE)
  /\ out' = [param |-> param, blocks |-> h']
  /\ UNCHANGED <<param, buf, pin, updating, given>>

Next ==
  \/ \E n \in OutLens : \/ InitHash(n)
                        \/ FinalHash(n)
                        \/ \E key \in Keys : InitKey(n, key)
  \/ \E chunk \in Chunks : Update(chunk)
  \/ UpdateBlock
  \/ UpdateTail

Spec == Init /\ [][Next]_vars

-----------------------------------------------------------------------------
(* Properties.                                                             *)

\* Type invariant of blake2s_state (include/blake2.h).
TypeOK ==
  /\ param \in [outlen : 0..OutBytes, keylen : 0..KeyBytes]
  /\ h \in Seq([block : Seq(Nat), t : (0..W-1) \X (0..W-1), last : BOOLEAN])
  /\ t \in (0..W-1) \X (0..W-1)
  /\ f \in BOOLEAN
  /\ buf \in Seq(Nat)
  /\ pin \in Seq(Nat)
  /\ updating \in BOOLEAN
  /\ given \in Seq(Nat)

(***************************************************************************)
(* The buffer never overflows its block, is empty only while the loop runs *)
(* or before anything was absorbed, and the loop is only entered with      *)
(* input left: so the last block of a message is still in the buffer when  *)
(* blake2s_final() comes to flag it (blake2s-ref.c:217-237).               *)
(***************************************************************************)
LastBlockHeld ==
  /\ Len(buf) <= B
  /\ updating <=> pin # <<>>
  /\ buf = <<>> => updating \/ h = <<>> \/ f

(***************************************************************************)
(* Every block compressed is a whole block, and until the last one the two *)
(* words of the counter hold the number of bytes compressed, carry and all *)
(* (blake2s-ref.c:61-65, 225, 229).                                        *)
(***************************************************************************)
CounterExact ==
  /\ \A i \in DOMAIN h : Len(h[i].block) = B
  /\ ~f => t[1] + W * t[2] = (B * Len(h)) % (W * W)

\* The message as the state holds it: what was compressed, what is buffered, then
\* the input left.  Until the last block it is what the callers gave.
Message ==
  [i \in 1..(B * Len(h)) |-> h[((i - 1) \div B) + 1].block[((i - 1) % B) + 1]]
    \o buf \o pin

View(d) ==
  [param  |-> d.param,
   blocks |-> [i \in DOMAIN d.blocks |->
                 [block   |-> d.blocks[i].block,
                  counter |-> d.blocks[i].t[1] + W * d.blocks[i].t[2],
                  last    |-> d.blocks[i].last]]]

Stream == INSTANCE HashStream WITH
  BlockBytes   <- B,
  CounterBytes <- W * W,
  OutLens      <- {n \in OutLens : ValidOutLen(n)},
  Keys         <- {key \in Keys : Len(key) \in 1..KeyBytes},
  Pieces       <- Chunks,
  absorbed     <- IF f THEN <<>> ELSE given,
  finished     <- f,
  digest       <- View(out)

(***************************************************************************)
(* Digests do not depend on how a message was cut into updates, and every  *)
(* byte passed to blake2s_update() is in its digest once and in its place: *)
(* this is the streaming hash, its digest the one-shot digest of the key   *)
(* block and the pieces the callers gave since the last init, taken once   *)
(* (blake2s-ref.c:115-263).                                                *)
(***************************************************************************)
ImplementsStream == Stream!Spec

=============================================================================

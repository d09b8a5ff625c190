----------------------------- MODULE HashStream -----------------------------
(***************************************************************************)
(* What a streaming hash promises: absorbing a message in any pieces and   *)
(* then finishing gives the digest of the whole message, once; what is     *)
(* absorbed afterwards is never part of a digest.                          *)
(***************************************************************************)
EXTENDS Integers, Sequences

CONSTANTS BlockBytes,   \* bytes in a block
          CounterBytes, \* the byte counter is kept modulo this number
          OutLens,      \* digest lengths a hash may be started with
          Keys,         \* keys it may be started with
          Pieces        \* pieces of message it may be given

VARIABLES param,        \* parameter block the hash was started with
          absorbed,     \* the message so far
          finished,     \* the digest was taken
          digest        \* the last digest taken

vars == <<param, absorbed, finished, digest>>

\* Message m cut into blocks: every block is full but the last, which is padded
\* with zeros; an empty message is one block of padding.  Each block is hashed
\* with the number of message bytes up to its end, the last one with a flag.
Blocks(m)  == IF m = <<>> THEN 1 ELSE (Len(m) + BlockBytes - 1) \div BlockBytes
UpTo(m, i) == IF i * BlockBytes < Len(m) THEN i * BlockBytes ELSE Len(m)

OneShot(m) ==
  [i \in 1..Blocks(m) |->
     [block   |-> [j \in 1..BlockBytes |->
                     LET at == (i - 1) * BlockBytes + j
                     IN  IF at <= Len(m) THEN m[at] ELSE 0],
      counter |-> UpTo(m, i) % CounterBytes,
      last    |-> i = Blocks(m)]]

NoDigest == [param |-> [outlen |-> 0, keylen |-> 0], blocks |-> <<>>]

Init ==
  /\ param = [outlen |-> 0, keylen |-> 0]
  /\ absorbed = <<>>
  /\ finished = FALSE
  /\ digest = NoDigest

\* A hash starts with its parameters and the front of its message.
Start(outlen, keylen, front) ==
  /\ param' = [outlen |-> outlen, keylen |-> keylen]
  /\ absorbed' = front
  /\ finished' = FALSE
  /\ digest' = NoDigest

\* A key is the first block of the message, filled up with zeros.
KeyBlock(key) == [i \in 1..BlockBytes |-> IF i <= Len(key) THEN key[i] ELSE 0]

Absorb(piece) ==
  /\ ~finished
  /\ absorbed' = absorbed \o piece
  /\ UNCHANGED <<param, finished, digest>>

Finish ==
  /\ ~finished
  /\ finished' = TRUE
  /\ absorbed' = <<>>
  /\ digest' = [param |-> param, blocks |-> OneShot(absorbed)]
  /\ UNCHANGED param

Next ==
  \/ \E outlen \in OutLens :
       \/ Start(outlen, 0, <<>>)
       \/ \E key \in Keys : Start(outlen, Len(key), KeyBlock(key))
  \/ \E piece \in Pieces : Absorb(piece)
  \/ Finish

Spec == Init /\ [][Next]_vars

=============================================================================

----------------------------- MODULE HkdfExpand -----------------------------
(***************************************************************************)
(* The loop of expand/hkdf.rs, for both hashes: HKDF-Expand of RFC 5869    *)
(* with the block counter in a byte.  With one key and one info, a block   *)
(* T(i) = HMAC(T(i-1), info, i) is determined by the counters that went    *)
(* into it, so it is the sequence of them; the output is a sequence of     *)
(* pieces, the first `count' bytes of a block each.                        *)
(***************************************************************************)
EXTENDS Integers, Sequences

CONSTANT OkmLen  \* the lengths that are asked for

ASSUME LengthAssumption == OkmLen \subseteq Nat

HashLen == 64    \* SHA-512 and SHA3-512
Byte == 256      \* `i as u8'

VARIABLES
  pc,
  len,     \* bytes to derive
  n,       \* blocks to compute
  i,       \* the block the loop is at
  okm,     \* the pieces copied so far
  filled,  \* okm.len()
  tPrev    \* the previous block

expandVars == <<pc, len, n, i, okm, filled, tPrev>>

ExpandInit ==
  /\ pc = "call"
  /\ len \in OkmLen
  /\ n = 0 /\ i = 0
  /\ okm = <<>> /\ filled = 0
  /\ tPrev = <<>>

\* Mutant: one block more than the counter has values for.
MaxOutput256 == 256 * HashLen

MaxOutput == 255 * HashLen

DivCeil(a, b) == (a + b - 1) \div b

ToCopy == IF len - filled < HashLen THEN len - filled ELSE HashLen

TooLong ==
  /\ pc = "call" /\ len > MaxOutput
  /\ pc' = "ExpandOutputTooLong"
  /\ UNCHANGED <<len, n, i, okm, filled, tPrev>>

Enter ==
  /\ pc = "call" /\ len <= MaxOutput
  /\ pc' = "loop"
  /\ n' = DivCeil(len, HashLen)
  /\ i' = 1
  /\ UNCHANGED <<len, okm, filled, tPrev>>

Block ==
  /\ pc = "loop" /\ i <= n
  /\ tPrev' = Append(tPrev, i % Byte)
  /\ okm' = Append(okm, [block |-> tPrev', count |-> ToCopy])
  /\ filled' = filled + ToCopy
  /\ i' = i + 1
  /\ UNCHANGED <<pc, len, n>>

ExpandReturn ==
  /\ pc = "loop" /\ i > n
  /\ pc' = "done"
  /\ tPrev' = <<>>
  /\ UNCHANGED <<len, n, i, okm, filled>>

ExpandNext ==
  \/ TooLong
  \/ Enter
  \/ Block
  \/ ExpandReturn

ExpandSpec == ExpandInit /\ [][ExpandNext]_expandVars
-----------------------------------------------------------------------------
Pieces == Seq([block : Seq(0 .. Byte - 1), count : 0 .. HashLen])

\* The output never outgrows what was asked for, and the loop runs at most 255
\* times (the comment "Safe: n <= 255" above `i as u8').
ExpandTypeOK ==
  /\ pc \in {"call", "loop", "done", "ExpandOutputTooLong"}
  /\ len \in OkmLen
  /\ n \in 0 .. 255 /\ i \in 0 .. 256
  /\ filled \in 0 .. len
  /\ tPrev \in Seq(0 .. Byte - 1)
  /\ okm \in Pieces

\* T(k) of the RFC: the counters 1, 2, ..., k, none of which has wrapped.
T(k) == [c \in 1 .. k |-> c]

\* RFC 5869: the output is the first len bytes of T(1) T(2) ... T(n), every block
\* but the last taken whole, and none of them is empty.
OkmIsRfc5869 ==
  pc = "done" =>
    /\ filled = len /\ Len(okm) = n
    /\ HashLen * (n - 1) < len /\ len <= HashLen * n
    /\ \A k \in 1 .. n :
         okm[k] = [block |-> T(k),
                   count |-> IF k < n THEN HashLen ELSE len - HashLen * (n - 1)]
-----------------------------------------------------------------------------
\* The loop invariant: block i is about to be computed from T(i-1).
LoopInv ==
  /\ ExpandTypeOK
  /\ pc = "call" => n = 0 /\ i = 0 /\ okm = <<>> /\ filled = 0 /\ tPrev = <<>>
  /\ pc = "ExpandOutputTooLong" => len > 255 * 64
  /\ pc \in {"loop", "done"} =>
       /\ len <= 255 * 64
       /\ HashLen * (n - 1) < len /\ len <= HashLen * n
       /\ 1 <= i /\ i <= n + 1
       /\ Len(okm) = i - 1
       /\ filled = IF i <= n THEN HashLen * (i - 1) ELSE len
       /\ \A k \in 1 .. i - 1 :
            okm[k] = [block |-> T(k),
                      count |-> IF k < n THEN HashLen ELSE len - HashLen * (n - 1)]
  /\ pc = "loop" => tPrev = T(i - 1)
  /\ pc = "done" => i = n + 1
=============================================================================

---------------------------- MODULE RTICompress ----------------------------
(***************************************************************************)
(* The zero-run compressor of rti/rticompress.cc, used by RTILink::recv    *)
(* (Compress) and ReflectAttributeValues (Uncompress) when USE_COMPRESSION *)
(* is defined.  One behaviour is one call of Compress on a source array    *)
(* followed by Uncompress of its result into a zeroed packet, one loop     *)
(* iteration per step.                                                     *)
(*                                                                         *)
(* A control word is an unsigned int with the run's source offset in its   *)
(* low 16 bits and the run's length in its high 16 bits.  The model keeps  *)
(* that layout with FieldBits bits per field, so a word has 2 * FieldBits  *)
(* bits and lth << 16 is (lth * 2^FieldBits) % 2^(2 * FieldBits).  Arrays  *)
(* are indexed from 0 as in the code.                                      *)
(***************************************************************************)
EXTENDS Integers, Sequences, FiniteSets, Bitwise

CONSTANTS
  FieldBits,   \* bits of each half of a control word (16 in the code)
  Values,      \* the words a source array is made of; 0 among them
  MaxLen       \* bound: the longest source array (Count)

ASSUME FieldBits \in Nat \ {0} /\ 0 \in Values /\ MaxLen \in Nat

Field == 2^FieldBits
Word  == 0..(Field * Field - 1)
ASSUME Values \subseteq Word

\* unsigned int lth << 16: the bits shifted past the word are lost.
Lsh(x) == (x * Field) % (Field * Field)

\* The source arrays a caller may pass, Count = 0 .. MaxLen.
Inputs == UNION {[0..(n - 1) -> Values] : n \in 0..MaxLen}

VARIABLES
  src,       \* pSource[0 .. Count-1]
  pc,        \* "compress", "uncompress", "done"
  off,       \* offset of the running call
  skipping,  \* Compress: skipping
  targ,      \* targoffset of the running call
  cw,        \* Compress: index of pCW in pTarget
  lth,       \* lth of the running call
  i,         \* Uncompress: the for-loop counter
  tgt,       \* Compress's pTarget, which Uncompress reads as pSource
  cnt,       \* Compress's return value, Uncompress's Count
  out        \* Uncompress's pTarget: the packet's bits, zero on entry

vars == <<src, pc, off, skipping, targ, cw, lth, i, tgt, cnt, out>>

Count == DOMAIN src
N     == Cardinality(Count)
Buf   == 0..MaxLen                  \* Count + 1 words of target buffer

TypeOK ==
  /\ src \in Inputs
  /\ pc \in {"compress", "uncompress", "done"}
  /\ off \in Nat /\ targ \in Nat /\ cw \in Buf /\ lth \in Nat /\ i \in Nat
  /\ skipping \in BOOLEAN
  /\ tgt \in [Buf -> Word] /\ cnt \in Nat
  /\ out \in [0..(MaxLen - 1) -> Word]

\* Compress's locals as initialised, *pCW = 0 at pTarget[0]; the packet
\* Uncompress fills is zeroed by Packet::alloc.
Init ==
  /\ src \in Inputs
  /\ pc = "compress"
  /\ off = 0 /\ skipping = TRUE /\ targ = 0 /\ cw = 0 /\ lth = 0 /\ i = 0
  /\ tgt = [k \in Buf |-> 0]
  /\ cnt = 0
  /\ out = [k \in 0..(MaxLen - 1) |-> 0]

-----------------------------------------------------------------------------
(* Compress: one iteration of the while loop per step.                      *)

\* Skipping and the word is zero: step over it.
CSkip ==
  /\ pc = "compress" /\ off < N /\ skipping /\ src[off] = 0
  /\ off' = off + 1
  /\ UNCHANGED <<src, pc, skipping, targ, cw, lth, i, tgt, cnt, out>>

\* Skipping and the word is non-zero: open a control word holding the
\* offset, then (the second if) copy the word as the run's first.
CStartRun ==
  /\ pc = "compress" /\ off < N /\ skipping /\ src[off] # 0
  /\ skipping' = FALSE
  /\ cw' = targ
  /\ tgt' = [tgt EXCEPT ![targ] = off, ![targ + 1] = src[off]]
  /\ targ' = targ + 2
  /\ off' = off + 1
  /\ lth' = 1
  /\ UNCHANGED <<src, pc, i, cnt, out>>

\* In a run, two zeros in a row: close the control word with the length
\* and skip the first zero.
CEndRun ==
  /\ pc = "compress" /\ off < N /\ ~skipping
  /\ src[off] = 0 /\ off + 1 < N /\ src[off + 1] = 0
  /\ skipping' = TRUE
  /\ tgt' = [tgt EXCEPT ![cw] = @ | Lsh(lth)]
  /\ off' = off + 1
  /\ UNCHANGED <<src, pc, targ, cw, lth, i, cnt, out>>

\* In a run, a non-zero word, or a zero not followed by another (the last
\* word included): copy it.
CCopy ==
  /\ pc = "compress" /\ off < N /\ ~skipping
  /\ ~(src[off] = 0 /\ off + 1 < N /\ src[off + 1] = 0)
  /\ tgt' = [tgt EXCEPT ![targ] = src[off]]
  /\ targ' = targ + 1
  /\ off' = off + 1
  /\ lth' = lth + 1
  /\ UNCHANGED <<src, pc, skipping, cw, i, cnt, out>>

\* The loop ends: an open run gets its length, targoffset is returned,
\* and the result is handed to Uncompress with that Count.
CFinish ==
  /\ pc = "compress" /\ off >= N
  /\ tgt' = IF skipping THEN tgt ELSE [tgt EXCEPT ![cw] = @ | Lsh(lth)]
  /\ cnt' = targ
  /\ pc' = "uncompress"
  /\ off' = 0 /\ targ' = 0 /\ lth' = 0 /\ i' = 0
  /\ UNCHANGED <<src, skipping, cw, out>>

-----------------------------------------------------------------------------
(* Uncompress: one control word or one copied word per step.               *)

\* The for loop is over and words remain: read the next control word.
UControlWord ==
  /\ pc = "uncompress" /\ i >= lth /\ off < cnt
  /\ targ' = tgt[off] & (Field - 1)
  /\ lth' = tgt[off] \div Field
  /\ off' = off + 1
  /\ i' = 0
  /\ UNCHANGED <<src, pc, skipping, cw, tgt, cnt, out>>

\* pTarget[targoffset++] = pSource[offset++].
UCopy ==
  /\ pc = "uncompress" /\ i < lth
  /\ out' = [out EXCEPT ![targ] = tgt[off]]
  /\ targ' = targ + 1
  /\ off' = off + 1
  /\ i' = i + 1
  /\ UNCHANGED <<src, pc, skipping, cw, lth, tgt, cnt>>

UFinish ==
  /\ pc = "uncompress" /\ i >= lth /\ off >= cnt
  /\ pc' = "done"
  /\ UNCHANGED <<src, off, skipping, targ, cw, lth, i, tgt, cnt, out>>

\* Both calls have returned; nothing more happens.
Done == pc = "done" /\ UNCHANGED vars

Next ==
  \/ CSkip \/ CStartRun \/ CEndRun \/ CCopy \/ CFinish
  \/ UControlWord \/ UCopy \/ UFinish
  \/ Done

Spec == Init /\ [][Next]_vars

-----------------------------------------------------------------------------
(* Properties                                                               *)

\* The round trip of spec section 4.4 / 8.1 and of the comment at
\* rticompress.cc:10: for every array of at most 0x10000 words (here
\* 2^FieldBits), Uncompress of Compress's output into a zeroed packet gives
\* the array back.  A run's length is packed by lth << 16 into the control
\* word, so it must still fit when the run is as long as the array.
RoundTrip ==
  pc = "done" => \A k \in Count : out[k] = src[k]

=============================================================================

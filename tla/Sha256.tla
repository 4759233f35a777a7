------------------------------- MODULE Sha256 -------------------------------
(***************************************************************************)
(* sha256File: a file is read to its end and hashed as it is read, a byte   *)
(* into a buffer of one block, a full block into the state.  What the       *)
(* compression function makes of a block is left out: the model keeps the   *)
(* bytes it was fed, in order, which is what the digest depends on.         *)
(***************************************************************************)
EXTENDS Integers, Sequences

CONSTANTS
  BlockSize,   \* 64
  LengthSize,  \* the bytes that hold the number of bits: 8
  FileSizes,   \* the sizes of the files that are hashed
  NoDigest     \* the empty string that stands for a failure

ASSUME Sha256Assumption ==
  /\ LengthSize \in Nat /\ BlockSize \in Nat /\ LengthSize < BlockSize
  /\ FileSizes \subseteq Nat

VARIABLES
  size,    \* of the file
  stream,  \* "good", "eof" or "bad"
  fed,     \* the bytes of the blocks that were transformed
  buffer,  \* buffer_, as far as buffer_size_
  total,   \* total_bytes_
  phase,   \* where sha256File is
  digest   \* what it returned: the bytes behind the hash

file_vars == <<size, stream, fed, buffer, total, phase, digest>>

FileByte(i) == <<"byte", i>>
EndMark == <<"mark">>
Zero == <<"zero">>

\* The j-th byte, most significant first, of the length of n bytes in bits.
LengthByte(n, j) == <<"length", n, j>>

FileInit ==
  /\ size \in FileSizes
  /\ stream \in {"good", "bad"}  \* open or not
  /\ fed = <<>>
  /\ buffer = <<>>
  /\ total = 0
  /\ phase = "reading"
  /\ digest = NoDigest

\* update, one byte: a block that is full is transformed at once.
Update ==
  /\ phase = "reading" /\ stream = "good" /\ total < size
  /\ total' = total + 1
  /\ LET filled == Append(buffer, FileByte(total + 1)) IN
     IF Len(filled) = BlockSize
     THEN fed' = fed \o filled /\ buffer' = <<>>
     ELSE buffer' = filled /\ UNCHANGED fed
  /\ UNCHANGED <<size, stream, phase, digest>>

EndOfFile ==
  /\ phase = "reading" /\ stream = "good" /\ total = size
  /\ stream' = "eof"
  /\ UNCHANGED <<size, fed, buffer, total, phase, digest>>

ReadFails ==
  /\ phase = "reading" /\ stream = "good"
  /\ stream' = "bad"
  /\ UNCHANGED <<size, fed, buffer, total, phase, digest>>

\* Only the end of the file ends the reading well.
ReadAll == stream = "eof"

\* The hash of a file that could not be opened or read is empty.
Fail ==
  /\ phase = "reading" /\ stream = "bad" /\ ~ ReadAll
  /\ phase' = "returned"
  /\ UNCHANGED <<size, stream, fed, buffer, total, digest>>

\* finish: the mark goes behind the last byte.
AppendMark ==
  /\ phase = "reading" /\ ReadAll
  /\ phase' = "marked"
  /\ buffer' = Append(buffer, EndMark)
  /\ UNCHANGED <<size, stream, fed, total, digest>>

Zeros(n) == [i \in 1..n |-> Zero]

\* Mutation: a block with room for all but one byte of the length will do.
NoRoomOffByOne == Len(buffer) > BlockSize - LengthSize + 1

\* The length no longer fits behind the mark.
NoRoom == Len(buffer) > BlockSize - LengthSize

FillBlock ==
  /\ phase = "marked" /\ NoRoom
  /\ fed' = fed \o buffer \o Zeros(BlockSize - Len(buffer))
  /\ buffer' = <<>>
  /\ UNCHANGED <<size, stream, total, phase, digest>>

AppendLength ==
  /\ phase = "marked" /\ ~ NoRoom
  /\ phase' = "full"
  /\ buffer' = buffer \o Zeros(BlockSize - LengthSize - Len(buffer))
                      \o [j \in 1..LengthSize |-> LengthByte(total, j)]
  /\ UNCHANGED <<size, stream, fed, total, digest>>

Finish ==
  /\ phase = "full"
  /\ phase' = "returned"
  /\ fed' = fed \o buffer
  /\ digest' = fed'
  /\ UNCHANGED <<size, stream, buffer, total>>

FileNext ==
  \/ Update \/ EndOfFile \/ ReadFails \/ Fail
  \/ AppendMark \/ FillBlock \/ AppendLength \/ Finish

-----------------------------------------------------------------------------
(* Properties.                                                             *)

\* The message as the standard pads it: the bytes, the mark, as few zeros as
\* fill the last block up, and the length.
Padded(n) ==
  LET zeros == CHOOSE k \in 0..(BlockSize - 1) : (n + 1 + k + LengthSize) % BlockSize = 0 IN
  [i \in 1..n |-> FileByte(i)] \o <<EndMark>> \o Zeros(zeros)
    \o [j \in 1..LengthSize |-> LengthByte(n, j)]

\* A hash that is returned is that of the whole file, whatever its size is to
\* a block; one read that fails gives no hash (native_binary_identity.cpp:42-74,
\* 206-228).
DigestCoversFile == digest # NoDigest => digest = Padded(size)
=============================================================================

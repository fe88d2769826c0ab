----------------------------- MODULE ByteArray -----------------------------
(***************************************************************************)
(* ByteArray (bytearray.hpp/.cpp): bytes in a linked list of blocks of     *)
(* m_baseSize, with the cursor m_cur kept in step with m_position, and the *)
(* fixed-width, varint and string encodings written through it.            *)
(*                                                                         *)
(* The scale is reduced: bytes have ByteBits bits (8 in the code), fixed   *)
(* width numbers FixedWidth bytes, the lengths before strings LengthWidth  *)
(* bytes and varints IntBits bits (32 or 64).  The memory of a new block   *)
(* is uninitialised: any of FreshBytes, the same throughout a behaviour.   *)
(* The object has one user.                                                *)
(***************************************************************************)
EXTENDS Integers, Sequences, SequencesExt, FiniteSetsExt

CONSTANTS
  BaseSize,      \* m_baseSize
  ByteBits,
  FixedWidth,
  LengthWidth,
  IntBits,
  MaxCapacity,   \* bound on m_capacity
  Sizes,         \* the sizes of raw reads and of receive buffers
  Seeks,         \* the positions seeked to
  Fixeds, Uints, Ints, Strings,   \* the values written
  FreshBytes,    \* what uninitialised memory may hold
  Bad            \* what an access outside the blocks yields

\* 2^n
Pow2[n \in Nat] == IF n = 0 THEN 1 ELSE 2 * Pow2[n - 1]

Radix == Pow2[ByteBits]
Half == Pow2[ByteBits - 1]   \* 0x80
Byte == 0..(Radix - 1)
Null == 0

ASSUME ByteArrayAssumption ==
  /\ BaseSize \in Nat \ {0} /\ ByteBits \in Nat \ {0, 1} /\ IntBits \in Nat \ {0}
  /\ FixedWidth \in Nat \ {0} /\ LengthWidth \in Nat \ {0} /\ MaxCapacity \in Nat
  /\ Sizes \subseteq Nat /\ Seeks \subseteq Nat
  /\ FreshBytes \subseteq Byte
  /\ Fixeds \subseteq 0..(Pow2[ByteBits * FixedWidth] - 1)
  /\ Uints \subseteq 0..(Pow2[IntBits] - 1)
  /\ Ints \subseteq -Pow2[IntBits - 1]..(Pow2[IntBits - 1] - 1)
  /\ \A s \in Strings : s \in Seq(Byte) /\ Len(s) < Pow2[IntBits]

VARIABLES
  ba,     \* the object
  io,     \* the bytes the last operation transferred
  last,   \* the value just written, if any: its kind and the positions around it
  died    \* -1, or the size of the access that met a null m_cur

vars == <<ba, io, last, died>>

NoWrite == [kind |-> "none"]

NewNode(a) == [i \in 1..BaseSize |-> a.fresh]

NextNode(a, node) == IF node < Len(a.mem) THEN node + 1 ELSE Null

Smaller(m, n) == IF m < n THEN m ELSE n

-----------------------------------------------------------------------------
(***************************************************************************)
(* Moving over the blocks.                                                 *)
(***************************************************************************)

\* The addresses of n bytes from offset p of a block on, which the loops of
\* write, read, getReadBuffers and getWriteBuffers visit.
Addresses(a, node, p, n) ==
  LET block(k) == node + ((p + k) \div BaseSize)
  IN  [i \in 1..n |-> <<IF node = Null \/ block(i - 1) > Len(a.mem) THEN Null ELSE block(i - 1),
                       ((p + i - 1) % BaseSize) + 1>>]

Valid(at) == \A k \in DOMAIN at : at[k][1] # Null

Peek(a, at) == IF Valid(at) THEN [k \in DOMAIN at |-> a.mem[at[k][1]][at[k][2]]] ELSE <<Bad>>

Poke(a, at, bytes) ==
  [d \in DOMAIN a.mem |-> [o \in 1..BaseSize |->
     IF \E k \in DOMAIN at : at[k] = <<d, o>>
       THEN bytes[CHOOSE k \in DOMAIN at : at[k] = <<d, o>>] ELSE a.mem[d][o]]]

\* Faulty variant: stays in a block that is full.
CurAfter_Stay(a, at) == IF at = <<>> THEN a.cur ELSE Last(at)[1]

\* if (m_cur->size == npos + size) m_cur = m_cur->next;
CurAfter(a, at) ==
  IF at = <<>> THEN a.cur
  ELSE IF Last(at)[2] = BaseSize THEN NextNode(a, Last(at)[1]) ELSE Last(at)[1]

\* Faulty variant: forgets to point m_cur to the first new block.
AddCapacity_KeepCur(a, n) ==
  LET old == a.capacity - a.position
      count == (n - old + BaseSize - 1) \div BaseSize
  IN  IF old >= n THEN a
      ELSE [a EXCEPT !.mem = @ \o [i \in 1..count |-> NewNode(a)],
                     !.capacity = @ + count * BaseSize]

AddCapacity(a, n) ==
  LET old == a.capacity - a.position
      count == (n - old + BaseSize - 1) \div BaseSize
  IN  IF old >= n THEN a
      ELSE [a EXCEPT !.mem = @ \o [i \in 1..count |-> NewNode(a)],
                     !.capacity = @ + count * BaseSize,
                     !.cur = IF old = 0 THEN Len(a.mem) + 1 ELSE @]

\* write(buf, size)
WriteBytes(a, bytes) ==
  LET b == AddCapacity(a, Len(bytes))
      at == Addresses(b, b.cur, b.position % BaseSize, Len(bytes))
      end == b.position + Len(bytes)
  IN  IF bytes = <<>> THEN [a |-> a, how |-> "ok"]
      ELSE IF ~Valid(at) THEN [a |-> a, how |-> "null"]
      ELSE [a |-> [b EXCEPT !.mem = Poke(b, at, bytes), !.position = end,
                            !.size = IF end > @ THEN end ELSE @, !.cur = CurAfter(b, at)],
            how |-> "ok"]

\* One write after the other.
WriteTwo(a, s, t) ==
  LET r == WriteBytes(a, s) IN IF r.how = "ok" THEN WriteBytes(r.a, t) ELSE r

\* read(buf, size): m_cur is dereferenced also for size = 0.
ReadBytes(a, n) ==
  LET at == Addresses(a, a.cur, a.position % BaseSize, n)
  IN  IF n > a.size - a.position THEN [a |-> a, how |-> "throw", bytes |-> <<>>, value |-> 0]
      ELSE IF a.cur = Null \/ ~Valid(at)
        THEN [a |-> a, how |-> "null", bytes |-> <<>>, value |-> n]
      ELSE [a |-> [a EXCEPT !.position = @ + n, !.cur = CurAfter(a, at)],
            how |-> "ok", bytes |-> Peek(a, at), value |-> 0]

\* The block n steps after m_root.
NodeAt(a, n) ==
  LET node[i \in 0..n] == IF i = 0 THEN 1 ELSE NextNode(a, node[i - 1]) IN node[n]

\* Faulty variant: the content ends at the new position.
SeekTo_Cut(a, v) ==
  [a EXCEPT !.position = v, !.size = v, !.cur = NodeAt(a, v \div BaseSize)]

\* setPosition(v), v <= m_capacity: a step for each block that v leaves behind.
SeekTo(a, v) ==
  [a EXCEPT !.position = v, !.size = IF v > @ THEN v ELSE @,
            !.cur = NodeAt(a, v \div BaseSize)]

-----------------------------------------------------------------------------
(***************************************************************************)
(* The encodings.  The host is little endian; byteswap reverses.           *)
(***************************************************************************)

InOrder(a, bytes) == IF a.endian = "LITTLE" THEN bytes ELSE Reverse(bytes)

\* v shifted right by a digit, again and again.
Shifted(v, base) ==
  LET q[i \in Nat] == IF i = 0 THEN v ELSE q[i - 1] \div base IN q

\* The number with these digits, the lowest first.
ValueOf(digits, base) ==
  LET sum[i \in 0..Len(digits)] ==
        IF i = 0 THEN 0 ELSE base * sum[i - 1] + digits[Len(digits) + 1 - i]
  IN  sum[Len(digits)]

\* writeFuint16 and its relatives: the value modulo the width, also for the
\* size() of a string.
FixedBytes(a, width, v) == InOrder(a, [i \in 1..width |-> Shifted(v, Radix)[i - 1] % Radix])

FixedValue(a, bytes) == ValueOf(InOrder(a, bytes), Radix)

\* The iterations of for (int i = 0; i < 32; i += 7); also the size of tmp.
MaxGroups == (IntBits + ByteBits - 2) \div (ByteBits - 1)

\* writeUint32, writeUint64: every group but the last has the high bit.
EncodeUint(v) ==
  LET q == Shifted(v, Half)
      n == Min({i \in 0..(MaxGroups - 1) : q[i] < Half})
  IN  [i \in 1..(n + 1) |-> IF i = n + 1 THEN q[n] ELSE (q[i - 1] % Half) + Half]

\* Faulty variant: the high bits are not taken off.
DecodeUint_Keep(bytes) == ValueOf(bytes, Half) % Pow2[IntBits]

DecodeUint(bytes) == ValueOf([i \in DOMAIN bytes |-> bytes[i] % Half], Half) % Pow2[IntBits]

\* (v << 1) ^ (v >> 31)
EncodeZigzag(v) ==
  IF v >= 0 THEN 2 * v ELSE Pow2[IntBits] - 1 - ((2 * v) % Pow2[IntBits])

\* (v >> 1) ^ -(v & 1)
DecodeZigzag(u) == IF u % 2 = 0 THEN u \div 2 ELSE -1 - (u \div 2)

ReadFixed(a, width) ==
  LET r == ReadBytes(a, width)
  IN  IF r.how = "ok" THEN [r EXCEPT !.value = FixedValue(a, r.bytes)] ELSE r

\* readUint32: byte by byte; what was consumed before the bytes ran out is gone.
ReadUint(a) ==
  LET left == a.size - a.position
      rest == Peek(a, Addresses(a, a.cur, a.position % BaseSize, Smaller(MaxGroups, left)))
      stops == {i \in DOMAIN rest : rest[i] \in 0..Half - 1} \cup {MaxGroups}
      n == Min(stops)
      r == ReadBytes(a, Smaller(n, left))
  IN  IF left < n THEN [r EXCEPT !.how = "throw"]
      ELSE IF r.how = "null" THEN r
      ELSE [r EXCEPT !.value = DecodeUint(r.bytes)]

ReadInt(a) ==
  LET r == ReadUint(a) IN IF r.how = "ok" THEN [r EXCEPT !.value = DecodeZigzag(@)] ELSE r

\* readStringF16, readStringVint: the length, then as many bytes.
ReadString(length) ==
  LET r == ReadBytes(length.a, length.value)
  IN  IF length.how # "ok" THEN length
      ELSE [r EXCEPT !.bytes = length.bytes \o @,
                     !.value = IF r.how = "null" THEN @ ELSE r.bytes]

ReadValue(a, kind) ==
  CASE kind = "fixed" -> ReadFixed(a, FixedWidth)
    [] kind = "uint" -> ReadUint(a)
    [] kind = "int" -> ReadInt(a)
    [] kind = "stringF" -> ReadString(ReadFixed(a, LengthWidth))
    [] kind = "stringVint" -> ReadString(ReadUint(a))

\* What is written for a value: a number, or the length of a string and its bytes.
NumberOf(a, kind, v) ==
  CASE kind = "fixed" -> FixedBytes(a, FixedWidth, v)
    [] kind = "uint" -> EncodeUint(v)
    [] kind = "int" -> EncodeUint(EncodeZigzag(v))
    [] kind = "stringF" -> FixedBytes(a, LengthWidth, Len(v))
    [] kind = "stringVint" -> EncodeUint(Len(v))

TextOf(kind, v) == IF kind \in {"stringF", "stringVint"} THEN v ELSE <<>>

Values == [fixed |-> Fixeds, uint |-> Uints, int |-> Ints, stringF |-> Strings,
           stringVint |-> Strings]

-----------------------------------------------------------------------------
(***************************************************************************)
(* The views that change nothing.                                          *)
(***************************************************************************)

\* getReadBuffers(buffers, len)
GetReadBuffers(a, len) ==
  LET n == Smaller(len, a.size - a.position)
  IN  IF n = 0 THEN <<>> ELSE Peek(a, Addresses(a, a.cur, a.position % BaseSize, n))

\* Faulty variant: starts in the current block, whatever the position.
GetReadBuffersAt_Cur(a, len, position) ==
  LET n == Smaller(len, a.size - a.position)
  IN  IF n = 0 THEN <<>> ELSE Peek(a, Addresses(a, a.cur, position % BaseSize, n))

\* getReadBuffers(buffers, len, position): len is cut to getReadSize(), which
\* counts from m_position.
GetReadBuffersAt(a, len, position) ==
  LET n == Smaller(len, a.size - a.position)
      count == position \div BaseSize
  IN  IF n = 0 THEN <<>>
      ELSE Peek(a, Addresses(a, IF count < Len(a.mem) THEN count + 1 ELSE Null,
                             position % BaseSize, n))

\* toString(), by read(buf, size, position) from m_cur on.
AsString(a) ==
  IF a.size = a.position THEN <<>>
  ELSE Peek(a, Addresses(a, a.cur, a.position % BaseSize, a.size - a.position))

\* writeToFile(name): a block, or what it takes for its rest, at a time.
FileStep(a, f) ==
  LET diff == f.pos % BaseSize
      len == Smaller(f.left, BaseSize) - diff
  IN  IF f.left = 0 THEN f
      ELSE IF f.node = Null \/ len <= 0 THEN [f EXCEPT !.left = 0, !.out = <<Bad>>]
      ELSE [left |-> f.left - len, pos |-> f.pos + len, node |-> NextNode(a, f.node),
            out |-> f.out \o SubSeq(a.mem[f.node], diff + 1, diff + len)]

WriteToFile(a) ==
  LET n == a.size - a.position
      file[i \in 0..n] == IF i = 0 THEN [left |-> n, pos |-> a.position, node |-> a.cur, out |-> <<>>]
                          ELSE FileStep(a, file[i - 1])
  IN  file[n].out

-----------------------------------------------------------------------------
(***************************************************************************)
(* The operations.                                                         *)
(***************************************************************************)
Init ==
  /\ \E byte \in FreshBytes :
       ba = [mem |-> << [i \in 1..BaseSize |-> byte] >>, position |-> 0, size |-> 0,
             capacity |-> BaseSize, cur |-> 1, endian |-> "BIG", fresh |-> byte]
  /\ io = <<>>
  /\ last = NoWrite
  /\ died = -1

\* The end of writes of these bytes.
Store(r, bytes, written) ==
  /\ r.a.capacity <= MaxCapacity
  /\ IF r.how = "null" THEN died' = Len(bytes) /\ UNCHANGED <<ba, io, last>>
     ELSE ba' = r.a /\ io' = bytes /\ last' = written /\ UNCHANGED died

Written(kind, v, n) ==
  [kind |-> kind, value |-> v, from |-> ba.position, to |-> ba.position + n]

Write(kind, v) ==
  LET s == NumberOf(ba, kind, v)
      t == TextOf(kind, v)
  IN  Store(WriteTwo(ba, s, t), s \o t, Written(kind, v, Len(s) + Len(t)))

WriteStringWithoutLength(s) == Store(WriteBytes(ba, s), s, NoWrite)

\* readFromFile(name): blocks of m_baseSize, the last of which may be empty.
Chunk(s, i) == SubSeq(s, (i - 1) * BaseSize + 1, Smaller(i * BaseSize, Len(s)))

WriteChunks(a, s) ==
  LET n == (Len(s) \div BaseSize) + 1
      w[i \in 0..n] == IF i = 0 THEN [a |-> a, how |-> "ok"]
                       ELSE IF w[i - 1].how = "ok" THEN WriteBytes(w[i - 1].a, Chunk(s, i))
                       ELSE w[i - 1]
  IN  w[n]

ReadFromFile(s) == Store(WriteChunks(ba, s), s, NoWrite)

\* SocketStream::read(ba, length): getWriteBuffers, a recv that fills Len(s)
\* bytes, none if it fails, and setPosition.
ReceiveInto(length, s) ==
  LET b == AddCapacity(ba, length)
      at == Addresses(b, b.cur, b.position % BaseSize, length)
  IN  /\ b.capacity <= MaxCapacity
      /\ length > 0 /\ Len(s) <= length
      /\ IF ~Valid(at) THEN died' = length /\ UNCHANGED <<ba, io>>
         ELSE /\ ba' = IF s = <<>> THEN b
                       ELSE SeekTo([b EXCEPT !.mem = Poke(b, SubSeq(at, 1, Len(s)), s)],
                                   b.position + Len(s))
              /\ io' = s
              /\ UNCHANGED died
      /\ last' = NoWrite

Finish(r) ==
  /\ ba' = r.a
  /\ io' = IF r.how = "throw" THEN <<>> ELSE r.bytes
  /\ died' = IF r.how = "null" THEN r.value ELSE died
  /\ last' = NoWrite

Read(kind) == Finish(ReadValue(ba, kind))

ReadRaw(n) == Finish(ReadBytes(ba, n))

SetPosition(v) ==
  /\ v <= ba.capacity
  /\ ba' = SeekTo(ba, v)
  /\ io' = <<>>
  /\ last' = NoWrite
  /\ UNCHANGED died

Clear ==
  /\ ba' = [ba EXCEPT !.mem = SubSeq(@, 1, 1), !.position = 0, !.size = 0,
                      !.capacity = BaseSize, !.cur = 1]
  /\ io' = <<>>
  /\ last' = NoWrite
  /\ UNCHANGED died

SetIsLittleEndian(val) ==
  /\ ba' = [ba EXCEPT !.endian = IF val THEN "LITTLE" ELSE "BIG"]
  /\ io' = <<>>
  /\ last' = NoWrite
  /\ UNCHANGED died

Next ==
  /\ died = -1
  /\ \/ \E kind \in DOMAIN Values : \E v \in Values[kind] : Write(kind, v)
     \/ \E s \in Strings : WriteStringWithoutLength(s)
     \/ \E s \in Strings : ReadFromFile(s)
     \/ \E s \in Strings, length \in Sizes : ReceiveInto(length, s)
     \/ \E kind \in DOMAIN Values : Read(kind)
     \/ \E n \in Sizes : ReadRaw(n)
     \/ \E v \in Seeks : SetPosition(v)
     \/ Clear
     \/ \E val \in BOOLEAN : SetIsLittleEndian(val)

Spec == Init /\ [][Next]_vars

-----------------------------------------------------------------------------
(***************************************************************************)
(* Properties.                                                             *)
(***************************************************************************)

\* The byte at position i.
ByteAt(a, i) == a.mem[(i \div BaseSize) + 1][(i % BaseSize) + 1]

ContentsOf(a) == [i \in 1..a.size |-> ByteAt(a, i - 1)]

Contents == ContentsOf(ba)

\* The cursor is in step with the position after every sequence of operations:
\* m_cur is the block that holds m_position, null exactly at the end of the
\* capacity, which is where addCapacity appends and replaces it.
InStep(a) ==
  /\ a.capacity = BaseSize * Len(a.mem)
  /\ a.position <= a.size /\ a.size <= a.capacity
  /\ a.cur = (IF a.position = a.capacity THEN Null ELSE (a.position \div BaseSize) + 1)

CursorInStep == InStep(ba)

Buffer == INSTANCE ByteBuffer WITH content <- Contents, position <- ba.position

\* Across block boundaries, growth and overwriting, the list of blocks behaves
\* like one contiguous buffer.
ImplementsByteBuffer == Buffer!Spec

\* A null block is dereferenced in one case only: a read of no bytes at the end
\* of the capacity, which is what reading an empty string there does.
DiesOnlyOnEmptyRead == died \in {-1, 0} /\ (died = 0 => ba.position = ba.capacity)

\* A value just written is read back from its position, through whatever blocks
\* it spans and in either byte order, and the position ends behind it.  Two
\* exceptions: a string whose size does not fit its fixed-width length, and an
\* empty one that ends at the end of the capacity.
RoundTrip ==
  (died = -1 /\ last.kind # "none") =>
    LET r == ReadValue(SeekTo(ba, last.from), last.kind)
    IN  \/ r.how = "ok" /\ r.value = last.value /\ r.a.position = last.to
        \/ last.kind = "stringF" /\ Len(last.value) >= Pow2[ByteBits * LengthWidth]
        \/ r.how = "null" /\ last.value = <<>> /\ last.to = ba.capacity

\* toString, getReadBuffers and writeToFile show the readable bytes.  The
\* variant of getReadBuffers with a position shows the bytes from there to
\* m_size, as its comment says, from m_position, and from another position if
\* not more is asked for than there is behind both.  If more is asked for the
\* comment does not hold: the code cuts the length to what is behind m_position.
\* writeToFile does so unless it starts inside a block with less than a block to
\* write.
ViewsAgree ==
  LET Slice(from, n) == SubSeq(Contents, from + 1, from + n)
      left == ba.size - ba.position
  IN  /\ AsString(ba) = Slice(ba.position, left)
      /\ \A n \in Sizes : GetReadBuffers(ba, n) = Slice(ba.position, Smaller(n, left))
      /\ \A p \in 0..ba.size, n \in Sizes :
           p = ba.position \/ (n <= left /\ p + n <= ba.size)
             => GetReadBuffersAt(ba, n, p) = Slice(p, Smaller(n, ba.size - p))
      /\ ba.position % BaseSize = 0 \/ left >= BaseSize
           => WriteToFile(ba) = Slice(ba.position, left)
=============================================================================

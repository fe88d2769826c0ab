---------------------------- MODULE ByteBuffer ----------------------------
(***************************************************************************)
(* What a ByteArray promises: one contiguous sequence of bytes with a      *)
(* position.  Writing replaces or appends at the position, reading returns *)
(* what is there, and both move on by what they transferred.               *)
(***************************************************************************)
EXTENDS Naturals, Sequences

VARIABLES
  content,    \* the bytes up to m_size
  position,
  io          \* the bytes the last operation transferred

vars == <<content, position, io>>

Init == content = <<>> /\ position = 0 /\ io = <<>>

\* The content after putting bytes at the position.
Overwritten(bytes) ==
  [i \in 1..(IF position + Len(bytes) > Len(content) THEN position + Len(bytes)
             ELSE Len(content)) |->
     IF i \in position + 1 .. position + Len(bytes) THEN bytes[i - position]
     ELSE content[i]]

Put ==
  /\ content' = Overwritten(io')
  /\ position' = position + Len(io')

Get ==
  /\ position + Len(io') <= Len(content)
  /\ io' = SubSeq(content, position + 1, position + Len(io'))
  /\ position' = position + Len(io')
  /\ UNCHANGED content

\* A read that ran out of bytes has consumed some and returned none.
Fail ==
  /\ position' \in position..Len(content)
  /\ io' = <<>>
  /\ UNCHANGED content

\* Seeking past the end makes what lies between part of the content.
Seek ==
  /\ io' = <<>>
  /\ Len(content') = IF position' > Len(content) THEN position' ELSE Len(content)
  /\ \A i \in DOMAIN content : content'[i] = content[i]

Reset == content' = <<>> /\ position' = 0 /\ io' = <<>>

Next == Put \/ Get \/ Fail \/ Seek \/ Reset

Spec == Init /\ [][Next]_vars
=============================================================================

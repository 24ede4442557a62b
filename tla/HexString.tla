------------------------------ MODULE HexString ------------------------------
(* bytes_to_hex_str: two digits for each byte, the high one first. A digit is   *)
(* its value; that the sixteen characters differ is all that matters of them.   *)
EXTENDS Integers, Sequences

Digits == 0..15
Bytes  == 0..255

VARIABLES byte_view, i, rv
vars == <<byte_view, i, rv>>

TypeOK ==
  /\ byte_view \in Seq(Bytes)
  /\ i \in 0..Len(byte_view)
  /\ rv \in Seq(Digits)

Init == byte_view \in Seq(Bytes) /\ i = 0 /\ rv = <<>>

\* val >> 4 and val & 0xF
High(val) == val \div 16
Low(val)  == val % 16

Loop ==
  /\ i < Len(byte_view)
  /\ rv' = rv \o <<High(byte_view[i + 1]), Low(byte_view[i + 1])>>
  /\ i' = i + 1 /\ UNCHANGED byte_view

Spec == Init /\ [][Loop]_vars

------------------------------------------------------------------------------
\* The bytes can be read back from the string, at every turn of the loop: small
\* bytes keep their leading zero, and no digit is the sign of a negative byte.
HexTellsBytes ==
  /\ Len(rv) = 2 * i
  /\ \A k \in 1..i : 16 * rv[2 * k - 1] + rv[2 * k] = byte_view[k]
=============================================================================

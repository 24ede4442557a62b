------------------------------ MODULE ArchiveMC ------------------------------
(* Archive with all packets, and with the one whose lost fields its comments    *)
(* document.                                                                    *)
EXTENDS Archive, FiniteSetsExt

\* What a field holds in the k-th object: a date, from the middle or from an end of
\* the range, an enumerator, or any other value, of which the number is enough.
Sample(p, field, k) ==
  IF field \in DateFields THEN (IF k % 2 = 0 THEN (k % Half) - Half ELSE Half - 1 - (k % Half))
  ELSE IF field \in DOMAIN PacketEnums(p)
       THEN LET enumerators == FoldSet(LAMBDA e, s : Append(s, e), <<>>,
                                       DOMAIN PacketEnums(p)[field])
            IN  enumerators[(k % Len(enumerators)) + 1]
  ELSE <<field, k>>

Object(p, k) == [field \in FieldSet(p) |-> Sample(p, field, k)]

MCObjects == [p \in PacketNames |->
  {Object(p, k) : k \in 1..18}]   \* as many as the largest enumeration has enumerators
MCAll    == PacketNames
MCOrder  == {"MQL5OrderInfoIntegerResponse"}
=============================================================================

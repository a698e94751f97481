----------------------------- MODULE CoreFormat -----------------------------
(***************************************************************************)
(* The format of a core file as its writers have it, without the order in  *)
(* which the reader of CoreFile looks at it: what the payload of a file    *)
(* is, told by the positions of its parts all at once.                     *)
(***************************************************************************)
EXTENDS CoreFile

\* Where the signature of a .bit wrapper is in a file, up to the limit.
Occurrences(bytes) ==
  {pos \in 0 .. SearchEnd(bytes) - Len(Signature) : Occurs(bytes, pos)}

\* Where a record, a tag and a length, may begin.
Tagged(bytes) ==
  {pos \in 0 .. Len(bytes) - 2 : At(bytes, pos) \in StringTags \cup {PayloadTag}}

\* n records that follow one another from pos on: strings, then the payload.
Chained(bytes, pos, n) ==
  {at \in [1 .. n -> Tagged(bytes)] :
     /\ at[1] = pos
     /\ \A i \in 1 .. n - 1 : /\ At(bytes, at[i]) \in StringTags
                              /\ at[i + 1] = at[i] + 2 + At(bytes, at[i] + 1)
     /\ At(bytes, at[n]) = PayloadTag}

\* The payload whose record begins at pos.
Ended(bytes, pos) ==
  [ok |-> TRUE, offset |-> pos + 2, length |-> At(bytes, pos + 1)]

\* What is wrapped at base: preamble, marker, records.
Wrapped(bytes, base) ==
  LET marker == base + 1 + At(bytes, base)
  IN IF /\ Has(bytes, base) /\ At(bytes, base) \in 1 .. MaxPreamble
        /\ Has(bytes, marker) /\ At(bytes, marker) = Marker
       THEN UNION {{Ended(bytes, at[n]) : at \in Chained(bytes, marker + 1, n)} :
                     n \in 1 .. MaxRecords}
       ELSE {}

\* What is wrapped where the first signature is.
FirstWrapped(bytes) ==
  UNION {Wrapped(bytes, pos) : pos \in
           {p \in Occurrences(bytes) : \A q \in Occurrences(bytes) : p <= q}}

\* The payload that a file says it has, whichever kind it is; none in one that
\* is malformed or shorter than its header.  In a container it is wrapped
\* behind the header, or else where the first signature is.
CoresIn(bytes) ==
  IF IsRaw(bytes)
    THEN {[ok |-> TRUE, offset |-> MagicSize, length |-> bytes[2]]}
  ELSE IF IsCor(bytes)
    THEN IF Wrapped(bytes, HeaderSize) # {} THEN Wrapped(bytes, HeaderSize)
         ELSE FirstWrapped(bytes)
  ELSE IF IsBit(bytes) THEN Wrapped(bytes, 0)
  ELSE {}

\* Those payloads that are whole: not empty, and none of their bytes missing.
Whole(bytes, cores) ==
  {SubSeq(bytes, core.offset + 1, core.offset + core.length) :
     core \in {c \in cores :
                 c.length # 0 /\ c.offset + c.length <= Len(bytes)}}

WholePayloads(bytes) == Whole(bytes, CoresIn(bytes))

\* What may be loaded of a container whose usual place cannot be read.
Mistakable(bytes) ==
  IF IsCor(bytes) THEN Whole(bytes, FirstWrapped(bytes)) ELSE {}

=============================================================================

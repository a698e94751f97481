------------------------------ MODULE CoreFile ------------------------------
(***************************************************************************)
(* How src/src/core_file.c finds the configuration payload in a core file: *)
(* a raw M65J file, a Xilinx .bit file, or a MEGA65 .COR container that    *)
(* holds a .bit file, usually right behind its header.  A file is a        *)
(* sequence of bytes; sizes and tags are the small numbers below, a length *)
(* takes one byte, and the .bit signature is Signature.  Offsets count     *)
(* from 0, as in the code.                                                 *)
(***************************************************************************)
EXTENDS Integers, Sequences

CONSTANTS
  Signature,    \* the first bytes of a .bit wrapper: length, preamble
  MagicSize,    \* read of every file, the header of a raw one; 16 in the code
  CorSize,      \* of the header of a .COR container that is read; 128
  HeaderSize,   \* where a .COR container usually holds its wrapper; 4096
  SearchLimit,  \* how far the wrapper is searched for; 1 MB in the code
  ChunkSize,    \* of the buffer of the search; 256 in the code
  MaxPreamble,  \* length of the preamble of a wrapper; 4096 in the code
  MaxRecords    \* records a wrapper may have; 32 in the code

ASSUME SizesAssumption ==
  /\ Signature \in Seq(Nat) /\ Len(Signature) >= 2
  /\ MagicSize \in Nat /\ MagicSize >= 2
  /\ CorSize \in Nat /\ HeaderSize \in Nat \ {0}
  /\ SearchLimit \in Nat /\ ChunkSize \in Nat /\ ChunkSize >= Len(Signature)
  /\ MaxPreamble \in Nat /\ MaxRecords \in Nat \ {0}

\* The magic bytes of the two other kinds, and the tags of a wrapper.
RawMagic == 70
CorMagic == 71
Marker == 1
StringTags == {11, 12, 13, 14}  \* 'a' .. 'd'
PayloadTag == 15                \* 'e'

NotFound == [ok |-> FALSE, offset |-> 0, length |-> 0]
At(bytes, pos) == bytes[pos + 1]
Has(bytes, pos) == pos < Len(bytes)

\* parse_xilinx_bit_at: the strings until the payload, when at most left records
\* are read from pos on.  A seek past the end is seen by the read that follows.
Record(bytes) ==
  LET record[left \in 0 .. MaxRecords] == [pos \in Nat |->
        IF left = 0 \/ ~ Has(bytes, pos + 1) THEN NotFound
        ELSE IF At(bytes, pos) \in StringTags
          THEN record[left - 1][pos + 2 + At(bytes, pos + 1)]
        ELSE IF At(bytes, pos) = PayloadTag
          THEN [ok |-> TRUE, offset |-> pos + 2, length |-> At(bytes, pos + 1)]
        ELSE NotFound]
  IN record[MaxRecords]

\* parse_xilinx_bit_at: preamble, marker and records.
ParseBitAt(bytes, base) ==
  LET after == base + 1 + At(bytes, base)
  IN IF /\ Has(bytes, base) /\ At(bytes, base) \in 1 .. MaxPreamble
        /\ Has(bytes, after) /\ At(bytes, after) = Marker
       THEN Record(bytes)[after + 1]
       ELSE NotFound

\* Mutant: the chunks do not overlap.
NoOverlap(got) == got

\* How far the search moves on after a chunk in which nothing was found.
Advance(got) == got - Len(Signature) + 1

Occurs(bytes, pos) ==
  SubSeq(bytes, pos + 1, pos + Len(Signature)) = Signature
Least(S) == CHOOSE i \in S : \A j \in S : i <= j

\* Where the search ends, with the file or at the limit.
SearchEnd(bytes) == IF Len(bytes) < SearchLimit THEN Len(bytes) ELSE SearchLimit

\* find_xilinx_bit_wrapper: the file is read in chunks, and a signature looked
\* for within each, until there is one.  -1 when there is none.
FindWrapper(bytes) ==
  LET got(pos) == IF SearchEnd(bytes) - pos > ChunkSize THEN ChunkSize
                  ELSE SearchEnd(bytes) - pos
      hits(pos) == {i \in pos .. pos + got(pos) - Len(Signature) :
                      Occurs(bytes, i)}
      chunks == {pos \in {k * Advance(ChunkSize) : k \in 0 .. Len(bytes)} :
                   hits(pos) # {}}
  IN IF chunks = {} THEN -1 ELSE Least(hits(Least(chunks)))

\* core_open of a .COR container that has no wrapper in the usual place.
SearchCor(bytes) ==
  LET base == FindWrapper(bytes)
  IN IF base = -1 THEN NotFound ELSE ParseBitAt(bytes, base)

\* core_open of a .COR container.
ParseCor(bytes) ==
  LET usual == ParseBitAt(bytes, HeaderSize)
  IN IF usual.ok THEN usual ELSE SearchCor(bytes)

\* core_open can read the header of a file of the kind its first bytes tell.
IsRaw(bytes) == Len(bytes) >= MagicSize /\ bytes[1] = RawMagic
IsCor(bytes) == /\ Len(bytes) >= MagicSize /\ bytes[1] = CorMagic
                /\ Len(bytes) >= CorSize
IsBit(bytes) == Len(bytes) >= MagicSize /\ bytes[1] \notin {RawMagic, CorMagic}

\* core_open: where the payload is, when every read succeeds.
CoreOpen(bytes) ==
  CASE IsRaw(bytes) -> [ok |-> TRUE, offset |-> MagicSize, length |-> bytes[2]]
    [] IsCor(bytes) -> ParseCor(bytes)
    [] IsBit(bytes) -> ParseBitAt(bytes, 0)
    [] OTHER -> NotFound

\* core_open when a read fails.  The file is refused, except that a container
\* whose usual place cannot be read is searched like one without a wrapper
\* there.
Misread(bytes) ==
  {NotFound} \cup (IF IsCor(bytes) THEN {SearchCor(bytes)} ELSE {})

\* What core_read_payload delivers of the payload: less than its length when
\* the file is too short.
Payload(bytes, core) ==
  SubSeq(bytes, core.offset + 1,
         IF core.offset + core.length < Len(bytes)
           THEN core.offset + core.length ELSE Len(bytes))

=============================================================================

-------------------------- MODULE AutoFetchProofs --------------------------
(***************************************************************************)
(* The mirror for every value of the constants: its types, the bound on    *)
(* the file pool, that only signed content is committed and that only      *)
(* current files are counted; then what one run promises and what an idle  *)
(* mirror owns.                                                            *)
(***************************************************************************)
EXTENDS AutoFetch, FiniteSetTheorems, TLAPS

\* A fetch that is under way, or waits to be repeated, has attempts left.
AttemptsLeft ==
  afState \in {"manifest", "core", "retry wait"} => retries < FileRetries

IInv == TypeOK /\ PoolBound /\ AttemptsLeft /\ OnlySigned

Reasons == {"none", "retryable", "final"}

-----------------------------------------------------------------------------
(* The helpers on the fetch context.                                       *)

\* A context that fetch_start cleared is well typed.
LEMMA FreshIsFetch ==
  ASSUME NEW dest \in Paths
  PROVE  FreshFetch(dest) \in Fetch /\ FreshFetch(dest).rx = "none"
  BY ConstantsAssumption DEF FreshFetch, Fetch, FetchStates

\* A context that records an error is well typed.
LEMMA FailedIsFetch ==
  ASSUME NEW f \in Fetch, NEW why \in Reasons
  PROVE  /\ Failed(f, why) \in Fetch /\ Failed(f, why).rx = f.rx
         /\ Failed(f, why).dest = f.dest
  BY DEF Failed, Fetch, FetchStates, Reasons

\* A context that lost its connection is well typed.
LEMMA ClosedIsFetch ==
  ASSUME NEW f \in Fetch
  PROVE  Closed(f) \in Fetch /\ Closed(f).rx = f.rx
  BY DEF Closed, Fetch

\* A context whose receiver was aborted is well typed.
LEMMA AbortedIsFetch ==
  ASSUME NEW f \in Fetch
  PROVE  RxAborted(f) \in Fetch /\ RxAborted(f).rx = "none"
  BY DEF RxAborted, Fetch

\* Freeing one control block leaves the table well typed.
LEMMA ClosingIsTyped ==
  ASSUME conn \in [Conns -> ConnStates], NEW f
  PROVE  ConnAfterClose(f) \in [Conns -> ConnStates]
  BY DEF ConnAfterClose, ConnStates

-----------------------------------------------------------------------------
(* Groups of variables an action leaves alone.                             *)

\* MirrorOK reads the variables of the mirror only.
LEMMA MirrorKept ==
  ASSUME MirrorOK, AttemptsLeft, UNCHANGED mirror
  PROVE  MirrorOK' /\ AttemptsLeft'
  BY DEF MirrorOK, AttemptsLeft, mirror

\* DiskOK reads the variables of the card only.
LEMMA DiskKept ==
  ASSUME DiskOK, OnlySigned, UNCHANGED disk
  PROVE  DiskOK' /\ OnlySigned'
  BY DEF DiskOK, OnlySigned, disk

\* NetOK reads the context, the connections and the lookups only.
LEMMA NetKept ==
  ASSUME NetOK, UNCHANGED net
  PROVE  NetOK'
  BY DEF NetOK, net

\* CpuOK reads cpu and hashing only.
LEMMA CpuKept ==
  ASSUME CpuOK, UNCHANGED <<cpu, hashing>>
  PROVE  CpuOK' /\ HashSlot' = HashSlot
  BY DEF CpuOK, HashSlot

\* The pool stays within its bound when the slots of the receiver and the
\* lost slots together do not grow, and the same hash is running or none.
LEMMA PoolKept ==
  ASSUME PoolBound, DiskOK, leaked' \in Nat, HashSlot' \in {HashSlot, 0},
         leaked' + RxSlot(fc') <= leaked + RxSlot(fc)
  PROVE  PoolBound'
  <1>1. /\ RxSlot(fc) \in Nat /\ RxSlot(fc') \in Nat /\ HashSlot \in Nat
        /\ leaked \in Nat /\ FileSlots \in Nat
    BY ConstantsAssumption DEF RxSlot, HashSlot, DiskOK, ConstantsAssumption
  <1>2. leaked + RxSlot(fc) + HashSlot <= FileSlots
    BY DEF PoolBound
  <1>3. leaked' + RxSlot(fc') + HashSlot' <= FileSlots
    BY <1>1, <1>2
  <1> QED BY <1>3 DEF PoolBound, RxSlot

-----------------------------------------------------------------------------
(* The callbacks.                                                          *)

\* A late answer of the resolver keeps the invariant.
LEMMA DnsAnswerStep ==
  ASSUME IInv, DnsAnswer
  PROVE  IInv'
  <1>1. fc \in Fetch /\ conn \in [Conns -> ConnStates]
    BY DEF IInv, TypeOK, NetOK
  <1>2. fc' \in Fetch /\ fc'.rx = fc.rx /\ conn' \in [Conns -> ConnStates]
    <2>1. CASE fc' = Failed(fc, "retryable") /\ UNCHANGED conn
      BY <1>1, <2>1, FailedIsFetch DEF Reasons
    <2>2. CASE \E why \in {"final", "retryable"} :
                 fc' = Closed(Failed(fc, why)) /\ UNCHANGED conn
      BY <1>1, <2>2, FailedIsFetch, ClosedIsFetch DEF Reasons
    <2>3. ASSUME NEW c \in FreeConns,
                 fc' = [fc EXCEPT !.state = "connecting", !.pcb = c],
                 conn' = [conn EXCEPT ![c] = "connecting"]
          PROVE  fc' \in Fetch /\ fc'.rx = fc.rx
                 /\ conn' \in [Conns -> ConnStates]
      BY <1>1, <2>3 DEF FreeConns, Fetch, FetchStates, ConnStates
    <2> QED BY <2>1, <2>2, <2>3 DEF DnsAnswer
  <1>3. lookups' \in 0 .. MaxLookups
    <2>1. lookups \in 0 .. MaxLookups /\ lookups > 0 /\ lookups' = lookups - 1
      BY DEF DnsAnswer, IInv, TypeOK, NetOK
    <2> QED BY <2>1, ConstantsAssumption DEF ConstantsAssumption
  <1>4. UNCHANGED <<mirror, disk, cpu, hashing>>
    BY DEF DnsAnswer
  <1>5. NetOK'
    BY <1>2, <1>3 DEF NetOK
  <1>6. MirrorOK' /\ AttemptsLeft' /\ DiskOK' /\ OnlySigned' /\ CpuOK'
    BY <1>4, MirrorKept, DiskKept, CpuKept DEF IInv, TypeOK
  <1>7. PoolBound'
    <2>1. leaked' = leaked /\ RxSlot(fc') = RxSlot(fc) /\ leaked \in Nat
      BY <1>2, <1>4 DEF RxSlot, disk, IInv, TypeOK, DiskOK
    <2>2. RxSlot(fc) \in Nat
      BY DEF RxSlot
    <2>3. leaked' + RxSlot(fc') <= leaked + RxSlot(fc)
      BY <2>1, <2>2
    <2>4. HashSlot' = HashSlot
      BY <1>4, CpuKept DEF IInv, TypeOK
    <2> QED BY <2>1, <2>3, <2>4, PoolKept DEF IInv, TypeOK
  <1> QED BY <1>5, <1>6, <1>7 DEF IInv, TypeOK

\* What the callbacks and the polls that only touch the fetch context have
\* in common: the new context is well typed, the connections and lookups
\* are, and the receiver does not take a slot it did not have.
LEMMA NetStep ==
  ASSUME IInv, fc' \in Fetch, conn' \in [Conns -> ConnStates],
         UNCHANGED <<lookups, leaked, cpu, hashing>>,
         RxSlot(fc') <= RxSlot(fc)
  PROVE  NetOK' /\ CpuOK' /\ PoolBound'
  <1>1. NetOK'
    BY DEF IInv, TypeOK, NetOK
  <1>2. CpuOK' /\ HashSlot' = HashSlot
    BY CpuKept DEF IInv, TypeOK
  <1>3. leaked \in Nat /\ leaked' = leaked
    BY DEF IInv, TypeOK, DiskOK
  <1>4. RxSlot(fc) \in Nat /\ RxSlot(fc') \in Nat
    BY DEF RxSlot
  <1>5. leaked' + RxSlot(fc') <= leaked + RxSlot(fc)
    BY <1>3, <1>4
  <1> QED BY <1>1, <1>2, <1>3, <1>5, PoolKept DEF IInv, TypeOK

\* The same when .partial files come and go.
LEMMA PartialChanges ==
  ASSUME DiskOK, OnlySigned, UNCHANGED <<leaked, files>>, partial' \subseteq Paths
  PROVE  DiskOK' /\ OnlySigned'
  BY DEF DiskOK, OnlySigned

\* fetch_connected keeps the invariant.
LEMMA ConnectedStep ==
  ASSUME IInv, NEW c \in Conns, Connected(c)
  PROVE  IInv'
  <1>1. fc \in Fetch /\ conn \in [Conns -> ConnStates]
    BY DEF IInv, TypeOK, NetOK
  <1>2. fc' \in Fetch /\ fc'.rx = fc.rx /\ conn' \in [Conns -> ConnStates]
    <2>1. CASE /\ fc' = [fc EXCEPT !.state = "headers"]
               /\ conn' = [conn EXCEPT ![c] = "open"]
      BY <1>1, <2>1 DEF Fetch, FetchStates, ConnStates
    <2>2. CASE /\ fc' = Closed(Failed(fc, "retryable"))
               /\ conn' = [ConnAfterClose(fc) EXCEPT
                             ![c] = IF c = fc.pcb THEN "free" ELSE "open"]
      <3>1. ConnAfterClose(fc) \in [Conns -> ConnStates]
        BY <1>1, ClosingIsTyped
      <3>2. conn' \in [Conns -> ConnStates]
        BY <2>2, <3>1 DEF ConnStates
      <3> QED BY <1>1, <2>2, <3>2, FailedIsFetch, ClosedIsFetch DEF Reasons
    <2> QED BY <2>1, <2>2 DEF Connected
  <1>3. RxSlot(fc') <= RxSlot(fc)
    BY <1>2 DEF RxSlot
  <1>4. UNCHANGED <<mirror, lookups, disk, cpu, hashing>>
    BY DEF Connected
  <1>5. NetOK' /\ CpuOK' /\ PoolBound'
    BY <1>2, <1>3, <1>4, NetStep DEF disk
  <1> QED BY <1>4, <1>5, MirrorKept, DiskKept DEF IInv, TypeOK

\* fetch_err keeps the invariant.
LEMMA ConnectionErrorStep ==
  ASSUME IInv, NEW c \in Conns, ConnectionError(c)
  PROVE  IInv'
  <1>1. fc \in Fetch /\ conn \in [Conns -> ConnStates]
    BY DEF IInv, TypeOK, NetOK
  <1>2. conn' \in [Conns -> ConnStates]
    BY <1>1 DEF ConnectionError, ConnStates
  <1>3. fc' \in Fetch /\ fc'.rx \in {fc.rx, "none"}
    <2>1. CASE fc' = Closed(fc)
      BY <1>1, <2>1, ClosedIsFetch
    <2>2. CASE fc' = Closed(RxAborted(Failed(fc, "retryable")))
      <3>1. RxAborted(Failed(fc, "retryable")) \in Fetch
            /\ RxAborted(Failed(fc, "retryable")).rx = "none"
        BY <1>1, FailedIsFetch, AbortedIsFetch DEF Reasons
      <3> QED BY <2>2, <3>1, ClosedIsFetch
    <2> QED BY <2>1, <2>2 DEF ConnectionError
  <1>4. RxSlot(fc') <= RxSlot(fc)
    BY <1>3 DEF RxSlot
  <1>5. UNCHANGED <<mirror, lookups, leaked, files, cpu, hashing>>
    BY DEF ConnectionError
  <1>6. partial' \subseteq Paths
    BY DEF ConnectionError, IInv, TypeOK, DiskOK
  <1>7. NetOK' /\ CpuOK' /\ PoolBound'
    BY <1>2, <1>3, <1>4, <1>5, NetStep
  <1> QED BY <1>5, <1>6, <1>7, MirrorKept, PartialChanges DEF IInv, TypeOK

\* fetch_recv at the end of the stream keeps the invariant.
LEMMA PeerCloseStep ==
  ASSUME IInv, NEW c \in Conns, PeerClose(c)
  PROVE  IInv'
  <1>1. fc \in Fetch /\ conn \in [Conns -> ConnStates]
    BY DEF IInv, TypeOK, NetOK
  <1>2. conn' \in [Conns -> ConnStates]
    <2>1. ConnAfterClose(fc) \in [Conns -> ConnStates]
      BY <1>1, ClosingIsTyped
    <2> QED BY <2>1 DEF PeerClose, ConnStates
  <1>3. fc' \in Fetch /\ fc'.rx = fc.rx
    BY <1>1, FailedIsFetch, ClosedIsFetch DEF PeerClose, Reasons
  <1>4. RxSlot(fc') <= RxSlot(fc)
    BY <1>3 DEF RxSlot
  <1>5. UNCHANGED <<mirror, lookups, disk, cpu, hashing>>
    BY DEF PeerClose
  <1>6. NetOK' /\ CpuOK' /\ PoolBound'
    BY <1>2, <1>3, <1>4, <1>5, NetStep DEF disk
  <1> QED BY <1>5, <1>6, MirrorKept, DiskKept DEF IInv, TypeOK

\* fetch_recv when processing fails.
LEMMA ReceiveFailsIsTyped ==
  ASSUME IInv, NEW f \in Fetch, f.pcb = fc.pcb, ReceiveFails(f, "final")
  PROVE  /\ fc' \in Fetch /\ fc'.rx = "none" /\ RxSlot(fc') = 0
         /\ conn' \in [Conns -> ConnStates]
  <1>1. conn \in [Conns -> ConnStates]
    BY DEF IInv, TypeOK, NetOK
  <1>2. fc' = Closed(RxAborted(Failed(f, "final")))
    BY DEF ReceiveFails
  <1>3. RxAborted(Failed(f, "final")) \in Fetch
        /\ RxAborted(Failed(f, "final")).rx = "none"
    BY FailedIsFetch, AbortedIsFetch DEF Reasons
  <1>4. fc' \in Fetch /\ fc'.rx = "none"
    BY <1>2, <1>3, ClosedIsFetch
  <1>5. conn' \in [Conns -> ConnStates]
    BY <1>1, ClosingIsTyped DEF ReceiveFails
  <1> QED BY <1>4, <1>5 DEF RxSlot

\* fetch_parse_headers keeps the invariant.
LEMMA HeadersStep ==
  ASSUME IInv, NEW c \in Conns, Headers(c)
  PROVE  IInv'
  <1>1. fc \in Fetch /\ conn \in [Conns -> ConnStates] /\ leaked \in Nat
        /\ partial \subseteq Paths /\ RxSlot(fc) \in Nat /\ fc.dest \in Paths
    BY DEF IInv, TypeOK, NetOK, DiskOK, RxSlot, Fetch
  <1>2. UNCHANGED <<mirror, lookups, files, cpu, hashing>>
    BY DEF Headers
  <1>3. CpuOK' /\ HashSlot' = HashSlot
    BY <1>2, CpuKept DEF IInv, TypeOK
  <1>4. /\ fc' \in Fetch /\ conn' \in [Conns -> ConnStates]
        /\ partial' \subseteq Paths /\ leaked' \in Nat /\ PoolBound'
    <2>1. CASE /\ ReceiveFails(fc, "final")
               /\ partial' \in {partial \ AbortDeletes(fc), partial \ {fc.dest}}
               /\ UNCHANGED leaked
      <3>1. /\ fc' \in Fetch /\ RxSlot(fc') = 0
            /\ conn' \in [Conns -> ConnStates]
        BY <1>1, <2>1, ReceiveFailsIsTyped
      <3>2. leaked' \in Nat /\ leaked' + RxSlot(fc') <= leaked + RxSlot(fc)
        BY <1>1, <2>1, <3>1
      <3>3. PoolBound'
        BY <1>3, <3>2, PoolKept DEF IInv, TypeOK
      <3> QED BY <1>1, <2>1, <3>1, <3>2, <3>3
    <2>2. CASE /\ leaked' = leaked + RxSlot(fc)
               /\ SlotFree
               /\ fc' = [fc EXCEPT !.state = "body", !.rx = "open",
                                   !.from = c, !.mixed = @ \/ fc.body > 0]
               /\ partial' = partial \cup {fc.dest}
               /\ UNCHANGED conn
      <3>1. fc' \in Fetch /\ fc'.rx = "open"
        BY <1>1, <2>2 DEF Fetch, FetchStates
      <3>2. RxSlot(fc') = 1
        BY <3>1 DEF RxSlot
      <3>3. leaked + RxSlot(fc) + HashSlot < FileSlots /\ HashSlot \in Nat
            /\ FileSlots \in Nat
        BY <2>2, ConstantsAssumption DEF SlotFree, HashSlot, ConstantsAssumption
      <3>4. leaked' \in Nat /\ leaked' + RxSlot(fc') + HashSlot' <= FileSlots
        BY <1>1, <1>3, <2>2, <3>2, <3>3
      <3>5. PoolBound'
        BY <3>4 DEF PoolBound, RxSlot
      <3> QED BY <1>1, <2>2, <3>1, <3>4, <3>5
    <2>3. CASE /\ leaked' = leaked + RxSlot(fc)
               /\ ReceiveFails([fc EXCEPT !.rx = "none"], "final")
               /\ partial' = partial \ {fc.dest}
      <3>1. [fc EXCEPT !.rx = "none"] \in Fetch
            /\ [fc EXCEPT !.rx = "none"].pcb = fc.pcb
        BY <1>1 DEF Fetch
      <3>2. /\ fc' \in Fetch /\ RxSlot(fc') = 0
            /\ conn' \in [Conns -> ConnStates]
        BY <2>3, <3>1, ReceiveFailsIsTyped
      <3>3. leaked' \in Nat /\ leaked' + RxSlot(fc') <= leaked + RxSlot(fc)
        BY <1>1, <2>3, <3>2
      <3>4. PoolBound'
        BY <1>3, <3>3, PoolKept DEF IInv, TypeOK
      <3> QED BY <1>1, <2>3, <3>2, <3>3, <3>4
    <2> QED BY <2>1, <2>2, <2>3 DEF Headers, RxBegun
  <1>5. NetOK'
    BY <1>2, <1>4 DEF NetOK, IInv, TypeOK
  <1>6. DiskOK' /\ OnlySigned'
    BY <1>2, <1>4 DEF DiskOK, OnlySigned, IInv, TypeOK
  <1> QED BY <1>2, <1>3, <1>4, <1>5, <1>6, MirrorKept DEF IInv, TypeOK

\* A piece of the body that does not complete it keeps the invariant.
LEMMA BodyPieceStep ==
  ASSUME IInv, NEW c \in Conns, BodyPiece(c)
  PROVE  IInv'
  <1>1. fc \in Fetch /\ conn \in [Conns -> ConnStates]
        /\ partial \subseteq Paths
    BY DEF IInv, TypeOK, NetOK, DiskOK
  <1>2. UNCHANGED <<mirror, lookups, leaked, files, cpu, hashing>>
    BY DEF BodyPiece
  <1>3. /\ fc' \in Fetch /\ RxSlot(fc') <= RxSlot(fc)
        /\ conn' \in [Conns -> ConnStates] /\ partial' \subseteq Paths
    <2>1. CASE /\ fc.body + 1 < BodyChunks
               /\ fc' = [fc EXCEPT !.body = @ + 1,
                                   !.mixed = @ \/ c # fc.from]
               /\ UNCHANGED <<conn, partial>>
      <3>1. fc.body \in Nat /\ BodyChunks \in Nat
        BY <1>1, ConstantsAssumption DEF Fetch, ConstantsAssumption
      <3>2. fc.body + 1 \in 0 .. BodyChunks
        BY <2>1, <3>1
      <3>3. fc' \in Fetch /\ fc'.rx = fc.rx
        BY <1>1, <2>1, <3>2 DEF Fetch
      <3> QED BY <1>1, <2>1, <3>3 DEF RxSlot
    <2>2. CASE /\ ReceiveFails(fc, "final")
               /\ partial' = partial \ AbortDeletes(fc)
      BY <1>1, <2>2, ReceiveFailsIsTyped DEF RxSlot
    <2> QED BY <2>1, <2>2 DEF BodyPiece
  <1>4. NetOK' /\ CpuOK' /\ PoolBound'
    BY <1>2, <1>3, NetStep
  <1> QED BY <1>2, <1>3, <1>4, MirrorKept, PartialChanges DEF IInv, TypeOK

\* The commit: whatever is renamed to the final path was verified.
LEMMA BodyEndStep ==
  ASSUME IInv, NEW c \in Conns, BodyEnd(c)
  PROVE  IInv'
  <1>1. /\ fc \in Fetch /\ conn \in [Conns -> ConnStates]
        /\ partial \subseteq Paths /\ fc.dest \in Paths
        /\ files \in [Paths -> Contents]
    BY DEF IInv, TypeOK, NetOK, DiskOK, Fetch
  <1>2. /\ UNCHANGED <<mirror, lookups, leaked, cpu, hashing>>
        /\ conn' \in [Conns -> ConnStates] /\ partial' \subseteq Paths
    BY <1>1, ClosingIsTyped DEF BodyEnd
  <1>3. PICK content \in {"match", "other", "unsigned"} :
          LET mixed == fc.mixed \/ c # fc.from
              got == IF mixed THEN "unsigned" ELSE content
          IN IF ~ Verified(content, mixed)
               THEN /\ fc' = Closed(RxAborted(Failed(fc, "final")))
                    /\ UNCHANGED files
               ELSE \/ /\ fc.dest \in partial
                       /\ fc' = Closed([fc EXCEPT !.state = "done",
                                  !.body = BodyChunks, !.sha = got,
                                  !.rx = "closed"])
                       /\ \E stale \in SUBSET Entries :
                            /\ stale # {} => fc.dest = Manifest
                            /\ files' = [Superseded(stale) EXCEPT ![fc.dest] = got]
                    \/ /\ fc' = Closed(RxAborted(Failed(fc, "final")))
                       /\ files' = [files EXCEPT ![fc.dest] = "absent"]
    BY DEF BodyEnd
  <1>4. ASSUME fc' = Closed(RxAborted(Failed(fc, "final")))
        PROVE  fc' \in Fetch /\ RxSlot(fc') = 0
    <2>1. RxAborted(Failed(fc, "final")) \in Fetch
          /\ RxAborted(Failed(fc, "final")).rx = "none"
      BY <1>1, FailedIsFetch, AbortedIsFetch DEF Reasons
    <2> QED BY <1>4, <2>1, ClosedIsFetch DEF RxSlot
  <1>5. /\ fc' \in Fetch /\ RxSlot(fc') = 0
        /\ files' \in [Paths -> Contents]
        /\ \A p \in Paths : files'[p] # "unsigned"
    <2>1. CASE fc' = Closed(RxAborted(Failed(fc, "final"))) /\ UNCHANGED files
      BY <1>1, <1>4, <2>1 DEF IInv, OnlySigned
    <2>2. CASE /\ fc' = Closed(RxAborted(Failed(fc, "final")))
               /\ files' = [files EXCEPT ![fc.dest] = "absent"]
      BY <1>1, <1>4, <2>2 DEF IInv, OnlySigned, Contents
    <2>3. ASSUME Verified(content, fc.mixed \/ c # fc.from),
                 fc' = Closed([fc EXCEPT !.state = "done",
                          !.body = BodyChunks, !.sha = content,
                          !.rx = "closed"]),
                 NEW stale \in SUBSET Entries,
                 files' = [Superseded(stale) EXCEPT ![fc.dest] = content]
          PROVE  /\ fc' \in Fetch /\ RxSlot(fc') = 0
                 /\ files' \in [Paths -> Contents]
                 /\ \A p \in Paths : files'[p] # "unsigned"
      <3>1. content \in {"match", "other"}
        BY <2>3 DEF Verified
      <3>2. [fc EXCEPT !.state = "done", !.body = BodyChunks,
                       !.sha = content, !.rx = "closed"] \in Fetch
            /\ [fc EXCEPT !.state = "done", !.body = BodyChunks,
                          !.sha = content, !.rx = "closed"].rx = "closed"
        <4>1. BodyChunks \in 0 .. BodyChunks
          BY ConstantsAssumption DEF ConstantsAssumption
        <4> QED BY <1>1, <3>1, <4>1 DEF Fetch, FetchStates
      <3>3. fc' \in Fetch /\ RxSlot(fc') = 0
        BY <2>3, <3>2, ClosedIsFetch DEF RxSlot
      <3>4. Superseded(stale) \in [Paths -> Contents]
            /\ \A p \in Paths : Superseded(stale)[p] # "unsigned"
        BY <1>1 DEF Superseded, Contents, IInv, OnlySigned
      <3>5. files' \in [Paths -> Contents]
            /\ \A p \in Paths : files'[p] # "unsigned"
        BY <1>1, <2>3, <3>1, <3>4 DEF Contents
      <3> QED BY <3>3, <3>5
    <2> QED BY <1>3, <2>1, <2>2, <2>3 DEF Verified
  <1>6. RxSlot(fc') <= RxSlot(fc)
    BY <1>5 DEF RxSlot
  <1>7. NetOK' /\ CpuOK' /\ PoolBound'
    BY <1>2, <1>5, <1>6, NetStep
  <1>8. DiskOK' /\ OnlySigned'
    BY <1>2, <1>5 DEF DiskOK, OnlySigned, IInv, TypeOK
  <1> QED BY <1>2, <1>7, <1>8, MirrorKept DEF IInv, TypeOK

-----------------------------------------------------------------------------
(* Starting a fetch, giving one up, and hashing a file.                    *)

\* fetch_start: the context is cleared, and an open receiver of the old one
\* becomes a lost slot, whether or not the new fetch begins.
LEMMA StartingKeepsNet ==
  ASSUME IInv, NEW dest \in Paths, FetchStarted(dest) \/ FetchNotStarted(dest)
  PROVE  /\ NetOK'
         /\ leaked' \in Nat /\ leaked' + RxSlot(fc') <= leaked + RxSlot(fc)
  <1>1. /\ FreshFetch(dest) \in Fetch /\ FreshFetch(dest).rx = "none"
        /\ conn \in [Conns -> ConnStates] /\ lookups \in 0 .. MaxLookups
        /\ leaked \in Nat
    BY FreshIsFetch DEF IInv, TypeOK, NetOK, DiskOK
  <1>2. /\ fc' \in Fetch /\ fc'.rx = "none" /\ conn' \in [Conns -> ConnStates]
        /\ leaked' = leaked + RxSlot(fc)
        /\ lookups' = lookups \/ (lookups < MaxLookups /\ lookups' = lookups + 1)
    <2>1. CASE FetchNotStarted(dest)
      BY <1>1, <2>1, FailedIsFetch DEF FetchNotStarted, Reasons
    <2>2. CASE FetchStarted(dest)
      <3>1. ASSUME NEW c \in FreeConns,
                   fc' = [FreshFetch(dest) EXCEPT !.pcb = c],
                   conn' = [conn EXCEPT ![c] = "connecting"]
            PROVE  /\ fc' \in Fetch /\ fc'.rx = "none"
                   /\ conn' \in [Conns -> ConnStates]
        BY <1>1, <3>1 DEF FreeConns, Fetch, ConnStates
      <3> QED BY <1>1, <2>2, <3>1 DEF FetchStarted
    <2> QED BY <2>1, <2>2
  <1>3. lookups' \in 0 .. MaxLookups
    BY <1>1, <1>2, ConstantsAssumption DEF ConstantsAssumption
  <1>4. RxSlot(fc) \in Nat /\ RxSlot(fc') = 0
    BY <1>2 DEF RxSlot
  <1>5. leaked' \in Nat /\ leaked' + RxSlot(fc') <= leaked + RxSlot(fc)
    BY <1>1, <1>2, <1>4
  <1> QED BY <1>2, <1>3, <1>5 DEF NetOK

\* autofetch_cancel aborts the receiver or leaves the transfer alone.
LEMMA CancelKeepsNet ==
  ASSUME IInv, CancelTransfer(fc)
  PROVE  /\ fc' \in Fetch /\ RxSlot(fc') <= RxSlot(fc)
         /\ conn' \in [Conns -> ConnStates] /\ partial' \subseteq Paths
  <1>1. /\ fc \in Fetch /\ conn \in [Conns -> ConnStates]
        /\ partial \subseteq Paths
    BY DEF IInv, TypeOK, NetOK, DiskOK
  <1>2. fc' \in Fetch /\ fc'.rx \in {fc.rx, "none"}
    BY <1>1, AbortedIsFetch, ClosedIsFetch DEF CancelTransfer
  <1>3. conn' \in [Conns -> ConnStates] /\ partial' \subseteq Paths
    BY <1>1, ClosingIsTyped DEF CancelTransfer
  <1> QED BY <1>2, <1>3 DEF RxSlot

\* A committed file that is deleted again leaves no unsigned bytes.
LEMMA DeletingIsSafe ==
  ASSUME DiskOK, OnlySigned, files' = [files EXCEPT ![pending] = "absent"],
         leaked' = leaked, partial' \subseteq Paths \/ partial' = partial
  PROVE  DiskOK' /\ OnlySigned'
  BY DEF DiskOK, OnlySigned, Contents

\* Idle keeps the mirror typed when the counters are.
LEMMA IdleIsTyped ==
  ASSUME IInv, Idle, UNCHANGED <<retries, pos, checked, needed, updated, pending>>
  PROVE  MirrorOK' /\ AttemptsLeft'
  BY DEF IInv, TypeOK, MirrorOK, AttemptsLeft, Idle

\* The next line of the manifest is a line of the manifest.
LEMMA OneMoreFits ==
  ASSUME NEW a \in Nat, NEW b \in Nat, NEW h, NEW n \in Nat, h = 0,
         a + b + h < n
  PROVE  a + b + 1 <= n
  OBVIOUS

\* A hash takes the free slot that was asked for.
LEMMA HashTakesSlot ==
  ASSUME IInv, NEW p \in Paths, NEW where \in {"hash scan", "hash verify"},
         HashBegins(p, where), SlotFree, HashSlot = 0,
         UNCHANGED <<fc, leaked>>
  PROVE  CpuOK' /\ PoolBound'
  <1>1. CpuOK'
    BY DEF IInv, TypeOK, CpuOK, DiskOK, HashBegins
  <1>2. HashSlot' = 1 /\ RxSlot(fc') = RxSlot(fc) /\ leaked' = leaked
    BY DEF HashSlot, HashBegins, RxSlot
  <1>3. leaked \in Nat /\ RxSlot(fc) \in Nat /\ FileSlots \in Nat
    BY ConstantsAssumption DEF IInv, TypeOK, DiskOK, RxSlot, ConstantsAssumption
  <1>4. leaked + RxSlot(fc) + HashSlot < FileSlots
    BY DEF SlotFree
  <1>5. leaked + RxSlot(fc) + 1 <= FileSlots
    BY <1>3, <1>4, OneMoreFits
  <1>6. leaked' + RxSlot(fc') + HashSlot' <= FileSlots
    BY <1>2, <1>5
  <1> QED BY <1>1, <1>6 DEF PoolBound, RxSlot

\* A hash that ends, or a poll that hashes nothing, gives its slot back.
LEMMA HashReturnsSlot ==
  ASSUME IInv, cpu' \in {"loop", "scan"},
         hashing' \in {hashing, NotHashing}
  PROVE  CpuOK' /\ HashSlot' \in {HashSlot, 0}
  <1>1. NotHashing \in [file : Paths, held : Contents]
    BY DEF NotHashing, Contents, Paths, Manifest
  <1>2. CpuOK'
    BY <1>1 DEF IInv, TypeOK, CpuOK
  <1> QED BY <1>2 DEF HashSlot

-----------------------------------------------------------------------------
(* The operator's actions and the poll.                                    *)

\* remote_http_autofetch_cancel keeps the invariant.
LEMMA CancelStep ==
  ASSUME IInv, Cancel
  PROVE  IInv'
  <1>1. /\ fc' \in Fetch /\ RxSlot(fc') <= RxSlot(fc)
        /\ conn' \in [Conns -> ConnStates] /\ partial' \subseteq Paths
    BY CancelKeepsNet DEF Cancel
  <1>2. UNCHANGED <<lookups, leaked, files, cpu, hashing>>
    BY DEF Cancel
  <1>3. MirrorOK' /\ AttemptsLeft'
    BY IdleIsTyped DEF Cancel
  <1>4. NetOK' /\ CpuOK' /\ PoolBound'
    BY <1>1, <1>2, NetStep
  <1> QED BY <1>1, <1>2, <1>3, <1>4, PartialChanges DEF IInv, TypeOK

\* Starting a run keeps the invariant.
LEMMA StartManifestStep ==
  ASSUME IInv, StartManifest
  PROVE  IInv'
  <1>1. NetOK' /\ leaked' \in Nat
        /\ leaked' + RxSlot(fc') <= leaked + RxSlot(fc)
    BY StartingKeepsNet DEF StartManifest, Paths
  <1>2. UNCHANGED <<retryState, pending, files, cpu, hashing>>
        /\ partial' \subseteq partial
    BY DEF StartManifest, CleanedUp
  <1>3. CpuOK' /\ HashSlot' = HashSlot
    BY <1>2, CpuKept DEF IInv, TypeOK
  <1>4. PoolBound'
    BY <1>1, <1>3, PoolKept DEF IInv, TypeOK
  <1>5. DiskOK' /\ OnlySigned'
    BY <1>1, <1>2 DEF IInv, TypeOK, DiskOK, OnlySigned
  <1>6. 0 \in 0 .. FileRetries /\ 0 < FileRetries /\ 0 \in 0 .. NFiles
    BY ConstantsAssumption DEF ConstantsAssumption
  <1>7. MirrorOK' /\ AttemptsLeft'
    <2>1. CASE /\ pos' = 0 /\ checked' = 0 /\ needed' = 0 /\ updated' = 0
               /\ retries' = 0
               /\ running' = TRUE /\ afState' = "manifest"
      BY <1>2, <1>6, <2>1 DEF IInv, TypeOK, MirrorOK, AttemptsLeft
    <2>2. CASE UNCHANGED <<pos, checked, needed, updated, retries, running,
                           afState>>
      BY <1>2, <2>2 DEF IInv, TypeOK, MirrorOK, AttemptsLeft
    <2> QED BY <2>1, <2>2 DEF StartManifest, NewCounters
  <1> QED BY <1>1, <1>3, <1>4, <1>5, <1>7 DEF IInv, TypeOK

\* The end of RETRY_WAIT keeps the invariant.
LEMMA RetryDueStep ==
  ASSUME IInv, RetryDue
  PROVE  IInv'
  <1> DEFINE dest == IF retryState = "manifest" THEN Manifest ELSE pending
  <1>1. dest \in Paths
    BY DEF IInv, TypeOK, MirrorOK, Paths
  <1>2. /\ FetchStarted(dest) \/ FetchNotStarted(dest)
        /\ UNCHANGED <<pos, checked, needed, updated, files, cpu, hashing>>
        /\ partial' \subseteq partial
    BY DEF RetryDue
  <1>3. NetOK' /\ leaked' \in Nat
        /\ leaked' + RxSlot(fc') <= leaked + RxSlot(fc)
    BY <1>1, <1>2, StartingKeepsNet
  <1>4. CpuOK' /\ HashSlot' = HashSlot
    BY <1>2, CpuKept DEF IInv, TypeOK
  <1>5. PoolBound'
    BY <1>3, <1>4, PoolKept DEF IInv, TypeOK
  <1>6. DiskOK' /\ OnlySigned'
    BY <1>2, <1>3 DEF IInv, TypeOK, DiskOK, OnlySigned
  <1>7. 0 \in 0 .. FileRetries
    BY ConstantsAssumption DEF ConstantsAssumption
  <1>8. MirrorOK' /\ AttemptsLeft'
    <2>1. /\ afState = "retry wait" /\ retryState' = "idle"
          /\ running' \in {running, FALSE}
          /\ retries' \in {retries, 0} /\ pending' \in {pending, 0}
          /\ \/ afState' = retryState /\ retries' = retries
             \/ afState' \in {"scan", "idle"}
      BY DEF RetryDue, SkipCore
    <2>2. 0 \in Paths
      BY DEF Paths, Manifest
    <2>3. MirrorOK'
      BY <1>2, <1>7, <2>1, <2>2 DEF IInv, TypeOK, MirrorOK
    <2> QED BY <2>1, <2>3 DEF IInv, TypeOK, MirrorOK, AttemptsLeft
  <1> QED BY <1>3, <1>4, <1>5, <1>6, <1>8 DEF IInv, TypeOK

\* A failed fetch is counted only while another attempt is left, so the
\* counter stays within its bound.
LEMMA FetchFailedStep ==
  ASSUME IInv, NEW f \in Fetch, NEW k \in [Conns -> ConnStates],
         FetchFailed(f, k), afState \in {"manifest", "core"},
         RxSlot(f) <= RxSlot(fc),
         UNCHANGED <<pos, checked, needed, updated>>
  PROVE  /\ MirrorOK' /\ AttemptsLeft'
         /\ fc' \in Fetch /\ RxSlot(fc') <= RxSlot(fc)
         /\ conn' \in [Conns -> ConnStates]
  <1>1. /\ retries \in 0 .. FileRetries /\ retries < FileRetries
        /\ FileRetries \in Nat
    BY ConstantsAssumption
       DEF ConstantsAssumption, IInv, TypeOK, MirrorOK, AttemptsLeft
  <1>2. 0 \in 0 .. FileRetries /\ retries + 1 \in 0 .. FileRetries
    BY <1>1
  <1>3. MirrorOK' /\ AttemptsLeft'
    BY <1>1, <1>2
       DEF FetchFailed, AttemptLeft, AttemptsAfter, SkipCore, Idle, IInv,
           TypeOK, MirrorOK, AttemptsLeft, Paths, Manifest
  <1>4. fc' \in Fetch /\ fc'.rx \in {f.rx, "none"}
    BY AbortedIsFetch, ClosedIsFetch DEF FetchFailed
  <1>5. RxSlot(fc') <= RxSlot(fc)
    <2>1. RxSlot(fc') \in {RxSlot(f), 0} /\ RxSlot(f) \in Nat
          /\ RxSlot(fc) \in Nat
      BY <1>4 DEF RxSlot
    <2> QED BY <2>1
  <1>6. conn' \in [Conns -> ConnStates]
    BY DEF FetchFailed, ConnStates
  <1> QED BY <1>3, <1>4, <1>5, <1>6

\* The poll of a failed fetch keeps the invariant.
LEMMA PollFailedStep ==
  ASSUME IInv, PollFailed
  PROVE  IInv'
  <1>1. fc \in Fetch /\ conn \in [Conns -> ConnStates]
        /\ partial \subseteq Paths
    BY DEF IInv, TypeOK, NetOK, DiskOK
  <1>2. UNCHANGED <<pos, checked, needed, updated, lookups, leaked, files, cpu,
                    hashing>>
        /\ partial' \subseteq Paths
    BY <1>1 DEF PollFailed
  <1>3. RxSlot(fc) <= RxSlot(fc)
    BY DEF RxSlot
  <1>4. /\ MirrorOK' /\ AttemptsLeft'
        /\ fc' \in Fetch /\ RxSlot(fc') <= RxSlot(fc)
        /\ conn' \in [Conns -> ConnStates]
    BY <1>1, <1>2, <1>3, FetchFailedStep DEF PollFailed, Fetching
  <1>5. NetOK' /\ CpuOK' /\ PoolBound'
    BY <1>2, <1>4, NetStep
  <1> QED BY <1>2, <1>4, <1>5, PartialChanges DEF IInv, TypeOK

\* The poll of a fetch past its deadline keeps the invariant.
LEMMA PollTimeoutStep ==
  ASSUME IInv, PollTimeout
  PROVE  IInv'
  <1> DEFINE g == Closed(Failed(fc, "retryable"))
             f == IF fc.state = "connecting" THEN g ELSE RxAborted(g)
             k == ConnAfterClose(fc)
  <1>1. fc \in Fetch /\ k \in [Conns -> ConnStates]
        /\ partial \subseteq Paths
    BY ClosingIsTyped DEF IInv, TypeOK, NetOK, DiskOK
  <1>2. UNCHANGED <<pos, checked, needed, updated, lookups, leaked, files, cpu,
                    hashing>>
        /\ partial' \subseteq Paths
    BY <1>1 DEF PollTimeout
  <1>3. f \in Fetch /\ f.rx \in {fc.rx, "none"}
    <2>1. g \in Fetch /\ g.rx = fc.rx
      BY <1>1, FailedIsFetch, ClosedIsFetch DEF Reasons
    <2> HIDE DEF g
    <2> QED BY <2>1, AbortedIsFetch
  <1>4. RxSlot(f) <= RxSlot(fc)
    BY <1>3 DEF RxSlot
  <1>5. FetchFailed(f, k) /\ afState \in {"manifest", "core"}
    BY DEF PollTimeout, Fetching
  <1> HIDE DEF f, k
  <1>6. /\ MirrorOK' /\ AttemptsLeft'
        /\ fc' \in Fetch /\ RxSlot(fc') <= RxSlot(fc)
        /\ conn' \in [Conns -> ConnStates]
    BY <1>1, <1>2, <1>3, <1>4, <1>5, FetchFailedStep
  <1>7. NetOK' /\ CpuOK' /\ PoolBound'
    BY <1>2, <1>6, NetStep
  <1> QED BY <1>2, <1>6, <1>7, PartialChanges DEF IInv, TypeOK

\* A poll that starts to hash nothing and touches no transfer.
LEMMA QuietPollStep ==
  ASSUME IInv, MirrorOK', AttemptsLeft', UNCHANGED <<net, disk>>,
         cpu' \in {"loop", "scan"}, hashing' \in {hashing, NotHashing}
  PROVE  IInv'
  <1>1. NetOK' /\ DiskOK' /\ OnlySigned'
    BY NetKept, DiskKept DEF IInv, TypeOK
  <1>2. CpuOK' /\ HashSlot' \in {HashSlot, 0}
    BY HashReturnsSlot
  <1>3. leaked' = leaked /\ RxSlot(fc') = RxSlot(fc)
        /\ leaked \in Nat /\ RxSlot(fc) \in Nat
    BY DEF net, disk, RxSlot, IInv, TypeOK, DiskOK
  <1>4. leaked' \in Nat /\ leaked' + RxSlot(fc') <= leaked + RxSlot(fc)
    BY <1>3
  <1>5. PoolBound'
    BY <1>2, <1>4, PoolKept DEF IInv, TypeOK
  <1> QED BY <1>1, <1>2, <1>5 DEF IInv, TypeOK

\* The end of the manifest fetch keeps the invariant.
LEMMA ManifestDoneStep ==
  ASSUME IInv, ManifestDone
  PROVE  IInv'
  <1>1. MirrorOK' /\ AttemptsLeft'
    BY DEF ManifestDone, IInv, TypeOK, MirrorOK, AttemptsLeft
  <1> QED BY <1>1, QuietPollStep DEF ManifestDone

\* The end of a file fetch keeps the invariant.
LEMMA CoreDoneStep ==
  ASSUME IInv, CoreDone
  PROVE  IInv'
  <1>1. UNCHANGED <<retries, pos, checked, needed, updated, pending, net,
                    leaked, partial>>
        /\ pending \in Paths
    BY DEF CoreDone, IInv, TypeOK, MirrorOK
  <1>2. NetOK'
    BY <1>1, NetKept DEF IInv, TypeOK
  <1>3. CASE /\ CanHash(pending) /\ afState' = "verify"
             /\ HashBegins(pending, "hash verify")
             /\ UNCHANGED <<running, retryState, files>>
    <2>1. SlotFree /\ HashSlot = 0 /\ UNCHANGED <<fc, leaked>>
      BY <1>1, <1>3 DEF CanHash, CoreDone, Fetching, HashSlot, net
    <2>2. CpuOK' /\ PoolBound'
      BY <1>1, <1>3, <2>1, HashTakesSlot
    <2>3. MirrorOK' /\ AttemptsLeft'
      BY <1>1, <1>3 DEF IInv, TypeOK, MirrorOK, AttemptsLeft
    <2>4. DiskOK' /\ OnlySigned'
      BY <1>1, <1>3, DiskKept DEF IInv, TypeOK, disk
    <2> QED BY <1>2, <2>2, <2>3, <2>4 DEF IInv, TypeOK
  <1>4. CASE /\ files' = [files EXCEPT ![pending] = "absent"]
             /\ Idle /\ UNCHANGED <<cpu, hashing>>
    <2>1. CpuOK' /\ HashSlot' = HashSlot
      BY <1>4, CpuKept DEF IInv, TypeOK
    <2>2. leaked' = leaked /\ RxSlot(fc') = RxSlot(fc)
          /\ leaked \in Nat /\ RxSlot(fc) \in Nat
      BY <1>1 DEF net, RxSlot, IInv, TypeOK, DiskOK
    <2>3. leaked' \in Nat /\ leaked' + RxSlot(fc') <= leaked + RxSlot(fc)
      BY <2>2
    <2>4. PoolBound'
      BY <2>1, <2>3, PoolKept DEF IInv, TypeOK
    <2>5. MirrorOK' /\ AttemptsLeft'
      BY <1>1, <1>4, IdleIsTyped
    <2>6. DiskOK' /\ OnlySigned'
      BY <1>1, <1>4, DeletingIsSafe DEF IInv, TypeOK
    <2> QED BY <1>2, <2>1, <2>4, <2>5, <2>6 DEF IInv, TypeOK
  <1> QED BY <1>3, <1>4 DEF CoreDone

\* Counting a verified file keeps the invariant.
LEMMA VerifyAgreesStep ==
  ASSUME IInv, VerifyAgrees
  PROVE  IInv'
  <1>1. UNCHANGED <<running, retryState, retries, pos, checked, needed>>
        /\ updated' = updated + 1 /\ pending' = 0 /\ afState' = "scan"
    BY DEF VerifyAgrees
  <1>2. updated' \in Nat /\ pending' \in Paths
    <2>1. updated \in Nat
      BY DEF IInv, TypeOK, MirrorOK
    <2> QED BY <1>1, <2>1 DEF Paths, Manifest
  <1>3. MirrorOK' /\ AttemptsLeft'
    BY <1>1, <1>2 DEF IInv, TypeOK, MirrorOK, AttemptsLeft
  <1> QED BY <1>3, QuietPollStep DEF VerifyAgrees

\* Deleting a file that failed verification keeps the invariant.
LEMMA VerifyDiffersStep ==
  ASSUME IInv, VerifyDiffers
  PROVE  IInv'
  <1>1. /\ fc' \in Fetch /\ RxSlot(fc') <= RxSlot(fc)
        /\ conn' \in [Conns -> ConnStates] /\ partial' \subseteq Paths
    BY CancelKeepsNet DEF VerifyDiffers
  <1>2. UNCHANGED <<retries, pos, checked, needed, updated, pending, lookups,
                    leaked>>
        /\ files' = [files EXCEPT ![pending] = "absent"] /\ Idle
        /\ cpu' = "loop" /\ hashing' = NotHashing
    BY DEF VerifyDiffers
  <1>3. MirrorOK' /\ AttemptsLeft'
    BY <1>2, IdleIsTyped
  <1>4. NetOK'
    BY <1>1, <1>2 DEF NetOK, IInv, TypeOK
  <1>5. CpuOK' /\ HashSlot' \in {HashSlot, 0}
    BY <1>2, HashReturnsSlot
  <1>6. PoolBound'
    <2>1. leaked \in Nat /\ leaked' = leaked /\ RxSlot(fc) \in Nat
          /\ RxSlot(fc') \in Nat
      BY <1>2 DEF IInv, TypeOK, DiskOK, RxSlot
    <2>2. leaked' \in Nat /\ leaked' + RxSlot(fc') <= leaked + RxSlot(fc)
      BY <1>1, <2>1
    <2> QED BY <1>5, <2>2, PoolKept DEF IInv, TypeOK
  <1>7. DiskOK' /\ OnlySigned'
    BY <1>1, <1>2, DeletingIsSafe DEF IInv, TypeOK
  <1> QED BY <1>3, <1>4, <1>5, <1>6, <1>7 DEF IInv, TypeOK

-----------------------------------------------------------------------------
(* The scan.                                                               *)

\* A scan that cannot go on keeps the invariant.
LEMMA ScanFailsStep ==
  ASSUME IInv, ScanFails
  PROVE  IInv'
  <1>1. MirrorOK' /\ AttemptsLeft'
    BY IdleIsTyped DEF ScanFails
  <1> QED BY <1>1, QuietPollStep DEF ScanFails

\* A scan at the end of the manifest keeps the invariant.
LEMMA ScanEndsStep ==
  ASSUME IInv, ScanEnds
  PROVE  IInv'
  <1>1. MirrorOK' /\ AttemptsLeft'
    BY DEF ScanEnds, IInv, TypeOK, MirrorOK, AttemptsLeft
  <1> QED BY <1>1, QuietPollStep DEF ScanEnds

\* A file that is up to date keeps the invariant.
LEMMA ScanUnchangedStep ==
  ASSUME IInv, ScanUnchanged
  PROVE  IInv'
  <1>1. MirrorOK' /\ AttemptsLeft'
    BY MirrorKept DEF ScanUnchanged, IInv, TypeOK
  <1> QED BY <1>1, QuietPollStep DEF ScanUnchanged

\* autofetch_start_entry, from the line that was read or after its hash.
LEMMA StartEntryStep ==
  ASSUME IInv, NEW p \in Paths, StartEntry(p), cpu' = "loop",
         hashing' \in {hashing, NotHashing}, UNCHANGED <<updated, files>>,
         pos' \in 0 .. NFiles, checked' \in Nat
  PROVE  IInv'
  <1>1. /\ FetchStarted(p) \/ FetchNotStarted(p)
        /\ partial' \subseteq partial
    BY DEF StartEntry
  <1>2. NetOK' /\ leaked' \in Nat
        /\ leaked' + RxSlot(fc') <= leaked + RxSlot(fc)
    BY <1>1, StartingKeepsNet
  <1>3. CpuOK' /\ HashSlot' \in {HashSlot, 0}
    BY HashReturnsSlot
  <1>4. PoolBound'
    BY <1>2, <1>3, PoolKept DEF IInv, TypeOK
  <1>5. DiskOK' /\ OnlySigned'
    BY <1>1, <1>2 DEF IInv, TypeOK, DiskOK, OnlySigned
  <1>6. MirrorOK' /\ AttemptsLeft'
    <2>1. /\ retries' = 0 /\ 0 \in 0 .. FileRetries /\ 0 < FileRetries
          /\ needed + 1 \in Nat /\ needed \in Nat
      <3>1. needed \in Nat
        BY DEF IInv, TypeOK, MirrorOK
      <3>2. retries' = 0
        BY DEF StartEntry
      <3> QED BY <3>1, <3>2, ConstantsAssumption DEF ConstantsAssumption
    <2>2. CASE /\ needed' = needed + 1 /\ pending' = p /\ afState' = "core"
               /\ UNCHANGED <<running, retryState>>
      BY <2>1, <2>2 DEF IInv, TypeOK, MirrorOK, AttemptsLeft
    <2>3. CASE Idle /\ UNCHANGED <<needed, pending>>
      BY <2>1, <2>3 DEF Idle, IInv, TypeOK, MirrorOK, AttemptsLeft
    <2> QED BY <2>2, <2>3 DEF StartEntry
  <1> QED BY <1>2, <1>3, <1>4, <1>5, <1>6 DEF IInv, TypeOK

\* The next line of the manifest keeps the invariant.
LEMMA ScanFileStep ==
  ASSUME IInv, ScanFile
  PROVE  IInv'
  <1>1. /\ pos \in 0 .. NFiles /\ pos < NFiles /\ NFiles \in Nat
        /\ checked \in Nat /\ pos' = pos + 1 /\ checked' = checked + 1
        /\ UNCHANGED <<updated, files>>
    BY ConstantsAssumption
       DEF ScanFile, IInv, TypeOK, MirrorOK, ConstantsAssumption
  <1>2. /\ pos + 1 \in Entries /\ pos' \in 0 .. NFiles /\ checked' \in Nat
    BY <1>1 DEF Entries
  <1>3. CASE /\ CanHash(pos + 1)
             /\ HashBegins(pos + 1, "hash scan")
             /\ UNCHANGED <<afState, running, retryState, retries, needed,
                            pending, net, leaked, partial>>
    <2>1. SlotFree /\ HashSlot = 0 /\ UNCHANGED <<fc, leaked>>
      BY <1>3 DEF CanHash, ScanFile, Scanning, HashSlot, net
    <2>2. CpuOK' /\ PoolBound'
      BY <1>2, <1>3, <2>1, HashTakesSlot DEF Paths
    <2>3. MirrorOK' /\ AttemptsLeft'
      BY <1>1, <1>2, <1>3 DEF IInv, TypeOK, MirrorOK, AttemptsLeft
    <2>4. NetOK' /\ DiskOK' /\ OnlySigned'
      BY <1>1, <1>3, NetKept, DiskKept DEF IInv, TypeOK, disk
    <2> QED BY <2>2, <2>3, <2>4 DEF IInv, TypeOK
  <1>4. CASE StartEntry(pos + 1) /\ cpu' = "loop" /\ UNCHANGED hashing
    BY <1>1, <1>2, <1>4, StartEntryStep DEF Paths
  <1> QED BY <1>3, <1>4 DEF ScanFile

\* A file that differs keeps the invariant.
LEMMA ScanDiffersStep ==
  ASSUME IInv, ScanDiffers
  PROVE  IInv'
  <1>1. hashing.file \in Paths /\ pos \in 0 .. NFiles /\ checked \in Nat
    BY DEF IInv, TypeOK, CpuOK, MirrorOK
  <1> QED BY <1>1, StartEntryStep DEF ScanDiffers

-----------------------------------------------------------------------------
(* The invariant and the theorems.                                         *)

\* The invariant holds after remote_http_init.
LEMMA InitHolds == Init => IInv
  <1> SUFFICES ASSUME Init PROVE IInv
    OBVIOUS
  <1>1. /\ 0 \in 0 .. FileRetries /\ 0 \in 0 .. NFiles
        /\ 0 \in 0 .. MaxLookups /\ 0 <= FileSlots
    BY ConstantsAssumption DEF ConstantsAssumption
  <1>2. MirrorOK /\ AttemptsLeft
    BY <1>1 DEF Init, MirrorOK, AttemptsLeft, Paths, Manifest
  <1>3. NetOK /\ RxSlot(fc) = 0
    BY <1>1, FreshIsFetch
       DEF Init, NetOK, ConnStates, Paths, RxSlot
  <1>4. DiskOK /\ OnlySigned
    BY DEF Init, DiskOK, OnlySigned, Contents
  <1>5. CpuOK /\ HashSlot = 0
    BY DEF Init, CpuOK, NotHashing, Contents, HashSlot, Paths, Manifest
  <1>6. PoolBound
    BY <1>1, <1>3, <1>5 DEF PoolBound, Init
  <1> QED BY <1>2, <1>3, <1>4, <1>5, <1>6 DEF IInv, TypeOK

\* A step that changes nothing keeps the invariant.
LEMMA StutterStep ==
  ASSUME IInv, UNCHANGED vars
  PROVE  IInv'
  <1>1. MirrorOK' /\ AttemptsLeft' /\ NetOK' /\ DiskOK' /\ OnlySigned'
    BY MirrorKept, NetKept, DiskKept DEF vars, IInv, TypeOK
  <1>2. CpuOK' /\ PoolBound'
    BY DEF vars, net, disk, IInv, TypeOK, CpuOK, PoolBound, RxSlot, HashSlot
  <1> QED BY <1>1, <1>2 DEF IInv, TypeOK

\* Every step keeps the invariant: one case for each action.
LEMMA NextKeeps == IInv /\ [Next]_vars => IInv'
  <1> SUFFICES ASSUME IInv, [Next]_vars PROVE IInv'
    OBVIOUS
  <1>1. CASE Poll
    BY <1>1, RetryDueStep, PollFailedStep, PollTimeoutStep, ManifestDoneStep,
       CoreDoneStep, VerifyAgreesStep, VerifyDiffersStep, ScanFailsStep,
       ScanEndsStep, ScanFileStep, ScanUnchangedStep, ScanDiffersStep
       DEF Poll
  <1>2. CASE StartManifest
    BY <1>2, StartManifestStep
  <1>3. CASE Cancel
    BY <1>3, CancelStep
  <1>4. CASE DnsAnswer
    BY <1>4, DnsAnswerStep
  <1>5. ASSUME NEW c \in Conns, Callback(c) PROVE IInv'
    BY <1>5, ConnectedStep, ConnectionErrorStep, PeerCloseStep, HeadersStep,
       BodyPieceStep, BodyEndStep DEF Callback
  <1>6. CASE UNCHANGED vars
    BY <1>6, StutterStep
  <1> QED BY <1>1, <1>2, <1>3, <1>4, <1>5, <1>6 DEF Next

\* The strengthened invariant holds of every reachable state; the theorems
\* below are its conjuncts.
THEOREM Invariance == Spec => []IInv
  BY InitHolds, NextKeeps, PTL DEF Spec

\* Every variable keeps its type: in particular the retry counter never
\* passes FileRetries and the position never leaves the manifest, whatever
\* the network, the operator and late answers do (TypeOK of the runs).
THEOREM TypeCorrect == Spec => []TypeOK
  <1>1. IInv => TypeOK
    BY DEF IInv
  <1> QED BY <1>1, Invariance, PTL

\* The FatFs pool: handles in use and handles lost together stay within the
\* pool, so that a receiver or a hash never takes a slot it was not given.
THEOREM PoolIsBounded == Spec => []PoolBound
  <1>1. IInv => PoolBound
    BY DEF IInv
  <1> QED BY <1>1, Invariance, PTL

\* No interleaving of callbacks, cancellations, retries and late DNS answers
\* commits bytes that no trusted key signed (OnlySigned of the runs).
THEOREM CommitsOnlySigned == Spec => []OnlySigned
  <1>1. IInv => OnlySigned
    BY DEF IInv
  <1> QED BY <1>1, Invariance, PTL

-----------------------------------------------------------------------------
(* UpdatedIsCurrent.  The danger is that the network runs while the stored *)
(* file is hashed: a callback could put another content under the path     *)
(* that was just read.  The argument is that the context is then either    *)
(* spent (its body is complete and a late response can only overrun it) or *)
(* bound to the manifest.                                                  *)

\* A transfer that is done has received its whole body.
DoneIsWhole == fc.state = "done" => fc.body = BodyChunks

\* The file of the core fetch, now or after the retry wait, is the pending one.
CoreIsPending ==
  /\ afState = "core" => fc.dest = pending /\ pending \in Entries
  /\ afState = "retry wait" /\ retryState = "core" => pending \in Entries

HashIsOfEntry == cpu \in {"hash scan", "hash verify"} => hashing.file \in Entries

\* The hashed file is what the hash was begun on, or a manifest that came
\* during the hash outdated it.
StillCurrent == files[hashing.file] = "match"
OnlyOutdated == fc.dest = Manifest /\ files[hashing.file] = "prev"

\* While a committed file is hashed, the context is spent or fetches the
\* manifest, and the file keeps its bytes.
HashIsUndisturbed ==
  cpu = "hash verify" =>
    /\ fc.dest = Manifest \/ fc.body = BodyChunks
    /\ StillCurrent => hashing.held = "match"
    /\ hashing.held = "match" => StillCurrent \/ OnlyOutdated

VInv == DoneIsWhole /\ CoreIsPending /\ HashIsOfEntry /\ HashIsUndisturbed

-----------------------------------------------------------------------------
(* What the helpers on the context leave alone.                            *)

\* The helpers keep the destination and the bytes received.
LEMMA HelpersKeepDestAndBody ==
  ASSUME NEW f \in Fetch, NEW why \in Reasons
  PROVE  /\ Closed(f).dest = f.dest /\ Closed(f).body = f.body
         /\ Closed(f).state = f.state
         /\ RxAborted(f).dest = f.dest /\ RxAborted(f).body = f.body
         /\ RxAborted(f).state = f.state
         /\ Failed(f, why).dest = f.dest /\ Failed(f, why).body = f.body
         /\ Failed(f, why).state = "failed"
  BY DEF Closed, RxAborted, Failed, Fetch

\* A failed, aborted and closed context, as most error paths leave it.
LEMMA FailingKeepsDestAndBody ==
  ASSUME NEW f \in Fetch, NEW why \in Reasons,
         NEW g \in {Failed(f, why), Closed(Failed(f, why)),
                    Closed(RxAborted(Failed(f, why))),
                    RxAborted(Closed(Failed(f, why)))}
  PROVE  g.dest = f.dest /\ g.body = f.body /\ g.state = "failed"
  <1>1. Failed(f, why) \in Fetch
    BY FailedIsFetch
  <1>2. /\ Closed(Failed(f, why)) \in Fetch
        /\ RxAborted(Failed(f, why)) \in Fetch
    BY <1>1, ClosedIsFetch, AbortedIsFetch
  <1> QED BY <1>1, <1>2, HelpersKeepDestAndBody

-----------------------------------------------------------------------------
(* The callbacks.                                                          *)

\* The manifest is not one of its own entries.
LEMMA EntriesAreNotManifest == \A p \in Entries : p # Manifest /\ p \in Paths
  BY ConstantsAssumption DEF Entries, Manifest, Paths, ConstantsAssumption

\* A commit of a manifest may make what matched the old one out of date.
Outdated(p) == files[p] = "match" /\ files'[p] = "prev"

\* A callback keeps the invariant when it completes no body but a whole one,
\* never unspends a spent context, and commits only to the destination of a
\* context that is not spent, or outdates files with a manifest.
LEMMA CallbackKeeps ==
  ASSUME VInv, UNCHANGED <<mirror, cpu, hashing>>,
         fc'.dest = fc.dest,
         fc'.state = "done" => fc'.body = BodyChunks,
         fc.body = BodyChunks => fc'.body = BodyChunks,
         cpu = "hash verify" =>
           \A p \in Entries : \/ files'[p] = files[p]
                              \/ p = fc.dest /\ fc.body # BodyChunks
                              \/ fc.dest = Manifest /\ Outdated(p)
  PROVE  VInv'
  <1>1. DoneIsWhole' /\ CoreIsPending' /\ HashIsOfEntry'
    BY DEF VInv, DoneIsWhole, CoreIsPending, HashIsOfEntry, mirror
  <1>2. HashIsUndisturbed'
    <2> SUFFICES ASSUME cpu = "hash verify"
                 PROVE  /\ fc'.dest = Manifest \/ fc'.body = BodyChunks
                        /\ StillCurrent' => hashing.held = "match"
                        /\ hashing.held = "match"
                             => StillCurrent' \/ OnlyOutdated'
      BY DEF HashIsUndisturbed
    <2>1. /\ hashing.file \in Entries
          /\ fc.dest = Manifest \/ fc.body = BodyChunks
          /\ StillCurrent => hashing.held = "match"
          /\ hashing.held = "match" => StillCurrent \/ OnlyOutdated
      BY DEF VInv, HashIsOfEntry, HashIsUndisturbed
    <2>2. hashing.file # Manifest
      BY <2>1, EntriesAreNotManifest
    <2>3. \/ files'[hashing.file] = files[hashing.file]
          \/ fc.dest = Manifest /\ Outdated(hashing.file)
      BY <2>1, <2>2
    <2> QED BY <2>1, <2>3 DEF StillCurrent, OnlyOutdated, Outdated
  <1> QED BY <1>1, <1>2 DEF VInv

\* A late answer of the resolver keeps the destination and what was received.
LEMMA DnsAnswerEffect ==
  ASSUME IInv, DnsAnswer
  PROVE  fc'.dest = fc.dest /\ fc'.body = fc.body /\ fc'.state # "done"
  <1>1. fc \in Fetch
    BY DEF IInv, TypeOK, NetOK
  <1>2. \/ \E why \in Reasons : \/ fc' = Failed(fc, why)
                                \/ fc' = Closed(Failed(fc, why))
        \/ \E d \in FreeConns :
             fc' = [fc EXCEPT !.state = "connecting", !.pcb = d]
    BY DEF DnsAnswer, Reasons
  <1>3. CASE \E why \in Reasons : \/ fc' = Failed(fc, why)
                                  \/ fc' = Closed(Failed(fc, why))
    BY <1>1, <1>3, FailingKeepsDestAndBody
  <1>4. CASE \E d \in FreeConns :
               fc' = [fc EXCEPT !.state = "connecting", !.pcb = d]
    BY <1>1, <1>4 DEF Fetch
  <1> QED BY <1>2, <1>3, <1>4

\* So it opens no spent context.
LEMMA DnsAnswerKeepsV ==
  ASSUME IInv, VInv, DnsAnswer
  PROVE  VInv'
  <1>1. UNCHANGED <<mirror, cpu, hashing, files>>
    BY DEF DnsAnswer, disk
  <1> QED BY <1>1, DnsAnswerEffect, CallbackKeeps

\* What a callback of a connection does to the context and to the files: the
\* destination stays, a whole body stays whole, and only the commit of a body
\* that was not whole changes a file.  That file is the destination, unless a
\* manifest is committed: it may outdate every file that matched the old one.
LEMMA CallbackEffect ==
  ASSUME IInv, NEW c \in Conns, Callback(c)
  PROVE  /\ UNCHANGED <<mirror, cpu, hashing>>
         /\ fc'.dest = fc.dest
         /\ fc'.state = "done" => fc.state = "done" \/ fc'.body = BodyChunks
         /\ fc.body = BodyChunks => fc'.body = BodyChunks
         /\ \A p \in Entries :
              \/ files'[p] = files[p]
              \/ /\ fc.body # BodyChunks
                 /\ \/ p = fc.dest
                    \/ fc.dest = Manifest /\ Outdated(p)
  <1>1. fc \in Fetch /\ files \in [Paths -> Contents]
        /\ fc.body \in Nat /\ BodyChunks \in Nat
    BY ConstantsAssumption
       DEF IInv, TypeOK, NetOK, DiskOK, Fetch, ConstantsAssumption
  <1>2. CASE Connected(c)
    <2>1. /\ UNCHANGED <<mirror, cpu, hashing, files>>
          /\ \/ fc' = [fc EXCEPT !.state = "headers"]
             \/ fc' = Closed(Failed(fc, "retryable"))
      BY <1>2 DEF Connected, disk
    <2>2. fc'.dest = fc.dest /\ fc'.body = fc.body /\ fc'.state # "done"
      BY <1>1, <2>1, FailingKeepsDestAndBody DEF Fetch, Reasons
    <2> QED BY <2>1, <2>2
  <1>3. CASE ConnectionError(c) \/ PeerClose(c)
    <2>1. /\ UNCHANGED <<mirror, cpu, hashing, files>>
          /\ \/ fc' = Closed(fc)
             \/ fc' = Closed(Failed(fc, "retryable"))
             \/ fc' = Closed(RxAborted(Failed(fc, "retryable")))
      BY <1>3 DEF ConnectionError, PeerClose, disk
    <2>2. fc'.dest = fc.dest /\ fc'.body = fc.body
          /\ fc'.state \in {fc.state, "failed"}
      BY <1>1, <2>1, FailingKeepsDestAndBody, HelpersKeepDestAndBody
         DEF Reasons
    <2> QED BY <2>1, <2>2
  <1>4. CASE Headers(c)
    <2>1. /\ UNCHANGED <<mirror, cpu, hashing, files>>
          /\ \/ fc' = Closed(RxAborted(Failed(fc, "final")))
             \/ fc' = RxBegun(c)
             \/ fc' = Closed(RxAborted(Failed([fc EXCEPT !.rx = "none"],
                                              "final")))
      BY <1>4 DEF Headers, ReceiveFails
    <2>2. [fc EXCEPT !.rx = "none"] \in Fetch
          /\ [fc EXCEPT !.rx = "none"].dest = fc.dest
          /\ [fc EXCEPT !.rx = "none"].body = fc.body
      BY <1>1 DEF Fetch
    <2>3. fc'.dest = fc.dest /\ fc'.body = fc.body /\ fc'.state # "done"
      <3>1. CASE fc' = RxBegun(c)
        BY <1>1, <3>1 DEF RxBegun, Fetch
      <3>2. CASE fc' \in {Closed(RxAborted(Failed(fc, "final"))),
                          Closed(RxAborted(Failed([fc EXCEPT !.rx = "none"],
                                                  "final")))}
        <4> DEFINE f == [fc EXCEPT !.rx = "none"]
        <4>1. CASE fc' = Closed(RxAborted(Failed(fc, "final")))
          BY <1>1, <4>1, FailingKeepsDestAndBody DEF Reasons
        <4>2. CASE fc' = Closed(RxAborted(Failed(f, "final")))
          <5>1. f \in Fetch /\ f.dest = fc.dest /\ f.body = fc.body
            BY <2>2
          <5> HIDE DEF f
          <5> QED BY <5>1, <4>2, FailingKeepsDestAndBody DEF Reasons
        <4> QED BY <3>2, <4>1, <4>2
      <3> QED BY <2>1, <3>1, <3>2
    <2> QED BY <2>1, <2>3
  <1>5. CASE BodyPiece(c)
    <2>1. /\ UNCHANGED <<mirror, cpu, hashing, files>>
          /\ fc.state = "body"
          /\ \/ /\ fc.body + 1 < BodyChunks
                /\ fc' = [fc EXCEPT !.body = @ + 1,
                                    !.mixed = @ \/ c # fc.from]
             \/ fc' = Closed(RxAborted(Failed(fc, "final")))
      BY <1>5 DEF BodyPiece, ReceiveFails
    <2>2. CASE fc' = Closed(RxAborted(Failed(fc, "final")))
      <3>1. fc'.dest = fc.dest /\ fc'.body = fc.body /\ fc'.state # "done"
        BY <1>1, <2>2, FailingKeepsDestAndBody DEF Reasons
      <3> QED BY <2>1, <3>1
    <2>3. CASE /\ fc.body + 1 < BodyChunks
               /\ fc' = [fc EXCEPT !.body = @ + 1,
                                   !.mixed = @ \/ c # fc.from]
      <3>1. fc'.dest = fc.dest /\ fc'.state = "body" /\ fc.body # BodyChunks
        BY <1>1, <2>1, <2>3 DEF Fetch
      <3> QED BY <2>1, <3>1
    <2> QED BY <2>1, <2>2, <2>3
  <1>6. CASE BodyEnd(c)
    <2>1. /\ UNCHANGED <<mirror, cpu, hashing>>
          /\ fc.body + 1 = BodyChunks
      BY <1>6 DEF BodyEnd
    <2>2. fc.body # BodyChunks
      BY <1>1, <2>1
    <2>3. PICK content \in {"match", "other", "unsigned"} :
            \/ fc' = Closed(RxAborted(Failed(fc, "final")))
               /\ files' \in {files, [files EXCEPT ![fc.dest] = "absent"]}
            \/ /\ fc' = Closed([fc EXCEPT !.state = "done",
                         !.body = BodyChunks, !.sha = content,
                         !.rx = "closed"])
               /\ content # "unsigned"
               /\ \E stale \in SUBSET Entries :
                    /\ stale # {} => fc.dest = Manifest
                    /\ files' = [Superseded(stale) EXCEPT ![fc.dest] = content]
      BY <1>6 DEF BodyEnd, Verified
    <2>4. fc'.dest = fc.dest /\ (fc'.state = "done" => fc'.body = BodyChunks)
      <3>1. CASE fc' = Closed(RxAborted(Failed(fc, "final")))
        BY <1>1, <3>1, FailingKeepsDestAndBody DEF Reasons
      <3>2. CASE fc' = Closed([fc EXCEPT !.state = "done",
                         !.body = BodyChunks, !.sha = content,
                         !.rx = "closed"])
        BY <1>1, <3>2 DEF Fetch, Closed
      <3> QED BY <2>3, <3>1, <3>2
    <2>5. ASSUME NEW p \in Entries, p # fc.dest
          PROVE  files'[p] = files[p] \/ (fc.dest = Manifest /\ Outdated(p))
      <3>1. p \in Paths
        BY DEF Paths
      <3>2. ASSUME NEW stale \in SUBSET Entries, NEW got,
                   files' = [Superseded(stale) EXCEPT ![fc.dest] = got]
            PROVE  \/ files'[p] = files[p]
                   \/ p \in stale /\ Outdated(p)
        <4>1. files'[p] = Superseded(stale)[p]
          BY <2>5, <3>1, <3>2 DEF Superseded
        <4> QED BY <3>1, <4>1 DEF Superseded, Outdated
      <3>3. CASE files' \in {files, [files EXCEPT ![fc.dest] = "absent"]}
        BY <1>1, <2>5, <3>1, <3>3
      <3> QED BY <2>3, <3>2, <3>3
    <2> QED BY <2>1, <2>2, <2>4, <2>5
  <1> QED BY <1>2, <1>3, <1>4, <1>5, <1>6 DEF Callback

\* Every callback of a connection keeps the invariant.
LEMMA CallbackStep ==
  ASSUME IInv, VInv, NEW c \in Conns, Callback(c)
  PROVE  VInv'
  <1>1. fc'.state = "done" => fc'.body = BodyChunks
    BY CallbackEffect DEF VInv, DoneIsWhole
  <1>2. \A p \in Entries : \/ files'[p] = files[p]
                           \/ p = fc.dest /\ fc.body # BodyChunks
                           \/ fc.dest = Manifest /\ Outdated(p)
    BY CallbackEffect
  <1> QED BY <1>1, <1>2, CallbackEffect, CallbackKeeps

-----------------------------------------------------------------------------
(* The operator's actions and the poll.                                    *)

\* What every start of a fetch leaves behind: a fresh context, or one that
\* failed at once.
LEMMA StartedIsFresh ==
  ASSUME NEW dest \in Paths, FetchStarted(dest) \/ FetchNotStarted(dest)
  PROVE  fc'.dest = dest /\ fc'.state # "done"
  <1>1. FreshFetch(dest) \in Fetch
    BY FreshIsFetch
  <1>2. FreshFetch(dest).dest = dest /\ FreshFetch(dest).state = "connecting"
    BY DEF FreshFetch
  <1>3. fc' \in {FreshFetch(dest), Failed(FreshFetch(dest), "final")}
        \/ \E c \in Conns : fc' = [FreshFetch(dest) EXCEPT !.pcb = c]
    BY DEF FetchStarted, FetchNotStarted, FreeConns
  <1>4. Failed(FreshFetch(dest), "final").dest = dest
        /\ Failed(FreshFetch(dest), "final").state = "failed"
    BY <1>1, <1>2, HelpersKeepDestAndBody DEF Reasons
  <1>5. ASSUME NEW c \in Conns, fc' = [FreshFetch(dest) EXCEPT !.pcb = c]
        PROVE  fc'.dest = dest /\ fc'.state = "connecting"
    BY <1>1, <1>2, <1>5 DEF Fetch
  <1> QED BY <1>2, <1>3, <1>4, <1>5

\* Outside a hash the last two conjuncts say nothing.
LEMMA OutsideHash ==
  ASSUME cpu' \in {"loop", "scan"}
  PROVE  HashIsOfEntry' /\ HashIsUndisturbed'
  BY DEF HashIsOfEntry, HashIsUndisturbed

\* A cancellation leaves a spent context spent.
LEMMA CancelKeepsV ==
  ASSUME IInv, VInv, Cancel
  PROVE  VInv'
  <1>1. fc \in Fetch
    BY DEF IInv, TypeOK, NetOK
  <1>2. /\ fc' \in {fc, Closed(fc), Closed(RxAborted(fc))}
        /\ afState' = "idle" /\ UNCHANGED <<files, cpu, hashing>>
    BY DEF Cancel, CancelTransfer, Idle
  <1>3. fc'.dest = fc.dest /\ fc'.body = fc.body /\ fc'.state = fc.state
    BY <1>1, <1>2, HelpersKeepDestAndBody, AbortedIsFetch DEF Reasons
  <1> QED BY <1>2, <1>3
          DEF VInv, DoneIsWhole, CoreIsPending, HashIsOfEntry, HashIsUndisturbed,
              StillCurrent, OnlyOutdated

\* A run started during a hash binds the context to the manifest.
LEMMA StartManifestKeepsV ==
  ASSUME IInv, VInv, StartManifest
  PROVE  VInv'
  <1>1. /\ fc'.dest = Manifest /\ fc'.state # "done"
        /\ UNCHANGED <<files, cpu, hashing>>
        /\ afState' \in {"manifest", "idle"}
    BY StartedIsFresh DEF StartManifest, Paths
  <1> QED BY <1>1
          DEF VInv, DoneIsWhole, CoreIsPending, HashIsOfEntry, HashIsUndisturbed,
              StillCurrent, OnlyOutdated

\* A retry fetches the pending file again.
LEMMA RetryDueKeepsV ==
  ASSUME IInv, VInv, RetryDue
  PROVE  VInv'
  <1> DEFINE dest == IF retryState = "manifest" THEN Manifest ELSE pending
  <1>1. dest \in Paths
    BY DEF IInv, TypeOK, MirrorOK, Paths
  <1>2. fc'.dest = dest /\ fc'.state # "done"
    BY <1>1, StartedIsFresh DEF RetryDue
  <1>3. /\ afState = "retry wait" /\ cpu' = "loop"
        /\ \/ afState' = retryState /\ pending' = pending
           \/ afState' \in {"scan", "idle"}
    BY DEF RetryDue, SkipCore
  <1>4. retryState \in {"idle", "manifest", "core"}
    BY DEF IInv, TypeOK, MirrorOK
  <1>5. CoreIsPending'
    BY <1>2, <1>3, <1>4 DEF VInv, CoreIsPending
  <1> QED BY <1>2, <1>3, <1>5, OutsideHash DEF VInv, DoneIsWhole

\* What the poll of a failed or timed-out fetch does: the context stays bound
\* to its file, and the fetch is repeated, skipped or given up.
LEMMA PollFailsEffect ==
  ASSUME IInv, PollFailed \/ PollTimeout
  PROVE  /\ fc'.dest = fc.dest /\ fc'.body = fc.body /\ fc'.state = "failed"
         /\ fc' \in Fetch
         /\ UNCHANGED <<pos, checked, needed, updated, files, cpu>>
         /\ cpu = "loop" /\ afState \in {"manifest", "core"}
         /\ \/ /\ afState' = "retry wait" /\ retryState' = afState
               /\ pending' = pending
            \/ afState' = "scan" /\ afState = "core"
            \/ afState' = "idle"
  <1> DEFINE g == Closed(Failed(fc, "retryable"))
  <1>1. fc \in Fetch
    BY DEF IInv, TypeOK, NetOK
  <1>2. PICK f, k : /\ FetchFailed(f, k)
                    /\ \/ f = fc /\ fc.state = "failed"
                       \/ f \in {g, RxAborted(g)}
    <2>1. CASE PollFailed
      BY <2>1 DEF PollFailed
    <2>2. CASE PollTimeout
      BY <2>2 DEF PollTimeout
    <2> QED BY <2>1, <2>2
  <1>3. f \in Fetch /\ f.dest = fc.dest /\ f.body = fc.body
        /\ f.state = "failed"
    <2>1. g \in Fetch /\ RxAborted(g) \in Fetch
      BY <1>1, FailedIsFetch, ClosedIsFetch, AbortedIsFetch DEF Reasons
    <2>2. /\ g.dest = fc.dest /\ g.body = fc.body /\ g.state = "failed"
          /\ RxAborted(g).dest = fc.dest /\ RxAborted(g).body = fc.body
          /\ RxAborted(g).state = "failed"
      BY <1>1, FailingKeepsDestAndBody DEF Reasons
    <2> HIDE DEF g
    <2> QED BY <1>1, <1>2, <2>1, <2>2
  <1> HIDE DEF g
  <1>4. fc' \in {f, Closed(RxAborted(f))}
    BY <1>2 DEF FetchFailed
  <1>5. fc' \in Fetch /\ fc'.dest = f.dest /\ fc'.body = f.body
        /\ fc'.state = "failed"
    BY <1>3, <1>4, HelpersKeepDestAndBody, AbortedIsFetch, ClosedIsFetch
       DEF Reasons
  <1>6. /\ cpu = "loop" /\ afState \in {"manifest", "core"}
        /\ UNCHANGED <<pos, checked, needed, updated, files, cpu>>
        /\ \/ /\ afState' = "retry wait" /\ retryState' = afState
              /\ pending' = pending
           \/ afState' = "scan" /\ afState = "core"
           \/ afState' = "idle"
    BY <1>2 DEF PollFailed, PollTimeout, Fetching, FetchFailed, SkipCore, Idle
  <1> QED BY <1>3, <1>5, <1>6

\* A fetch that failed leaves VERIFY out of reach.
LEMMA PollFailsKeepsV ==
  ASSUME IInv, VInv, PollFailed \/ PollTimeout
  PROVE  VInv'
  <1>1. CoreIsPending'
    BY PollFailsEffect DEF VInv, CoreIsPending
  <1>2. cpu' \in {"loop", "scan"} /\ fc'.state = "failed"
    BY PollFailsEffect
  <1> QED BY <1>1, <1>2, OutsideHash DEF VInv, DoneIsWhole

\* The hash of the committed file begins: its transfer is whole, and the file
\* hashed is the one it was committed to.
LEMMA CoreDoneKeepsV ==
  ASSUME IInv, VInv, CoreDone
  PROVE  VInv'
  <1>1. /\ UNCHANGED <<fc, pending>> /\ fc.state = "done"
        /\ afState = "core" /\ cpu = "loop"
    BY DEF CoreDone, Fetching, net
  <1>2. fc.body = BodyChunks /\ fc.dest = pending /\ pending \in Entries
    BY <1>1 DEF VInv, DoneIsWhole, CoreIsPending
  <1>3. DoneIsWhole'
    BY <1>1 DEF VInv, DoneIsWhole
  <1>4. CASE /\ afState' = "verify" /\ HashBegins(pending, "hash verify")
             /\ UNCHANGED files
    BY <1>1, <1>2, <1>3, <1>4
       DEF VInv, CoreIsPending, HashIsOfEntry, HashIsUndisturbed, HashBegins,
           StillCurrent, OnlyOutdated
  <1>5. CASE Idle /\ UNCHANGED <<cpu, hashing>>
    BY <1>1, <1>3, <1>5, OutsideHash DEF VInv, CoreIsPending, Idle
  <1> QED BY <1>4, <1>5 DEF CoreDone

\* The poll's steps that begin no fetch and no hash.
LEMMA QuietPollKeepsV ==
  ASSUME IInv, VInv,
         \/ ManifestDone \/ VerifyAgrees \/ VerifyDiffers \/ ScanFails
         \/ ScanEnds \/ ScanUnchanged
  PROVE  VInv'
  <1>1. fc \in Fetch
    BY DEF IInv, TypeOK, NetOK
  <1>2. /\ fc' \in {fc, Closed(fc), Closed(RxAborted(fc))}
        /\ cpu' \in {"loop", "scan"}
        /\ afState' \in {"idle", "scan"} \/ UNCHANGED <<fc, mirror>>
    BY DEF ManifestDone, VerifyAgrees, VerifyDiffers, ScanFails, ScanEnds,
           ScanUnchanged, CancelTransfer, Idle, net
  <1>3. fc'.body = fc.body /\ fc'.state = fc.state
    BY <1>1, <1>2, HelpersKeepDestAndBody, AbortedIsFetch DEF Reasons
  <1>4. DoneIsWhole' /\ CoreIsPending'
    BY <1>2, <1>3 DEF VInv, DoneIsWhole, CoreIsPending, mirror
  <1> QED BY <1>2, <1>4, OutsideHash DEF VInv

\* autofetch_start_entry makes its file the pending one.
LEMMA StartEntryKeepsV ==
  ASSUME VInv, NEW p \in Entries, StartEntry(p), cpu' = "loop"
  PROVE  VInv'
  <1>1. fc'.dest = p /\ fc'.state # "done"
    BY EntriesAreNotManifest, StartedIsFresh DEF StartEntry
  <1>2. afState' = "idle" \/ (afState' = "core" /\ pending' = p)
    BY DEF StartEntry, Idle
  <1> QED BY <1>1, <1>2, OutsideHash DEF VInv, DoneIsWhole, CoreIsPending

\* The steps of the scan that begin a hash or a fetch.
LEMMA ScanKeepsV ==
  ASSUME IInv, VInv, ScanFile \/ ScanDiffers
  PROVE  VInv'
  <1>1. CASE ScanDiffers
    BY <1>1, StartEntryKeepsV DEF ScanDiffers, VInv, HashIsOfEntry
  <1>2. CASE ScanFile
    <2>1. pos \in 0 .. NFiles /\ pos < NFiles /\ NFiles \in Nat
      BY <1>2, ConstantsAssumption
         DEF ScanFile, IInv, TypeOK, MirrorOK, ConstantsAssumption
    <2>2. pos + 1 \in Entries
      BY <2>1 DEF Entries
    <2>3. CASE /\ HashBegins(pos + 1, "hash scan")
               /\ UNCHANGED <<afState, retryState, pending, net>>
      BY <2>2, <2>3
         DEF VInv, DoneIsWhole, CoreIsPending, HashIsOfEntry,
             HashIsUndisturbed, HashBegins, net, StillCurrent, OnlyOutdated
    <2>4. CASE StartEntry(pos + 1) /\ cpu' = "loop"
      BY <2>2, <2>4, StartEntryKeepsV
    <2> QED BY <1>2, <2>3, <2>4 DEF ScanFile
  <1> QED BY <1>1, <1>2

-----------------------------------------------------------------------------

\* The invariant holds after remote_http_init.
LEMMA InitHoldsV == Init => VInv
  BY DEF Init, VInv, DoneIsWhole, CoreIsPending, HashIsOfEntry,
         HashIsUndisturbed, StillCurrent, OnlyOutdated, FreshFetch

\* Every step keeps the invariant: one case for each action.
LEMMA NextKeepsV == IInv /\ VInv /\ [Next]_vars => VInv'
  <1> SUFFICES ASSUME IInv, VInv, [Next]_vars PROVE VInv'
    OBVIOUS
  <1>1. CASE Poll
    BY <1>1, RetryDueKeepsV, PollFailsKeepsV, CoreDoneKeepsV, QuietPollKeepsV,
       ScanKeepsV DEF Poll
  <1>2. CASE StartManifest
    BY <1>2, StartManifestKeepsV
  <1>3. CASE Cancel
    BY <1>3, CancelKeepsV
  <1>4. CASE DnsAnswer
    BY <1>4, DnsAnswerKeepsV
  <1>5. ASSUME NEW c \in Conns, Callback(c) PROVE VInv'
    BY <1>5, CallbackStep
  <1>6. CASE UNCHANGED vars
    BY <1>6 DEF vars, mirror, net, disk, VInv, DoneIsWhole, CoreIsPending,
                HashIsOfEntry, HashIsUndisturbed, StillCurrent, OnlyOutdated
  <1> QED BY <1>1, <1>2, <1>3, <1>4, <1>5, <1>6 DEF Next

\* Both invariants hold of every reachable state: what the mirror is
\* hashing after a commit stays what it was until the hash is compared.
THEOREM VerifyInvariance == Spec => [](IInv /\ VInv)
  BY InitHolds, InitHoldsV, NextKeeps, NextKeepsV, PTL DEF Spec

\* Only VerifyAgrees counts a file, and what it hashed is still there.
LEMMA CountingIsRight ==
  ASSUME IInv, VInv, [Next]_vars, updated' > updated
  PROVE  /\ hashing.held = "match"
         /\ \/ files'[hashing.file] = "match"
            \/ fc.dest = Manifest /\ files'[hashing.file] = "prev"
  <1>1. updated \in Nat
    BY DEF IInv, TypeOK, MirrorOK
  <1>2. VerifyAgrees
    <2>1. ~ UNCHANGED updated
      BY <1>1
    <2>2. ~ StartManifest
      <3>1. StartManifest => updated' \in {0, updated}
        BY DEF StartManifest, NewCounters
      <3> QED BY <1>1, <3>1
    <2>3. ~ DnsAnswer /\ \A c \in Conns : ~ Callback(c)
      BY <2>1
         DEF DnsAnswer, Callback, Connected, ConnectionError, PeerClose,
             Headers, BodyPiece, BodyEnd, mirror
    <2>4. ~ Cancel /\ ~ UNCHANGED vars
      BY <2>1 DEF Cancel, vars, mirror
    <2>5. Poll
      BY <2>2, <2>3, <2>4 DEF Next
    <2> QED BY <2>1, <2>5
            DEF Poll, RetryDue, PollFailed, PollTimeout, ManifestDone,
                CoreDone, VerifyDiffers, ScanFails, ScanEnds, ScanFile,
                ScanUnchanged, ScanDiffers, mirror
  <1>3. HashAgrees /\ cpu = "hash verify" /\ files' = files
    BY <1>2 DEF VerifyAgrees, disk
  <1> QED BY <1>3
          DEF HashAgrees, VInv, HashIsUndisturbed, StillCurrent, OnlyOutdated

\* Whenever the mirror counts a file as updated, its hash was begun on the
\* content its manifest asks for and the final path still holds these bytes,
\* although the network ran while it was hashed, /fetch/stop and /fetch/now
\* included: at worst the manifest of the new run has outdated them
\* (UpdatedIsCurrent of the runs).
THEOREM CountsOnlyCurrent == Spec => UpdatedIsCurrent
  <1>1. IInv /\ VInv /\ [Next]_vars
          => [updated' > updated =>
                /\ hashing.held = "match"
                /\ \/ files'[hashing.file] = "match"
                   \/ fc.dest = Manifest /\ files'[hashing.file] = "prev"]_vars
    BY CountingIsRight
  <1> QED BY <1>1, VerifyInvariance, PTL DEF Spec, UpdatedIsCurrent

-----------------------------------------------------------------------------
(* What one run of the mirror promises: its counters agree, and a run that *)
(* reports success leaves no more stale files than the status line says.   *)
(* Both need that no request of the web page is served while a file is     *)
(* hashed; late answers of the resolver do not disturb them.  The context  *)
(* has one connection, and an idle mirror is clean, when the resolver is   *)
(* not late either.                                                        *)

WebIsQuiet == "web in hash" \notin Env

\* The manifest, or a file of it, is being fetched or waits to be.
AtManifest ==
  afState = "manifest" \/ (afState = "retry wait" /\ retryState = "manifest")

AtFile ==
  afState \in {"core", "verify"} \/ (afState = "retry wait" /\ retryState = "core")

\* The state of the mirror follows the processor, and a hash reads the file
\* the mirror is at.
Phases ==
  /\ cpu \in {"scan", "hash scan"} => afState = "scan"
  /\ cpu = "hash verify" => afState = "verify" /\ hashing.file = pending
  /\ cpu = "loop" => afState # "verify"
  /\ cpu = "hash scan" => hashing.file = pos

\* CountersAgree, with the file that is hashed or fetched not yet counted.
Counted ==
  /\ updated <= needed /\ needed <= checked /\ checked <= pos
  /\ AtFile => updated < needed
  /\ cpu = "hash scan" => needed < checked

\* The context is bound to what the mirror is at, or is left over from a file
\* the scan has passed.
Bound ==
  /\ AtManifest => pos = 0 /\ fc.dest = Manifest
  /\ AtFile => fc.dest = pending /\ pending \in Entries
  /\ afState # "idle" /\ ~ AtManifest =>
       /\ fc.dest = Manifest => fc.body = BodyChunks
       /\ fc.dest \in Entries => fc.dest <= pos
       /\ cpu = "hash scan" => fc.dest # hashing.file

ScanIsUndisturbed ==
  cpu = "hash scan" /\ hashing.held = "match" => files[hashing.file] = "match"

\* The files of the manifest read so far that are not current; the file that
\* is hashed is not judged yet.
Hashed == IF cpu = "hash scan" THEN {hashing.file} ELSE {}
Behind == {p \in 1 .. pos : files[p] # "match"}

\* The file whose content the context may still change.
Charged ==
  IF fc.dest \in Entries /\ (fc.body # BodyChunks \/ AtFile)
    THEN {fc.dest} ELSE {}

\* Every file that is not current, or may change, was counted as needed and
\* not as updated.
Owing == Charged \cup (Behind \ Hashed)

Budget == afState # "idle" => Cardinality(Owing) <= needed - updated

RunInv == Phases /\ Counted /\ Bound /\ ScanIsUndisturbed /\ Budget

-----------------------------------------------------------------------------
(* Counting the files a run owes.                                          *)

\* The counters are numbers and the position lies in the manifest.
LEMMA CountersAreNumbers ==
  ASSUME IInv
  PROVE  /\ pos \in Nat /\ checked \in Nat /\ needed \in Nat /\ updated \in Nat
         /\ 1 .. pos \subseteq Entries
  <1>1. /\ pos \in 0 .. NFiles /\ NFiles \in Nat
        /\ checked \in Nat /\ needed \in Nat /\ updated \in Nat
    BY ConstantsAssumption DEF IInv, TypeOK, MirrorOK, ConstantsAssumption
  <1>2. 1 .. pos \subseteq 1 .. NFiles
    BY <1>1
  <1> QED BY <1>1, <1>2 DEF Entries

\* What is owed is a finite set of files.
LEMMA OwingIsFinite ==
  ASSUME IInv
  PROVE  Owing \subseteq Entries /\ IsFiniteSet(Owing) /\ Cardinality(Owing) \in Nat
  <1>1. NFiles \in Nat
    BY ConstantsAssumption DEF ConstantsAssumption
  <1>2. IsFiniteSet(Entries)
    BY <1>1, FS_Interval DEF Entries
  <1>3. Owing \subseteq Entries
    BY CountersAreNumbers DEF Owing, Charged, Behind
  <1>4. IsFiniteSet(Owing)
    BY <1>2, <1>3, FS_Subset
  <1> QED BY <1>3, <1>4, FS_CardinalityType

\* A step that adds nothing to what is owed keeps the budget.
LEMMA NothingMoreIsOwed ==
  ASSUME IInv, Cardinality(Owing) <= needed - updated, Owing' \subseteq Owing,
         UNCHANGED <<needed, updated>>
  PROVE  Budget'
  <1>1. Cardinality(Owing') <= Cardinality(Owing) /\ IsFiniteSet(Owing')
    BY OwingIsFinite, FS_Subset
  <1>2. Cardinality(Owing') \in Nat /\ Cardinality(Owing) \in Nat
    BY <1>1, OwingIsFinite, FS_CardinalityType
  <1>3. Cardinality(Owing') <= needed' - updated'
    BY <1>1, <1>2, CountersAreNumbers
  <1> QED BY <1>3 DEF Budget

\* A step that counts one more file as needed may owe that file.
LEMMA OneMoreIsOwed ==
  ASSUME IInv, Cardinality(Owing) <= needed - updated, NEW p,
         Owing' \subseteq Owing \cup {p},
         needed' = needed + 1, updated' = updated
  PROVE  Budget'
  <1>1. /\ IsFiniteSet(Owing \cup {p})
        /\ Cardinality(Owing \cup {p}) <= Cardinality(Owing) + 1
        /\ Cardinality(Owing) \in Nat
    BY OwingIsFinite, FS_AddElement
  <1>2. Cardinality(Owing') <= Cardinality(Owing \cup {p}) /\ IsFiniteSet(Owing')
    BY <1>1, FS_Subset
  <1>3. Cardinality(Owing') \in Nat /\ Cardinality(Owing \cup {p}) \in Nat
    BY <1>1, <1>2, FS_CardinalityType
  <1>4. Cardinality(Owing') <= needed' - updated'
    BY <1>1, <1>2, <1>3, CountersAreNumbers
  <1> QED BY <1>4 DEF Budget

\* A step that counts an owed file as updated owes it no more.
LEMMA OneLessIsOwed ==
  ASSUME IInv, Cardinality(Owing) <= needed - updated, NEW p \in Owing,
         Owing' \subseteq Owing \ {p},
         needed' = needed, updated' = updated + 1
  PROVE  Budget'
  <1>1. /\ IsFiniteSet(Owing \ {p})
        /\ Cardinality(Owing \ {p}) = Cardinality(Owing) - 1
        /\ Cardinality(Owing) \in Nat
    BY OwingIsFinite, FS_RemoveElement
  <1>2. Cardinality(Owing') <= Cardinality(Owing \ {p}) /\ IsFiniteSet(Owing')
    BY <1>1, FS_Subset
  <1>3. Cardinality(Owing') \in Nat
    BY <1>2, FS_CardinalityType
  <1>4. Cardinality(Owing') <= needed' - updated'
    BY <1>1, <1>2, <1>3, CountersAreNumbers
  <1> QED BY <1>4 DEF Budget

\* A run that is about to read its manifest owes nothing.
LEMMA NothingIsOwed ==
  ASSUME fc.dest = Manifest, pos = 0
  PROVE  Owing = {}
  <1>1. fc.dest \notin Entries
    BY EntriesAreNotManifest
  <1>2. 1 .. pos = {}
    OBVIOUS
  <1> QED BY <1>1, <1>2 DEF Owing, Charged, Behind

-----------------------------------------------------------------------------
(* The steps.                                                              *)

\* An idle mirror promises only that its counters agree.
LEMMA IdleKeepsRun ==
  ASSUME afState' = "idle", cpu' = "loop",
         updated' <= needed' /\ needed' <= checked' /\ checked' <= pos'
  PROVE  RunInv'
  <1>1. ~ AtManifest' /\ ~ AtFile'
    BY DEF AtManifest, AtFile
  <1>2. Phases'
    BY DEF Phases
  <1>3. Counted'
    BY <1>1 DEF Counted
  <1>4. Bound' /\ ScanIsUndisturbed' /\ Budget'
    BY <1>1 DEF Bound, ScanIsUndisturbed, Budget
  <1> QED BY <1>2, <1>3, <1>4 DEF RunInv

\* A callback changes only a file that is owed.
LEMMA CallbackKeepsRun ==
  ASSUME IInv, VInv, RunInv, UNCHANGED <<mirror, cpu, hashing>>,
         fc'.dest = fc.dest, fc.body = BodyChunks => fc'.body = BodyChunks,
         \A p \in Entries :
           \/ files'[p] = files[p]
           \/ /\ fc.body # BodyChunks
              /\ p = fc.dest \/ fc.dest = Manifest
  PROVE  RunInv'
  <1>1. /\ UNCHANGED <<afState, retryState, pos, checked, needed, updated,
                       pending, cpu, hashing>>
        /\ AtManifest' = AtManifest /\ AtFile' = AtFile /\ Hashed' = Hashed
    BY DEF mirror, AtManifest, AtFile, Hashed
  <1>2. Phases' /\ Counted'
    BY <1>1 DEF RunInv, Phases, Counted
  <1>3. Bound'
    BY <1>1 DEF RunInv, Bound
  <1>4. ASSUME afState # "idle", ~ AtManifest, NEW p \in Entries, p # fc.dest
        PROVE  files'[p] = files[p]
    BY <1>4 DEF RunInv, Bound
  <1>5. ScanIsUndisturbed'
    <2> SUFFICES ASSUME cpu = "hash scan", hashing.held = "match"
                 PROVE  files'[hashing.file] = "match"
      BY <1>1 DEF ScanIsUndisturbed
    <2>1. /\ files[hashing.file] = "match" /\ hashing.file \in Entries
          /\ afState = "scan"
      BY DEF RunInv, ScanIsUndisturbed, Phases, VInv, HashIsOfEntry
    <2>2. ~ AtManifest /\ hashing.file # fc.dest
      BY <2>1 DEF AtManifest, RunInv, Bound
    <2> QED BY <2>1, <2>2, <1>4
  <1>6. Budget'
    <2> SUFFICES ASSUME afState # "idle" PROVE Budget'
      BY <1>1 DEF Budget
    <2>1. Cardinality(Owing) <= needed - updated
      BY DEF RunInv, Budget
    <2>2. CASE AtManifest
      <3>1. fc'.dest = Manifest /\ pos' = 0
        BY <2>2, <1>1 DEF RunInv, Bound
      <3>2. Owing' = {}
        <4>1. fc'.dest \notin Entries
          BY <3>1, EntriesAreNotManifest
        <4>2. 1 .. pos' = {}
          BY <3>1
        <4> QED BY <4>1, <4>2 DEF Owing, Charged, Behind
      <3> QED BY <2>1, <3>2, <1>1, NothingMoreIsOwed
    <2>3. CASE ~ AtManifest
      <3>1. Charged' \subseteq Charged
        BY <1>1 DEF Charged
      <3>2. ASSUME NEW p \in Behind' \ Hashed' PROVE p \in Owing
        <4>1. p \in 1 .. pos /\ p \in Entries /\ files'[p] # "match"
              /\ p \notin Hashed
          BY <1>1, CountersAreNumbers DEF Behind
        <4>2. CASE files'[p] = files[p]
          BY <4>1, <4>2 DEF Owing, Behind
        <4>3. CASE files'[p] # files[p]
          <5>1. fc.body # BodyChunks /\ p = fc.dest
            BY <4>1, <4>3, <1>4, <2>3
          <5> QED BY <4>1, <5>1 DEF Owing, Charged
        <4> QED BY <4>2, <4>3
      <3>3. Owing' \subseteq Owing
        BY <3>1, <3>2 DEF Owing
      <3> QED BY <2>1, <3>3, <1>1, NothingMoreIsOwed
    <2> QED BY <2>2, <2>3
  <1> QED BY <1>2, <1>3, <1>5, <1>6 DEF RunInv

\* A late answer of the resolver changes no file.
LEMMA DnsAnswerKeepsRun ==
  ASSUME IInv, VInv, RunInv, DnsAnswer
  PROVE  RunInv'
  <1>1. UNCHANGED <<mirror, cpu, hashing, files>>
    BY DEF DnsAnswer, disk
  <1>2. fc'.dest = fc.dest /\ fc'.body = fc.body
    BY DnsAnswerEffect
  <1> QED BY <1>1, <1>2, CallbackKeepsRun

\* Between two iterations an operator may stop the run.
LEMMA CancelKeepsRun ==
  ASSUME WebIsQuiet, IInv, RunInv, Cancel
  PROVE  RunInv'
  <1>1. cpu' = "loop" /\ afState' = "idle"
        /\ UNCHANGED <<pos, checked, needed, updated>>
    BY DEF Cancel, Idle, WebIsQuiet
  <1> QED BY <1>1, IdleKeepsRun DEF RunInv, Counted

\* A run starts with all counters cleared.
LEMMA StartManifestKeepsRun ==
  ASSUME WebIsQuiet, IInv, RunInv, StartManifest
  PROVE  RunInv'
  <1>1. cpu = "loop" /\ cpu' = "loop"
    BY DEF StartManifest, WebIsQuiet
  <1>2. CASE /\ FetchStarted(Manifest) /\ afState' = "manifest"
             /\ pos' = 0 /\ checked' = 0 /\ needed' = 0 /\ updated' = 0
    <2>1. fc'.dest = Manifest
      BY <1>2, StartedIsFresh DEF Paths
    <2>2. Owing' = {}
      <3>1. fc'.dest \notin Entries
        BY <2>1, EntriesAreNotManifest
      <3>2. 1 .. pos' = {}
        BY <1>2
      <3> QED BY <3>1, <3>2 DEF Owing, Charged, Behind
    <2>3. AtManifest' /\ ~ AtFile'
      BY <1>2 DEF AtManifest, AtFile
    <2>4. Budget'
      BY <1>2, <2>2, FS_EmptySet DEF Budget
    <2> QED BY <1>1, <1>2, <2>1, <2>3, <2>4
            DEF RunInv, Phases, Counted, Bound, ScanIsUndisturbed
  <1>3. CASE UNCHANGED <<pos, checked, needed, updated, afState>>
    <2>1. afState' = "idle"
      BY <1>3 DEF StartManifest
    <2> QED BY <1>1, <1>3, <2>1, IdleKeepsRun DEF RunInv, Counted
  <1> QED BY <1>2, <1>3 DEF StartManifest, NewCounters

\* A skipped file stays owed: the context still names it.
LEMMA SkippingKeepsRun ==
  ASSUME IInv, VInv, RunInv, AtFile, cpu = "loop", cpu' = "loop",
         afState' = "scan", fc'.dest = fc.dest,
         UNCHANGED <<pos, checked, needed, updated, files>>
  PROVE  RunInv'
  <1>1. ~ AtManifest' /\ ~ AtFile' /\ ~ AtManifest /\ afState # "idle"
    BY DEF AtManifest, AtFile
  <1>2. fc.dest \in Entries
    BY DEF RunInv, Bound
  <1>3. Phases' /\ Counted' /\ ScanIsUndisturbed'
    BY <1>1 DEF RunInv, Phases, Counted, ScanIsUndisturbed
  <1>4. Bound'
    BY <1>1, <1>2, EntriesAreNotManifest DEF RunInv, Bound
  <1>5. Owing' \subseteq Owing
    BY <1>1, <1>2 DEF Owing, Charged, Behind, Hashed
  <1>6. Budget'
    BY <1>1, <1>5, NothingMoreIsOwed DEF RunInv, Budget
  <1> QED BY <1>3, <1>4, <1>6 DEF RunInv

\* RETRY_WAIT goes back to the fetch it repeats, or gives it up.
LEMMA RetryDueKeepsRun ==
  ASSUME IInv, VInv, RunInv, RetryDue
  PROVE  RunInv'
  <1> DEFINE dest == IF retryState = "manifest" THEN Manifest ELSE pending
  <1>1. /\ cpu = "loop" /\ cpu' = "loop" /\ afState = "retry wait"
        /\ UNCHANGED <<pos, checked, needed, updated, files>>
        /\ FetchStarted(dest) \/ FetchNotStarted(dest)
        /\ \/ afState' = retryState /\ pending' = pending
           \/ afState' = "scan" /\ retryState = "core"
           \/ afState' = "idle"
    BY DEF RetryDue, SkipCore
  <1>2. dest \in Paths /\ retryState \in {"idle", "manifest", "core"}
    BY DEF IInv, TypeOK, MirrorOK, Paths
  <1>3. fc'.dest = dest
    BY <1>1, <1>2, StartedIsFresh
  <1>4. CASE afState' = "idle"
    BY <1>1, <1>4, IdleKeepsRun DEF RunInv, Counted
  <1>5. CASE retryState = "core" /\ afState' \in {"scan", "core"}
    <2>1. AtFile /\ fc'.dest = fc.dest /\ fc.dest = pending
      BY <1>1, <1>3, <1>5 DEF AtFile, RunInv, Bound
    <2>2. CASE afState' = "scan"
      BY <1>1, <2>1, <2>2, SkippingKeepsRun
    <2>3. CASE afState' = "core" /\ pending' = pending
      <3>1. ~ AtManifest' /\ AtFile' /\ ~ AtManifest
        BY <1>1, <1>5, <2>3 DEF AtManifest, AtFile
      <3>2. pending \in Entries
        BY <2>1 DEF RunInv, Bound
      <3>3. Phases' /\ Counted' /\ ScanIsUndisturbed'
        BY <1>1, <2>1, <2>3, <3>1 DEF RunInv, Phases, Counted, ScanIsUndisturbed
      <3>4. Bound'
        BY <1>1, <2>1, <2>3, <3>1, <3>2, EntriesAreNotManifest DEF RunInv, Bound
      <3>5. Owing' \subseteq Owing
        BY <1>1, <2>1, <3>1, <3>2 DEF Owing, Charged, Behind, Hashed
      <3>6. Budget'
        BY <1>1, <3>5, NothingMoreIsOwed DEF RunInv, Budget
      <3> QED BY <3>3, <3>4, <3>6 DEF RunInv
    <2> QED BY <1>1, <1>5, <2>2, <2>3
  <1>6. CASE retryState = "manifest" /\ afState' = "manifest"
    <2>1. AtManifest /\ AtManifest' /\ ~ AtFile' /\ fc'.dest = Manifest
          /\ pos = 0
      BY <1>1, <1>3, <1>6 DEF AtManifest, AtFile, RunInv, Bound
    <2>2. Phases' /\ Counted' /\ ScanIsUndisturbed' /\ Bound'
      BY <1>1, <1>6, <2>1 DEF RunInv, Phases, Counted, ScanIsUndisturbed, Bound
    <2>3. Owing' \subseteq Owing
      <3>1. fc'.dest \notin Entries
        BY <2>1, EntriesAreNotManifest
      <3> pos' = 0
        BY <1>1, <2>1
      <3>2. 1 .. pos' = {}
        OBVIOUS
      <3> QED BY <3>1, <3>2 DEF Owing, Charged, Behind
    <2>4. Budget'
      BY <1>1, <2>3, NothingMoreIsOwed DEF RunInv, Budget
    <2> QED BY <2>2, <2>4 DEF RunInv
  <1> QED BY <1>1, <1>2, <1>4, <1>5, <1>6

\* A failed fetch is repeated, skipped or given up.
LEMMA PollFailsKeepsRun ==
  ASSUME IInv, VInv, RunInv, PollFailed \/ PollTimeout
  PROVE  RunInv'
  <1>1. /\ fc'.dest = fc.dest /\ fc'.body = fc.body
        /\ UNCHANGED <<pos, checked, needed, updated, files, cpu>>
        /\ cpu = "loop" /\ afState \in {"manifest", "core"}
    BY PollFailsEffect
  <1>2. CASE afState' = "idle"
    BY <1>1, <1>2, IdleKeepsRun DEF RunInv, Counted
  <1>3. CASE afState' = "scan" /\ afState = "core"
    BY <1>1, <1>3, SkippingKeepsRun DEF AtFile
  <1>4. CASE afState' = "retry wait" /\ retryState' = afState
             /\ pending' = pending
    <2>1. AtManifest' = AtManifest /\ AtFile' = AtFile /\ Hashed' = Hashed
      BY <1>1, <1>4 DEF AtManifest, AtFile, Hashed
    <2>2. Phases' /\ Counted' /\ ScanIsUndisturbed' /\ Bound'
      BY <1>1, <1>4, <2>1 DEF RunInv, Phases, Counted, ScanIsUndisturbed, Bound
    <2>3. Owing' \subseteq Owing
      BY <1>1, <2>1 DEF Owing, Charged, Behind
    <2>4. Budget'
      BY <1>1, <2>3, NothingMoreIsOwed DEF RunInv, Budget
    <2> QED BY <2>2, <2>4 DEF RunInv
  <1> QED BY <1>2, <1>3, <1>4, PollFailsEffect

\* The scan starts with nothing read and nothing owed.
LEMMA ManifestDoneKeepsRun ==
  ASSUME IInv, VInv, RunInv, ManifestDone
  PROVE  RunInv'
  <1>1. /\ afState = "manifest" /\ afState' = "scan" /\ cpu' = "scan"
        /\ fc.state = "done" /\ cpu = "loop"
        /\ UNCHANGED <<pos, checked, needed, updated, fc, files>>
    BY DEF ManifestDone, Fetching, net, disk
  <1>2. AtManifest /\ ~ AtManifest' /\ ~ AtFile'
    BY <1>1 DEF AtManifest, AtFile
  <1>3. fc.dest = Manifest /\ pos = 0 /\ fc.body = BodyChunks
    BY <1>1, <1>2 DEF RunInv, Bound, VInv, DoneIsWhole
  <1>4. fc.dest \notin Entries
    BY <1>3, EntriesAreNotManifest
  <1>5. Phases' /\ Counted' /\ ScanIsUndisturbed' /\ Bound'
    BY <1>1, <1>2, <1>3, <1>4
       DEF RunInv, Phases, Counted, ScanIsUndisturbed, Bound
  <1>6. Owing' \subseteq Owing
    <2>1. 1 .. pos' = {}
      BY <1>1, <1>3
    <2> QED BY <1>1, <1>4, <2>1 DEF Owing, Charged, Behind
  <1>7. Budget'
    BY <1>1, <1>6, NothingMoreIsOwed DEF RunInv, Budget
  <1> QED BY <1>5, <1>7 DEF RunInv

\* A committed file stays owed until its hash is compared.
LEMMA CoreDoneKeepsRun ==
  ASSUME IInv, VInv, RunInv, CoreDone
  PROVE  RunInv'
  <1>1. /\ afState = "core" /\ cpu = "loop"
        /\ UNCHANGED <<pos, checked, needed, updated, pending, fc>>
    BY DEF CoreDone, Fetching, net
  <1>2. CASE Idle /\ UNCHANGED <<cpu, hashing>>
    BY <1>1, <1>2, IdleKeepsRun DEF RunInv, Counted, Idle
  <1>3. CASE /\ afState' = "verify" /\ HashBegins(pending, "hash verify")
             /\ UNCHANGED files
    <2>1. AtFile /\ AtFile' /\ ~ AtManifest /\ ~ AtManifest'
      BY <1>1, <1>3 DEF AtFile, AtManifest
    <2>2. cpu' = "hash verify" /\ hashing'.file = pending
      BY <1>3 DEF HashBegins
    <2>3. Phases' /\ Counted' /\ ScanIsUndisturbed' /\ Bound'
      BY <1>1, <1>3, <2>1, <2>2
         DEF RunInv, Phases, Counted, ScanIsUndisturbed, Bound
    <2>4. Owing' \subseteq Owing
      BY <1>1, <1>3, <2>1, <2>2 DEF Owing, Charged, Behind, Hashed
    <2>5. Budget'
      BY <1>1, <2>4, NothingMoreIsOwed DEF RunInv, Budget
    <2> QED BY <2>3, <2>5 DEF RunInv
  <1> QED BY <1>2, <1>3 DEF CoreDone

\* A file is counted as updated when it is current: it is owed no more.
LEMMA VerifyAgreesKeepsRun ==
  ASSUME IInv, VInv, RunInv, VerifyAgrees
  PROVE  RunInv'
  <1>1. /\ cpu = "hash verify" /\ HashAgrees /\ updated' = updated + 1
        /\ afState' = "scan" /\ cpu' = "scan"
        /\ UNCHANGED <<pos, checked, needed, fc, files>>
    BY DEF VerifyAgrees, net, disk
  <1>2. afState = "verify" /\ hashing.file = pending /\ AtFile
        /\ ~ AtManifest /\ ~ AtManifest' /\ ~ AtFile'
    BY <1>1 DEF RunInv, Phases, AtFile, AtManifest
  <1>3. fc.dest = pending /\ pending \in Entries
    BY <1>2 DEF RunInv, Bound
  <1>4. files[pending] = "match" /\ fc.body = BodyChunks
    BY <1>1, <1>2, <1>3, EntriesAreNotManifest
       DEF HashAgrees, VInv, HashIsUndisturbed, StillCurrent, OnlyOutdated
  <1>5. Phases' /\ ScanIsUndisturbed' /\ Bound'
    BY <1>1, <1>2, <1>3, EntriesAreNotManifest
       DEF RunInv, Phases, ScanIsUndisturbed, Bound
  <1>6. Counted'
    <2>1. updated < needed /\ needed <= checked /\ checked <= pos
      BY <1>2 DEF RunInv, Counted
    <2> updated' = updated + 1 /\ needed' = needed
      BY <1>1
    <2> updated \in Nat /\ needed \in Nat
      BY CountersAreNumbers
    <2>2. updated' <= needed'
      BY <2>1
    <2> QED BY <1>1, <1>2, <2>1, <2>2 DEF Counted
  <1>7. pending \in Owing /\ Owing' \subseteq Owing \ {pending}
    BY <1>1, <1>2, <1>3, <1>4 DEF Owing, Charged, Behind, Hashed
  <1>8. Budget'
    BY <1>1, <1>2, <1>7, OneLessIsOwed DEF RunInv, Budget
  <1> QED BY <1>5, <1>6, <1>8 DEF RunInv

\* autofetch_start_entry counts its file as needed and owes it.
LEMMA StartEntryKeepsRun ==
  ASSUME IInv, VInv, RunInv, NEW p \in Entries, StartEntry(p), cpu' = "loop",
         afState = "scan", pos' \in Nat, checked' \in Nat,
         updated' = updated, files' = files,
         p = pos', needed < checked', checked' <= pos', pos <= pos',
         1 .. pos' \subseteq (1 .. pos) \cup {p}, Hashed \subseteq {p}
  PROVE  RunInv'
  <1>1. needed \in Nat /\ updated \in Nat /\ updated <= needed
        /\ Cardinality(Owing) <= needed - updated
    BY CountersAreNumbers DEF RunInv, Counted, Budget
  <1>2. CASE Idle /\ needed' = needed
    <2>1. needed' <= checked'
      BY <1>1, <1>2
    <2> QED BY <1>1, <1>2, <2>1, IdleKeepsRun DEF Idle
  <1>3. CASE /\ FetchStarted(p) /\ needed' = needed + 1
             /\ pending' = p /\ afState' = "core"
    <2>1. fc'.dest = p
      BY <1>3, EntriesAreNotManifest, StartedIsFresh
    <2>2. AtFile' /\ ~ AtManifest'
      BY <1>3 DEF AtFile, AtManifest
    <2>3. Phases' /\ ScanIsUndisturbed'
      BY <1>3 DEF Phases, ScanIsUndisturbed
    <2>4. Counted'
      <3>1. updated' < needed' /\ needed' <= checked'
        BY <1>1, <1>3
      <3>2. updated' <= needed'
        BY <3>1, <1>1, <1>3
      <3> QED BY <3>1, <3>2 DEF Counted
    <2>5. Bound'
      <3>1. p <= pos'
        OBVIOUS
      <3> QED BY <1>3, <2>1, <2>2, <3>1, EntriesAreNotManifest DEF Bound
    <2>6. Owing' \subseteq Owing \cup {p}
      <3>1. Charged' \subseteq {p}
        BY <2>1 DEF Charged
      <3>2. ASSUME NEW q \in Behind', q # p PROVE q \in Owing
        <4>1. q \in 1 .. pos /\ files[q] # "match"
          BY <3>2 DEF Behind
        <4>2. q \notin Hashed
          BY <3>2
        <4> QED BY <4>1, <4>2 DEF Owing, Behind
      <3> QED BY <3>1, <3>2 DEF Owing
    <2>7. Budget'
      BY <1>1, <1>3, <2>6, OneMoreIsOwed
    <2> QED BY <2>3, <2>4, <2>5, <2>7 DEF RunInv
  <1> QED BY <1>2, <1>3 DEF StartEntry

\* The next line of the manifest is judged after its hash, or owed at once.
LEMMA ScanFileKeepsRun ==
  ASSUME IInv, VInv, RunInv, ScanFile
  PROVE  RunInv'
  <1>1. /\ afState = "scan" /\ cpu \in {"loop", "scan"}
        /\ pos' = pos + 1 /\ checked' = checked + 1
        /\ UNCHANGED <<updated, files>>
    BY DEF ScanFile, Scanning
  <1>2. pos \in 0 .. NFiles /\ pos < NFiles /\ NFiles \in Nat
    BY ConstantsAssumption
       DEF ScanFile, IInv, TypeOK, MirrorOK, ConstantsAssumption
  <1>3. /\ pos + 1 \in Entries /\ pos' \in Nat /\ pos <= pos' /\ pos' # pos
        /\ 1 .. pos' \subseteq (1 .. pos) \cup {pos + 1}
    BY <1>1, <1>2 DEF Entries
  <1>4. /\ updated <= needed /\ needed <= checked /\ checked <= pos
    BY DEF RunInv, Counted
  <1>5. /\ checked' \in Nat /\ needed < checked' /\ checked' <= pos'
    BY <1>1, <1>4, CountersAreNumbers
  <1>6. Hashed = {}
    BY <1>1 DEF Hashed
  <1>7. CASE StartEntry(pos + 1) /\ cpu' = "loop"
    BY <1>1, <1>3, <1>5, <1>6, <1>7, StartEntryKeepsRun
  <1>8. CASE /\ HashBegins(pos + 1, "hash scan")
             /\ UNCHANGED <<afState, retryState, needed, pending, net>>
    <2>1. /\ cpu' = "hash scan" /\ hashing'.file = pos + 1
          /\ hashing'.held = files[pos + 1] /\ fc' = fc
      BY <1>8 DEF HashBegins, net
    <2>2. ~ AtManifest /\ ~ AtManifest' /\ ~ AtFile /\ ~ AtFile'
      BY <1>1, <1>8 DEF AtManifest, AtFile
    <2>3. Phases' /\ ScanIsUndisturbed'
      BY <1>1, <1>8, <2>1 DEF Phases, ScanIsUndisturbed
    <2>4. Counted'
      <3> updated' = updated /\ needed' = needed
        BY <1>1, <1>8
      <3> /\ needed \in Nat /\ checked' \in Nat
          /\ updated <= needed /\ needed < checked'
        BY <1>4, <1>5, CountersAreNumbers
      <3>1. updated' <= needed' /\ needed' <= checked'
        OBVIOUS
      <3> QED BY <1>5, <1>8, <2>2, <3>1 DEF Counted
    <2>5. Bound'
      <3>1. /\ fc.dest = Manifest => fc.body = BodyChunks
            /\ fc.dest \in Entries => fc.dest <= pos
        BY <1>1, <2>2 DEF RunInv, Bound
      <3>2. fc.dest \in Entries => fc.dest <= pos' /\ fc.dest # pos + 1
        <4>1. fc.dest \in Entries => fc.dest \in Nat
          BY DEF Entries
        <4> QED BY <1>1, <1>2, <3>1, <4>1
      <3>3. fc.dest # pos + 1
        BY <1>3, <3>2
      <3> QED BY <2>1, <2>2, <3>1, <3>2, <3>3 DEF Bound
    <2>6. Owing' \subseteq Owing
      <3>1. Charged' = Charged
        BY <2>1, <2>2 DEF Charged
      <3>2. ASSUME NEW q \in Behind' \ Hashed' PROVE q \in Owing
        <4>1. q \in 1 .. pos' /\ files[q] # "match" /\ q # pos + 1
          BY <1>1, <2>1, <3>2 DEF Behind, Hashed
        <4>2. q \in 1 .. pos
          BY <1>3, <4>1
        <4> QED BY <1>6, <4>1, <4>2 DEF Owing, Behind
      <3> QED BY <3>1, <3>2 DEF Owing
    <2>7. Budget'
      BY <1>1, <1>8, <2>6, NothingMoreIsOwed DEF RunInv, Budget
    <2> QED BY <2>3, <2>4, <2>5, <2>7 DEF RunInv
  <1> QED BY <1>7, <1>8 DEF ScanFile

\* A file whose hash agrees is current, and owed no more than before.
LEMMA ScanUnchangedKeepsRun ==
  ASSUME IInv, VInv, RunInv, ScanUnchanged
  PROVE  RunInv'
  <1>1. /\ cpu = "hash scan" /\ HashAgrees /\ cpu' = "loop"
        /\ UNCHANGED <<afState, retryState, pos, checked, needed, updated,
                       pending, fc, files>>
    BY DEF ScanUnchanged, mirror, net, disk
  <1>2. afState = "scan"
    BY <1>1 DEF RunInv, Phases
  <1>3. ~ AtManifest /\ ~ AtManifest' /\ ~ AtFile /\ ~ AtFile'
    BY <1>1, <1>2 DEF AtManifest, AtFile
  <1>4. Phases' /\ Counted' /\ ScanIsUndisturbed' /\ Bound'
    BY <1>1, <1>2, <1>3 DEF RunInv, Phases, Counted, ScanIsUndisturbed, Bound
  <1>5. files[hashing.file] = "match"
    BY <1>1 DEF HashAgrees, RunInv, ScanIsUndisturbed
  <1>6. Owing' \subseteq Owing
    BY <1>1, <1>3, <1>5 DEF Owing, Charged, Behind, Hashed
  <1>7. Budget'
    BY <1>1, <1>2, <1>6, NothingMoreIsOwed DEF RunInv, Budget
  <1> QED BY <1>4, <1>7 DEF RunInv

\* A file that differs is owed.
LEMMA ScanDiffersKeepsRun ==
  ASSUME IInv, VInv, RunInv, ScanDiffers
  PROVE  RunInv'
  <1>1. /\ cpu = "hash scan" /\ cpu' = "loop" /\ StartEntry(hashing.file)
        /\ UNCHANGED <<pos, checked, updated, files>>
    BY DEF ScanDiffers
  <1>2. /\ afState = "scan" /\ hashing.file = pos /\ hashing.file \in Entries
        /\ needed < checked /\ checked <= pos /\ Hashed = {hashing.file}
    BY <1>1 DEF RunInv, Phases, Counted, VInv, HashIsOfEntry, Hashed
  <1> pos' = pos /\ checked' = checked /\ pos \in Nat /\ checked \in Nat
    BY <1>1, CountersAreNumbers
  <1>3. pos <= pos' /\ pos' \in Nat /\ checked' \in Nat
    OBVIOUS
  <1> QED BY <1>1, <1>2, <1>3, StartEntryKeepsRun

-----------------------------------------------------------------------------

\* The invariant holds after remote_http_init.
LEMMA InitHoldsRun == Init => RunInv
  <1> SUFFICES ASSUME Init PROVE RunInv
    OBVIOUS
  <1>1. /\ afState = "idle" /\ cpu = "loop" /\ pos = 0 /\ checked = 0
        /\ needed = 0 /\ updated = 0
    BY DEF Init
  <1> QED BY <1>1 DEF RunInv, Phases, Counted, Bound, ScanIsUndisturbed,
                      Budget, AtManifest, AtFile

\* Every step keeps the invariant: one case for each action.
LEMMA NextKeepsRun ==
  ASSUME WebIsQuiet
  PROVE  IInv /\ VInv /\ RunInv /\ [Next]_vars => RunInv'
  <1> SUFFICES ASSUME IInv, VInv, RunInv, [Next]_vars PROVE RunInv'
    OBVIOUS
  <1>1. CASE Poll
    <2>1. CASE VerifyDiffers \/ ScanFails \/ ScanEnds
      <3>1. afState' = "idle" /\ cpu' = "loop"
            /\ UNCHANGED <<pos, checked, needed, updated>>
        BY <2>1 DEF VerifyDiffers, ScanFails, ScanEnds, Idle
      <3> QED BY <3>1, IdleKeepsRun DEF RunInv, Counted
    <2> QED
      BY <1>1, <2>1, RetryDueKeepsRun, PollFailsKeepsRun, ManifestDoneKeepsRun,
         CoreDoneKeepsRun, VerifyAgreesKeepsRun, ScanFileKeepsRun,
         ScanUnchangedKeepsRun, ScanDiffersKeepsRun DEF Poll
  <1>2. CASE StartManifest
    BY <1>2, StartManifestKeepsRun
  <1>3. CASE Cancel
    BY <1>3, CancelKeepsRun
  <1>4. CASE DnsAnswer
    BY <1>4, DnsAnswerKeepsRun
  <1>5. ASSUME NEW c \in Conns, Callback(c) PROVE RunInv'
    BY <1>5, CallbackEffect, CallbackKeepsRun
  <1>6. CASE UNCHANGED vars
    <2>1. UNCHANGED <<mirror, fc, files, cpu, hashing>>
      BY <1>6 DEF vars, net, disk
    <2> QED BY <2>1, CallbackKeepsRun
  <1> QED BY <1>1, <1>2, <1>3, <1>4, <1>5, <1>6 DEF Next

\* The invariants of a run hold of every reachable state, when no request of
\* the web page is served during a hash.
THEOREM RunInvariance ==
  ASSUME WebIsQuiet
  PROVE  Spec => [](IInv /\ VInv /\ RunInv)
  <1>1. Init => RunInv
    BY InitHoldsRun
  <1>2. IInv /\ VInv /\ RunInv /\ [Next]_vars => RunInv'
    BY NextKeepsRun
  <1> QED BY <1>1, <1>2, VerifyInvariance, PTL DEF Spec

\* The counters of the status line count the same files, whatever the network,
\* the resolver and the operator do between two polls (CountersAgree of the
\* runs).
THEOREM CountersAlwaysAgree ==
  ASSUME WebIsQuiet
  PROVE  Spec => []CountersAgree
  <1>1. RunInv => CountersAgree
    BY DEF RunInv, Counted, CountersAgree, AtFile
  <1> QED BY <1>1, RunInvariance, PTL

\* At the end of the manifest the files that are not current are owed.
LEMMA EndOfScanIsRight ==
  ASSUME IInv, VInv, RunInv, ScanEnds
  PROVE  Cardinality({p \in Entries : files[p] # "match"}) <= needed - updated
  <1> DEFINE Stale == {p \in Entries : files[p] # "match"}
  <1>1. pos = NFiles /\ afState = "scan" /\ Hashed = {}
    BY DEF ScanEnds, ManifestRead, Scanning, Hashed
  <1>2. Stale \subseteq Owing
    BY <1>1 DEF Entries, Owing, Behind
  <1>3. IsFiniteSet(Stale) /\ Cardinality(Stale) <= Cardinality(Owing)
    BY <1>2, OwingIsFinite, FS_Subset
  <1>4. Cardinality(Owing) <= needed - updated
    BY <1>1 DEF RunInv, Budget
  <1>5. Cardinality(Stale) \in Nat /\ Cardinality(Owing) \in Nat
    BY <1>3, OwingIsFinite, FS_CardinalityType
  <1> HIDE DEF Stale
  <1>6. Cardinality(Stale) <= needed - updated
    BY <1>3, <1>4, <1>5, CountersAreNumbers
  <1> QED BY <1>6 DEF Stale

\* When a run reports success, no more files are out of date than it counted
\* as needed and not as updated, also when a late answer of the resolver
\* revived a fetch in between (SuccessIsCurrent of the runs).
THEOREM SuccessMeansCurrent ==
  ASSUME WebIsQuiet
  PROVE  Spec => SuccessIsCurrent
  <1>1. IInv /\ VInv /\ RunInv /\ [Next]_vars
          => [ScanEnds => Cardinality({p \in Entries : files[p] # "match"})
                            <= needed - updated]_vars
    BY EndOfScanIsRight
  <1> QED BY <1>1, RunInvariance, PTL DEF Spec, SuccessIsCurrent

-----------------------------------------------------------------------------
(* One connection, and an idle mirror that is clean.                       *)

DnsIsPrompt == "slow dns" \notin Env

Transferring == afState \in {"manifest", "core"}

\* Only a transfer that is under way has a connection, and its context knows
\* it.
ConnIsOwned ==
  /\ lookups = 0
  /\ OneConnection
  /\ \A c \in Conns : conn[c] = "connecting" => fc.state = "connecting"
  /\ ~ Transferring \/ fc.state \in {"failed", "done"} => fc.pcb = NoConn
  /\ afState = "retry wait" => retryState \in {"manifest", "core"}

\* An open receiver writes a body, or its fetch broke off.
RxIsOwned ==
  fc.rx = "open" => \/ fc.state = "body" /\ Transferring
                    \/ fc.state = "failed" /\ fc.err = "retryable"

\* The only temporary is that of the transfer under way.
PartialIsOwned ==
  partial \subseteq (IF Transferring /\ fc.state # "done" THEN {fc.dest} ELSE {})

QuietInv == ConnIsOwned /\ RxIsOwned /\ PartialIsOwned

\* What the helpers on the context do to its connection and its receiver.
LEMMA HelpersOnPcbAndRx ==
  ASSUME NEW f \in Fetch, NEW why \in Reasons
  PROVE  /\ Closed(f).pcb = NoConn /\ Closed(f).rx = f.rx
         /\ Closed(f).err = f.err
         /\ RxAborted(f).rx = "none" /\ RxAborted(f).pcb = f.pcb
         /\ RxAborted(f).err = f.err
         /\ Failed(f, why).err = why /\ Failed(f, why).rx = f.rx
         /\ Failed(f, why).pcb = f.pcb
  BY DEF Closed, RxAborted, Failed, Fetch

\* Closing the context's connection leaves none.
LEMMA ClosingLeavesNone ==
  ASSUME OneConnection, NEW d \in Conns
  PROVE  ConnAfterClose(fc)[d] = "free"
  BY DEF ConnAfterClose, OneConnection

\* Without a connection, what is left to show is the receiver and the
\* temporary.
LEMMA ClosedIsQuiet ==
  ASSUME lookups' = 0, \A d \in Conns : conn'[d] = "free", fc'.pcb = NoConn,
         RxIsOwned', PartialIsOwned',
         afState' = "retry wait" => retryState' \in {"manifest", "core"}
  PROVE  QuietInv'
  <1>1. OneConnection' /\ \A c \in Conns : conn'[c] # "connecting"
    BY DEF OneConnection
  <1> QED BY <1>1 DEF QuietInv, ConnIsOwned

\* A mirror that transfers nothing has no connection and no temporary.
LEMMA SettledIsClosed ==
  ASSUME QuietInv, ~ Transferring \/ fc.state \in {"failed", "done"}
  PROVE  /\ lookups = 0 /\ fc.pcb = NoConn
         /\ \A d \in Conns : conn[d] = "free"
         /\ ~ Transferring \/ fc.state = "done" => partial = {}
  <1>1. lookups = 0 /\ fc.pcb = NoConn
    BY DEF QuietInv, ConnIsOwned
  <1>2. \A d \in Conns : conn[d] = "free"
    BY <1>1, ConstantsAssumption
       DEF QuietInv, ConnIsOwned, OneConnection, ConstantsAssumption
  <1>3. ~ Transferring \/ fc.state = "done" => partial = {}
    BY DEF QuietInv, PartialIsOwned
  <1> QED BY <1>1, <1>2, <1>3

\* It stays so while the mirror scans, hashes or goes idle.
LEMMA SettledKeepsQuiet ==
  ASSUME QuietInv, UNCHANGED <<fc, conn, lookups, partial>>,
         ~ Transferring \/ fc.state = "done",
         ~ Transferring',
         afState' = "retry wait" => retryState' \in {"manifest", "core"}
  PROVE  QuietInv'
  <1>1. /\ lookups = 0 /\ fc.pcb = NoConn /\ partial = {}
        /\ \A d \in Conns : conn[d] = "free"
    BY SettledIsClosed
  <1>2. RxIsOwned'
    BY DEF QuietInv, RxIsOwned
  <1>3. PartialIsOwned'
    BY <1>1 DEF PartialIsOwned
  <1> QED BY <1>1, <1>2, <1>3, ClosedIsQuiet

\* A fetch that starts has the only connection.
LEMMA StartingKeepsQuiet ==
  ASSUME DnsIsPrompt, IInv, QuietInv, ~ Transferring, NEW dest \in Paths,
         \/ FetchStarted(dest) /\ Transferring'
         \/ FetchNotStarted(dest) /\ ~ Transferring' /\ afState' # "retry wait",
         partial' \subseteq partial
  PROVE  QuietInv'
  <1>1. /\ lookups = 0 /\ partial = {} /\ \A d \in Conns : conn[d] = "free"
    BY SettledIsClosed
  <1>2. conn \in [Conns -> ConnStates]
    BY DEF IInv, TypeOK, NetOK
  <1>3. /\ FreshFetch(dest) \in Fetch /\ FreshFetch(dest).rx = "none"
        /\ FreshFetch(dest).state = "connecting" /\ FreshFetch(dest).pcb = NoConn
    BY FreshIsFetch DEF FreshFetch
  <1>4. PartialIsOwned'
    BY <1>1 DEF PartialIsOwned
  <1>5. CASE FetchStarted(dest) /\ Transferring'
    <2>1. PICK c \in FreeConns :
            /\ fc' = [FreshFetch(dest) EXCEPT !.pcb = c]
            /\ conn' = [conn EXCEPT ![c] = "connecting"]
            /\ UNCHANGED lookups
      BY <1>5 DEF FetchStarted, DnsIsPrompt
    <2>2. fc'.pcb = c /\ fc'.rx = "none" /\ fc'.state = "connecting"
      BY <1>3, <2>1 DEF Fetch
    <2>3. \A d \in Conns : conn'[d] # "free" => d = c
      BY <1>1, <1>2, <2>1
    <2>4. afState' # "retry wait"
      BY <1>5 DEF Transferring
    <2>5. ConnIsOwned'
      BY <1>1, <1>5, <2>1, <2>2, <2>3, <2>4 DEF ConnIsOwned, OneConnection
    <2> QED BY <1>4, <2>2, <2>5 DEF QuietInv, RxIsOwned
  <1>6. CASE FetchNotStarted(dest) /\ ~ Transferring' /\ afState' # "retry wait"
    <2>1. /\ fc' \in {FreshFetch(dest), Failed(FreshFetch(dest), "final")}
          /\ UNCHANGED <<conn, lookups>>
      BY <1>6 DEF FetchNotStarted
    <2>2. fc'.pcb = NoConn /\ fc'.rx = "none"
      BY <1>3, <2>1, HelpersOnPcbAndRx DEF Reasons
    <2> QED BY <1>1, <1>4, <1>6, <2>1, <2>2, ClosedIsQuiet DEF RxIsOwned
  <1> QED BY <1>5, <1>6

\* A callback comes only from the connection of the transfer under way.
LEMMA CallbackIsOwned ==
  ASSUME QuietInv, NEW c \in Conns, conn[c] # "free"
  PROVE  /\ c = fc.pcb /\ Transferring /\ fc.state \notin {"failed", "done"}
         /\ fc.pcb # NoConn /\ lookups = 0
         /\ partial \subseteq {fc.dest}
         /\ afState # "retry wait"
         /\ conn[c] = "connecting" => fc.state = "connecting"
         /\ fc.rx = "open" => fc.state = "body"
  <1>1. c = fc.pcb /\ fc.pcb # NoConn /\ lookups = 0
    BY ConstantsAssumption
       DEF QuietInv, ConnIsOwned, OneConnection, ConstantsAssumption
  <1>2. Transferring /\ fc.state \notin {"failed", "done"}
    BY <1>1 DEF QuietInv, ConnIsOwned
  <1>3. partial \subseteq {fc.dest}
    BY <1>2 DEF QuietInv, PartialIsOwned
  <1>4. /\ conn[c] = "connecting" => fc.state = "connecting"
        /\ fc.rx = "open" => fc.state = "body"
    BY <1>2 DEF QuietInv, ConnIsOwned, RxIsOwned
  <1>5. afState # "retry wait"
    BY <1>2 DEF Transferring
  <1> QED BY <1>1, <1>2, <1>3, <1>4, <1>5

\* A callback that ends the transfer closes its connection.
LEMMA EndingKeepsQuiet ==
  ASSUME IInv, QuietInv, NEW c \in Conns, conn[c] # "free",
         UNCHANGED <<mirror, lookups>>,
         \A d \in Conns : conn'[d] = "free", fc'.pcb = NoConn,
         fc'.dest = fc.dest, partial' \subseteq partial \cup {fc.dest},
         fc'.rx = "open" => fc'.state = "failed" /\ fc'.err = "retryable",
         fc'.state = "done" => partial' \subseteq partial \ {fc.dest}
  PROVE  QuietInv'
  <1>1. Transferring /\ Transferring' /\ lookups = 0 /\ lookups' = 0
        /\ afState' # "retry wait" /\ partial \subseteq {fc.dest}
    BY CallbackIsOwned DEF mirror, Transferring
  <1>2. RxIsOwned'
    BY DEF RxIsOwned
  <1>3. PartialIsOwned'
    BY <1>1 DEF PartialIsOwned
  <1> QED BY <1>1, <1>2, <1>3, ClosedIsQuiet

\* A callback that goes on with the transfer keeps its connection.
LEMMA GoingOnKeepsQuiet ==
  ASSUME IInv, QuietInv, NEW c \in Conns, conn[c] # "free",
         UNCHANGED <<mirror, lookups>>,
         conn' \in {conn, [conn EXCEPT ![c] = "open"]},
         conn'[c] = "open",
         fc'.pcb = fc.pcb, fc'.dest = fc.dest, fc'.state \in {"headers", "body"},
         fc'.rx = "open" => fc'.state = "body",
         partial' \subseteq partial \cup {fc.dest}
  PROVE  QuietInv'
  <1>1. /\ Transferring /\ Transferring' /\ lookups' = 0 /\ c = fc.pcb
        /\ afState' # "retry wait" /\ partial \subseteq {fc.dest}
        /\ OneConnection
    BY CallbackIsOwned DEF mirror, Transferring, QuietInv, ConnIsOwned
  <1>2. conn \in [Conns -> ConnStates]
    BY DEF IInv, TypeOK, NetOK
  <1>3. ASSUME NEW d \in Conns, d # c PROVE conn'[d] = "free"
    BY <1>1, <1>2, <1>3 DEF OneConnection
  <1>4. OneConnection' /\ \A d \in Conns : conn'[d] # "connecting"
    BY <1>1, <1>3 DEF OneConnection
  <1>5. ConnIsOwned'
    BY <1>1, <1>4 DEF ConnIsOwned
  <1>6. RxIsOwned' /\ PartialIsOwned'
    BY <1>1 DEF RxIsOwned, PartialIsOwned
  <1> QED BY <1>5, <1>6 DEF QuietInv

\* Giving a transfer up, with or without its receiver.
LEMMA GivenUpContext ==
  ASSUME NEW f \in Fetch, NEW why \in Reasons
  PROVE  /\ Closed(Failed(f, why)) \in Fetch
         /\ Closed(Failed(f, why)).pcb = NoConn
         /\ Closed(Failed(f, why)).dest = f.dest
         /\ Closed(Failed(f, why)).state = "failed"
         /\ Closed(Failed(f, why)).err = why
         /\ Closed(RxAborted(Failed(f, why))).pcb = NoConn
         /\ Closed(RxAborted(Failed(f, why))).dest = f.dest
         /\ Closed(RxAborted(Failed(f, why))).state = "failed"
         /\ Closed(RxAborted(Failed(f, why))).rx = "none"
  <1>1. Failed(f, why) \in Fetch
    BY FailedIsFetch
  <1>2. RxAborted(Failed(f, why)) \in Fetch
        /\ RxAborted(Failed(f, why)).rx = "none"
        /\ Closed(Failed(f, why)) \in Fetch
    BY <1>1, AbortedIsFetch, ClosedIsFetch
  <1>3. /\ Closed(Failed(f, why)).pcb = NoConn
        /\ Closed(Failed(f, why)).err = why
        /\ Closed(RxAborted(Failed(f, why))).pcb = NoConn
        /\ Closed(RxAborted(Failed(f, why))).rx = "none"
    BY <1>1, <1>2, HelpersOnPcbAndRx
  <1>4. /\ Closed(Failed(f, why)).dest = f.dest
        /\ Closed(Failed(f, why)).state = "failed"
        /\ Closed(RxAborted(Failed(f, why))).dest = f.dest
        /\ Closed(RxAborted(Failed(f, why))).state = "failed"
    BY FailingKeepsDestAndBody
  <1> QED BY <1>2, <1>3, <1>4

\* Every callback of a connection keeps the invariant.
LEMMA CallbackKeepsQuiet ==
  ASSUME IInv, QuietInv, NEW c \in Conns, Callback(c)
  PROVE  QuietInv'
  <1>1. fc \in Fetch /\ conn \in [Conns -> ConnStates] /\ partial \subseteq Paths
    BY DEF IInv, TypeOK, NetOK, DiskOK
  <1>2. conn[c] # "free" /\ UNCHANGED <<mirror, lookups>>
    BY DEF Callback, Connected, ConnectionError, PeerClose, Headers,
           BodyPiece, BodyEnd
  <1>3. /\ c = fc.pcb /\ fc.state \notin {"failed", "done"}
        /\ partial \subseteq {fc.dest} /\ OneConnection
        /\ conn[c] = "connecting" => fc.state = "connecting"
        /\ fc.rx = "open" => fc.state = "body"
    BY <1>2, CallbackIsOwned DEF QuietInv, ConnIsOwned
  <1>4. \A d \in Conns : ConnAfterClose(fc)[d] = "free"
    BY <1>3, ClosingLeavesNone
  <1>5. ConnAfterClose(fc) \in [Conns -> ConnStates]
    BY <1>1, ClosingIsTyped
  <1>6. ASSUME fc' = Closed(RxAborted(Failed(fc, "final"))),
               conn' = ConnAfterClose(fc),
               partial' \subseteq partial \cup {fc.dest}
        PROVE  QuietInv'
    BY <1>1, <1>2, <1>4, <1>6, GivenUpContext, EndingKeepsQuiet DEF Reasons
  <1>7. CASE Connected(c)
    <2>1. partial' = partial /\ conn[c] = "connecting"
      BY <1>7 DEF Connected, disk
    <2>2. CASE /\ fc' = [fc EXCEPT !.state = "headers"]
               /\ conn' = [conn EXCEPT ![c] = "open"]
      <3>1. /\ fc'.pcb = fc.pcb /\ fc'.dest = fc.dest /\ fc'.state = "headers"
            /\ fc'.rx = fc.rx
        BY <1>1, <2>2 DEF Fetch
      <3>2. conn'[c] = "open"
        BY <1>1, <2>2
      <3>3. fc'.rx # "open"
        BY <1>3, <2>1, <3>1
      <3> QED BY <1>2, <2>1, <2>2, <3>1, <3>2, <3>3, GoingOnKeepsQuiet
    <2>3. CASE /\ fc' = Closed(Failed(fc, "retryable"))
               /\ conn' = [ConnAfterClose(fc) EXCEPT
                             ![c] = IF c = fc.pcb THEN "free" ELSE "open"]
      <3>1. \A d \in Conns : conn'[d] = "free"
        BY <1>3, <1>4, <1>5, <2>3
      <3> QED BY <1>1, <1>2, <2>1, <2>3, <3>1, GivenUpContext,
                 EndingKeepsQuiet DEF Reasons
    <2> QED BY <1>7, <2>2, <2>3 DEF Connected
  <1>8. CASE ConnectionError(c)
    <2>1. /\ conn' = [conn EXCEPT ![c] = "free"]
          /\ fc' = Closed(RxAborted(Failed(fc, "retryable")))
          /\ partial' \subseteq partial
      BY <1>3, <1>8 DEF ConnectionError
    <2>2. \A d \in Conns : conn'[d] = "free"
      BY <1>1, <1>3, <2>1 DEF OneConnection
    <2> QED BY <1>1, <1>2, <2>1, <2>2, GivenUpContext, EndingKeepsQuiet
            DEF Reasons
  <1>9. CASE PeerClose(c)
    <2>1. /\ fc' = Closed(Failed(fc, "retryable"))
          /\ conn' = [ConnAfterClose(fc) EXCEPT ![c] = "free"]
          /\ partial' = partial
      BY <1>3, <1>9 DEF PeerClose, disk
    <2>2. \A d \in Conns : conn'[d] = "free"
      BY <1>4, <1>5, <2>1
    <2> QED BY <1>1, <1>2, <2>1, <2>2, GivenUpContext, EndingKeepsQuiet
            DEF Reasons
  <1>10. CASE Headers(c)
    <2>1. CASE /\ ReceiveFails(fc, "final")
               /\ partial' \in {partial \ AbortDeletes(fc), partial \ {fc.dest}}
      BY <1>6, <2>1 DEF ReceiveFails
    <2>2. CASE /\ fc' = RxBegun(c) /\ partial' = partial \cup {fc.dest}
               /\ UNCHANGED conn
      <3>1. /\ fc'.pcb = fc.pcb /\ fc'.dest = fc.dest /\ fc'.state = "body"
        BY <1>1, <2>2 DEF Fetch, RxBegun
      <3>2. conn[c] = "open"
        BY <1>10 DEF Headers
      <3> QED BY <1>2, <2>2, <3>1, <3>2, GoingOnKeepsQuiet
    <2>3. CASE /\ ReceiveFails([fc EXCEPT !.rx = "none"], "final")
               /\ partial' = partial \ {fc.dest}
      <3> DEFINE f == [fc EXCEPT !.rx = "none"]
      <3>1. f \in Fetch /\ f.dest = fc.dest /\ f.pcb = fc.pcb
        BY <1>1 DEF Fetch
      <3>2. /\ fc' = Closed(RxAborted(Failed(f, "final")))
            /\ conn' = ConnAfterClose(f)
        BY <2>3 DEF ReceiveFails
      <3>3. \A d \in Conns : conn'[d] = "free"
        BY <1>4, <3>1, <3>2 DEF ConnAfterClose
      <3> HIDE DEF f
      <3> QED BY <1>2, <2>3, <3>1, <3>2, <3>3, GivenUpContext,
                 EndingKeepsQuiet DEF Reasons
    <2> QED BY <1>10, <2>1, <2>2, <2>3 DEF Headers
  <1>11. CASE BodyPiece(c)
    <2>1. CASE /\ fc' = [fc EXCEPT !.body = @ + 1,
                                   !.mixed = @ \/ c # fc.from]
               /\ UNCHANGED <<conn, partial>>
      <3>1. /\ fc'.pcb = fc.pcb /\ fc'.dest = fc.dest /\ fc'.state = fc.state
        BY <1>1, <2>1 DEF Fetch
      <3>2. conn[c] = "open" /\ fc.state = "body"
        BY <1>11 DEF BodyPiece
      <3> QED BY <1>2, <2>1, <3>1, <3>2, GoingOnKeepsQuiet
    <2>2. CASE /\ ReceiveFails(fc, "final")
               /\ partial' = partial \ AbortDeletes(fc)
      BY <1>6, <2>2 DEF ReceiveFails
    <2> QED BY <1>11, <2>1, <2>2 DEF BodyPiece
  <1>12. CASE BodyEnd(c)
    <2>1. /\ conn' = ConnAfterClose(fc) /\ partial' = partial \ {fc.dest}
          /\ \/ fc' = Closed(RxAborted(Failed(fc, "final")))
             \/ \E sha \in {"match", "other", "unsigned"} :
                  fc' = Closed([fc EXCEPT !.state = "done",
                                 !.body = BodyChunks, !.sha = sha,
                                 !.rx = "closed"])
      BY <1>12 DEF BodyEnd
    <2>2. ASSUME NEW sha,
                 fc' = Closed([fc EXCEPT !.state = "done",
                                !.body = BodyChunks, !.sha = sha,
                                !.rx = "closed"])
          PROVE  QuietInv'
      <3>1. fc'.pcb = NoConn /\ fc'.dest = fc.dest /\ fc'.rx = "closed"
        BY <1>1, <2>2 DEF Fetch, Closed
      <3> QED BY <1>2, <1>4, <2>1, <3>1, EndingKeepsQuiet
    <2> QED BY <1>6, <2>1, <2>2
  <1> QED BY <1>7, <1>8, <1>9, <1>10, <1>11, <1>12 DEF Callback

\* autofetch_cancel closes the transfer it stops.
LEMMA CancelKeepsQuiet ==
  ASSUME IInv, QuietInv, Cancel
  PROVE  QuietInv'
  <1>1. fc \in Fetch /\ OneConnection
    BY DEF IInv, TypeOK, NetOK, QuietInv, ConnIsOwned
  <1>2. /\ afState' = "idle" /\ ~ Transferring' /\ UNCHANGED lookups
        /\ CancelTransfer(fc)
    BY DEF Cancel, Idle, Transferring
  <1>3. CASE ~ Transferring
    BY <1>2, <1>3, SettledKeepsQuiet DEF CancelTransfer, Transferring
  <1>4. CASE Transferring
    <2>1. /\ fc' = Closed(IF fc.state = "done" THEN fc ELSE RxAborted(fc))
          /\ conn' = ConnAfterClose(fc) /\ partial' = partial \ {fc.dest}
      BY <1>2, <1>4 DEF CancelTransfer, Transferring
    <2>2. lookups = 0 /\ partial \subseteq {fc.dest}
      BY <1>4 DEF QuietInv, ConnIsOwned, PartialIsOwned
    <2>3. \A d \in Conns : conn'[d] = "free"
      BY <1>1, <2>1, ClosingLeavesNone
    <2>4. fc'.pcb = NoConn /\ fc'.rx # "open"
      <3>1. CASE fc.state = "done"
        <4>1. fc.rx # "open"
          BY <3>1 DEF QuietInv, RxIsOwned
        <4> QED BY <1>1, <2>1, <3>1, <4>1, HelpersOnPcbAndRx DEF Reasons
      <3>2. CASE fc.state # "done"
        <4>1. RxAborted(fc) \in Fetch /\ RxAborted(fc).rx = "none"
          BY <1>1, AbortedIsFetch
        <4> QED BY <2>1, <3>2, <4>1, HelpersOnPcbAndRx DEF Reasons
      <3> QED BY <3>1, <3>2
    <2>5. PartialIsOwned'
      BY <2>1, <2>2 DEF PartialIsOwned
    <2> QED BY <1>2, <2>2, <2>3, <2>4, <2>5, ClosedIsQuiet DEF RxIsOwned
  <1> QED BY <1>3, <1>4

\* The poll of a transfer that failed leaves no connection and no temporary.
LEMMA PollFailsKeepsQuiet ==
  ASSUME IInv, QuietInv, PollFailed \/ PollTimeout
  PROVE  QuietInv'
  <1> DEFINE g == Closed(Failed(fc, "retryable"))
  <1>1. fc \in Fetch /\ conn \in [Conns -> ConnStates] /\ OneConnection
        /\ lookups = 0
    BY DEF IInv, TypeOK, NetOK, QuietInv, ConnIsOwned
  <1>2. PICK f, k : /\ FetchFailed(f, k)
                    /\ \/ f = fc /\ fc.state = "failed" /\ k = conn
                       \/ f \in {g, RxAborted(g)} /\ k = ConnAfterClose(fc)
    <2>1. CASE PollFailed
      BY <2>1 DEF PollFailed
    <2>2. CASE PollTimeout
      BY <2>2 DEF PollTimeout
    <2> QED BY <2>1, <2>2
  <1>3. /\ f \in Fetch /\ f.state = "failed" /\ f.pcb = NoConn
        /\ f.rx = "open" => f.err = "retryable"
    <2>1. CASE f = fc /\ fc.state = "failed"
      BY <1>1, <2>1, SettledIsClosed DEF QuietInv, RxIsOwned
    <2>2. CASE f \in {g, RxAborted(g)}
      <3>1. /\ g \in Fetch /\ g.pcb = NoConn /\ g.state = "failed"
            /\ g.err = "retryable"
        BY <1>1, GivenUpContext DEF Reasons
      <3> HIDE DEF g
      <3>2. /\ RxAborted(g) \in Fetch /\ RxAborted(g).rx = "none"
            /\ RxAborted(g).pcb = NoConn /\ RxAborted(g).state = "failed"
        BY <3>1, AbortedIsFetch, HelpersOnPcbAndRx, HelpersKeepDestAndBody
           DEF Reasons
      <3> QED BY <2>2, <3>1, <3>2
    <2> QED BY <1>2, <2>1, <2>2
  <1> HIDE DEF g
  <1>4. \A d \in Conns : k[d] = "free"
    BY <1>1, <1>2, ClosingLeavesNone, SettledIsClosed
  <1>5. fc' \in {f, Closed(RxAborted(f))}
        /\ \A d \in Conns : conn'[d] = "free"
    BY <1>2, <1>4 DEF FetchFailed
  <1>6. /\ fc'.pcb = NoConn
        /\ fc'.rx = "open" => fc'.state = "failed" /\ fc'.err = "retryable"
    <2>1. RxAborted(f) \in Fetch /\ RxAborted(f).rx = "none"
      BY <1>3, AbortedIsFetch
    <2>2. Closed(RxAborted(f)).pcb = NoConn /\ Closed(RxAborted(f)).rx = "none"
      BY <2>1, HelpersOnPcbAndRx DEF Reasons
    <2> QED BY <1>3, <1>5, <2>2
  <1>7. /\ Transferring /\ partial' = partial \ {fc.dest} /\ UNCHANGED lookups
        /\ ~ Transferring'
        /\ afState' = "retry wait" => retryState' \in {"manifest", "core"}
    BY <1>2 DEF PollFailed, PollTimeout, Fetching, FetchFailed, SkipCore, Idle,
                Transferring
  <1>8. partial' = {}
    BY <1>7 DEF QuietInv, PartialIsOwned
  <1> QED BY <1>1, <1>5, <1>6, <1>7, <1>8, ClosedIsQuiet
          DEF RxIsOwned, PartialIsOwned

\* The steps of the scan that begin a hash or a fetch.
LEMMA ScanKeepsQuiet ==
  ASSUME DnsIsPrompt, IInv, VInv, RunInv, QuietInv, ScanFile \/ ScanDiffers
  PROVE  QuietInv'
  <1>1. afState = "scan" /\ ~ Transferring
    BY DEF ScanFile, Scanning, ScanDiffers, RunInv, Phases, Transferring
  <1>2. ASSUME NEW p \in Entries, StartEntry(p)
        PROVE  QuietInv'
    <2>1. partial' \subseteq partial
      BY <1>2 DEF StartEntry
    <2>2. \/ FetchStarted(p) /\ afState' = "core"
          \/ FetchNotStarted(p) /\ afState' = "idle"
      BY <1>2 DEF StartEntry, Idle
    <2>3. p \in Paths
      BY EntriesAreNotManifest
    <2> QED BY <1>1, <2>1, <2>2, <2>3, StartingKeepsQuiet DEF Transferring
  <1>3. CASE ScanDiffers
    BY <1>2, <1>3 DEF ScanDiffers, VInv, HashIsOfEntry
  <1>4. CASE ScanFile
    <2>1. pos \in 0 .. NFiles /\ pos < NFiles /\ NFiles \in Nat
      BY <1>4, ConstantsAssumption
         DEF ScanFile, IInv, TypeOK, MirrorOK, ConstantsAssumption
    <2>2. pos + 1 \in Entries
      BY <2>1 DEF Entries
    <2>3. CASE UNCHANGED <<afState, retryState, net, partial>>
      <3>1. UNCHANGED <<fc, conn, lookups, partial>> /\ afState' = "scan"
        BY <1>1, <2>3 DEF net
      <3> QED BY <1>1, <3>1, SettledKeepsQuiet DEF Transferring
    <2> QED BY <1>2, <1>4, <2>2, <2>3 DEF ScanFile
  <1> QED BY <1>3, <1>4

\* The polls that begin no fetch find no transfer under way.
LEMMA QuietPollKeepsQuiet ==
  ASSUME IInv, VInv, RunInv, QuietInv,
         \/ ManifestDone \/ CoreDone \/ VerifyAgrees \/ VerifyDiffers
         \/ ScanFails \/ ScanEnds \/ ScanUnchanged
  PROVE  QuietInv'
  <1>1. /\ ~ Transferring \/ fc.state = "done"
        /\ VerifyDiffers => ~ Transferring
    BY DEF ManifestDone, CoreDone, VerifyAgrees, VerifyDiffers, ScanFails,
           ScanEnds, ScanUnchanged, Scanning, RunInv, Phases, Transferring
  <1>2. UNCHANGED <<fc, conn, lookups, partial>>
    BY <1>1 DEF ManifestDone, CoreDone, VerifyAgrees, VerifyDiffers, ScanFails,
                ScanEnds, ScanUnchanged, CancelTransfer, Transferring, net, disk
  <1>3. \/ afState' \in {"scan", "verify", "idle"}
        \/ ScanUnchanged /\ UNCHANGED <<afState, retryState>>
    BY DEF ManifestDone, CoreDone, VerifyAgrees, VerifyDiffers, ScanFails,
           ScanEnds, ScanUnchanged, Idle, mirror
  <1>4. CASE afState' \in {"scan", "verify", "idle"}
    BY <1>1, <1>2, <1>4, SettledKeepsQuiet DEF Transferring
  <1>5. CASE ScanUnchanged /\ UNCHANGED <<afState, retryState>>
    <2>1. afState = "scan"
      BY <1>5 DEF ScanUnchanged, RunInv, Phases
    <2> QED BY <1>1, <1>2, <1>5, <2>1, SettledKeepsQuiet DEF Transferring
  <1> QED BY <1>3, <1>4, <1>5

\* Every step keeps the invariant: one case for each action.
LEMMA NextKeepsQuiet ==
  ASSUME DnsIsPrompt
  PROVE  IInv /\ VInv /\ RunInv /\ QuietInv /\ [Next]_vars => QuietInv'
  <1> SUFFICES ASSUME IInv, VInv, RunInv, QuietInv, [Next]_vars
               PROVE  QuietInv'
    OBVIOUS
  <1>1. CASE RetryDue
    <2> DEFINE dest == IF retryState = "manifest" THEN Manifest ELSE pending
    <2>1. dest \in Paths
      BY DEF IInv, TypeOK, MirrorOK, Paths
    <2>2. afState = "retry wait" /\ ~ Transferring
          /\ retryState \in {"manifest", "core"}
      BY <1>1 DEF RetryDue, Transferring, QuietInv, ConnIsOwned
    <2>3. /\ partial' \subseteq partial
          /\ \/ FetchStarted(dest) /\ afState' = retryState
             \/ FetchNotStarted(dest) /\ afState' \in {"scan", "idle"}
      BY <1>1 DEF RetryDue, SkipCore
    <2> HIDE DEF dest
    <2> QED BY <2>1, <2>2, <2>3, StartingKeepsQuiet DEF Transferring
  <1>2. CASE StartManifest
    <2>1. /\ afState = "idle" /\ ~ Transferring /\ partial' \subseteq partial
          /\ \/ FetchStarted(Manifest) /\ afState' = "manifest"
             \/ FetchNotStarted(Manifest) /\ afState' = "idle"
      BY <1>2 DEF StartManifest, CleanedUp, Transferring
    <2> QED BY <2>1, StartingKeepsQuiet DEF Transferring, Paths
  <1>3. CASE Poll
    BY <1>1, <1>3, PollFailsKeepsQuiet, ScanKeepsQuiet, QuietPollKeepsQuiet
       DEF Poll
  <1>4. CASE Cancel
    BY <1>4, CancelKeepsQuiet
  <1>5. CASE DnsAnswer
    <2>1. lookups > 0 /\ lookups = 0
      BY <1>5 DEF DnsAnswer, QuietInv, ConnIsOwned
    <2> QED BY <2>1
  <1>6. ASSUME NEW c \in Conns, Callback(c) PROVE QuietInv'
    BY <1>6, CallbackKeepsQuiet
  <1>7. CASE UNCHANGED vars
    BY <1>7 DEF vars, mirror, net, disk, QuietInv, ConnIsOwned, OneConnection,
                RxIsOwned, PartialIsOwned, Transferring
  <1> QED BY <1>2, <1>3, <1>4, <1>5, <1>6, <1>7 DEF Next

\* The invariant holds after remote_http_init.
LEMMA InitHoldsQuiet == Init => QuietInv
  <1> SUFFICES ASSUME Init PROVE QuietInv
    OBVIOUS
  <1>1. /\ lookups = 0 /\ partial = {} /\ afState = "idle"
        /\ \A c \in Conns : conn[c] = "free"
        /\ fc.pcb = NoConn /\ fc.rx = "none"
    BY DEF Init, FreshFetch
  <1> QED BY <1>1 DEF QuietInv, ConnIsOwned, OneConnection, RxIsOwned,
                      PartialIsOwned

\* All invariants of the mirror hold of every reachable state, when the
\* resolver answers at once and no request of the web page is served during a
\* hash.
THEOREM QuietInvariance ==
  ASSUME WebIsQuiet, DnsIsPrompt
  PROVE  Spec => [](IInv /\ VInv /\ RunInv /\ QuietInv)
  <1>1. Init => QuietInv
    BY InitHoldsQuiet
  <1>2. IInv /\ VInv /\ RunInv /\ QuietInv /\ [Next]_vars => QuietInv'
    BY NextKeepsQuiet
  <1> QED BY <1>1, <1>2, RunInvariance, PTL DEF Spec

\* The context has one connection at most, and knows it (OneConnection of the
\* runs).
THEOREM AtMostOneConnection ==
  ASSUME WebIsQuiet, DnsIsPrompt
  PROVE  Spec => []OneConnection
  <1>1. QuietInv => OneConnection
    BY DEF QuietInv, ConnIsOwned
  <1> QED BY <1>1, QuietInvariance, PTL

\* However a run ends, the idle mirror owns no connection, no temporary and no
\* open file but that of a receiver whose fetch broke off (IdleIsClean of the
\* runs).
THEOREM IdleOwnsNothing ==
  ASSUME WebIsQuiet, DnsIsPrompt
  PROVE  Spec => []IdleIsClean
  <1>1. QuietInv => IdleIsClean
    <2> SUFFICES ASSUME QuietInv, cpu = "loop", afState = "idle"
                 PROVE  /\ \A c \in Conns : conn[c] = "free"
                        /\ partial = {}
                        /\ fc.rx = "open" =>
                             fc.state = "failed" /\ fc.err = "retryable"
      BY DEF IdleIsClean
    <2>1. ~ Transferring
      BY DEF Transferring
    <2> QED BY <2>1, SettledIsClosed DEF QuietInv, RxIsOwned
  <1> QED BY <1>1, QuietInvariance, PTL

=============================================================================

----------------------------- MODULE AutoFetch -----------------------------
(***************************************************************************)
(* The unattended mirror update of src/src/remote_http.c: a signed         *)
(* manifest is fetched, each file it names is hashed on the SD card, and   *)
(* the ones that differ are fetched again, committed and hashed.  One      *)
(* fetch context (autofetch_fc) carries every transfer.                    *)
(*                                                                         *)
(* The firmware is single threaded.  The main loop calls                   *)
(* remote_http_autofetch_poll; lwIP callbacks run between two iterations   *)
(* of the loop, and also inside file_sha256_hex, which pumps the network   *)
(* after every block of the file it hashes.  cpu says where the processor  *)
(* is, so that a callback happens only where the code lets it happen.      *)
(***************************************************************************)
EXTENDS Integers, FiniteSets

CONSTANTS
  NFiles,       \* files the manifest names
  BodyChunks,   \* pieces in which the body of a response arrives
  FileRetries,  \* M65_AUTOFETCH_FILE_RETRIES
  FileSlots,    \* STORAGE_FILE_SLOTS, the FatFs file pool
  Conns,        \* TCP control blocks of lwIP
  NoConn,       \* fc->pcb == NULL
  MaxLookups,   \* lookups the lwIP resolver keeps at once
  Env           \* what the surroundings may do, a subset of EnvKinds

EnvKinds == {"early close",  \* the server closes before the body is complete
             "slow dns",     \* a lookup is answered after fetch_start returned
             "web in hash"}  \* /fetch/stop and /fetch/now arrive during a hash

ASSUME ConstantsAssumption ==
  /\ NFiles \in Nat
  /\ BodyChunks \in Nat \ {0}
  /\ FileRetries \in Nat \ {0}
  /\ FileSlots \in Nat \ {0}
  /\ MaxLookups \in Nat
  /\ NoConn \notin Conns
  /\ Env \subseteq EnvKinds

VARIABLES
  afState,     \* autofetch_state
  running,     \* autofetch_running
  retryState,  \* autofetch_retry_state: the fetch RETRY_WAIT will repeat
  retries,     \* autofetch_fetch_retry_count
  pos,         \* lines of the manifest already read
  checked, needed, updated,  \* the counters of the status line
  pending,     \* autofetch_pending_path, 0 when cleared
  fc,          \* autofetch_fc, with the signed receiver inside it
  conn,        \* lwIP's view of each control block whose argument is fc
  lookups,     \* lookups whose answer will call fetch_dns_cb(fc)
  leaked,      \* pool slots whose FIL no storage_file_t names any more
  files,       \* contents of the final paths; 0 is the manifest
  partial,     \* final paths that have a .partial file beside them
  cpu,         \* where the processor is
  hashing      \* the file file_sha256_hex is reading, and what it held

mirror == <<afState, running, retryState, retries, pos, checked, needed,
            updated, pending>>
net == <<fc, conn, lookups>>
disk == <<leaked, files, partial>>
vars == <<mirror, net, disk, cpu, hashing>>

Manifest == 0
Entries == 1 .. NFiles
Paths == Entries \cup {Manifest}
NotHashing == [file |-> 0, held |-> "absent"]

\* "match" is the content whose hash the manifest gives, "other" a validly
\* signed content with another hash, "prev" what an earlier run left there,
\* "unsigned" anything no trusted key signed.
Contents == {"absent", "prev", "match", "other", "unsigned"}

\* memset(fc, 0) and the destination; FETCH_CONNECTING is 0.
FreshFetch(dest) ==
  [state |-> "connecting", dest |-> dest, err |-> "none", body |-> 0,
   sha |-> "none", pcb |-> NoConn, rx |-> "none", from |-> NoConn,
   mixed |-> FALSE]

Init ==
  /\ afState = "idle" /\ running = FALSE /\ retryState = "idle"
  /\ retries = 0 /\ pos = 0 /\ checked = 0 /\ needed = 0 /\ updated = 0
  /\ pending = 0
  /\ fc = FreshFetch(Manifest)
  /\ conn = [c \in Conns |-> "free"]
  /\ lookups = 0 /\ leaked = 0 /\ partial = {}
  /\ files \in [Paths -> {"absent", "prev", "match"}]
  /\ cpu = "loop" /\ hashing = NotHashing

-----------------------------------------------------------------------------
(* The file pool: a slot is taken by the receiver, by a hash, or lost.     *)

RxSlot(f) == IF f.rx = "open" THEN 1 ELSE 0
HashSlot == IF cpu \in {"hash scan", "hash verify"} THEN 1 ELSE 0
SlotFree == leaked + RxSlot(fc) + HashSlot < FileSlots

-----------------------------------------------------------------------------
(* The fetch client.  These operators return the next value of one piece   *)
(* of state; the callbacks below put them together.                        *)

Failed(f, why) == [f EXCEPT !.state = "failed", !.err = why]

\* Mutant: the abort forgets the handle.
RxKeptOpen(f) == f

\* signed_file_receive_abort: the handle is closed, the temporary deleted.
RxAborted(f) == [f EXCEPT !.rx = "none"]
AbortDeletes(f) == IF f.rx = "none" THEN {} ELSE {f.dest}

\* fetch_close closes the one control block the context knows.
Closed(f) == [f EXCEPT !.pcb = NoConn]

\* Mutant: the pointer is cleared and the connection left to lwIP.
ConnForgotten(f) == conn

ConnAfterClose(f) ==
  [c \in Conns |-> IF c = f.pcb THEN "free" ELSE conn[c]]

FreeConns == {c \in Conns : conn[c] = "free"}

\* fetch_start succeeds: the name is known and the connection is begun, or
\* the resolver keeps the request.
FetchStarted(dest) ==
  /\ leaked' = leaked + RxSlot(fc)
  /\ \/ \E c \in FreeConns :
          /\ fc' = [FreshFetch(dest) EXCEPT !.pcb = c]
          /\ conn' = [conn EXCEPT ![c] = "connecting"]
          /\ UNCHANGED lookups
     \/ /\ "slow dns" \in Env /\ lookups < MaxLookups
        /\ fc' = FreshFetch(dest)
        /\ lookups' = lookups + 1
        /\ UNCHANGED conn

\* fetch_start fails: the resolver refuses, or no connection can be begun.
FetchNotStarted(dest) ==
  /\ leaked' = leaked + RxSlot(fc)
  /\ fc' \in {FreshFetch(dest), Failed(FreshFetch(dest), "final")}
  /\ UNCHANGED <<conn, lookups>>

\* lwIP calls back between two loop iterations and while a file is hashed.
CallbacksRun == cpu \in {"loop", "hash scan", "hash verify"}

\* fetch_dns_cb after fetch_start returned.  It neither asks whether the
\* fetch was cancelled nor whether the context already has a connection.
DnsAnswer ==
  /\ CallbacksRun /\ lookups > 0
  /\ lookups' = lookups - 1
  /\ \/ /\ fc' = Failed(fc, "retryable")
        /\ UNCHANGED conn
     \/ \E why \in {"final", "retryable"} :
          /\ fc' = Closed(Failed(fc, why))
          /\ UNCHANGED conn
     \/ \E c \in FreeConns :
          /\ fc' = [fc EXCEPT !.state = "connecting", !.pcb = c]
          /\ conn' = [conn EXCEPT ![c] = "connecting"]
  /\ UNCHANGED <<mirror, disk, cpu, hashing>>

\* fetch_connected: the request goes out, or it cannot be queued and the
\* context's own connection is aborted.
Connected(c) ==
  /\ CallbacksRun /\ conn[c] = "connecting"
  /\ \/ /\ fc' = [fc EXCEPT !.state = "headers"]
        /\ conn' = [conn EXCEPT ![c] = "open"]
     \/ /\ fc' = Closed(Failed(fc, "retryable"))
        /\ conn' = [ConnAfterClose(fc) EXCEPT
                      ![c] = IF c = fc.pcb THEN "free" ELSE "open"]
  /\ UNCHANGED <<mirror, lookups, disk, cpu, hashing>>

\* fetch_err: lwIP has already freed c; the context forgets whatever
\* connection it knew.
ConnectionError(c) ==
  /\ CallbacksRun /\ conn[c] # "free"
  /\ conn' = [conn EXCEPT ![c] = "free"]
  /\ IF fc.state = "done"
       THEN /\ fc' = Closed(fc)
            /\ UNCHANGED partial
       ELSE /\ fc' = Closed(RxAborted(Failed(fc, "retryable")))
            /\ partial' = partial \ AbortDeletes(fc)
  /\ UNCHANGED <<mirror, lookups, leaked, files, cpu, hashing>>

\* fetch_recv with no data: the server closed.  The receiver is not aborted.
PeerClose(c) ==
  /\ "early close" \in Env
  /\ CallbacksRun /\ conn[c] = "open"
  /\ fc' = Closed(IF fc.state = "done" THEN fc ELSE Failed(fc, "retryable"))
  /\ conn' = [ConnAfterClose(fc) EXCEPT
                ![c] = IF c = fc.pcb THEN "free" ELSE "half closed"]
  /\ UNCHANGED <<mirror, lookups, disk, cpu, hashing>>

\* fetch_recv when processing fails: the receiver is aborted and the
\* context's connection with it.
ReceiveFails(f, why) ==
  /\ fc' = Closed(RxAborted(Failed(f, why)))
  /\ conn' = ConnAfterClose(f)

\* Mutant: a response that comes late starts to count its body anew.
RxRestarted(c) ==
  [fc EXCEPT !.state = "body", !.rx = "open", !.from = c, !.body = 0,
             !.mixed = FALSE]

\* The receiver after signed_file_receive_begin; body_done is not cleared, so
\* that a second response is a continuation of the first.
RxBegun(c) ==
  [fc EXCEPT !.state = "body", !.rx = "open", !.from = c,
             !.mixed = @ \/ fc.body > 0]

\* fetch_parse_headers: a bad response, or the receiver is begun on the
\* .partial file.  signed_file_receive_begin clears the receiver first.
Headers(c) ==
  /\ CallbacksRun /\ conn[c] = "open" /\ fc.state = "headers"
  /\ \/ /\ ReceiveFails(fc, "final")      \* status, length, directory
        /\ partial' \in {partial \ AbortDeletes(fc), partial \ {fc.dest}}
        /\ UNCHANGED leaked
     \/ /\ leaked' = leaked + RxSlot(fc)
        /\ IF SlotFree
             THEN /\ fc' = RxBegun(c)
                  /\ partial' = partial \cup {fc.dest}
                  /\ UNCHANGED conn
             ELSE /\ ReceiveFails([fc EXCEPT !.rx = "none"], "final")
                  /\ partial' = partial \ {fc.dest}
  /\ UNCHANGED <<mirror, lookups, files, cpu, hashing>>

\* What the mirror may have changed since the files were fetched: a new
\* manifest makes contents that matched the old one out of date, also the
\* content that is being hashed against its line in the old one.
Superseded(stale) ==
  [p \in Paths |-> IF p \in stale /\ files[p] = "match" THEN "prev"
                   ELSE files[p]]

\* fetch_process_body, a piece that does not complete the body, or one that
\* cannot be written.
BodyPiece(c) ==
  /\ CallbacksRun /\ conn[c] = "open" /\ fc.state = "body"
  /\ \/ /\ fc.body + 1 < BodyChunks
        /\ fc' = [fc EXCEPT !.body = @ + 1,
                            !.mixed = @ \/ c # fc.from]
        /\ UNCHANGED <<conn, partial>>
     \/ /\ ReceiveFails(fc, "final")
        /\ partial' = partial \ AbortDeletes(fc)
  /\ UNCHANGED <<mirror, lookups, leaked, files, cpu, hashing>>

\* Mutant: only the response in hand is verified.
VerifiedLast(content, mixed) == content # "unsigned"

\* signed_file_receive_finish accepts the bytes of one response that a
\* trusted key signed; nobody signed a mixture of two responses.
Verified(content, mixed) == content # "unsigned" /\ ~mixed

\* fetch_process_body, the last piece: verify, delete the final path, rename.
BodyEnd(c) ==
  /\ CallbacksRun /\ conn[c] = "open" /\ fc.state = "body"
  /\ fc.body + 1 = BodyChunks
  /\ conn' = ConnAfterClose(fc)
  /\ partial' = partial \ {fc.dest}
  /\ \E content \in {"match", "other", "unsigned"} :
       LET mixed == fc.mixed \/ c # fc.from
           got == IF mixed THEN "unsigned" ELSE content
       IN IF ~ Verified(content, mixed)
            THEN /\ fc' = Closed(RxAborted(Failed(fc, "final")))
                 /\ UNCHANGED files
            ELSE \/ /\ fc.dest \in partial
                    /\ fc' = Closed([fc EXCEPT !.state = "done",
                               !.body = BodyChunks, !.sha = got,
                               !.rx = "closed"])
                    /\ \E stale \in SUBSET Entries :
                         /\ stale # {} => fc.dest = Manifest
                         /\ files' = [Superseded(stale) EXCEPT ![fc.dest] = got]
                 \/ /\ fc' = Closed(RxAborted(Failed(fc, "final")))
                    /\ files' = [files EXCEPT ![fc.dest] = "absent"]
  /\ UNCHANGED <<mirror, lookups, leaked, cpu, hashing>>

-----------------------------------------------------------------------------
(* autofetch_cancel, applied to the fetch context f and to the mirror.     *)

Idle ==
  /\ afState' = "idle" /\ running' = FALSE /\ retryState' = "idle"

\* In MANIFEST and CORE the transfer is aborted; in the other states it is
\* left alone.
CancelTransfer(f) ==
  IF afState \in {"manifest", "core"}
    THEN /\ fc' = Closed(IF f.state = "done" THEN f ELSE RxAborted(f))
         /\ conn' = ConnAfterClose(f)
         /\ partial' = partial \ {f.dest}
    ELSE /\ fc' = f
         /\ UNCHANGED <<conn, partial>>

\* remote_http_autofetch_cancel, by an AT command between two iterations or
\* by GET /fetch/stop from a callback.
Cancel ==
  /\ cpu = "loop" \/ (CallbacksRun /\ "web in hash" \in Env)
  /\ afState # "idle"
  /\ Idle /\ CancelTransfer(fc)
  /\ UNCHANGED <<retries, pos, checked, needed, updated, pending, lookups,
                 leaked, files, cpu, hashing>>

\* Mutant: the counters of the run before are kept.
OldCounters == pos' = 0 /\ UNCHANGED <<checked, needed, updated>>

NewCounters == pos' = 0 /\ checked' = 0 /\ needed' = 0 /\ updated' = 0

\* delete_stale_partials_for_fetch deletes the temporaries of cores, not that
\* of the manifest, as far as its walk of the directories gets: the walks of a
\* directory and of its parent share one cursor.
CleanedUp == {kept \in SUBSET partial : Manifest \in partial => Manifest \in kept}

\* delete_stale_partials_for_fetch, then autofetch_start_manifest: called
\* when the interval is over, by AT+FETCHNOW and by GET /fetch/now.
StartManifest ==
  /\ cpu = "loop" \/ (CallbacksRun /\ "web in hash" \in Env)
  /\ afState = "idle" /\ (cpu = "loop" \/ ~running)
  /\ partial' \in CleanedUp
  /\ \/ /\ FetchStarted(Manifest)
        /\ NewCounters /\ retries' = 0
        /\ running' = TRUE /\ afState' = "manifest"
     \/ /\ FetchNotStarted(Manifest)
        /\ UNCHANGED <<pos, checked, needed, updated, retries, running,
                       afState>>
  /\ UNCHANGED <<retryState, pending, files, cpu, hashing>>

-----------------------------------------------------------------------------
(* remote_http_autofetch_poll.                                             *)

\* autofetch_skip_current_core
SkipCore ==
  /\ retries' = 0 /\ pending' = 0 /\ afState' = "scan"

\* RETRY_WAIT is over: the same file is fetched again, or given up.
RetryDue ==
  /\ cpu = "loop" /\ afState = "retry wait"
  /\ LET dest == IF retryState = "manifest" THEN Manifest ELSE pending
     IN \/ /\ FetchStarted(dest)
           /\ afState' = retryState
           /\ UNCHANGED <<running, retries, pending, partial>>
        \/ /\ FetchNotStarted(dest)
           /\ IF retryState = "core"
                THEN SkipCore /\ UNCHANGED <<running, partial>>
                ELSE /\ afState' = "idle" /\ running' = FALSE
                     /\ partial' = partial \ {dest}
                     /\ UNCHANGED <<retries, pending>>
  /\ retryState' = "idle"
  /\ UNCHANGED <<pos, checked, needed, updated, files, cpu, hashing>>

\* Mutant: an attempt is not counted.
NotCounted(f) == retries

\* autofetch_fetch_retry_count after the failure f.
AttemptsAfter(f) == IF f.err = "retryable" THEN retries + 1 ELSE retries

\* Mutant: off by one in the number of attempts.
OneMoreAttempt(f) == f.err = "retryable" /\ AttemptsAfter(f) <= FileRetries

AttemptLeft(f) == f.err = "retryable" /\ AttemptsAfter(f) < FileRetries

\* The fetch failed as f records, and k is what is left of the connections.
\* A transport error is retried until FileRetries attempts have failed; then,
\* or for any other error, a file is skipped and a manifest ends the run.
FetchFailed(f, k) ==
  \/ /\ AttemptLeft(f)
     /\ retries' = AttemptsAfter(f)
     /\ retryState' = afState /\ afState' = "retry wait"
     /\ fc' = f /\ conn' = k
     /\ UNCHANGED <<running, pending>>
  \/ /\ ~ AttemptLeft(f) /\ afState = "core"
     /\ SkipCore
     /\ fc' = f /\ conn' = k
     /\ UNCHANGED <<running, retryState>>
  \/ /\ ~ AttemptLeft(f) /\ afState = "manifest"
     /\ Idle
     /\ retries' = AttemptsAfter(f)
     /\ fc' = Closed(RxAborted(f))
     /\ conn' = [c \in Conns |-> IF c = f.pcb THEN "free" ELSE k[c]]
     /\ UNCHANGED pending

Fetching == cpu = "loop" /\ afState \in {"manifest", "core"}

\* The poll finds the fetch failed and deletes its temporary.
PollFailed ==
  /\ Fetching /\ fc.state = "failed"
  /\ FetchFailed(fc, conn)
  /\ partial' = partial \ {fc.dest}
  /\ UNCHANGED <<pos, checked, needed, updated, lookups, leaked, files, cpu,
                 hashing>>

\* fetch_poll finds a deadline over; the same poll goes on as PollFailed.  The
\* connect deadline does not abort the receiver, the other two do.
PollTimeout ==
  /\ Fetching /\ fc.state \in {"connecting", "headers", "body"}
  /\ LET f == Closed(Failed(fc, "retryable"))
     IN FetchFailed(IF fc.state = "connecting" THEN f ELSE RxAborted(f),
                    ConnAfterClose(fc))
  /\ partial' = partial \ {fc.dest}
  /\ UNCHANGED <<pos, checked, needed, updated, lookups, leaked, files, cpu,
                 hashing>>

\* The manifest is committed; the same poll goes on to scan it.
ManifestDone ==
  /\ Fetching /\ afState = "manifest" /\ fc.state = "done"
  /\ afState' = "scan" /\ cpu' = "scan"
  /\ UNCHANGED <<running, retryState, retries, pos, checked, needed, updated,
                 pending, net, disk, hashing>>

\* file_sha256_hex opens the file and starts to read it.
CanHash(p) == files[p] # "absent" /\ SlotFree

HashBegins(p, where) ==
  /\ cpu' = where
  /\ hashing' = [file |-> p, held |-> files[p]]

\* A file is committed: its transfer hash is compared, then the stored file
\* is hashed.  On a mismatch the committed file is deleted and the run ends.
CoreDone ==
  /\ Fetching /\ afState = "core" /\ fc.state = "done"
  /\ IF fc.sha = "match" /\ CanHash(pending)
       THEN /\ afState' = "verify"
            /\ HashBegins(pending, "hash verify")
            /\ UNCHANGED <<running, retryState, files>>
       ELSE /\ files' = [files EXCEPT ![pending] = "absent"]
            /\ Idle
            /\ UNCHANGED <<cpu, hashing>>
  /\ UNCHANGED <<retries, pos, checked, needed, updated, pending, net,
                 leaked, partial>>

\* file_sha256_hex returned the hash the manifest wants; a read error or
\* another content gives FALSE.
HashAgrees ==
  hashing.held = "match" \/ files[hashing.file] = "match"

\* The stored file agrees: it is counted and the same poll scans on.  The
\* state becomes SCAN whatever a callback made of it during the hash.
VerifyAgrees ==
  /\ cpu = "hash verify" /\ HashAgrees
  /\ updated' = updated + 1
  /\ pending' = 0
  /\ afState' = "scan" /\ cpu' = "scan" /\ hashing' = NotHashing
  /\ UNCHANGED <<running, retryState, retries, pos, checked, needed, net,
                 disk>>

VerifyDiffers ==
  /\ cpu = "hash verify"
  /\ files' = [files EXCEPT ![pending] = "absent"]
  /\ Idle /\ CancelTransfer(fc)
  /\ cpu' = "loop" /\ hashing' = NotHashing
  /\ UNCHANGED <<retries, pos, checked, needed, updated, pending, lookups,
                 leaked>>

-----------------------------------------------------------------------------
(* autofetch_scan_manifest, reached from the loop or from the poll that     *)
(* ended a fetch.                                                          *)

Scanning == afState = "scan" /\ cpu \in {"loop", "scan"}

\* autofetch_start_entry: the fetch of p begins, or the scan fails and the
\* run is cancelled.
StartEntry(p) ==
  \/ /\ FetchStarted(p)
     /\ retries' = 0 /\ needed' = needed + 1
     /\ pending' = p /\ afState' = "core"
     /\ UNCHANGED <<running, retryState, partial>>
  \/ /\ FetchNotStarted(p)
     /\ retries' = 0
     /\ Idle
     /\ partial' = IF afState \in {"manifest", "core"}
                     THEN partial \ {p} ELSE partial
     /\ UNCHANGED <<needed, pending>>

ManifestReadable == files[Manifest] # "absent" /\ SlotFree

\* read_manifest_line or parse_manifest_entry fails.
ScanFails ==
  /\ Scanning
  /\ Idle
  /\ cpu' = "loop"
  /\ UNCHANGED <<retries, pos, checked, needed, updated, pending, net, disk,
                 hashing>>

\* Mutant: a last line that ends with the file is not read.
LastLineDropped == pos + 1 >= NFiles

ManifestRead == pos = NFiles

\* The manifest is at its end: the run has succeeded.
ScanEnds ==
  /\ Scanning /\ ManifestReadable /\ ManifestRead
  /\ running' = FALSE /\ afState' = "idle"
  /\ cpu' = "loop"
  /\ UNCHANGED <<retryState, retries, pos, checked, needed, updated, pending,
                 net, disk, hashing>>

\* The next file is hashed, or fetched at once when it cannot be opened.
ScanFile ==
  /\ Scanning /\ ManifestReadable /\ pos < NFiles
  /\ pos' = pos + 1 /\ checked' = checked + 1
  /\ IF CanHash(pos + 1)
       THEN /\ HashBegins(pos + 1, "hash scan")
            /\ UNCHANGED <<afState, running, retryState, retries, needed,
                           pending, net, leaked, partial>>
       ELSE /\ StartEntry(pos + 1)
            /\ cpu' = "loop" /\ UNCHANGED hashing
  /\ UNCHANGED <<updated, files>>

\* The file is as the manifest says; the poll returns.
ScanUnchanged ==
  /\ cpu = "hash scan" /\ HashAgrees
  /\ cpu' = "loop" /\ hashing' = NotHashing
  /\ UNCHANGED <<mirror, net, disk>>

\* The file differs, or could not be read: it is fetched, whatever a callback
\* made of the state during the hash.
ScanDiffers ==
  /\ cpu = "hash scan"
  /\ StartEntry(hashing.file)
  /\ cpu' = "loop" /\ hashing' = NotHashing
  /\ UNCHANGED <<pos, checked, updated, files>>

-----------------------------------------------------------------------------

\* What the poll does, in the order of its code.
Poll ==
  \/ RetryDue \/ PollFailed \/ PollTimeout \/ ManifestDone \/ CoreDone
  \/ VerifyAgrees \/ VerifyDiffers
  \/ ScanFails \/ ScanEnds \/ ScanFile \/ ScanUnchanged \/ ScanDiffers

Callback(c) ==
  \/ Connected(c) \/ ConnectionError(c) \/ PeerClose(c)
  \/ Headers(c) \/ BodyPiece(c) \/ BodyEnd(c)

Next ==
  \/ Poll
  \/ StartManifest
  \/ Cancel
  \/ DnsAnswer
  \/ \E c \in Conns : Callback(c)

Spec == Init /\ [][Next]_vars

\* main calls the poll on every iteration of its loop, and a deadline passes:
\* nothing else is assumed of the network or of the operator.
FairSpec == Spec /\ WF_vars(Poll)

-----------------------------------------------------------------------------
(* Properties.                                                             *)

FetchStates == {"connecting", "headers", "body", "done", "failed"}

Fetch == [state : FetchStates, dest : Paths,
          err : {"none", "retryable", "final"},
          body : 0 .. BodyChunks, sha : {"none", "match", "other"},
          pcb : Conns \cup {NoConn}, rx : {"none", "open", "closed"},
          from : Conns \cup {NoConn}, mixed : BOOLEAN]

ConnStates == {"free", "connecting", "open", "half closed"}

MirrorOK ==
  /\ afState \in {"idle", "manifest", "scan", "verify", "core", "retry wait"}
  /\ running \in BOOLEAN
  /\ retryState \in {"idle", "manifest", "core"}
  /\ retries \in 0 .. FileRetries
  /\ pos \in 0 .. NFiles
  /\ checked \in Nat /\ needed \in Nat /\ updated \in Nat
  /\ pending \in Paths

NetOK ==
  /\ fc \in Fetch
  /\ conn \in [Conns -> ConnStates]
  /\ lookups \in 0 .. MaxLookups

DiskOK ==
  /\ leaked \in Nat
  /\ files \in [Paths -> Contents]
  /\ partial \subseteq Paths

CpuOK ==
  /\ cpu \in {"loop", "scan", "hash scan", "hash verify"}
  /\ hashing \in [file : Paths, held : Contents]

TypeOK == MirrorOK /\ NetOK /\ DiskOK /\ CpuOK

\* No final path ever holds bytes that no trusted key signed, whatever
\* connections, cancelled fetches and late answers feed the one context.
OnlySigned == \A p \in Paths : files[p] # "unsigned"

\* Handles in use and handles lost never exceed the FatFs pool.
PoolBound == leaked + RxSlot(fc) + HashSlot <= FileSlots

\* Between two iterations of the loop an idle mirror owns no connection and no
\* temporary, and no open file but that of a receiver whose fetch failed.
IdleIsClean ==
  cpu = "loop" /\ afState = "idle" =>
    /\ \A c \in Conns : conn[c] = "free"
    /\ partial = {}
    /\ fc.rx = "open" => fc.state = "failed" /\ fc.err = "retryable"

\* The context has one connection at most, the one it knows.
OneConnection == \A c \in Conns : conn[c] # "free" => c = fc.pcb

\* The counters of the status line count the same files.
CountersAgree ==
  /\ updated <= needed /\ needed <= checked /\ checked <= pos
  /\ afState = "core" => updated < needed

\* A file is counted as updated only when the bytes its hash was begun on are
\* those the manifest of the run asks for, and the final path still holds
\* them: only a new run that /fetch/now began during the hash, and that has
\* the one fetch context now, may have brought a manifest that outdates them.
UpdatedIsCurrent ==
  [][updated' > updated =>
       /\ hashing.held = "match"
       /\ \/ files'[hashing.file] = "match"
          \/ fc.dest = Manifest /\ files'[hashing.file] = "prev"]_vars

\* When a run reports success, every file it did not count as updated and
\* had to fetch was skipped; every other file is current.
SuccessIsCurrent ==
  [][ScanEnds => Cardinality({p \in Entries : files[p] # "match"})
                   <= needed - updated]_vars

\* A file fetched in vain costs FileRetries attempts at most: the run ends
\* whatever the server and the network do.
RunEnds == afState # "idle" ~> afState = "idle"

\* What AT+FETCHSTATUS calls "Verifying the downloaded file before committing
\* it" (src/src/remote_http.c:1784): no file of the manifest is committed with
\* a content whose hash the manifest does not give.
CommitsOnlyVerified == \A p \in Entries : files[p] # "other"

=============================================================================

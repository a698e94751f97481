----------------------------- MODULE HttpServer -----------------------------
(***************************************************************************)
(* The web server of src/src/remote_http.c as far as it changes the card   *)
(* and the FPGA: uploads (PUT /files/...), JTAG streams (PUT /jtag), which *)
(* are spooled to the card or shifted into the FPGA as they arrive,        *)
(* programming and deleting of stored cores, and downloads.                *)
(*                                                                         *)
(* One structure, http_conn, serves one connection at a time, but it is    *)
(* the callback argument of every control block it ever served: lwIP       *)
(* keeps a block for a while after tcp_close, and http_close leaves the    *)
(* error callback on it.  Callbacks run one after the other.               *)
(***************************************************************************)
EXTENDS Integers

CONSTANTS
  Conns,      \* TCP control blocks of lwIP
  NoConn,     \* http_conn.pcb == NULL
  BodyChunks  \* pieces in which the body of a request arrives

ASSUME ConstantsAssumption ==
  /\ NoConn \notin Conns
  /\ BodyChunks \in Nat \ {0}

VARIABLES
  pcb,      \* each control block whose argument is http_conn
  c,        \* http_conn, with its signed receiver
  tmp,      \* whether the .partial file of the upload exists
  stored,   \* the content of the final path
  jtag,     \* the TAP, as the program that shifts into it left it
  fpga,     \* what the FPGA was configured with
  grant,    \* check_write_grant()
  require,  \* http_cfg.require_signatures
  answer,   \* the last success told to a client
  disturbed \* a late error or a console command met a connection in progress

vars == <<pcb, c, tmp, stored, jtag, fpga, grant, require, answer, disturbed>>

\* "prev" is what the card held before, "mixed" bytes of two connections.
Contents == {"prev", "signed", "unsigned", "mixed"}
NoAnswer == [to |-> NoConn, code |-> "none"]

\* memset(&http_conn, 0); HTTP_RECV_HEADERS is 0.
Cleared ==
  [pcb |-> NoConn, inUse |-> FALSE, state |-> "headers", op |-> "none",
   spool |-> FALSE, active |-> FALSE, rx |-> "none", done |-> 0,
   from |-> NoConn, mixed |-> FALSE]

Init ==
  /\ pcb = [p \in Conns |-> "free"]
  /\ c = Cleared
  /\ tmp = FALSE /\ stored \in {"absent", "prev"}
  /\ jtag = "idle" /\ fpga = "prev"
  /\ grant \in BOOLEAN /\ require \in BOOLEAN
  /\ answer = NoAnswer /\ disturbed = FALSE

-----------------------------------------------------------------------------
(* Closing and answering.                                                  *)

\* Mutant: the spooled stream is forgotten.
DropsFileOnly(cc) == cc.state = "body" /\ cc.op = "file"

\* http_close aborts the receiver of a body that is still coming in.
Drops(cc) == cc.state = "body" /\ (cc.op = "file" \/ cc.spool)

RxAborted(cc) == [cc EXCEPT !.rx = "none"]

\* What http_close makes of the request; a second call, while the close is
\* retried, changes nothing.
Dropped(cc) ==
  IF cc.state = "closing" THEN cc
  ELSE [(IF Drops(cc) THEN RxAborted(cc) ELSE cc) EXCEPT !.active = FALSE]

\* http_close(cc), the temporary being t and the TAP j.  tcp_close succeeds,
\* has no memory, so that the next poll of the connection tries again, or
\* fails and the connection is aborted.
Close(cc, t, j) ==
  IF cc.pcb = NoConn
    THEN c' = cc /\ tmp' = t /\ jtag' = j /\ UNCHANGED pcb
    ELSE /\ tmp' = (t /\ ~ Drops(cc))
         /\ jtag' = IF cc.state # "closing" /\ cc.active THEN "idle" ELSE j
         /\ \/ /\ c' = [Dropped(cc) EXCEPT !.pcb = NoConn, !.inUse = FALSE,
                                           !.state = "closed"]
               /\ \E s \in {"closed", "free"} :
                    pcb' = [pcb EXCEPT ![cc.pcb] = s]
            \/ /\ c' = [Dropped(cc) EXCEPT !.state = "closing"]
               /\ pcb' = [pcb EXCEPT ![cc.pcb] = "muted"]

\* The answer goes out, or cannot be queued.
Says(cc, code) ==
  \/ answer' = answer
  \/ cc.pcb # NoConn /\ answer' = [to |-> cc.pcb, code |-> code]

-----------------------------------------------------------------------------
(* http_accept, and a request whose headers are complete.                  *)

\* Mutant: a connection is accepted whatever http_conn does.
AcceptsAlways == TRUE

Accepts == ~ c.inUse

Accept(p) ==
  /\ Accepts /\ pcb[p] = "free"
  /\ pcb' = [pcb EXCEPT ![p] = "open"]
  /\ c' = [Cleared EXCEPT !.pcb = p, !.inUse = TRUE]
  /\ answer' = NoAnswer
  /\ UNCHANGED <<tmp, stored, jtag, fpga, grant, require, disturbed>>

Requested(p) == pcb[p] = "open" /\ c.state = "headers"

\* Every request that changes neither the card nor the FPGA: pages, redirects
\* and refusals (no permission, no grant, a bad path, a busy mirror, no key).
\* A refused upload may have deleted a temporary that nobody wrote.
AnswerOnly(p) ==
  /\ Requested(p)
  /\ Close(c, tmp, jtag)
  /\ UNCHANGED <<stored, fpga, grant, require, answer, disturbed>>

\* start_download: the headers are sent, chunks follow from the callbacks.
SendFile(p) ==
  /\ Requested(p) /\ stored # "absent"
  /\ c' = [c EXCEPT !.state = "send"]
  /\ UNCHANGED <<pcb, tmp, stored, jtag, fpga, grant, require, answer, disturbed>>

\* delete_file
DeleteFile(p) ==
  /\ Requested(p) /\ grant
  /\ stored' = "absent"
  /\ Close(c, tmp, jtag)
  /\ UNCHANGED <<fpga, grant, require, answer, disturbed>>

\* program_file: a stored core is shifted from the first bit to the last, or
\* it is for another FPGA, or a read error leaves the FPGA with part of it.
ProgramFile(p) ==
  /\ Requested(p) /\ stored # "absent"
  /\ \/ fpga' = stored /\ Says(c, "done")
     \/ fpga' \in {fpga, "partial"} /\ UNCHANGED answer
  /\ Close(c, tmp, "idle")
  /\ UNCHANGED <<stored, grant, require, disturbed>>

\* The record of a request whose body p is going to send.
BodyFrom(p, op) == [c EXCEPT !.state = "body", !.op = op, !.from = p]

\* begin_put_file: the temporary is created.
BeginPutFile(p) ==
  /\ Requested(p) /\ grant
  /\ c' = [BodyFrom(p, "file") EXCEPT !.rx = "open"]
  /\ tmp' = TRUE
  /\ UNCHANGED <<pcb, stored, jtag, fpga, grant, require, answer, disturbed>>

\* Mutant: a stream is spooled only if the client names a file.
SpoolsNamed(named) == named

\* begin_put_jtag spools a stream that must be verified or has a name.
\* Otherwise JPROGRAM clears the FPGA, and the TAP waits for the stream.
Spools(named) == require \/ named

BeginPutJtag(p) ==
  /\ Requested(p) /\ grant
  /\ \E named \in BOOLEAN :
       IF Spools(named)
         THEN /\ c' = [BodyFrom(p, "jtag") EXCEPT !.rx = "open", !.spool = TRUE]
              /\ tmp' = TRUE
              /\ UNCHANGED <<jtag, fpga>>
         ELSE /\ c' = [BodyFrom(p, "jtag") EXCEPT !.active = TRUE]
              /\ jtag' = "shifting" /\ fpga' = "partial"
              /\ UNCHANGED tmp
  /\ UNCHANGED <<pcb, stored, grant, require, answer, disturbed>>

-----------------------------------------------------------------------------
(* The body.                                                               *)

\* c with a piece from p; history notes a piece of another connection.
Fed(p) == [c EXCEPT !.mixed = @ \/ p # c.from]

BodyComes(p) == pcb[p] = "open" /\ c.state = "body"

\* The receiver or the writer still takes bytes.
Takes == IF c.op = "file" \/ c.spool THEN c.rx = "open" ELSE c.active

\* write_file_body, write_jtag_body: the grant has expired.
GrantExpired(p) ==
  /\ BodyComes(p) /\ ~ grant
  /\ Close(Fed(p), tmp, jtag)
  /\ UNCHANGED <<stored, fpga, grant, require, answer, disturbed>>

\* The piece cannot be written.
WriteFails(p) ==
  /\ BodyComes(p) /\ grant
  /\ LET cc == [RxAborted(Fed(p)) EXCEPT !.active = FALSE]
     IN IF c.op = "file" \/ c.spool
          THEN Close(cc, FALSE, jtag)
          ELSE Close(cc, tmp, "idle")
  /\ UNCHANGED <<stored, fpga, grant, require, answer, disturbed>>

LastPiece == c.done + 1 = BodyChunks

BodyPiece(p) ==
  /\ BodyComes(p) /\ grant /\ Takes /\ ~ LastPiece
  /\ c' = [Fed(p) EXCEPT !.done = @ + 1]
  /\ UNCHANGED <<pcb, tmp, stored, jtag, fpga, grant, require, answer,
                 disturbed>>

BodyEnds(p) == BodyComes(p) /\ grant /\ Takes /\ LastPiece

Whole(p) == [Fed(p) EXCEPT !.done = @ + 1]

\* What the bytes of a whole body are.
Received(cc) == IF cc.mixed THEN {"mixed"} ELSE {"signed", "unsigned"}

\* signed_file_receive_finish
Verified(content) == ~ require \/ content = "signed"

\* The record after the final path got the upload.
Committed(cc) ==
  [cc EXCEPT !.rx = "closed", !.op = "none", !.spool = FALSE]

\* finish_put: the upload is not accepted, or cannot be closed.
PutRejected(p) ==
  /\ BodyEnds(p) /\ c.rx = "open"
  /\ Close(RxAborted(Whole(p)), FALSE, jtag)
  /\ UNCHANGED <<stored, fpga, grant, require, answer, disturbed>>

\* Mutant: a rename that fails is reported as a success.
RenameIgnored(cc) == Says(cc, "created")

RenameNoticed(cc) == UNCHANGED answer

\* finish_put: the old file is deleted, and the rename fails.
PutLost(p) ==
  /\ BodyEnds(p) /\ c.rx = "open"
  /\ \E content \in Received(Whole(p)) : Verified(content)
  /\ stored' = "absent"
  /\ RenameNoticed(c)
  /\ Close([Whole(p) EXCEPT !.rx = "closed"], FALSE, jtag)
  /\ UNCHANGED <<fpga, grant, require, disturbed>>

\* finish_put: the upload is verified and replaces the old file.
PutStored(p) ==
  /\ BodyEnds(p) /\ c.op = "file"
  /\ \E content \in Received(Whole(p)) :
       Verified(content) /\ stored' = content
  /\ Says(c, "created")
  /\ Close(Committed(Whole(p)), FALSE, jtag)
  /\ UNCHANGED <<fpga, grant, require, disturbed>>

\* finish_put: the spooled stream is verified, stored and then programmed,
\* unless it is not a core for this board, when the TAP stays as it is.
PutProgrammed(p) ==
  /\ BodyEnds(p) /\ c.spool
  /\ \E content \in Received(Whole(p)), j \in {jtag, "idle"} :
       /\ Verified(content) /\ stored' = content
       /\ \/ fpga' = content /\ j = "idle" /\ Says(c, "done")
          \/ fpga' = "partial" /\ j = "idle" /\ UNCHANGED answer
          \/ UNCHANGED <<fpga, answer>>
       /\ Close(Committed(Whole(p)), FALSE, j)
  /\ UNCHANGED <<grant, require, disturbed>>

\* finish_put: the last bit of a stream was shifted.  If another program has
\* used the TAP meanwhile, the FPGA did not take the stream.
PutStreamed(p) ==
  /\ BodyEnds(p) /\ c.active
  /\ \E content \in Received(Whole(p)) :
       fpga' = IF jtag = "shifting" THEN content ELSE fpga
  /\ Says(c, "done")
  /\ Close([Whole(p) EXCEPT !.active = FALSE, !.op = "none"], tmp, "idle")
  /\ UNCHANGED <<stored, grant, require, disturbed>>

-----------------------------------------------------------------------------
(* The other callbacks of lwIP.                                            *)

\* http_recv with no data: the client closed.  What is closed is the
\* connection http_conn knows.
ClientCloses(p) ==
  /\ pcb[p] = "open"
  /\ Close(c, tmp, jtag)
  /\ UNCHANGED <<stored, fpga, grant, require, answer, disturbed>>

\* http_sent and http_poll_cb: the next chunk of a download, after which it
\* may be complete or fail, or another try to close.
Progress(p) ==
  /\ pcb[p] # "free" /\ c.state \in {"send", "closing"}
  /\ Close(c, tmp, jtag)
  /\ UNCHANGED <<stored, fpga, grant, require, answer, disturbed>>

\* http_err: p was reset or timed out and lwIP has freed it.  The callback
\* clears http_conn, whichever connection it serves by now.
Error(p) ==
  /\ pcb[p] # "free"
  /\ pcb' = [pcb EXCEPT ![p] = "free"]
  /\ c' = Cleared
  /\ tmp' = (tmp /\ ~ (c.rx # "none" /\ (c.op = "file" \/ c.spool)))
  /\ jtag' = IF c.active THEN "idle" ELSE jtag
  /\ disturbed' = (disturbed \/ (c.inUse /\ p # c.pcb))
  /\ UNCHANGED <<stored, fpga, grant, require, answer>>

\* lwIP is done with a closed control block.
Freed(p) ==
  /\ pcb[p] = "closed"
  /\ pcb' = [pcb EXCEPT ![p] = "free"]
  /\ UNCHANGED <<c, tmp, stored, jtag, fpga, grant, require, answer, disturbed>>

\* A console command reads the status of the FPGA or programs a core between
\* two callbacks; it does not ask whether a stream is being shifted.
ConsoleUsesTap ==
  /\ fpga' \in {fpga, "console", "partial"}
  /\ jtag' = "idle"
  /\ disturbed' = (disturbed \/ c.active)
  /\ UNCHANGED <<pcb, c, tmp, stored, grant, require, answer>>

\* The switch is operated, or the grant times out.
GrantChanges ==
  /\ grant' = ~ grant
  /\ UNCHANGED <<pcb, c, tmp, stored, jtag, fpga, require, answer, disturbed>>

Request(p) ==
  \/ AnswerOnly(p) \/ SendFile(p) \/ DeleteFile(p) \/ ProgramFile(p)
  \/ BeginPutFile(p) \/ BeginPutJtag(p)

Body(p) ==
  \/ GrantExpired(p) \/ WriteFails(p) \/ BodyPiece(p)
  \/ PutRejected(p) \/ PutLost(p) \/ PutStored(p) \/ PutProgrammed(p)
  \/ PutStreamed(p)

Next ==
  \/ \E p \in Conns :
       \/ Accept(p) \/ Request(p) \/ Body(p)
       \/ ClientCloses(p) \/ Progress(p) \/ Error(p) \/ Freed(p)
  \/ ConsoleUsesTap
  \/ GrantChanges

Spec == Init /\ [][Next]_vars

-----------------------------------------------------------------------------
(* Properties.                                                             *)

Connection ==
  [pcb : Conns \cup {NoConn}, inUse : BOOLEAN,
   state : {"headers", "body", "send", "closing", "closed"},
   op : {"none", "file", "jtag"}, spool : BOOLEAN, active : BOOLEAN,
   rx : {"none", "open", "closed"}, done : 0 .. BodyChunks,
   from : Conns \cup {NoConn}, mixed : BOOLEAN]

TypeOK ==
  /\ pcb \in [Conns -> {"free", "open", "muted", "closed"}]
  /\ c \in Connection
  /\ tmp \in BOOLEAN
  /\ stored \in Contents \cup {"absent"}
  /\ jtag \in {"idle", "shifting"}
  /\ fpga \in Contents \cup {"partial", "console"}
  /\ grant \in BOOLEAN /\ require \in BOOLEAN
  /\ answer \in [to : Conns \cup {NoConn}, code : {"none", "created", "done"}]
  /\ disturbed \in BOOLEAN

\* Every connection that can still send is the one http_conn serves, so that
\* no two connections ever feed one request.
OneServed ==
  ~ disturbed =>
    /\ \A p \in Conns : pcb[p] \in {"open", "muted"} => p = c.pcb
    /\ c.inUse <=> c.pcb # NoConn

\* A request that is over, however it ended, leaves no temporary, no open
\* handle and no TAP in the middle of a shift.
NothingLeft ==
  ~ disturbed /\ c.state \in {"headers", "closing", "closed"} =>
    ~ tmp /\ c.rx # "open" /\ jtag = "idle"

\* With signatures required, a web client never brings bytes that no trusted
\* key signed to the card or into the FPGA, not even after a disturbance.
OnlySigned ==
  require => /\ stored \notin {"unsigned", "mixed"}
             /\ fpga \notin {"unsigned", "mixed"}

\* A step that tells a client of success follows upon the whole of what that
\* client sent, stored or programmed.
SuccessStep ==
  ~ disturbed /\ answer' # answer =>
    /\ answer'.code = "created" =>
         stored' \in {"signed", "unsigned"} /\ c.from = answer'.to
    /\ answer'.code = "done" =>
         fpga' \in {"prev", "signed", "unsigned"} /\ jtag' = "idle"

\* A client that is told of success sent the whole of what is stored or was
\* programmed.
SuccessIsTrue == [][SuccessStep]_vars

=============================================================================

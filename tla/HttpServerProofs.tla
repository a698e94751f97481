-------------------------- MODULE HttpServerProofs --------------------------
(***************************************************************************)
(* Proofs about HttpServer and, in the last part, about DownloadQueue; the *)
(* two model one source file.  HttpServer's invariant has a part that      *)
(* holds whatever happens, which carries the signature policy, and a part  *)
(* that holds until a late error or a console command disturbs a           *)
(* connection, which carries the order of connections, temporaries and the *)
(* TAP.                                                                    *)
(***************************************************************************)
EXTENDS HttpServer, DownloadQueue, WellFoundedInduction, TLAPS

\* What holds of http_conn whatever happens: a connection that waits for its
\* headers has begun nothing; bytes go straight into the FPGA only where no
\* signature is required; whoever still takes bytes has not had them all.
Sane(cc) ==
  /\ cc.state = "headers" =>
       ~ cc.spool /\ ~ cc.active /\ cc.op = "none" /\ cc.rx = "none"
         /\ cc.done = 0 /\ ~ cc.mixed
  /\ cc.active =>
       cc.state = "body" /\ cc.op = "jtag" /\ ~ cc.spool /\ cc.rx = "none"
         /\ ~ require
  /\ cc.state = "body" /\ (cc.rx = "open" \/ cc.active) => cc.done < BodyChunks

\* Until a disturbance: http_conn names every connection that can send.
Linked ==
  /\ \A p \in Conns : pcb[p] \in {"open", "muted"} => p = c.pcb
  /\ c.inUse <=> c.pcb # NoConn
  /\ ~ c.inUse => c.state \in {"headers", "closed"}

\* Until a disturbance: the temporary and the TAP belong to the body that is
\* coming in, and its bytes are those of one connection.
Tidy ==
  /\ tmp \/ c.rx = "open" => c.rx = "open" /\ Drops(c)
  /\ jtag = "shifting" <=> c.active
  /\ c.state = "body" => c.from = c.pcb /\ ~ c.mixed
  /\ stored # "mixed"

Always == TypeOK /\ OnlySigned /\ Sane(c)

IInv == Always /\ (~ disturbed => Linked /\ Tidy)

ConnStates == {"free", "open", "muted", "closed"}

-----------------------------------------------------------------------------
(* http_close.                                                             *)

\* http_close keeps the types and what holds of http_conn whatever happens.
LEMMA CloseSane ==
  ASSUME NEW cc \in Connection, NEW t \in BOOLEAN, NEW j \in {"idle", "shifting"},
         pcb \in [Conns -> ConnStates], Sane(cc), require' = require,
         Close(cc, t, j)
  PROVE  /\ pcb' \in [Conns -> ConnStates]
         /\ c' \in Connection
         /\ tmp' \in BOOLEAN
         /\ jtag' \in {"idle", "shifting"}
         /\ Sane(c)'
  <1>1. CASE cc.pcb = NoConn
    BY <1>1 DEF Close, Sane
  <1>2. CASE cc.pcb # NoConn
    <2>1. Dropped(cc) \in Connection /\ ~ Dropped(cc).active
      BY DEF Dropped, RxAborted, Connection, Sane
    <2>2. /\ tmp' \in BOOLEAN
          /\ jtag' \in {"idle", "shifting"}
      BY <1>2 DEF Close
    <2>3. cc.pcb \in Conns
      BY <1>2 DEF Connection
    <2>4. CASE /\ c' = [Dropped(cc) EXCEPT !.pcb = NoConn, !.inUse = FALSE,
                                           !.state = "closed"]
               /\ \E s \in {"closed", "free"} :
                    pcb' = [pcb EXCEPT ![cc.pcb] = s]
      <3>1. c' \in Connection /\ c'.state = "closed" /\ ~ c'.active
        BY <2>1, <2>4 DEF Connection
      <3>2. pcb' \in [Conns -> ConnStates]
        BY <2>3, <2>4 DEF ConnStates
      <3> QED BY <2>2, <3>1, <3>2 DEF Sane
    <2>5. CASE /\ c' = [Dropped(cc) EXCEPT !.state = "closing"]
               /\ pcb' = [pcb EXCEPT ![cc.pcb] = "muted"]
      <3>1. c' \in Connection /\ c'.state = "closing" /\ ~ c'.active
        BY <2>1, <2>5 DEF Connection
      <3>2. pcb' \in [Conns -> ConnStates]
        BY <2>3, <2>5 DEF ConnStates
      <3> QED BY <2>2, <3>1, <3>2 DEF Sane
    <2> QED BY <1>2, <2>4, <2>5 DEF Close
  <1> QED BY <1>1, <1>2

\* http_close of the connection that is served leaves nothing behind, provided
\* the temporary and the TAP belong to the body it drops.
LEMMA CloseTidy ==
  ASSUME NEW cc \in Connection, NEW t \in BOOLEAN, NEW j \in {"idle", "shifting"},
         pcb \in [Conns -> ConnStates], Sane(cc), Linked,
         cc.pcb = c.pcb, cc.inUse = c.inUse, cc.pcb # NoConn,
         t \/ cc.rx = "open" => Drops(cc),
         j = "shifting" => cc.active,
         stored' # "mixed",
         Close(cc, t, j)
  PROVE  Linked' /\ Tidy'
  <1>1. cc.pcb \in Conns /\ NoConn \notin Conns
    BY ConstantsAssumption DEF Connection, ConstantsAssumption
  <1>2. \A p \in Conns : pcb[p] \in {"open", "muted"} => p = cc.pcb
    BY DEF Linked
  <1>3. tmp' = FALSE
    BY DEF Close
  <1>4. Dropped(cc).rx # "open" /\ ~ Dropped(cc).active
    BY DEF Dropped, Drops, RxAborted, Connection, Sane
  <1>5. jtag' = "idle"
    BY DEF Close, Sane
  <1>6. Dropped(cc) \in Connection
    BY DEF Dropped, RxAborted, Connection
  <1>7. Dropped(cc).pcb = cc.pcb /\ Dropped(cc).inUse = cc.inUse
    BY DEF Dropped, RxAborted, Connection
  <1>8. CASE /\ c' = [Dropped(cc) EXCEPT !.pcb = NoConn, !.inUse = FALSE,
                                         !.state = "closed"]
             /\ \E s \in {"closed", "free"} :
                  pcb' = [pcb EXCEPT ![cc.pcb] = s]
    <2>1. \A p \in Conns : pcb'[p] \notin {"open", "muted"}
      BY <1>1, <1>2, <1>8
    <2>2. /\ c'.pcb = NoConn /\ ~ c'.inUse /\ c'.state = "closed"
          /\ c'.rx # "open" /\ ~ c'.active
      BY <1>4, <1>6, <1>8 DEF Connection
    <2> QED BY <1>3, <1>5, <2>1, <2>2 DEF Linked, Tidy
  <1>9. CASE /\ c' = [Dropped(cc) EXCEPT !.state = "closing"]
             /\ pcb' = [pcb EXCEPT ![cc.pcb] = "muted"]
    <2>1. c'.pcb = cc.pcb /\ c'.inUse = cc.inUse
      BY <1>6, <1>7, <1>9 DEF Connection
    <2>2. \A p \in Conns : pcb'[p] \in {"open", "muted"} => p = c'.pcb
      BY <1>1, <1>2, <1>9, <2>1
    <2>3. c'.state = "closing" /\ c'.rx # "open" /\ ~ c'.active
      BY <1>4, <1>6, <1>9 DEF Connection
    <2>4. c'.inUse /\ c'.pcb # NoConn
      BY <2>1 DEF Linked
    <2> QED BY <1>3, <1>5, <2>2, <2>3, <2>4 DEF Linked, Tidy
  <1> QED BY <1>8, <1>9 DEF Close

\* A handler that ends in http_close preserves the invariant, whatever it does
\* to the card and the FPGA within the signature policy.
LEMMA CloseStep ==
  ASSUME NEW cc \in Connection, NEW t \in BOOLEAN, NEW j \in {"idle", "shifting"},
         IInv, Sane(cc), Close(cc, t, j),
         require' = require, disturbed' = disturbed,
         stored' \in Contents \cup {"absent"},
         fpga' \in Contents \cup {"partial", "console"},
         grant' \in BOOLEAN,
         answer' \in [to : Conns \cup {NoConn}, code : {"none", "created", "done"}],
         OnlySigned',
         ~ disturbed =>
           /\ cc.pcb = c.pcb /\ cc.inUse = c.inUse /\ cc.pcb # NoConn
           /\ t \/ cc.rx = "open" => Drops(cc)
           /\ j = "shifting" => cc.active
           /\ stored' # "mixed"
  PROVE  IInv'
  <1>1. pcb \in [Conns -> ConnStates]
    BY DEF IInv, Always, TypeOK, ConnStates
  <1>2. TypeOK' /\ Sane(c)'
    BY <1>1, CloseSane DEF TypeOK, ConnStates, IInv, Always
  <1>3. ASSUME ~ disturbed PROVE Linked' /\ Tidy'
    BY <1>1, <1>3, CloseTidy DEF IInv
  <1> QED BY <1>2, <1>3 DEF IInv, Always

\* A connection that can send is, until a disturbance, the one that is served.
LEMMA SenderIsServed ==
  ASSUME IInv, ~ disturbed, NEW p \in Conns, pcb[p] = "open"
  PROVE  p = c.pcb /\ c.pcb # NoConn /\ c.inUse
  BY ConstantsAssumption DEF IInv, Linked, ConstantsAssumption

\* Saying something keeps the type of what was said.
LEMMA SaysTyped ==
  ASSUME TypeOK, NEW code \in {"created", "done"}, Says(c, code)
  PROVE  answer' \in [to : Conns \cup {NoConn}, code : {"none", "created", "done"}]
  BY DEF TypeOK, Says, Connection

-----------------------------------------------------------------------------
(* http_accept and requests.                                               *)

\* http_accept preserves the invariant.
LEMMA AcceptStep ==
  ASSUME IInv, NEW p \in Conns, Accept(p)
  PROVE  IInv'
  <1>1. p # NoConn /\ NoAnswer \in [to : Conns \cup {NoConn},
                                   code : {"none", "created", "done"}]
    BY ConstantsAssumption DEF ConstantsAssumption, NoAnswer
  <1>2. /\ c' = [pcb |-> p, inUse |-> TRUE, state |-> "headers", op |-> "none",
                 spool |-> FALSE, active |-> FALSE, rx |-> "none", done |-> 0,
                 from |-> NoConn, mixed |-> FALSE]
        /\ pcb' = [pcb EXCEPT ![p] = "open"]
    BY DEF Accept, Cleared
  <1>3. c' \in Connection
    BY <1>2, ConstantsAssumption DEF Connection, ConstantsAssumption
  <1>4. TypeOK'
    BY <1>1, <1>2, <1>3 DEF Accept, IInv, Always, TypeOK
  <1>a. /\ c'.pcb = p /\ c'.inUse /\ c'.state = "headers" /\ c'.op = "none"
        /\ ~ c'.spool /\ ~ c'.active /\ c'.rx = "none" /\ c'.done = 0
        /\ ~ c'.mixed
    BY <1>2
  <1>5. OnlySigned' /\ Sane(c)'
    <2>1. Sane(c)'
      BY <1>a DEF Sane
    <2>2. OnlySigned'
      BY DEF Accept, IInv, Always, OnlySigned
    <2> QED BY <2>1, <2>2
  <1>6. ASSUME ~ disturbed PROVE Linked' /\ Tidy'
    <2>1. \A q \in Conns : pcb[q] \notin {"open", "muted"}
      BY <1>6, ConstantsAssumption
         DEF Accept, Accepts, IInv, Linked, ConstantsAssumption
    <2>2. ~ c.active /\ ~ tmp
      BY <1>6 DEF Accept, Accepts, IInv, Always, Sane, Linked, Tidy, Drops
    <2>3. Linked'
      BY <1>1, <1>2, <1>a, <1>6, <2>1 DEF IInv, Always, TypeOK, Linked
    <2>4. Tidy'
      BY <1>a, <1>6, <2>2 DEF Accept, IInv, Always, TypeOK, Tidy
    <2> QED BY <2>3, <2>4
  <1> QED BY <1>4, <1>5, <1>6 DEF IInv, Always, Accept

\* Every request preserves the invariant.
LEMMA RequestStep ==
  ASSUME IInv, NEW p \in Conns, Request(p)
  PROVE  IInv'
  <1>1. /\ TypeOK /\ OnlySigned /\ Sane(c) /\ c \in Connection
        /\ tmp \in BOOLEAN /\ jtag \in {"idle", "shifting"}
        /\ pcb[p] = "open" /\ c.state = "headers"
    BY DEF IInv, Always, TypeOK, Request, Requested, AnswerOnly, SendFile,
           DeleteFile, ProgramFile, BeginPutFile, BeginPutJtag
  <1>2. ~ disturbed => p = c.pcb /\ c.pcb # NoConn /\ c.inUse
    BY <1>1, SenderIsServed
  <1>3. /\ ~ c.spool /\ ~ c.active /\ c.op = "none" /\ c.rx = "none"
        /\ c.done = 0 /\ ~ c.mixed
    BY <1>1 DEF Sane
  <1>4. ~ disturbed => ~ tmp /\ jtag # "shifting" /\ stored # "mixed"
    BY <1>3 DEF IInv, Tidy, Drops
  <1>5. CASE AnswerOnly(p)
    <2>1. OnlySigned'
      BY <1>1, <1>5 DEF AnswerOnly, OnlySigned
    <2> QED BY <1>1, <1>2, <1>3, <1>4, <1>5, <2>1, CloseStep
            DEF AnswerOnly, TypeOK
  <1>6. CASE SendFile(p)
    <2>1. c' = [c EXCEPT !.state = "send"] /\ c' \in Connection
      BY <1>1, <1>6 DEF SendFile, Connection
    <2>2. TypeOK' /\ OnlySigned' /\ Sane(c)'
      BY <1>1, <1>3, <1>6, <2>1 DEF SendFile, TypeOK, OnlySigned, Sane, Connection
    <2>3. ~ disturbed => Linked' /\ Tidy'
      BY <1>1, <1>2, <1>3, <1>4, <1>6, <2>1
         DEF SendFile, IInv, Linked, Tidy, Connection, TypeOK
    <2> QED BY <1>6, <2>2, <2>3 DEF IInv, Always, SendFile
  <1>7. CASE DeleteFile(p)
    <2>1. OnlySigned' /\ stored' = "absent"
      BY <1>1, <1>7 DEF DeleteFile, OnlySigned
    <2> QED BY <1>1, <1>2, <1>3, <1>4, <1>7, <2>1, CloseStep
            DEF DeleteFile, TypeOK
  <1>8. CASE ProgramFile(p)
    <2>1. fpga' \in {stored, fpga, "partial"} /\ stored' = stored /\ stored # "absent"
      BY <1>8 DEF ProgramFile
    <2>2. OnlySigned' /\ fpga' \in Contents \cup {"partial", "console"}
      BY <1>1, <1>8, <2>1 DEF ProgramFile, OnlySigned, TypeOK
    <2>3. answer' \in [to : Conns \cup {NoConn}, code : {"none", "created", "done"}]
      BY <1>1, <1>8, SaysTyped DEF ProgramFile, TypeOK
    <2> QED BY <1>1, <1>2, <1>3, <1>4, <1>8, <2>1, <2>2, <2>3, CloseStep
            DEF ProgramFile, TypeOK
  <1>9. CASE BeginPutFile(p)
    <2>1. c' = [c EXCEPT !.state = "body", !.op = "file", !.from = p,
                         !.rx = "open"]
      BY <1>1, <1>9 DEF BeginPutFile, BodyFrom, Connection
    <2>2. c' \in Connection
      BY <1>1, <2>1 DEF Connection
    <2>3. /\ c'.pcb = c.pcb /\ c'.inUse = c.inUse /\ c'.from = p
          /\ c'.state = "body" /\ c'.op = "file" /\ c'.rx = "open"
          /\ c'.spool = c.spool /\ c'.active = c.active /\ c'.done = c.done
          /\ c'.mixed = c.mixed
      BY <1>1, <2>1 DEF Connection
    <2>4. TypeOK' /\ OnlySigned'
      BY <1>1, <1>9, <2>2 DEF BeginPutFile, TypeOK, OnlySigned
    <2>5. Sane(c)'
      BY <1>3, <2>3, ConstantsAssumption DEF Sane, ConstantsAssumption
    <2>6. ~ disturbed => Linked' /\ Tidy'
      BY <1>2, <1>3, <1>4, <1>9, <2>3
         DEF BeginPutFile, IInv, Linked, Tidy, Drops
    <2> QED BY <1>9, <2>4, <2>5, <2>6 DEF IInv, Always, BeginPutFile
  <1>10. CASE BeginPutJtag(p)
    <2>1. CASE /\ c' = [BodyFrom(p, "jtag") EXCEPT !.rx = "open", !.spool = TRUE]
               /\ tmp' = TRUE /\ UNCHANGED <<jtag, fpga>>
      <3>1. c' = [c EXCEPT !.state = "body", !.op = "jtag", !.from = p,
                           !.rx = "open", !.spool = TRUE]
        BY <1>1, <2>1 DEF BodyFrom, Connection
      <3>2. c' \in Connection
        BY <1>1, <3>1 DEF Connection
      <3>3. /\ c'.pcb = c.pcb /\ c'.inUse = c.inUse /\ c'.from = p
            /\ c'.state = "body" /\ c'.op = "jtag" /\ c'.rx = "open"
            /\ c'.spool /\ c'.active = c.active /\ c'.done = c.done
            /\ c'.mixed = c.mixed
        BY <1>1, <3>1 DEF Connection
      <3>4. TypeOK' /\ OnlySigned'
        BY <1>1, <1>10, <2>1, <3>2 DEF BeginPutJtag, TypeOK, OnlySigned
      <3>5. Sane(c)'
        BY <1>3, <1>10, <2>1, <3>3, ConstantsAssumption
           DEF BeginPutJtag, Sane, ConstantsAssumption
      <3>6. ~ disturbed => Linked' /\ Tidy'
        BY <1>2, <1>3, <1>4, <1>10, <2>1, <3>3
           DEF BeginPutJtag, IInv, Linked, Tidy, Drops
      <3> QED BY <1>10, <3>4, <3>5, <3>6 DEF IInv, Always, BeginPutJtag
    <2>2. CASE /\ ~ require
               /\ c' = [BodyFrom(p, "jtag") EXCEPT !.active = TRUE]
               /\ jtag' = "shifting" /\ fpga' = "partial" /\ UNCHANGED tmp
      <3>1. c' = [c EXCEPT !.state = "body", !.op = "jtag", !.from = p,
                           !.active = TRUE]
        BY <1>1, <2>2 DEF BodyFrom, Connection
      <3>2. c' \in Connection
        BY <1>1, <3>1 DEF Connection
      <3>3. /\ c'.pcb = c.pcb /\ c'.inUse = c.inUse /\ c'.from = p
            /\ c'.state = "body" /\ c'.op = "jtag" /\ c'.rx = c.rx
            /\ c'.spool = c.spool /\ c'.active /\ c'.done = c.done
            /\ c'.mixed = c.mixed
        BY <1>1, <3>1 DEF Connection
      <3>4. TypeOK' /\ OnlySigned'
        BY <1>1, <1>10, <2>2, <3>2 DEF BeginPutJtag, TypeOK, OnlySigned
      <3>5. Sane(c)'
        BY <1>3, <1>10, <2>2, <3>3, ConstantsAssumption
           DEF BeginPutJtag, Sane, ConstantsAssumption
      <3>6. ~ disturbed => Linked' /\ Tidy'
        BY <1>2, <1>3, <1>4, <1>10, <2>2, <3>3
           DEF BeginPutJtag, IInv, Linked, Tidy, Drops
      <3> QED BY <1>10, <3>4, <3>5, <3>6 DEF IInv, Always, BeginPutJtag
    <2> QED BY <1>10, <2>1, <2>2 DEF BeginPutJtag, Spools
  <1> QED BY <1>5, <1>6, <1>7, <1>8, <1>9, <1>10 DEF Request

-----------------------------------------------------------------------------
(* The body.                                                               *)

\* A piece of the body, from whichever connection, changes of http_conn only
\* the history; until a disturbance it is from the client of the request.
LEMMA FedSane ==
  ASSUME IInv, NEW p \in Conns, BodyComes(p)
  PROVE  /\ Fed(p) \in Connection
         /\ Sane(Fed(p))
         /\ Fed(p).pcb = c.pcb /\ Fed(p).inUse = c.inUse
         /\ Fed(p).state = "body" /\ Fed(p).op = c.op /\ Fed(p).rx = c.rx
         /\ Fed(p).spool = c.spool /\ Fed(p).active = c.active
         /\ Fed(p).done = c.done /\ Fed(p).from = c.from
         /\ ~ disturbed => ~ Fed(p).mixed /\ p = c.pcb /\ p = c.from
  <1>1. c \in Connection /\ Sane(c) /\ pcb[p] = "open" /\ c.state = "body"
    BY DEF IInv, Always, TypeOK, BodyComes
  <1>2. /\ Fed(p) \in Connection
        /\ Fed(p).pcb = c.pcb /\ Fed(p).inUse = c.inUse
        /\ Fed(p).state = "body" /\ Fed(p).op = c.op /\ Fed(p).rx = c.rx
        /\ Fed(p).spool = c.spool /\ Fed(p).active = c.active
        /\ Fed(p).done = c.done /\ Fed(p).from = c.from
        /\ Fed(p).mixed = (c.mixed \/ p # c.from)
    BY <1>1 DEF Fed, Connection
  <1>3. Sane(Fed(p))
    BY <1>1, <1>2 DEF Sane
  <1>4. ASSUME ~ disturbed PROVE ~ Fed(p).mixed /\ p = c.pcb /\ p = c.from
    <2>1. p = c.pcb
      BY <1>1, <1>4, SenderIsServed
    <2>2. c.from = c.pcb /\ ~ c.mixed
      BY <1>1, <1>4 DEF IInv, Tidy
    <2> QED BY <1>2, <2>1, <2>2
  <1> QED BY <1>2, <1>3, <1>4

\* The last piece of the body, too; what takes it is either a receiver or the
\* TAP, and the bytes are those of one connection until a disturbance.
LEMMA WholeSane ==
  ASSUME IInv, NEW p \in Conns, BodyEnds(p)
  PROVE  /\ Whole(p) \in Connection
         /\ Whole(p).pcb = c.pcb /\ Whole(p).inUse = c.inUse
         /\ Whole(p).state = "body" /\ Whole(p).op = c.op /\ Whole(p).rx = c.rx
         /\ Whole(p).spool = c.spool /\ Whole(p).active = c.active
         /\ ~ disturbed => ~ Whole(p).mixed /\ p = c.pcb /\ c.pcb # NoConn
         /\ Received(Whole(p)) \subseteq Contents
         /\ ~ disturbed => "mixed" \notin Received(Whole(p))
         /\ (c.rx = "open" /\ ~ c.active) \/ (c.rx = "none" /\ c.active)
  <1>1. /\ Fed(p) \in Connection /\ Sane(c)
        /\ Fed(p).pcb = c.pcb /\ Fed(p).inUse = c.inUse
        /\ Fed(p).state = "body" /\ Fed(p).op = c.op /\ Fed(p).rx = c.rx
        /\ Fed(p).spool = c.spool /\ Fed(p).active = c.active
        /\ Fed(p).done = c.done
        /\ ~ disturbed => ~ Fed(p).mixed /\ p = c.pcb
        /\ pcb[p] = "open" /\ c.state = "body"
    BY FedSane DEF BodyEnds, BodyComes, IInv, Always
  <1>2. (c.rx = "open" /\ ~ c.active) \/ (c.rx = "none" /\ c.active)
    BY <1>1 DEF BodyEnds, Takes, Sane
  <1>3. Fed(p).done + 1 \in 0 .. BodyChunks
    BY <1>1, <1>2, ConstantsAssumption
       DEF Sane, Connection, ConstantsAssumption
  <1>4. /\ Whole(p) \in Connection
        /\ Whole(p).pcb = c.pcb /\ Whole(p).inUse = c.inUse
        /\ Whole(p).state = "body" /\ Whole(p).op = c.op /\ Whole(p).rx = c.rx
        /\ Whole(p).spool = c.spool /\ Whole(p).active = c.active
        /\ Whole(p).mixed = Fed(p).mixed
    BY <1>1, <1>3 DEF Whole, Connection
  <1>5. ~ disturbed => p = c.pcb /\ c.pcb # NoConn
    BY <1>1, SenderIsServed
  <1> QED BY <1>1, <1>2, <1>4, <1>5 DEF Received, Contents

\* A body that is given up, or not finished, preserves the invariant.
LEMMA BodyOpenStep ==
  ASSUME IInv, NEW p \in Conns, GrantExpired(p) \/ WriteFails(p) \/ BodyPiece(p)
  PROVE  IInv'
  <1>1. /\ TypeOK /\ OnlySigned /\ Sane(c) /\ c \in Connection /\ BodyComes(p)
        /\ tmp \in BOOLEAN /\ jtag \in {"idle", "shifting"}
        /\ pcb[p] = "open" /\ c.state = "body"
    BY DEF IInv, Always, TypeOK, GrantExpired, WriteFails, BodyPiece, BodyComes
  <1>2. /\ Fed(p) \in Connection /\ Sane(Fed(p))
        /\ Fed(p).pcb = c.pcb /\ Fed(p).inUse = c.inUse
        /\ Fed(p).state = "body" /\ Fed(p).op = c.op /\ Fed(p).rx = c.rx
        /\ Fed(p).spool = c.spool /\ Fed(p).active = c.active
        /\ Fed(p).done = c.done /\ Fed(p).from = c.from
        /\ ~ disturbed => ~ Fed(p).mixed /\ p = c.pcb /\ p = c.from
    BY <1>1, FedSane
  <1>3. ~ disturbed => c.pcb # NoConn
    BY <1>1, SenderIsServed
  <1>4. ~ disturbed => /\ tmp \/ c.rx = "open" => c.rx = "open" /\ Drops(c)
                       /\ jtag = "shifting" <=> c.active
                       /\ stored # "mixed"
    BY DEF IInv, Tidy
  <1>5. OnlySigned'
    BY <1>1 DEF GrantExpired, WriteFails, BodyPiece, OnlySigned
  <1>6. CASE GrantExpired(p)
    BY <1>1, <1>2, <1>3, <1>4, <1>5, <1>6, CloseStep
       DEF GrantExpired, TypeOK, Drops
  <1>7. CASE WriteFails(p)
    <2> DEFINE cc == [RxAborted(Fed(p)) EXCEPT !.active = FALSE]
    <2>1. /\ cc \in Connection
          /\ cc.pcb = c.pcb /\ cc.inUse = c.inUse /\ cc.state = "body"
          /\ cc.rx = "none" /\ ~ cc.active
      BY <1>2 DEF RxAborted, Connection
    <2>2. Sane(cc)
      BY <2>1 DEF Sane
    <2> HIDE DEF cc
    <2>3. CASE c.op = "file" \/ c.spool
      <3>1. Close(cc, FALSE, jtag)
        BY <1>7, <2>3 DEF WriteFails, cc
      <3>2. ~ disturbed => jtag # "shifting"
        BY <1>1, <1>4, <2>3 DEF Sane
      <3> QED BY <1>1, <1>3, <1>4, <1>5, <1>7, <2>1, <2>2, <3>1, <3>2, CloseStep
              DEF WriteFails, TypeOK
    <2>4. CASE ~ (c.op = "file" \/ c.spool)
      <3>1. Close(cc, tmp, "idle")
        BY <1>7, <2>4 DEF WriteFails, cc
      <3>2. ~ disturbed => ~ tmp
        BY <1>4, <2>4 DEF Drops
      <3> QED BY <1>1, <1>3, <1>4, <1>5, <1>7, <2>1, <2>2, <3>1, <3>2, CloseStep
              DEF WriteFails, TypeOK
    <2> QED BY <2>3, <2>4
  <1>8. CASE BodyPiece(p)
    <2>1. c.done + 1 \in 0 .. BodyChunks /\ c.done + 1 < BodyChunks
      BY <1>1, <1>8, ConstantsAssumption
         DEF BodyPiece, Takes, LastPiece, Sane, Connection, ConstantsAssumption
    <2>2. /\ c' \in Connection
          /\ c'.pcb = c.pcb /\ c'.inUse = c.inUse /\ c'.state = "body"
          /\ c'.op = c.op /\ c'.rx = c.rx /\ c'.spool = c.spool
          /\ c'.active = c.active /\ c'.from = c.from /\ c'.done = c.done + 1
          /\ c'.mixed = Fed(p).mixed
      BY <1>2, <1>8, <2>1 DEF BodyPiece, Connection
    <2>3. TypeOK' /\ Sane(c)'
      <3>1. TypeOK'
        BY <1>1, <1>8, <2>2 DEF BodyPiece, TypeOK
      <3>2. Sane(c)'
        BY <1>1, <1>8, <2>1, <2>2 DEF BodyPiece, Sane
      <3> QED BY <3>1, <3>2
    <2>4. ASSUME ~ disturbed PROVE Linked' /\ Tidy'
      <3>1. Linked'
        BY <1>1, <1>8, <2>2, <2>4 DEF BodyPiece, IInv, Linked
      <3>2. Tidy'
        BY <1>1, <1>2, <1>8, <2>2, <2>4 DEF BodyPiece, IInv, Tidy, Drops
      <3> QED BY <3>1, <3>2
    <2> QED BY <1>5, <1>8, <2>3, <2>4 DEF IInv, Always, BodyPiece
  <1> QED BY <1>6, <1>7, <1>8

\* finish_put preserves the invariant.
LEMMA BodyDoneStep ==
  ASSUME IInv, NEW p \in Conns,
         \/ PutRejected(p) \/ PutLost(p) \/ PutStored(p)
         \/ PutProgrammed(p) \/ PutStreamed(p)
  PROVE  IInv'
  <1>1. /\ TypeOK /\ OnlySigned /\ Sane(c) /\ c \in Connection /\ BodyEnds(p)
        /\ tmp \in BOOLEAN /\ jtag \in {"idle", "shifting"} /\ grant \in BOOLEAN
    BY DEF IInv, Always, TypeOK, PutRejected, PutLost, PutStored,
           PutProgrammed, PutStreamed
  <1>2. /\ Whole(p) \in Connection
        /\ Whole(p).pcb = c.pcb /\ Whole(p).inUse = c.inUse
        /\ Whole(p).state = "body" /\ Whole(p).op = c.op /\ Whole(p).rx = c.rx
        /\ Whole(p).spool = c.spool /\ Whole(p).active = c.active
        /\ ~ disturbed => ~ Whole(p).mixed /\ p = c.pcb /\ c.pcb # NoConn
        /\ Received(Whole(p)) \subseteq Contents
        /\ ~ disturbed => "mixed" \notin Received(Whole(p))
        /\ (c.rx = "open" /\ ~ c.active) \/ (c.rx = "none" /\ c.active)
    BY <1>1, WholeSane
  <1>3. ~ disturbed => /\ tmp => c.rx = "open"
                       /\ jtag = "shifting" <=> c.active
                       /\ stored # "mixed"
    BY DEF IInv, Tidy
  <1>4. CASE PutRejected(p)
    <2> DEFINE cc == RxAborted(Whole(p))
    <2>1. /\ cc \in Connection
          /\ cc.pcb = c.pcb /\ cc.inUse = c.inUse /\ cc.state = "body"
          /\ cc.rx = "none" /\ ~ cc.active
      BY <1>2, <1>4 DEF PutRejected, RxAborted, Connection
    <2>2. Sane(cc)
      BY <2>1 DEF Sane
    <2>3. OnlySigned' /\ Close(cc, FALSE, jtag)
      BY <1>1, <1>4 DEF PutRejected, OnlySigned
    <2>4. ~ disturbed => jtag # "shifting"
      BY <1>2, <1>3, <1>4 DEF PutRejected
    <2> HIDE DEF cc
    <2> QED BY <1>1, <1>2, <1>3, <1>4, <2>1, <2>2, <2>3, <2>4, CloseStep, ZenonT(60)
            DEF PutRejected, TypeOK
  <1>5. CASE PutLost(p)
    <2> DEFINE cc == [Whole(p) EXCEPT !.rx = "closed"]
    <2>1. /\ cc \in Connection
          /\ cc.pcb = c.pcb /\ cc.inUse = c.inUse /\ cc.state = "body"
          /\ cc.rx = "closed" /\ ~ cc.active
      BY <1>2, <1>5 DEF PutLost, Connection
    <2>2. Sane(cc)
      BY <2>1 DEF Sane
    <2>3. OnlySigned' /\ Close(cc, FALSE, jtag) /\ stored' = "absent"
      BY <1>1, <1>5 DEF PutLost, OnlySigned
    <2>4. ~ disturbed => jtag # "shifting"
      BY <1>2, <1>3, <1>5 DEF PutLost
    <2> HIDE DEF cc
    <2> QED BY <1>1, <1>2, <1>3, <1>5, <2>1, <2>2, <2>3, <2>4, CloseStep
            DEF PutLost, RenameNoticed, TypeOK
  <1>6. CASE PutStored(p)
    <2> DEFINE cc == Committed(Whole(p))
    <2>0. c.rx = "open" /\ ~ c.active
      BY <1>1, <1>2, <1>6 DEF PutStored, Sane
    <2>1. /\ cc \in Connection
          /\ cc.pcb = c.pcb /\ cc.inUse = c.inUse /\ cc.state = "body"
          /\ cc.rx = "closed" /\ ~ cc.active
      BY <1>2, <2>0 DEF Committed, Connection
    <2>2. Sane(cc)
      BY <2>1 DEF Sane
    <2>3. Close(cc, FALSE, jtag)
      BY <1>6 DEF PutStored
    <2>4. /\ stored' \in Contents /\ OnlySigned'
          /\ ~ disturbed => stored' # "mixed"
      BY <1>1, <1>2, <1>6 DEF PutStored, Verified, OnlySigned
    <2>5. answer' \in [to : Conns \cup {NoConn}, code : {"none", "created", "done"}]
      BY <1>1, <1>6, SaysTyped DEF PutStored
    <2>6. ~ disturbed => jtag # "shifting"
      BY <1>3, <2>0
    <2> HIDE DEF cc
    <2> QED BY <1>1, <1>2, <1>6, <2>1, <2>2, <2>3, <2>4, <2>5, <2>6, CloseStep
            DEF PutStored, TypeOK
  <1>7. CASE PutProgrammed(p)
    <2> DEFINE cc == Committed(Whole(p))
    <2>0. c.rx = "open" /\ ~ c.active
      BY <1>1, <1>2, <1>7 DEF PutProgrammed, Sane
    <2>1. /\ cc \in Connection
          /\ cc.pcb = c.pcb /\ cc.inUse = c.inUse /\ cc.state = "body"
          /\ cc.rx = "closed" /\ ~ cc.active
      BY <1>2, <2>0 DEF Committed, Connection
    <2>2. Sane(cc)
      BY <2>1 DEF Sane
    <2>3. PICK content \in Received(Whole(p)), j \in {jtag, "idle"} :
            /\ Verified(content) /\ stored' = content
            /\ \/ fpga' = content /\ j = "idle" /\ Says(c, "done")
               \/ fpga' = "partial" /\ j = "idle" /\ UNCHANGED answer
               \/ UNCHANGED <<fpga, answer>>
            /\ Close(Committed(Whole(p)), FALSE, j)
      BY <1>7 DEF PutProgrammed
    <2>4. Close(cc, FALSE, j) /\ j \in {"idle", "shifting"}
      BY <1>1, <2>3
    <2>5. /\ stored' \in Contents /\ fpga' \in Contents \cup {"partial", "console"}
          /\ ~ disturbed => stored' # "mixed"
      BY <1>1, <1>2, <2>3 DEF TypeOK
    <2>6. OnlySigned'
      BY <1>1, <1>7, <2>3 DEF PutProgrammed, Verified, OnlySigned
    <2>7. answer' \in [to : Conns \cup {NoConn}, code : {"none", "created", "done"}]
      BY <1>1, <2>3, SaysTyped DEF TypeOK
    <2>8. ~ disturbed => j # "shifting"
      BY <1>3, <2>0
    <2>9. grant' \in BOOLEAN /\ require' = require /\ disturbed' = disturbed
      BY <1>1, <1>7 DEF PutProgrammed
    <2> HIDE DEF cc
    <2> QED BY <1>2, <2>1, <2>2, <2>4, <2>5, <2>6, <2>7, <2>8, <2>9, CloseStep
  <1>8. CASE PutStreamed(p)
    <2> DEFINE cc == [Whole(p) EXCEPT !.active = FALSE, !.op = "none"]
    <2>0. c.rx = "none" /\ c.active /\ ~ require
      BY <1>1, <1>2, <1>8 DEF PutStreamed, Sane
    <2>1. /\ cc \in Connection
          /\ cc.pcb = c.pcb /\ cc.inUse = c.inUse /\ cc.state = "body"
          /\ cc.rx = "none" /\ ~ cc.active
      BY <1>2, <2>0 DEF Connection
    <2>2. Sane(cc)
      BY <2>1 DEF Sane
    <2>3. Close(cc, tmp, "idle")
      BY <1>8 DEF PutStreamed
    <2>4. /\ fpga' \in Contents \cup {"partial", "console"} /\ stored' = stored
          /\ require' = require /\ disturbed' = disturbed /\ grant' = grant
      BY <1>1, <1>2, <1>8 DEF PutStreamed, TypeOK
    <2>5. OnlySigned'
      BY <2>0, <2>4 DEF OnlySigned
    <2>6. answer' \in [to : Conns \cup {NoConn}, code : {"none", "created", "done"}]
      BY <1>1, <1>8, SaysTyped DEF PutStreamed
    <2>7. ~ disturbed => ~ tmp /\ cc.rx # "open"
      BY <1>3, <2>0, <2>1
    <2> HIDE DEF cc
    <2> QED BY <1>1, <1>2, <1>3, <2>1, <2>2, <2>3, <2>4, <2>5, <2>6, <2>7,
               CloseStep DEF TypeOK
  <1> QED BY <1>4, <1>5, <1>6, <1>7, <1>8

-----------------------------------------------------------------------------
(* The other steps, and the theorems.                                      *)

\* The other callbacks of lwIP, the command loop and the write grant preserve
\* the invariant.
LEMMA OtherStep ==
  ASSUME IInv,
         \/ \E p \in Conns :
              ClientCloses(p) \/ Progress(p) \/ Error(p) \/ Freed(p)
         \/ ConsoleUsesTap \/ GrantChanges \/ UNCHANGED vars
  PROVE  IInv'
  <1>1. /\ TypeOK /\ OnlySigned /\ Sane(c) /\ c \in Connection
        /\ tmp \in BOOLEAN /\ jtag \in {"idle", "shifting"}
        /\ grant \in BOOLEAN /\ pcb \in [Conns -> ConnStates]
    BY DEF IInv, Always, TypeOK, ConnStates
  <1>2. ASSUME NEW p \in Conns, ClientCloses(p) PROVE IInv'
    <2>1. OnlySigned'
      BY <1>1, <1>2 DEF ClientCloses, OnlySigned
    <2>2. ~ disturbed => /\ c.pcb # NoConn /\ stored # "mixed"
                         /\ tmp \/ c.rx = "open" => Drops(c)
                         /\ jtag = "shifting" => c.active
      BY <1>2, SenderIsServed DEF ClientCloses, IInv, Tidy
    <2> QED BY <1>1, <1>2, <2>1, <2>2, CloseStep DEF ClientCloses, TypeOK
  <1>3. ASSUME NEW p \in Conns, Progress(p) PROVE IInv'
    <2>1. OnlySigned'
      BY <1>1, <1>3 DEF Progress, OnlySigned
    <2>2. ~ disturbed => /\ c.pcb # NoConn /\ stored # "mixed"
                         /\ tmp \/ c.rx = "open" => Drops(c)
                         /\ jtag = "shifting" => c.active
      BY <1>3 DEF Progress, IInv, Linked, Tidy
    <2> QED BY <1>1, <1>3, <2>1, <2>2, CloseStep DEF Progress, TypeOK
  <1>4. ASSUME NEW p \in Conns, Error(p) PROVE IInv'
    <2>1. c' = Cleared /\ pcb' = [pcb EXCEPT ![p] = "free"]
      BY <1>4 DEF Error
    <2>2. /\ c' \in Connection
          /\ c'.pcb = NoConn /\ ~ c'.inUse /\ c'.state = "headers"
          /\ c'.op = "none" /\ ~ c'.spool /\ ~ c'.active /\ c'.rx = "none"
          /\ c'.done = 0 /\ ~ c'.mixed
      BY <2>1, ConstantsAssumption DEF Cleared, Connection, ConstantsAssumption
    <2>3. TypeOK' /\ OnlySigned' /\ Sane(c)'
      <3>1. TypeOK'
        BY <1>1, <1>4, <2>1, <2>2 DEF Error, TypeOK, ConnStates
      <3>2. OnlySigned'
        BY <1>1, <1>4 DEF Error, OnlySigned
      <3>3. Sane(c)'
        BY <2>2 DEF Sane
      <3> QED BY <3>1, <3>2, <3>3
    <2>4. ASSUME ~ disturbed' PROVE Linked' /\ Tidy'
      <3>1. ~ disturbed /\ (c.inUse => p = c.pcb)
        BY <1>1, <1>4, <2>4 DEF Error, TypeOK
      <3>2. \A q \in Conns : pcb'[q] \notin {"open", "muted"}
        BY <1>1, <2>1, <3>1, ConstantsAssumption
           DEF IInv, Linked, ConstantsAssumption
      <3>3. ~ tmp' /\ jtag' = "idle" /\ stored' # "mixed"
        BY <1>1, <1>4, <3>1 DEF Error, IInv, Tidy, Drops
      <3> QED BY <2>2, <3>2, <3>3 DEF Linked, Tidy
    <2> QED BY <2>3, <2>4 DEF IInv, Always
  <1>5. ASSUME NEW p \in Conns, Freed(p) PROVE IInv'
    <2>1. TypeOK' /\ OnlySigned' /\ Sane(c)'
      BY <1>1, <1>5 DEF Freed, TypeOK, OnlySigned, Sane
    <2>2. ~ disturbed => Linked' /\ Tidy'
      BY <1>1, <1>5 DEF Freed, IInv, Linked, Tidy, Drops
    <2> QED BY <1>5, <2>1, <2>2 DEF Freed, IInv, Always
  <1>6. CASE ConsoleUsesTap
    <2>1. TypeOK' /\ OnlySigned' /\ Sane(c)'
      <3>1. disturbed' \in BOOLEAN
        BY <1>1, <1>6 DEF ConsoleUsesTap, TypeOK, Connection
      <3>2. TypeOK'
        BY <1>1, <1>6, <3>1 DEF ConsoleUsesTap, TypeOK
      <3>3. OnlySigned'
        BY <1>1, <1>6 DEF ConsoleUsesTap, OnlySigned
      <3>4. Sane(c)'
        BY <1>1, <1>6 DEF ConsoleUsesTap, Sane
      <3> QED BY <3>2, <3>3, <3>4
    <2>2. ASSUME ~ disturbed' PROVE Linked' /\ Tidy'
      <3>1. ~ disturbed /\ ~ c.active
        BY <1>6, <2>2 DEF ConsoleUsesTap
      <3> QED BY <1>6, <3>1 DEF ConsoleUsesTap, IInv, Linked, Tidy, Drops
    <2> QED BY <2>1, <2>2 DEF IInv, Always
  <1>7. CASE GrantChanges
    <2>1. TypeOK' /\ OnlySigned' /\ Sane(c)'
      BY <1>1, <1>7 DEF GrantChanges, TypeOK, OnlySigned, Sane
    <2>2. ~ disturbed => Linked' /\ Tidy'
      BY <1>7 DEF GrantChanges, IInv, Linked, Tidy, Drops
    <2> QED BY <1>7, <2>1, <2>2 DEF GrantChanges, IInv, Always
  <1>8. CASE UNCHANGED vars
    <2>1. TypeOK' /\ OnlySigned' /\ Sane(c)'
      BY <1>1, <1>8 DEF vars, TypeOK, OnlySigned, Sane
    <2>2. ~ disturbed => Linked' /\ Tidy'
      BY <1>8 DEF vars, IInv, Linked, Tidy, Drops
    <2> QED BY <1>8, <2>1, <2>2 DEF vars, IInv, Always
  <1> QED BY <1>2, <1>3, <1>4, <1>5, <1>6, <1>7, <1>8

\* The state after power up satisfies the invariant.
LEMMA InitInvariant == Init => IInv
  <1> SUFFICES ASSUME Init PROVE IInv
    OBVIOUS
  <1>1. /\ c \in Connection
        /\ c.pcb = NoConn /\ ~ c.inUse /\ c.state = "headers"
        /\ c.op = "none" /\ ~ c.spool /\ ~ c.active /\ c.rx = "none"
        /\ c.done = 0 /\ ~ c.mixed
    BY ConstantsAssumption DEF Init, Cleared, Connection, ConstantsAssumption
  <1>2. TypeOK
    BY <1>1 DEF Init, TypeOK, NoAnswer, Contents
  <1>3. OnlySigned /\ Sane(c)
    BY <1>1 DEF Init, OnlySigned, Sane
  <1>4. Linked /\ Tidy
    BY <1>1 DEF Init, Linked, Tidy
  <1> QED BY <1>2, <1>3, <1>4 DEF IInv, Always

\* Every step of the server preserves the invariant.
LEMMA NextInvariant == IInv /\ [Next]_vars => IInv'
  <1> SUFFICES ASSUME IInv, [Next]_vars PROVE IInv'
    OBVIOUS
  <1>1. ASSUME NEW p \in Conns, Body(p) PROVE IInv'
    BY <1>1, BodyOpenStep, BodyDoneStep DEF Body
  <1> QED BY <1>1, AcceptStep, RequestStep, OtherStep DEF Next

\* The invariant holds in every reachable state.
THEOREM Invariant == Spec => []IInv
  <1> QED BY InitInvariant, NextInvariant, PTL DEF Spec

\* remote_http.c keeps http_conn and what it owns within their types for every
\* number of connections and every length of body.
THEOREM TypeCorrect == Spec => []TypeOK
  <1>1. IInv => TypeOK
    BY DEF IInv, Always
  <1> QED BY <1>1, Invariant, PTL

\* With signatures required no unsigned byte is stored or programmed, whatever
\* connections, errors, grants and console commands do.
THEOREM SignaturesKept == Spec => []OnlySigned
  <1>1. IInv => OnlySigned
    BY DEF IInv, Always
  <1> QED BY <1>1, Invariant, PTL

\* Until an error of an old connection meets a new one, only the connection
\* http_conn names can send.
THEOREM OneAtATime == Spec => []OneServed
  <1>1. IInv => OneServed
    BY DEF IInv, Linked, OneServed
  <1> QED BY <1>1, Invariant, PTL

\* However a request ends, its temporary, its handle and its shift end with it.
THEOREM RequestsCleanUp == Spec => []NothingLeft
  <1>1. ASSUME IInv, ~ disturbed, c.state \in {"headers", "closing", "closed"}
        PROVE  ~ tmp /\ c.rx # "open" /\ jtag = "idle"
    <2>1. ~ Drops(c) /\ ~ c.active
      BY <1>1 DEF IInv, Always, Sane, Drops
    <2> QED BY <1>1, <2>1 DEF IInv, Always, TypeOK, Tidy
  <1>2. IInv => NothingLeft
    BY <1>1 DEF NothingLeft
  <1> QED BY <1>2, Invariant, PTL

\* What http_close leaves of an idle TAP is an idle TAP.
LEMMA CloseIdle ==
  ASSUME NEW cc, NEW t, Close(cc, t, "idle")
  PROVE  jtag' = "idle"
  BY DEF Close

\* A success is told only of the whole of what its client sent.
THEOREM SuccessesAreTrue == Spec => SuccessIsTrue
  <1>1. ASSUME IInv, [Next]_vars PROVE [SuccessStep]_vars
    <2> SUFFICES ASSUME ~ disturbed, answer' # answer
                 PROVE  /\ answer'.code = "created" =>
                             /\ stored' \in {"signed", "unsigned"}
                             /\ c.from = answer'.to
                        /\ answer'.code = "done" =>
                             /\ fpga' \in {"prev", "signed", "unsigned"}
                             /\ jtag' = "idle"
      BY DEF SuccessStep
    <2>1. /\ stored \in Contents \cup {"absent"} /\ stored # "mixed"
          /\ jtag \in {"idle", "shifting"} /\ (jtag = "shifting" <=> c.active)
      BY <1>1 DEF IInv, Always, TypeOK, Tidy
    <2>2. ASSUME NEW p \in Conns, BodyEnds(p)
          PROVE  /\ Received(Whole(p)) \subseteq {"signed", "unsigned"}
                 /\ c.from = c.pcb
      <3>1. "mixed" \notin Received(Whole(p))
        BY <1>1, <2>2, WholeSane
      <3>2. c.from = c.pcb
        BY <1>1, <2>2 DEF BodyEnds, BodyComes, IInv, Tidy
      <3> QED BY <3>1, <3>2 DEF Received
    <2>3. CASE \E p \in Conns : Accept(p)
      BY <2>3 DEF Accept, NoAnswer
    <2>4. CASE \E p \in Conns : ProgramFile(p)
      <3>1. /\ fpga' = stored /\ stored # "absent"
            /\ answer' = [to |-> c.pcb, code |-> "done"]
        BY <2>4 DEF ProgramFile, Says
      <3>2. jtag' = "idle"
        BY <2>4, CloseIdle DEF ProgramFile
      <3> QED BY <2>1, <3>1, <3>2 DEF Contents
    <2>5. CASE \E p \in Conns : PutStored(p)
      <3>1. PICK p \in Conns : PutStored(p)
        BY <2>5
      <3>2. answer' = [to |-> c.pcb, code |-> "created"]
        BY <3>1 DEF PutStored, Says
      <3> QED BY <2>2, <3>1, <3>2 DEF PutStored
    <2>6. CASE \E p \in Conns : PutProgrammed(p)
      <3>1. PICK p \in Conns : PutProgrammed(p)
        BY <2>6
      <3>2. PICK content \in Received(Whole(p)) :
              /\ fpga' = content /\ Says(c, "done")
              /\ Close(Committed(Whole(p)), FALSE, "idle")
        BY <3>1 DEF PutProgrammed
      <3>3. answer' = [to |-> c.pcb, code |-> "done"]
        BY <3>2 DEF Says
      <3>4. jtag' = "idle"
        BY <3>2, CloseIdle
      <3> QED BY <2>2, <3>1, <3>2, <3>3, <3>4 DEF PutProgrammed
    <2>7. CASE \E p \in Conns : PutStreamed(p)
      <3>1. PICK p \in Conns : PutStreamed(p)
        BY <2>7
      <3>2. answer' = [to |-> c.pcb, code |-> "done"]
        BY <3>1 DEF PutStreamed, Says
      <3>3. fpga' \in {"signed", "unsigned"}
        BY <2>1, <2>2, <3>1 DEF PutStreamed
      <3>4. jtag' = "idle"
        BY <3>1, CloseIdle DEF PutStreamed
      <3> QED BY <3>2, <3>3, <3>4
    <2>8. ASSUME NEW p \in Conns,
                 \/ AnswerOnly(p) \/ SendFile(p) \/ DeleteFile(p)
                 \/ BeginPutFile(p) \/ BeginPutJtag(p) \/ GrantExpired(p)
                 \/ WriteFails(p) \/ BodyPiece(p) \/ PutRejected(p) \/ PutLost(p)
                 \/ ClientCloses(p) \/ Progress(p) \/ Error(p) \/ Freed(p)
          PROVE  FALSE
      BY <2>8 DEF AnswerOnly, SendFile, DeleteFile, BeginPutFile, BeginPutJtag,
           GrantExpired, WriteFails, BodyPiece, PutRejected, PutLost,
           RenameNoticed, ClientCloses, Progress, Error, Freed
    <2>9. ~ ConsoleUsesTap /\ ~ GrantChanges /\ ~ UNCHANGED vars
      BY DEF ConsoleUsesTap, GrantChanges, vars
    <2> QED BY <1>1, <2>3, <2>4, <2>5, <2>6, <2>7, <2>8, <2>9
            DEF Next, Request, Body
  <1> QED BY <1>1, Invariant, PTL DEF Spec, SuccessIsTrue


-----------------------------------------------------------------------------
(* The queue of downloads, which the same source file keeps: its safety      *)
(* properties for every depth and every range of numbers.  Together they are *)
(* inductive.                                                              *)

QueueInv == QueueTypeOK /\ OneRunning /\ NumbersDistinct

JobStates == {"empty", "queued", "running", "done", "failed"}

\* The first entry a loop over the table finds exists and is the least.
LEMMA LeastIsLeast ==
  ASSUME NEW S \in SUBSET Nat, S # {}
  PROVE  Least(S) \in S /\ \A j \in S : Least(S) <= j
  <1>1. \E i \in S : \A j \in S : <<j, i>> \notin OpToRel(<, Nat)
    BY NatLessThanWellFounded, WFMin
  <1>2. \A i, j \in Nat : <<j, i>> \notin OpToRel(<, Nat) => i <= j
    BY DEF OpToRel
  <1>3. \E i \in S : \A j \in S : i <= j
    BY <1>1, <1>2
  <1> QED BY <1>3 DEF Least

\* -1 is not an index of the table.
LEMMA NoneIsNoJob == None \notin Jobs /\ Jobs \subseteq Nat
  BY QueueAssumption DEF None, Jobs, QueueAssumption

-----------------------------------------------------------------------------
(* Starting a job.                                                         *)

\* A table in which nothing runs stays in order when a queued job of it is
\* started or cannot be started, and no job becomes pending by it.
LEMMA StartJobStep ==
  ASSUME NEW js \in [Jobs -> JobStates], \A j \in Jobs : js[j] # "running",
         NEW i \in Jobs, js[i] = "queued", StartJob(i, js)
  PROVE  /\ job' \in [Jobs -> JobStates]
         /\ active' \in Jobs \cup {None}
         /\ fetch' \in {"none", "busy"}
         /\ OneRunning'
         /\ \A j \in Jobs : job'[j] \in {"queued", "running"}
                              => js[j] \in {"queued", "running"}
  <1>1. CASE /\ job' = [js EXCEPT ![i] = "running"]
             /\ active' = i /\ fetch' = "busy"
    BY <1>1, NoneIsNoJob DEF OneRunning, JobStates
  <1>2. CASE /\ job' = [js EXCEPT ![i] = "failed"]
             /\ active' = None /\ fetch' = "none"
    BY <1>2, NoneIsNoJob DEF OneRunning, JobStates
  <1> QED BY <1>1, <1>2 DEF StartJob

\* download_start_next_job keeps the table in order.
LEMMA StartNextStep ==
  ASSUME NEW js \in [Jobs -> JobStates], \A j \in Jobs : js[j] # "running",
         StartNext(js)
  PROVE  /\ job' \in [Jobs -> JobStates]
         /\ active' \in Jobs \cup {None}
         /\ fetch' \in {"none", "busy"}
         /\ OneRunning'
         /\ \A j \in Jobs : job'[j] \in {"queued", "running"}
                              => js[j] \in {"queued", "running"}
  <1> DEFINE queued == {i \in Jobs : js[i] = "queued"}
  <1>1. CASE queued = {}
    BY <1>1, NoneIsNoJob DEF StartNext, OneRunning
  <1>2. CASE queued # {}
    <2>1. Least(queued) \in queued
      BY <1>2, NoneIsNoJob, LeastIsLeast
    <2>2. StartJob(Least(queued), js)
      BY <1>2 DEF StartNext
    <2> QED BY <2>1, <2>2, StartJobStep
  <1> QED BY <1>1, <1>2

\* Numbers stay distinct when no number changes and no job becomes pending.
LEMMA FewerPending ==
  ASSUME NumbersDistinct, UNCHANGED number,
         \A j \in Jobs : job'[j] \in {"queued", "running"}
                           => job[j] \in {"queued", "running"}
  PROVE  NumbersDistinct'
  BY DEF NumbersDistinct, Pending

-----------------------------------------------------------------------------
(* The actions.                                                            *)

\* A request puts a number no pending job owns into an entry that is free.
LEMMA EnqueueStep ==
  ASSUME QueueInv, NEW n \in NumberSet, n \notin InUse, Enqueue(n)
  PROVE  /\ job' \in [Jobs -> JobStates] /\ number' \in [Jobs -> NumberSet]
         /\ active' \in Jobs \cup {None}
         /\ fetch' \in {"none", "busy", "done", "failed"}
         /\ requests' \in 0 .. MaxRequests
         /\ OneRunning' /\ NumbersDistinct'
  <1> DEFINE f == FreeJob
             js == [job EXCEPT ![f] = "queued"]
  <1>1. /\ job \in [Jobs -> JobStates] /\ number \in [Jobs -> NumberSet]
        /\ active \in Jobs \cup {None} /\ fetch \in {"none", "busy", "done", "failed"}
        /\ requests \in 0 .. MaxRequests
        /\ \A i \in Jobs : job[i] = "running" <=> i = active
        /\ \A i, j \in Pending : number[i] = number[j] => i = j
    BY DEF QueueInv, QueueTypeOK, OneRunning, NumbersDistinct, JobStates
  <1>2. f \in Jobs /\ job[f] \notin {"queued", "running"}
    <2>1. FreeJobs \in SUBSET Nat /\ FreeJobs # {}
      BY NoneIsNoJob DEF Enqueue, FreeJobs
    <2>2. f \in FreeJobs
      BY <2>1, LeastIsLeast DEF FreeJob
    <2> QED BY <2>2 DEF FreeJobs
  <1>3. /\ number' = [number EXCEPT ![f] = n]
        /\ requests < MaxRequests /\ requests' = requests + 1
        /\ \/ active = None /\ StartJob(f, js)
           \/ active # None /\ job' = js /\ UNCHANGED <<active, fetch>>
    BY DEF Enqueue
  <1> HIDE DEF f
  <1>4. js \in [Jobs -> JobStates] /\ js[f] = "queued"
    BY <1>1, <1>2 DEF JobStates
  <1>5. /\ job' \in [Jobs -> JobStates]
        /\ active' \in Jobs \cup {None}
        /\ fetch' \in {"none", "busy", "done", "failed"}
        /\ OneRunning'
        /\ \A j \in Jobs : job'[j] \in {"queued", "running"}
                             => js[j] \in {"queued", "running"}
    <2>1. CASE active = None /\ StartJob(f, js)
      <3>1. \A j \in Jobs : js[j] # "running"
        BY <1>1, <1>2, <2>1, NoneIsNoJob
      <3> QED BY <1>2, <1>4, <2>1, <3>1, StartJobStep
    <2>2. CASE active # None /\ job' = js /\ UNCHANGED <<active, fetch>>
      BY <1>1, <1>2, <1>4, <2>2 DEF OneRunning, QueueInv
    <2> QED BY <1>3, <2>1, <2>2
  <1>6. NumbersDistinct'
    <2> SUFFICES ASSUME NEW i \in Jobs, NEW j \in Jobs,
                        job'[i] \in {"queued", "running"},
                        job'[j] \in {"queued", "running"},
                        number'[i] = number'[j]
                 PROVE  i = j
      BY DEF NumbersDistinct, Pending
    <2>1. i # f => i \in Pending /\ number'[i] = number[i] /\ number[i] # n
      BY <1>1, <1>2, <1>3, <1>5 DEF Pending, InUse
    <2>2. j # f => j \in Pending /\ number'[j] = number[j] /\ number[j] # n
      BY <1>1, <1>2, <1>3, <1>5 DEF Pending, InUse
    <2>3. number'[f] = n
      BY <1>1, <1>2, <1>3
    <2> QED BY <1>1, <2>1, <2>2, <2>3
  <1>7. number' \in [Jobs -> NumberSet]
    BY <1>1, <1>3
  <1>8. requests' \in 0 .. MaxRequests
    BY <1>1, <1>3, QueueAssumption DEF QueueAssumption
  <1> QED BY <1>5, <1>6, <1>7, <1>8

\* The numbers stay in their range.
LEMMA NumbersWrap ==
  ASSUME NEW a \in Nat
  PROVE  a % Numbers \in NumberSet
  BY QueueAssumption DEF NumberSet, QueueAssumption

\* Both forms of AT+FETCH keep the invariant.
LEMMA AskStep ==
  ASSUME QueueInv, RequestAny \/ RequestNumber
  PROVE  QueueInv'
  <1>1. next \in NumberSet /\ NumberSet \subseteq Nat
    BY QueueAssumption
       DEF QueueInv, QueueTypeOK, NumberSet, QueueAssumption
  <1>2. CASE RequestNumber
    <2>1. PICK n \in NumberSet : n \notin InUse /\ Enqueue(n)
      BY <1>2 DEF RequestNumber, FreeNumber
    <2>2. UNCHANGED <<next, granted>>
      BY <1>2 DEF RequestNumber
    <2> QED BY <2>1, <2>2, EnqueueStep DEF QueueInv, QueueTypeOK, JobStates
  <1>3. CASE RequestAny
    <2>1. Least(FreeSteps) \in FreeSteps
      <3>1. FreeSteps \in SUBSET Nat /\ FreeSteps # {}
        BY <1>1, <1>3 DEF RequestAny, FreeSteps
      <3> QED BY <3>1, LeastIsLeast
    <2>2. Least(FreeSteps) \in NumberSet /\ NextNumber \notin InUse
      BY <2>1 DEF FreeSteps, FreeNumber, NextNumber
    <2>3. NextNumber \in NumberSet /\ (NextNumber + 1) % Numbers \in NumberSet
      <3>1. next + Least(FreeSteps) \in Nat
        <4>1. next \in Nat /\ Least(FreeSteps) \in Nat
          BY <1>1, <2>2
        <4> QED BY <4>1
      <3>2. NextNumber \in NumberSet
        BY <3>1, NumbersWrap DEF NextNumber
      <3>3. NextNumber \in Nat
        BY <1>1, <3>2
      <3>4. NextNumber + 1 \in Nat
        BY <3>3
      <3> QED BY <3>2, <3>4, NumbersWrap
    <2>4. next' \in NumberSet /\ UNCHANGED granted
      BY <1>3, <2>3 DEF RequestAny
    <2>5. CASE Enqueue(NextNumber)
      BY <2>2, <2>3, <2>4, <2>5, EnqueueStep DEF QueueInv, QueueTypeOK, JobStates
    <2>6. CASE UNCHANGED <<job, number, active, fetch, requests>>
      BY <2>4, <2>6
         DEF QueueInv, QueueTypeOK, OneRunning, NumbersDistinct, Pending
    <2> QED BY <1>3, <2>5, <2>6 DEF RequestAny
  <1> QED BY <1>2, <1>3

\* remote_http_download_poll keeps the invariant.
LEMMA PollStep ==
  ASSUME QueueInv, Poll
  PROVE  QueueInv'
  <1>1. /\ job \in [Jobs -> JobStates] /\ active \in Jobs \cup {None}
        /\ \A i \in Jobs : job[i] = "running" <=> i = active
        /\ UNCHANGED <<number, next, granted, requests>>
    BY DEF QueueInv, QueueTypeOK, OneRunning, JobStates, Poll
  <1>2. PICK js \in [Jobs -> JobStates] :
          /\ \A j \in Jobs : js[j] # "running"
          /\ \A j \in Jobs : js[j] \in {"queued", "running"}
                               => job[j] \in {"queued", "running"}
          /\ StartNext(js)
    <2>1. ASSUME active # None, NEW s \in {"done", "failed"},
                 StartNext([job EXCEPT ![active] = s])
          PROVE  \E js \in [Jobs -> JobStates] :
                   /\ \A j \in Jobs : js[j] # "running"
                   /\ \A j \in Jobs : js[j] \in {"queued", "running"}
                                        => job[j] \in {"queued", "running"}
                   /\ StartNext(js)
      <3>1. [job EXCEPT ![active] = s] \in [Jobs -> JobStates]
        BY <1>1, <2>1 DEF JobStates
      <3>2. \A j \in Jobs :
              /\ [job EXCEPT ![active] = s][j] # "running"
              /\ [job EXCEPT ![active] = s][j] \in {"queued", "running"}
                   => job[j] \in {"queued", "running"}
        BY <1>1, <2>1
      <3> QED BY <2>1, <3>1, <3>2
    <2>2. CASE active = None /\ StartNext(job)
      BY <1>1, <2>2, NoneIsNoJob
    <2> QED BY <2>1, <2>2 DEF Poll
  <1>3. /\ job' \in [Jobs -> JobStates]
        /\ active' \in Jobs \cup {None}
        /\ fetch' \in {"none", "busy"}
        /\ OneRunning'
        /\ \A j \in Jobs : job'[j] \in {"queued", "running"}
                             => job[j] \in {"queued", "running"}
    BY <1>2, StartNextStep
  <1>4. NumbersDistinct'
    BY <1>1, <1>3, FewerPending DEF QueueInv
  <1> QED BY <1>1, <1>3, <1>4 DEF QueueInv, QueueTypeOK, JobStates

\* The end of a fetch and the switch keep the invariant.
LEMMA OtherSteps ==
  ASSUME QueueInv, FetchEnds \/ SwitchMoves \/ UNCHANGED queueVars
  PROVE  QueueInv'
  <1>1. /\ UNCHANGED <<job, number, active, next, requests>>
        /\ \/ UNCHANGED fetch
           \/ fetch = "busy" /\ fetch' \in {"done", "failed"}
        /\ granted' \in BOOLEAN
    <2>1. granted \in BOOLEAN
      BY DEF QueueInv, QueueTypeOK
    <2> QED BY <2>1 DEF FetchEnds, SwitchMoves, queueVars
  <1> QED BY <1>1 DEF QueueInv, QueueTypeOK, OneRunning, NumbersDistinct, Pending

-----------------------------------------------------------------------------

\* The invariant holds of the empty table.
LEMMA QueueInitHolds == QueueInit => QueueInv
  <1> SUFFICES ASSUME QueueInit PROVE QueueInv
    OBVIOUS
  <1>1. 0 \in NumberSet /\ 0 \in 0 .. MaxRequests
    BY QueueAssumption DEF NumberSet, QueueAssumption
  <1> QED BY <1>1, NoneIsNoJob
          DEF QueueInit, QueueInv, QueueTypeOK, OneRunning, NumbersDistinct, Pending

\* Every step keeps the invariant.
LEMMA QueueNextKeeps == QueueInv /\ [QueueNext]_queueVars => QueueInv'
  BY AskStep, PollStep, OtherSteps DEF QueueNext

\* The three properties hold together, and only together are inductive: a free
\* number is chosen by the pending jobs, and what is pending by what runs.
THEOREM QueueInvariance == QueueSpec => []QueueInv
  BY QueueInitHolds, QueueNextKeeps, PTL DEF QueueSpec

\* Every entry keeps its type: the numbers wrap within their range however
\* many requests there are (QueueTypeOK of the run).
THEOREM QueueTypeCorrect == QueueSpec => []QueueTypeOK
  <1>1. QueueInv => QueueTypeOK
    BY DEF QueueInv
  <1> QED BY <1>1, QueueInvariance, PTL

\* One download context never serves two jobs, and a job is not marked as
\* running without it (OneRunning of the run).
THEOREM OneJobRuns == QueueSpec => []OneRunning
  <1>1. QueueInv => OneRunning
    BY DEF QueueInv
  <1> QED BY <1>1, QueueInvariance, PTL

\* Two jobs that wait or run never own the same file, even after the number
\* has wrapped (NumbersDistinct of the run).
THEOREM FilesAreDistinct == QueueSpec => []NumbersDistinct
  <1>1. QueueInv => NumbersDistinct
    BY DEF QueueInv
  <1> QED BY <1>1, QueueInvariance, PTL

=============================================================================

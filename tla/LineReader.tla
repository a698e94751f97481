----------------------------- MODULE LineReader -----------------------------
(***************************************************************************)
(* The two command ports, src/src/uart_cmd.c, and the loop of              *)
(* src/src/main.c that runs the lines they bring.  Each port has its own   *)
(* position, and both write main's one line buffer.  A command that takes  *)
(* binary data reads it from the port its line came from, past the reader  *)
(* of lines.                                                               *)
(***************************************************************************)
EXTENDS Integers, SequencesExt

CONSTANTS
  Letters,     \* characters of commands
  Bulk,        \* the letter that is the name of a command with data
  LineMax,     \* characters of a line that fit, sizeof line - 1
  Payload,     \* bytes of data that the command takes
  ChunkMax,    \* characters that the USB port gives at once; 128 in the code
  FifoMax,     \* bound on characters that wait in a port
  MaxTyped     \* bound on characters that the two hosts type

Ports == {"uart", "usb"}
Ends == {"cr", "lf"}
Edits == {"back", "kill"}
Data == {"data"}
Chars == Letters \cup Ends \cup Edits \cup Data
Other(p) == IF p = "uart" THEN "usb" ELSE "uart"

ASSUME ReaderAssumption ==
  /\ Bulk \in Letters /\ Letters \cap (Ends \cup Edits \cup Data) = {}
  /\ LineMax \in Nat \ {0} /\ Payload \in Nat \ {0}
  /\ ChunkMax \in Nat \ {0}
  /\ FifoMax \in Nat \ {0} /\ MaxTyped \in Nat

VARIABLES
  fifo,     \* what each port has received and the program not read
  port,     \* position and last_was_cr of each port
  buf,      \* main's line
  source,   \* last_cmd_source
  wanted,   \* bytes of data that the command in progress still waits for
  got,      \* those it has read
  host,     \* what each host still has to send of its data
  typed,    \* characters typed so far
  own,      \* history of each port: the characters of its unfinished line, and
            \* what befell it
  last      \* history: the line that the last step has run

vars == <<fifo, port, buf, source, wanted, got, host, typed, own, last>>

\* What may befall a line: it was too long, the other port wrote into it, or
\* characters of it were lost with a chunk.  What may befall data: the host
\* typed on before it was told READY, or the command was broken off.
Fresh == [raw |-> <<>>, long |-> FALSE, spoiled |-> FALSE, lost |-> FALSE]
NoLine == [line |-> <<>>, port |-> "uart", own |-> Fresh]
NoData == [left |-> 0, ahead |-> FALSE, broken |-> FALSE]

Init ==
  /\ fifo = [p \in Ports |-> <<>>]
  /\ port = [p \in Ports |-> [pos |-> 0, cr |-> FALSE]]
  /\ buf = [i \in 0 .. LineMax |-> "lf"]
  /\ source = "uart" /\ wanted = 0 /\ got = <<>>
  /\ host = [p \in Ports |-> NoData] /\ typed = 0
  /\ own = [p \in Ports |-> Fresh]
  /\ last = NoLine

-----------------------------------------------------------------------------
(* The hosts.                                                              *)

\* A host that has begun to send data sends it to its end.
HostTypes(p, ch) ==
  /\ Len(fifo[p]) < FifoMax /\ typed < MaxTyped
  /\ host[p].left \in {0, Payload}
  /\ fifo' = [fifo EXCEPT ![p] = Append(@, ch)]
  /\ typed' = typed + 1
  /\ host' = [host EXCEPT ![p].ahead = @ \/ host[p].left > 0]
  /\ last' = NoLine /\ UNCHANGED <<port, buf, source, wanted, got, own>>

\* A host that was told READY sends the data, or stops when the command was
\* broken off.
HostSends(p) ==
  /\ host[p].left > 0
  /\ \/ /\ Len(fifo[p]) < FifoMax
        /\ fifo' = [fifo EXCEPT ![p] = Append(@, "data")]
        /\ host' = [host EXCEPT ![p].left = @ - 1]
     \/ /\ host[p].broken
        /\ host' = [host EXCEPT ![p].left = 0]
        /\ UNCHANGED fifo
  /\ last' = NoLine /\ UNCHANGED <<port, buf, source, wanted, got, typed, own>>

-----------------------------------------------------------------------------
(* Reading a line.                                                         *)

\* The reader in the middle of its input.
Reader == [port |-> port, buf |-> buf, own |-> own, ready |-> "none",
           was |-> Fresh]

\* Port p writes a character at i; it may belong to the line of the other.
Put(s, p, i, ch) ==
  [s EXCEPT !.buf[i] = ch,
            !.own[Other(p)].spoiled = @ \/ i < s.port[Other(p)].pos]

\* The line is complete.  Running it cuts it into words where it stands, and
\* with it what the other port has typed of its own.
LineEnd(s, p) ==
  [Put(s, p, s.port[p].pos, "lf") EXCEPT
     !.port[p].pos = 0, !.ready = p, !.own[p] = Fresh, !.was = s.own[p],
     !.own[Other(p)].spoiled = @ \/ s.port[Other(p)].pos > 0]

\* Mutant: a position that overflows stays where it is.
OverflowCut(s, p) == [s EXCEPT !.own[p].long = TRUE]

Overflow(s, p) == [s EXCEPT !.port[p].pos = 0, !.own[p].long = TRUE]

HasRoom(pos) == pos < LineMax

\* feed_line_char
Feed(s0, p, ch) ==
  LET s == [s0 EXCEPT !.port[p].cr = (ch = "cr"),
                      !.own[p].raw = Append(@, ch)]
      pos == s.port[p].pos
  IN CASE ch = "lf" /\ s0.port[p].cr -> [s0 EXCEPT !.port[p].cr = FALSE]
       [] ch \in Ends /\ ~ (ch = "lf" /\ s0.port[p].cr) -> LineEnd(s, p)
       [] ch = "back" -> IF pos > 0 THEN [s EXCEPT !.port[p].pos = @ - 1] ELSE s
       [] ch = "kill" -> [s EXCEPT !.port[p].pos = 0]
       [] ch \in Letters \cup Data ->
            IF HasRoom(pos)
              THEN [Put(s, p, pos, ch) EXCEPT !.port[p].pos = @ + 1]
              ELSE Overflow(s, p)

\* What has the line in the buffer up to its first end.
InBuffer(b) ==
  LET end == CHOOSE i \in 0 .. LineMax :
               b[i] \in Ends /\ \A j \in 0 .. i - 1 : b[j] \notin Ends
  IN [i \in 1 .. end |-> b[i - 1]]

\* Mutant: the port is noted when the next line comes.
SourceKept(p) == source

\* last_cmd_source
SourceOf(p) == p

\* dispatch: a line that is not blank is run; the command with data answers
\* READY and waits for it.
Dispatched(s, rest) ==
  LET p == s.ready
      line == InBuffer(s.buf)
  IN /\ port' = s.port /\ buf' = s.buf /\ own' = s.own
     /\ fifo' = rest
     /\ IF p = "none" THEN last' = NoLine /\ UNCHANGED <<source, got>>
        ELSE /\ source' = SourceOf(p) /\ got' = <<>>
             /\ last' = [line |-> line, port |-> p, own |-> s.was]
     /\ IF p # "none" /\ line = <<Bulk>>
          THEN /\ wanted' = Payload
               /\ host' = [host EXCEPT ![p] =
                    [left |-> Payload, ahead |-> rest[p] # <<>>, broken |-> FALSE]]
          ELSE UNCHANGED <<wanted, host>>
     /\ UNCHANGED typed

Idle == wanted = 0

\* uart_cmd_read_line: the UART first, character by character.
ReadUart ==
  /\ Idle /\ fifo["uart"] # <<>>
  /\ Dispatched(Feed(Reader, "uart", Head(fifo["uart"])),
                [fifo EXCEPT !["uart"] = Tail(@)])

\* A character of a chunk; what follows the end of a line is lost.
FeedChunk(s, ch) ==
  IF s.ready = "none" THEN Feed(s, "usb", ch)
  ELSE [s EXCEPT !.own["usb"].lost = TRUE]

\* The reader behind the last character of a chunk.
FedChunk(chunk) ==
  LET fed[k \in 0 .. Len(chunk)] ==
        IF k = 0 THEN Reader ELSE FeedChunk(fed[k - 1], chunk[k])
  IN fed[Len(chunk)]

\* The characters of the next chunk.
InChunk(waiting) == IF Len(waiting) < ChunkMax THEN Len(waiting) ELSE ChunkMax

\* The USB port gives what it has, in chunks.
ReadUsb ==
  LET waiting == fifo["usb"]
      n == InChunk(waiting)
  IN /\ Idle /\ fifo["uart"] = <<>> /\ waiting # <<>>
     /\ Dispatched(FedChunk(SubSeq(waiting, 1, n)),
                   [fifo EXCEPT !["usb"] = SubSeq(waiting, n + 1, Len(waiting))])

-----------------------------------------------------------------------------
(* Reading data, uart_cmd_read_bytes.                                      *)

\* Mutant: data is always read from the UART.
ReadUartData ==
  /\ ~ Idle /\ fifo["uart"] # <<>>
  /\ got' = Append(got, Head(fifo["uart"]))
  /\ fifo' = [fifo EXCEPT !["uart"] = Tail(@)]
  /\ wanted' = wanted - 1
  /\ last' = NoLine /\ UNCHANGED <<port, buf, source, host, typed, own>>

ReadData ==
  /\ ~ Idle /\ fifo[source] # <<>>
  /\ got' = Append(got, Head(fifo[source]))
  /\ fifo' = [fifo EXCEPT ![source] = Tail(@)]
  /\ wanted' = wanted - 1
  /\ last' = NoLine /\ UNCHANGED <<port, buf, source, host, typed, own>>

\* The host pauses for too long: the command is broken off, and what the host
\* sends after that is a line.
Timeout ==
  /\ ~ Idle /\ fifo[source] = <<>>
  /\ wanted' = 0 /\ got' = <<>>
  /\ host' = [host EXCEPT ![source].broken = TRUE]
  /\ last' = NoLine /\ UNCHANGED <<fifo, port, buf, source, typed, own>>

Next ==
  \/ \E p \in Ports, ch \in Chars \ Data : HostTypes(p, ch)
  \/ \E p \in Ports : HostSends(p)
  \/ ReadUart \/ ReadUsb \/ ReadData \/ Timeout

Spec == Init /\ [][Next]_vars

-----------------------------------------------------------------------------
(* Properties.                                                             *)

Hosts == [left : 0 .. Payload, ahead : BOOLEAN, broken : BOOLEAN]
Lines == [raw : Seq(Chars), long : BOOLEAN, spoiled : BOOLEAN, lost : BOOLEAN]

TypeOK ==
  /\ fifo \in [Ports -> Seq(Chars)] /\ \A p \in Ports : Len(fifo[p]) <= FifoMax
  /\ port \in [Ports -> [pos : 0 .. LineMax, cr : BOOLEAN]]
  /\ buf \in [0 .. LineMax -> Chars]
  /\ source \in Ports /\ wanted \in 0 .. Payload
  /\ got \in Seq(Chars) /\ Len(got) + wanted \in {0, Payload}
  /\ host \in [Ports -> Hosts] /\ typed \in 0 .. MaxTyped
  /\ own \in [Ports -> Lines]
  /\ last \in [line : Seq(Chars), port : Ports, own : Lines]

\* The line that somebody means who types these characters and ends it.
Edited(line, ch) ==
  CASE ch \in Ends -> line
    [] ch = "kill" -> <<>>
    [] ch = "back" -> IF line = <<>> THEN line ELSE Front(line)
    [] OTHER -> Append(line, ch)

Meant(raw) ==
  LET line[k \in 0 .. Len(raw)] ==
        IF k = 0 THEN <<>> ELSE Edited(line[k - 1], raw[k])
  IN line[Len(raw)]

\* A line that is run is the one that its port sent, or the tail of one that
\* was too long, unless the other port wrote into it or the USB host typed on
\* before the line before was answered.
LineIsOwn ==
  ~ (last.own.spoiled \/ last.own.lost) =>
    /\ IsSuffix(last.line, Meant(last.own.raw))
    /\ ~ last.own.long => last.line = Meant(last.own.raw)

\* The data that a command has read is the data of the host that sent the
\* command, unless this host typed on after the end of its line: after CR LF
\* the LF is data.
DataIsOwn ==
  Len(got) = Payload =>
    host[source].ahead \/ (\A i \in 1 .. Payload : got[i] = "data")

\* Data is run as a line only after a command was broken off, or began with
\* what its host had typed on.
DataIsNotRun ==
  (\E i \in DOMAIN last.line : last.line[i] = "data") =>
    host[last.port].broken \/ host[last.port].ahead \/ last.own.spoiled

=============================================================================

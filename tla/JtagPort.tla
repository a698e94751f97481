------------------------------ MODULE JtagPort ------------------------------
(***************************************************************************)
(* The JTAG port of the board, src/src/jtag_gpio.c, with those who use it: *)
(* a web client whose stream is shifted into the FPGA as it arrives        *)
(* (remote_http.c), and the console commands that read the FPGA, load a    *)
(* core file or stream one (main.c).  Every function of the port is a      *)
(* sequence of clock ticks, and the FPGA sees nothing but those: its       *)
(* 1149.1 controller and its configuration logic are modelled tick by      *)
(* tick.  A console command runs to its end before anything else; the web  *)
(* stream is spread over callbacks, with commands between its pieces.      *)
(***************************************************************************)
EXTENDS CoreFormat

CONSTANTS
  Files,      \* the core files on the card, [bytes, payload]; the payload of a
              \* file that is cut short or malformed is None
  Streams,    \* the payloads that are streamed
  ByteBits,   \* bits of a byte; 8 in the code
  MaxBytes,   \* bound on the bytes of a payload
  IdleTicks,  \* M65_JTAG_POST_..._IDLE_CLOCKS
  Before,     \* the design the FPGA starts with
  None

\* The payloads of files, and those found in a container that was misread.
FilePayloads == {file.payload : file \in {f \in Files : f.payload # None}}
Payloads == Streams \cup FilePayloads
              \cup UNION {Mistakable(file.bytes) : file \in Files}

ASSUME PortAssumption ==
  /\ ByteBits \in Nat \ {0} /\ IdleTicks \in Nat \ {0} /\ MaxBytes \in Nat
  /\ \A pay \in Payloads : pay \in Seq(Nat) /\ Len(pay) \in 1 .. MaxBytes
  /\ \A file \in Files : file.bytes \in Seq(Nat)

\* The payload of a file is what its format says.
ASSUME FilesAssumption ==
  \A file \in Files :
    LET whole == WholePayloads(file.bytes)
    IN IF whole = {} THEN file.payload = None
       ELSE file.payload \in whole /\ file.payload # None

VARIABLES
  port,    \* the pins and the FPGA behind them
  wr,      \* http_conn.jtag, and the payload the client sends
  held,    \* AT+HIJACK=1 was given and nothing has released the switch since
  alone,   \* no console command has used the port since the stream began
  told,    \* OK JTAG DONE was answered to the last stream
  loaded   \* the file that the last command loaded or refused, unless a read
           \* failed or the FPGA was another one

vars == <<port, wr, held, alone, told, loaded>>

-----------------------------------------------------------------------------
(* The FPGA: the controller, its instruction and its configuration.        *)

Tap == [reset    |-> <<"idle", "reset">>,
        idle     |-> <<"idle", "selectDr">>,
        selectDr |-> <<"captureDr", "selectIr">>,
        captureDr|-> <<"shiftDr", "exit1Dr">>,
        shiftDr  |-> <<"shiftDr", "exit1Dr">>,
        exit1Dr  |-> <<"pauseDr", "updateDr">>,
        pauseDr  |-> <<"pauseDr", "exit2Dr">>,
        exit2Dr  |-> <<"shiftDr", "updateDr">>,
        updateDr |-> <<"idle", "selectDr">>,
        selectIr |-> <<"captureIr", "reset">>,
        captureIr|-> <<"shiftIr", "exit1Ir">>,
        shiftIr  |-> <<"shiftIr", "exit1Ir">>,
        exit1Ir  |-> <<"pauseIr", "updateIr">>,
        pauseIr  |-> <<"pauseIr", "exit2Ir">>,
        exit2Ir  |-> <<"shiftIr", "updateIr">>,
        updateIr |-> <<"idle", "selectDr">>]

IDCODE == 9
CFG_IN == 5
CFG_OUT == 4
JPROGRAM == 11
JSTART == 12
ISC_NOOP == 20
BYPASS == 63

\* The bits of a payload byte, told from those of every other; the bits of an
\* instruction are 0 and 1.
Bit(b, i) == 2 + b * ByteBits + i
MostBits == 1 + MaxBytes * ByteBits  \* what is kept of a load

\* One rising edge of TCK at the FPGA.  JPROGRAM clears it, CFG_IN takes what
\* is shifted, and a clock in Run-Test/Idle after JSTART starts it with that.
Clocked(f, tms, tdi) ==
  LET t == Tap[f.tap][tms + 1]
      ir == CASE t = "reset" -> IDCODE
              [] t = "updateIr" -> f.sr
              [] OTHER -> f.ir
      clears == t = "updateIr" /\ ir = JPROGRAM
      starts == f.clear /\ f.tap = "idle" /\ f.ir = JSTART
      takes == f.clear /\ f.tap = "shiftDr" /\ f.ir = CFG_IN
               /\ Len(f.cfg) < MostBits
  IN [f EXCEPT
       !.tap = t, !.ir = ir,
       !.sr = CASE f.tap = "captureIr" -> 1
                [] f.tap = "shiftIr" ->
                     (f.sr \div 2) + 32 * (tdi % 2)
                [] OTHER -> f.sr,
       !.clear = clears \/ (f.clear /\ ~ starts),
       !.cfg = IF clears \/ starts THEN <<>>
               ELSE IF takes THEN Append(f.cfg, tdi) ELSE f.cfg,
       !.design = IF clears THEN None ELSE IF starts THEN f.cfg ELSE f.design]

-----------------------------------------------------------------------------
(* The port.  A helper of the code is the sequence of its steps of the pins, *)
(* a function that calls helpers the sequence of those sequences.          *)

\* tick, tick_payload_bit, which leaves TMS alone until the last bit, and the
\* two positions of the hijack switch.
Tick(tms, tdi) == [pins |-> "tick", tms |-> tms, tdi |-> tdi]
PayloadTick(tdi, last) ==
  [pins |-> IF last THEN "tick" ELSE "payload", tms |-> 1, tdi |-> tdi]
Claim == <<[pins |-> "claim", tms |-> 1, tdi |-> 0]>>  \* leaves TMS high
Release == <<[pins |-> "release", tms |-> 0, tdi |-> 0]>>

Pins == [pins : {"tick", "payload", "claim", "release"},
         tms : {0, 1}, tdi : Int]

Ports ==
  [hijack : BOOLEAN, tms : {0, 1},
   fpga : [tap : DOMAIN Tap, ir : 0 .. 63, sr : 0 .. 63,
           clear : BOOLEAN, cfg : Seq(Int),
           design : {Before, None} \cup Seq(Int)]]

\* One step at the port p; with the switch released the FPGA sees no tick.
Step[p \in Ports] == [s \in Pins |->
  LET tms == IF s.pins \in {"payload", "release"} THEN p.tms ELSE s.tms
  IN [hijack |-> CASE s.pins = "claim" -> TRUE
                   [] s.pins = "release" -> FALSE
                   [] OTHER -> p.hijack,
      tms |-> tms,
      fpga |-> IF s.pins \in {"tick", "payload"} /\ p.hijack
                 THEN Clocked(p.fpga, tms, s.tdi)
                 ELSE p.fpga]]

\* The port p after the steps of one helper.
Call[p \in Ports] == [steps \in Seq(Pins) |->
  LET after[i \in 0 .. Len(steps)] ==
        IF i = 0 THEN p ELSE Step[after[i - 1]][steps[i]]
  IN after[Len(steps)]]

\* The port p after the helpers that a function calls.
After(p, calls) ==
  LET after[i \in 0 .. Len(calls)] ==
        IF i = 0 THEN p ELSE Call[after[i - 1]][calls[i]]
  IN after[Len(calls)]

Ticks(s) == [i \in 1 .. Len(s) |-> Tick(s[i], 0)]

TapReset == Ticks(<<1, 1, 1, 1, 1, 1, 1, 1, 0>>)
IdleClocks == [i \in 1 .. IdleTicks |-> Tick(0, 0)]

\* shift_ir: the instruction goes in with its low bit first.
ShiftIr(instr) ==
  Ticks(<<1, 1, 0, 0>>)
    \o <<Tick(0, instr % 2), Tick(0, (instr \div 2) % 2),
         Tick(0, (instr \div 4) % 2), Tick(0, (instr \div 8) % 2),
         Tick(0, (instr \div 16) % 2), Tick(1, (instr \div 32) % 2)>>
    \o Ticks(<<1, 0>>)

\* A data register is read or written; a bit or two stand for the 32.
EnterShiftDr == Ticks(<<1, 0, 0>>)
LeaveShiftDr == Ticks(<<1, 0>>)
ShiftDrRead == EnterShiftDr \o <<Tick(1, 0)>> \o LeaveShiftDr
ShiftDrWrite ==
  EnterShiftDr \o <<PayloadTick(0, FALSE), PayloadTick(0, TRUE)>> \o LeaveShiftDr

ReadIdcode == <<TapReset, ShiftIr(IDCODE), ShiftDrRead>>

\* read_config_reg: the request goes in through CFG_IN.
ReadConfigReg ==
  <<ShiftIr(CFG_IN), ShiftDrWrite, IdleClocks,
    ShiftIr(CFG_OUT), ShiftDrRead, IdleClocks, ShiftIr(BYPASS), IdleClocks>>

\* jtag_read_xilinx_status
ReadStatus ==
  ReadIdcode \o ReadConfigReg \o ReadConfigReg
    \o <<ShiftIr(BYPASS), ShiftDrRead, TapReset>>

\* The port is claimed for a reader only.
Look(reads) == <<Claim>> \o reads \o <<Release>>

\* jtag_finish_closeout begins where the last payload bit left the TAP.
CloseOut ==
  <<LeaveShiftDr, ShiftIr(JSTART), IdleClocks,
    ShiftIr(ISC_NOOP), IdleClocks, ShiftIr(BYPASS), IdleClocks,
    TapReset, IdleClocks>> \o ReadStatus

\* jtag_program_writer_begin: the FPGA is cleared, and the TAP stays in
\* Shift-DR for the payload.
WriterBegin ==
  <<Claim>> \o ReadIdcode
    \o <<ShiftIr(JPROGRAM), IdleClocks, ShiftIr(ISC_NOOP), IdleClocks,
         ShiftIr(CFG_IN), EnterShiftDr>>

\* Mutant: the switch is kept when the IDCODE is not the expected one.
RefusedKept == <<Claim>> \o ReadIdcode

\* jtag_program_writer_begin when the IDCODE is not the expected one.
Refused == Look(ReadIdcode)

\* Mutant: the TAP stays in Shift-DR behind the last bit.
StaysInShiftDr(b, last) ==
  [i \in 1 .. ByteBits |-> PayloadTick(Bit(b, i), FALSE)]

\* jtag_program_writer_write of the byte b; the last one of a payload leaves
\* Shift-DR.
WriterWrite(b, last) ==
  [i \in 1 .. ByteBits |-> PayloadTick(Bit(b, i), last /\ i = ByteBits)]

\* jtag_program_writer_finish of a whole payload.
WriterFinish == CloseOut \o <<Release>>

WriterAbort == <<TapReset, Release>>

\* jtag_program_stream of the payload pay, of which n bytes can be read.
Written(pay, n) == [k \in 1 .. n |-> WriterWrite(pay[k], k = Len(pay))]
ProgramStream(pay, n) ==
  WriterBegin \o Written(pay, n)
    \o (IF n = Len(pay) THEN WriterFinish ELSE WriterAbort)

-----------------------------------------------------------------------------
NoWriter == [active |-> FALSE, pay |-> <<>>, done |-> 0]
NothingLoaded == [file |-> None, how |-> "none"]

Init ==
  /\ port = [hijack |-> FALSE, tms |-> 0,
             fpga |-> [tap |-> "reset", ir |-> IDCODE, sr |-> 0,
                       clear |-> FALSE, cfg |-> <<>>, design |-> Before]]
  /\ wr = NoWriter /\ held = FALSE /\ alone = TRUE
  /\ told = FALSE /\ loaded = NothingLoaded

(* The web stream.                                                         *)

\* begin_put_jtag with no signature required and no name; the client may name
\* an IDCODE.
HttpBegin ==
  /\ ~ wr.active
  /\ \/ \E pay \in Streams :
          /\ wr' = [active |-> TRUE, pay |-> pay, done |-> 0]
          /\ port' = After(port, WriterBegin)
          /\ told' = FALSE
     \/ port' = After(port, Refused) /\ UNCHANGED <<wr, told>>
  /\ held' = FALSE /\ alone' = TRUE /\ loaded' = NothingLoaded

IsLast(w) == w.done + 1 = Len(w.pay)

\* write_jtag_body of a byte of the stream, with finish_put behind the last.
HttpByte ==
  /\ wr.active
  /\ LET written == WriterWrite(wr.pay[wr.done + 1], IsLast(wr))
     IN IF IsLast(wr)
          THEN /\ port' = After(port, <<written>> \o WriterFinish)
               /\ wr' = NoWriter /\ alone' = TRUE /\ held' = FALSE
               /\ told' = TRUE
          ELSE /\ port' = After(port, <<written>>)
               /\ wr' = [wr EXCEPT !.done = @ + 1]
               /\ UNCHANGED <<held, alone, told>>
  /\ loaded' = NothingLoaded

\* http_close or http_err in the middle of the body.
HttpDrop ==
  /\ wr.active
  /\ port' = After(port, WriterAbort)
  /\ wr' = NoWriter /\ alone' = TRUE /\ held' = FALSE
  /\ loaded' = NothingLoaded /\ UNCHANGED told

(* Console commands.                                                       *)

\* A command that ends with the port released.
Uses(steps) ==
  /\ port' = After(port, steps)
  /\ alone' = ~ wr.active /\ held' = FALSE
  /\ UNCHANGED <<wr, told>>

JtagId == Uses(Look(ReadIdcode)) /\ loaded' = NothingLoaded

XilinxStatus == Uses(Look(ReadStatus)) /\ loaded' = NothingLoaded

\* cmd_hijack, which does not ask whether a stream is shifted in.
Hijack(on) ==
  /\ port' = After(port, <<IF on THEN Claim ELSE Release>>)
  /\ alone' = ~ wr.active
  /\ held' = on /\ loaded' = NothingLoaded
  /\ UNCHANGED <<wr, told>>

Shifts(pay, n) == Uses(Look(ReadIdcode) \o ProgramStream(pay, n))

\* cmd_program: the file is parsed, then shifted in; the card may fail in the
\* middle of the one or after n bytes of the other, the file may be shorter
\* than it says or for another FPGA, and an empty payload is refused.
Program(file) ==
  \E failed \in BOOLEAN :
  \E core \in IF failed THEN Misread(file.bytes) ELSE {CoreOpen(file.bytes)} :
    LET got == Payload(file.bytes, core)
        pay == got \o [i \in 1 .. core.length - Len(got) |-> 0]
        Ends(how) == loaded' = IF failed THEN NothingLoaded
                               ELSE [file |-> file, how |-> how]
    IN \/ /\ ~ core.ok
          /\ UNCHANGED <<port, wr, held, alone, told>> /\ Ends("refused")
       \/ /\ core.ok /\ core.length = 0
          /\ Uses(Look(ReadIdcode)) /\ Ends("refused")
       \/ /\ core.ok /\ core.length # 0
          /\ Uses(Look(ReadIdcode) \o Refused) /\ loaded' = NothingLoaded
       \/ /\ core.ok /\ core.length # 0 /\ Len(got) = core.length
          /\ Shifts(pay, core.length) /\ Ends("sound")
       \/ /\ core.ok
          /\ \E n \in 0 .. Len(got) : n < core.length /\ Shifts(pay, n)
          /\ loaded' = NothingLoaded

\* cmd_stream_program: the payload follows the command, until the host pauses
\* for longer than the timeout.
StreamProgram ==
  /\ \E pay \in Streams : \E n \in 0 .. Len(pay) : Shifts(pay, n)
  /\ loaded' = NothingLoaded

Next ==
  \/ HttpBegin \/ HttpByte \/ HttpDrop
  \/ JtagId \/ XilinxStatus \/ StreamProgram
  \/ \E on \in BOOLEAN : Hijack(on)
  \/ \E file \in Files : Program(file)

Spec == Init /\ [][Next]_vars

-----------------------------------------------------------------------------
(* Properties.                                                             *)

Bits(pay) == [k \in 1 .. Len(pay) * ByteBits |->
                Bit(pay[((k - 1) \div ByteBits) + 1], ((k - 1) % ByteBits) + 1)]
Designs == {Bits(pay) : pay \in Payloads}

ASSUME NoneAssumption == None \notin Designs

TypeOK ==
  /\ port \in Ports
  /\ wr = NoWriter \/ wr \in [active : {TRUE}, pay : Streams, done : Nat]
  /\ held \in BOOLEAN /\ alone \in BOOLEAN /\ told \in BOOLEAN
  /\ loaded \in [file : Files \cup {None},
                 how : {"none", "sound", "refused"}]

\* The board keeps the JTAG pins from the connector only while a stream is
\* shifted in or the operator asked for them, whichever way a load ended.
SwitchGivenBack == port.hijack => wr.active \/ held

\* A core file that is whole is not refused, and unless the card fails it is
\* loaded whole: the FPGA then runs the payload the file was built around,
\* wherever in it the wrapper lies.
LoadsThePayload ==
  /\ loaded.how = "sound" => port.fpga.design = Bits(loaded.file.payload)
  /\ loaded.how = "refused" => loaded.file.payload = None

\* What the FPGA is configured with is one whole payload or nothing, also
\* when console commands come between the pieces of a web stream, unless the
\* operator takes the port in the middle of one; a client whose stream nobody
\* disturbed is told that it is done only when the FPGA runs what it sent.
Abstract == INSTANCE Programming WITH
  design <- port.fpga.design,
  stream <- IF wr.active THEN Bits(wr.pay) ELSE None,
  Designs <- Designs
Implements == Abstract!Spec

=============================================================================

---------------------------- MODULE Programming ----------------------------
(***************************************************************************)
(* What the board promises about the FPGA, without its JTAG port: a web    *)
(* client streams a payload in pieces, the console loads one at once, and  *)
(* what the FPGA is configured with is one whole payload or nothing.       *)
(***************************************************************************)
CONSTANTS
  Designs,  \* what an FPGA can be configured with: whole payloads
  Before,   \* the design of the flash, which runs at first
  None      \* no design, or no stream

VARIABLES
  design,  \* what the FPGA is configured with; None while it is cleared
  stream,  \* the design that is being streamed, or None
  alone,   \* nobody else has used the JTAG port since the stream began
  held,    \* the operator has taken the JTAG port, and nothing gave it back
  told     \* the client of the last stream was told that it is done

vars == <<design, stream, alone, held, told>>

Init ==
  /\ design = Before /\ stream = None
  /\ alone = TRUE /\ held = FALSE /\ told = FALSE

\* The FPGA is cleared and the stream begins.
Begin ==
  /\ stream = None /\ stream' \in Designs
  /\ design' = None /\ alone' = TRUE /\ held' = FALSE /\ told' = FALSE

\* The last piece of a stream nobody disturbed configures the FPGA; a stream
\* that was disturbed leaves it as it is.  Nothing is promised of the FPGA when
\* the operator took the port in the middle of the stream and keeps it.  The
\* client is told the same.
End ==
  /\ stream # None /\ stream' = None
  /\ alone => design' = stream
  /\ ~ alone /\ ~ held => design' = design
  /\ alone' = TRUE /\ held' = FALSE /\ told' = TRUE

\* The client goes away, or its grant expires.
Abandon ==
  /\ stream # None /\ stream' = None /\ alone' = TRUE /\ held' = FALSE
  /\ UNCHANGED <<design, told>>

\* The console loads a design or fails to, or only looks; a stream that is in
\* progress is disturbed.
Console ==
  /\ design' \in Designs \cup {None, design}
  /\ alone' = (stream = None) /\ held' = FALSE
  /\ UNCHANGED <<stream, told>>

\* The operator takes the port or gives it back, at any time.
Switch ==
  /\ alone' = (stream = None) /\ held' \in BOOLEAN
  /\ UNCHANGED <<design, stream, told>>

Next == Begin \/ End \/ Abandon \/ Console \/ Switch

Spec == Init /\ [][Next]_vars

=============================================================================

-------------------------------- MODULE Wifi --------------------------------
(***************************************************************************)
(* How the board gets on the network, src/src/remote_http.c: the WiFi chip *)
(* is probed under the watchdog, and what survives in its scratch          *)
(* registers tells the next boot that the probe hung; the network is       *)
(* joined, waited for and tried again; the web server listens while the    *)
(* join lasts.  The callers are src/src/main.c: the first initialisation,  *)
(* the card that is inserted later, and the AT commands.                   *)
(*                                                                         *)
(* A timer is set, and due some time after that.  Faults, changes of the   *)
(* link that the board did not ask for, and commands are bounded.          *)
(***************************************************************************)
EXTENDS Integers

CONSTANTS
  FastAttempts,  \* M65_WIFI_PROBE_FAST_ATTEMPTS
  MaxFaults,     \* bound on hangs and failed calls
  MaxFlaps,      \* bound on changes of the link for the worse
  MaxCommands    \* bound on commands and on cards put in

ASSUME BoundsAssumption ==
  /\ FastAttempts \in Nat \ {0}
  /\ MaxFaults \in Nat /\ MaxFlaps \in Nat /\ MaxCommands \in Nat

VARIABLES
  w,        \* the wifi_... statics and http_is_active
  due,      \* timers that are due, of those that are set
  scratch,  \* watchdog_hw->scratch[0..2]
  link,     \* cyw43_tcpip_link_status
  main,     \* remote_init_done and sd_config_loaded
  card,     \* what the card says
  budget,   \* faults, flaps and commands that are left
  tries,    \* history: probes since power on, AT&Z or AT+WIFIPROBE
  hangs,    \* history: resets by the watchdog since then
  skipped   \* history: the last remote_http_init found the chip given up, or
            \* could not read the configuration from the card

vars == <<w, due, scratch, link, main, card, budget, tries, hangs, skipped>>

Timers == {"probe", "recover", "deadline", "noip"}
NoMark == [stage |-> "none", attempts |-> 0]

\* "off" is a card with no configuration, a bad one, no network name or
\* http=0.
Cards == {"absent", "off", "on"}

PowerOn ==
  [ready |-> FALSE, blocked |-> FALSE, retry |-> FALSE, pending |-> FALSE,
   after |-> FALSE, attempts |-> 0, assoc |-> "off", recover |-> FALSE,
   noip |-> FALSE, listener |-> FALSE]

Init ==
  /\ w = PowerOn /\ due = {} /\ scratch = NoMark /\ link = "down"
  /\ main = [initDone |-> FALSE, loaded |-> FALSE]
  /\ card \in Cards
  /\ budget = [faults |-> MaxFaults, flaps |-> MaxFlaps, commands |-> MaxCommands]
  /\ tries = 0 /\ hangs = 0 /\ skipped = FALSE

-----------------------------------------------------------------------------
(* Parts of the handlers.  A handler in progress is r: the statics, the    *)
(* timers, the link, the registers, the faults and probes it made, and     *)
(* whether it hung.                                                        *)

Now == [w |-> w, due |-> due, link |-> link, scratch |-> scratch,
        faults |-> 0, probes |-> 0, hung |-> FALSE, skipped |-> skipped]

Faulty(r) == [r EXCEPT !.faults = @ + 1]
Set(r, timers) == [r EXCEPT !.due = @ \ timers]

\* Mutant: one probe more than the limit.
OneMoreTry(x) == x.attempts <= FastAttempts

\* wifi_probe_can_retry
CanRetry(x) == x.attempts < FastAttempts

\* wifi_schedule_probe_retry, or the board gives up.
RetryProbe(r) ==
  IF CanRetry(r.w)
    THEN Set([r EXCEPT !.w.blocked = FALSE, !.w.pending = FALSE,
                       !.w.retry = TRUE], {"probe"})
    ELSE [r EXCEPT !.w.blocked = TRUE]

\* Mutant: the listener is kept while the board waits to join again.
FailedListening(r) ==
  Set([r EXCEPT !.w.assoc = "failed", !.w.noip = FALSE, !.w.recover = TRUE],
      {"recover"})

\* wifi_schedule_recover, with close_http_listener.
Failed(r) ==
  Set([r EXCEPT !.w.assoc = "failed", !.w.noip = FALSE, !.w.recover = TRUE,
                !.w.listener = FALSE], {"recover"})

\* Mutant: the mark has no count.
MarkOfBoot(stage, x) == [stage |-> stage, attempts |-> 0]

\* The scratch registers in front of a call that may hang.
Mark(stage, x) == [stage |-> stage, attempts |-> x.attempts]

\* A call that hangs leaves its mark; one that returns takes it away.
Hangs(r, stage) ==
  [Faulty(r) EXCEPT !.scratch = Mark(stage, r.w), !.hung = TRUE]

\* Mutant: a failure forgets that the remote service was to be started.
RemoteInitOnce(r) ==
  IF r.w.blocked THEN {r}
  ELSE {[r EXCEPT !.w.pending = ~ r.w.retry, !.w.after = ~ r.w.retry]}

\* Mutant: a probe is asked for although another try is scheduled.
RemoteInitAtOnce(r) ==
  IF r.w.blocked THEN {r}
  ELSE {[r EXCEPT !.w.pending = TRUE, !.w.after = TRUE]}

\* remote_http_init while the chip is not ready.
RemoteInitLater(r) ==
  IF r.w.blocked THEN {r}
  ELSE {[r EXCEPT !.w.pending = (@ \/ ~ r.w.retry), !.w.after = TRUE]}

\* remote_auth_load fails although the card is mounted: the network is left
\* alone.
Unread(r) == [Faulty(r) EXCEPT !.skipped = TRUE]

\* remote_http_init with the card c: the ways it may end.  A card that cannot
\* be mounted is asked again later, a configuration that cannot be read is not.
RemoteInit(r0, c) ==
  LET r == [r0 EXCEPT !.w.assoc = "off", !.w.recover = FALSE,
                      !.skipped = r0.w.blocked]
      joining == Set([r EXCEPT !.w.assoc = "connecting", !.w.noip = FALSE,
                               !.link = "join"], {"deadline"})
  IN CASE ~ r.w.ready -> RemoteInitLater(r)
       [] r.w.ready /\ c = "absent" -> {Failed(r)}
       [] r.w.ready /\ c = "off" -> {r, Failed(Faulty(r))}
       [] r.w.ready /\ c = "on" ->
            {joining, Unread(r), Failed(Faulty(r)), Hangs(r, "sta"),
             Hangs(r, "join")}

\* remote_http_probe_wifi_hardware and what remote_http_poll does with it.
Probe(r0, c) ==
  LET r == [r0 EXCEPT !.w.attempts = @ + 1, !.probes = 1]
      found == [r EXCEPT !.w.ready = TRUE, !.w.retry = FALSE]
  IN {RetryProbe(Faulty(r)), Hangs(r, "init")}
       \cup IF found.w.after
              THEN RemoteInit([found EXCEPT !.w.after = FALSE], c)
              ELSE {found}

\* remote_http_finish_wifi_join, with listen_http.
FinishJoin(r) ==
  {[r EXCEPT !.w.assoc = "active", !.w.noip = FALSE, !.w.recover = FALSE,
             !.w.listener = TRUE],
   Failed([Faulty(r) EXCEPT !.w.listener = FALSE])}

\* remote_http_poll_wifi_join; a network that is not found is asked for again
\* once a second.
PollJoin(r) ==
  LET waits(s) == IF "deadline" \in s.due THEN Failed(s) ELSE s
      noIp == IF r.w.noip THEN r
              ELSE Set([r EXCEPT !.w.noip = TRUE], {"noip", "deadline"})
      other == [r EXCEPT !.w.noip = FALSE]
  IN CASE r.link = "up" -> FinishJoin(r)
       [] r.link = "noip" ->
            {IF r.w.noip /\ "noip" \in r.due THEN Failed(r) ELSE waits(noIp)}
       [] r.link = "nonet" ->
            {waits(other), waits([other EXCEPT !.link = "join"]),
             Failed(Faulty(other))}
       [] r.link = "fail" -> {Failed(other)}
       [] OTHER -> {waits(other)}

\* remote_http_boot_check after a reset that finds the mark m.
BootCheck(m) ==
  LET r == [Now EXCEPT !.w = PowerOn, !.due = {}, !.scratch = NoMark]
  IN IF m = NoMark THEN r
     ELSE RetryProbe([r EXCEPT !.w.attempts =
                        IF m.attempts = 0 THEN 1 ELSE m.attempts])

-----------------------------------------------------------------------------
(* Steps.                                                                  *)

\* A handler that ended as r, or that hung, so that the watchdog resets the
\* board.
Becomes(r) ==
  /\ r.faults <= budget.faults
  /\ LET s == IF r.hung THEN BootCheck(r.scratch) ELSE r
     IN /\ w' = s.w /\ due' = s.due
        /\ scratch' = s.scratch
        /\ link' = IF r.hung THEN "down" ELSE r.link
        /\ skipped' = (~ r.hung /\ r.skipped)
  /\ hangs' = IF r.hung THEN hangs + 1 ELSE hangs
  /\ tries' = tries + r.probes

\* What is left of the faults and of n commands, and of main after a reset.
Spends(r, n, m) ==
  /\ budget' = [budget EXCEPT !.faults = @ - r.faults, !.commands = @ - n]
  /\ main' = IF r.hung THEN [initDone |-> FALSE, loaded |-> FALSE] ELSE m

\* The statics at the second step of remote_http_poll.
ProbeDue(r) ==
  IF r.w.retry /\ "probe" \in r.due
    THEN [r EXCEPT !.w.retry = FALSE, !.w.pending = TRUE]
    ELSE r

\* remote_http_poll: a probe that is pending, or the join.
PollResults ==
  LET r == ProbeDue(Now)
      called == [r EXCEPT !.w.pending = FALSE]
  IN CASE r.w.pending /\ ~ r.w.ready -> Probe(called, card)
       [] r.w.ready /\ r.w.assoc = "failed" /\ r.w.recover /\ "recover" \in r.due ->
            RemoteInit([r EXCEPT !.w.recover = FALSE, !.link = "down"], card)
       [] r.w.ready /\ r.w.assoc = "connecting" -> PollJoin(r)
       [] OTHER -> {r}

Poll ==
  /\ \E r \in PollResults : Becomes(r) /\ Spends(r, 0, main)
  /\ UNCHANGED card

\* main's first initialisation, after a delay.
FirstInit ==
  /\ ~ main.initDone
  /\ \E r \in RemoteInit(Now, card) :
       /\ Becomes(r)
       /\ Spends(r, 0, [initDone |-> TRUE, loaded |-> card # "absent"])
  /\ UNCHANGED card

\* sd_hotplug_poll
HotPlug ==
  /\ main.initDone /\ ~ main.loaded /\ card # "absent"
  /\ \E r \in RemoteInit(Now, card) :
       Becomes(r) /\ Spends(r, 0, [main EXCEPT !.loaded = TRUE])
  /\ UNCHANGED card

\* Every command defers the recovery (remote_http_defer_wifi_recovery).
Deferred(r) ==
  IF r.w.recover /\ r.w.assoc = "failed" THEN Set(r, {"recover"}) ELSE r

Commanded == budget.commands > 0
CommandSpends == budget' = [budget EXCEPT !.commands = @ - 1]

\* AT+MOUNT, after the operator has put in the card c.
Mount(c) ==
  /\ Commanded
  /\ card' = c
  /\ \E r \in IF c # "absent" /\ main.initDone
                THEN RemoteInit(Deferred(Now), c) ELSE {Deferred(Now)} :
       /\ Becomes(r)
       /\ Spends(r, 1, [main EXCEPT !.loaded = main.initDone /\ c # "absent"])

\* A card is put into the empty slot.
Insert ==
  /\ Commanded /\ card = "absent" /\ card' \in {"off", "on"}
  /\ CommandSpends
  /\ UNCHANGED <<w, due, scratch, link, main, tries, hangs, skipped>>

\* AT+WIFIPROBE: remote_http_wifi_probe_now.
ProbeNow ==
  /\ Commanded /\ CommandSpends
  /\ IF w.ready
       THEN due' = Deferred(Now).due /\ UNCHANGED <<w, tries, hangs>>
       ELSE /\ w' = [w EXCEPT !.blocked = FALSE, !.attempts = 0,
                              !.retry = FALSE, !.pending = TRUE]
            /\ tries' = 0 /\ hangs' = 0 /\ UNCHANGED due
  /\ UNCHANGED <<scratch, link, main, card, skipped>>

\* Any other command.
Command ==
  /\ Commanded /\ CommandSpends
  /\ due' = Deferred(Now).due
  /\ UNCHANGED <<w, scratch, link, main, card, tries, hangs, skipped>>

\* AT&Z resets the board through the watchdog too; power off clears the
\* registers.
Restart ==
  /\ Commanded /\ CommandSpends
  /\ \E m \in {scratch, NoMark} :
       w' = BootCheck(m).w /\ due' = BootCheck(m).due
  /\ scratch' = NoMark /\ link' = "down"
  /\ main' = [initDone |-> FALSE, loaded |-> FALSE]
  /\ tries' = 0 /\ hangs' = 0 /\ skipped' = FALSE
  /\ UNCHANGED card

\* A timer that is set becomes due.
Running ==
  {t \in Timers : \/ t = "probe" /\ w.retry
                  \/ t = "recover" /\ w.recover
                  \/ t = "deadline" /\ w.assoc = "connecting"
                  \/ t = "noip" /\ w.noip}

\* The network answers in time; that it does not is a change for the worse.
Late(t) == t \in {"deadline", "noip"} /\ link \in {"join", "noip", "up"}

Fires(t) ==
  /\ t \in Running \ due
  /\ due' = due \cup {t}
  /\ IF Late(t)
       THEN budget.flaps > 0 /\ budget' = [budget EXCEPT !.flaps = @ - 1]
       ELSE UNCHANGED budget
  /\ UNCHANGED <<w, scratch, link, main, card, tries, hangs, skipped>>

\* The network answers while the board joins.
LinkProgress ==
  /\ w.assoc = "connecting"
  /\ \/ link = "join" /\ link' = "noip"
     \/ link = "noip" /\ link' = "up"
  /\ UNCHANGED <<w, due, scratch, main, card, budget, tries, hangs, skipped>>

\* It does not, or it is lost later.
LinkWorse ==
  /\ budget.flaps > 0 /\ w.assoc \in {"connecting", "active"}
  /\ link' \in {"down", "join", "nonet", "fail"} \ {link}
  /\ budget' = [budget EXCEPT !.flaps = @ - 1]
  /\ UNCHANGED <<w, due, scratch, main, card, tries, hangs, skipped>>

Operator ==
  \/ \E c \in Cards : Mount(c)
  \/ Insert \/ ProbeNow \/ Command \/ Restart

Next ==
  \/ Poll \/ FirstInit \/ HotPlug
  \/ Operator
  \/ \E t \in Timers : Fires(t)
  \/ LinkProgress \/ LinkWorse

Spec == Init /\ [][Next]_vars

\* The main loop polls, clocks run, and the network is there.
FairSpec ==
  /\ Spec
  /\ WF_vars(Poll) /\ WF_vars(FirstInit) /\ WF_vars(HotPlug)
  /\ \A t \in Timers : WF_vars(Fires(t))
  /\ WF_vars(LinkProgress)

-----------------------------------------------------------------------------
(* Properties.                                                             *)

TypeOK ==
  /\ w \in [ready : BOOLEAN, blocked : BOOLEAN, retry : BOOLEAN,
            pending : BOOLEAN, after : BOOLEAN, attempts : 0 .. FastAttempts,
            assoc : {"off", "connecting", "active", "failed"},
            recover : BOOLEAN, noip : BOOLEAN, listener : BOOLEAN]
  /\ due \subseteq Timers
  /\ scratch = NoMark
  /\ link \in {"down", "join", "noip", "up", "nonet", "fail"}
  /\ main \in [initDone : BOOLEAN, loaded : BOOLEAN]
  /\ card \in Cards
  /\ budget \in [faults : 0 .. MaxFaults, flaps : 0 .. MaxFlaps,
                 commands : 0 .. MaxCommands]
  /\ tries \in Nat /\ hangs \in Nat /\ skipped \in BOOLEAN

\* The chip is ready, or given up, or waits to be probed again, or is about
\* to be probed: never two of these, so that no probe is lost or doubled.
OneProbeState ==
  \A a, b \in {"ready", "blocked", "retry", "pending"} :
    a # b => ~ (w[a] /\ w[b])

\* The count that survives a hang in the scratch registers is the number of
\* probes since the board was started or asked to probe: it is neither lost
\* by a hang in a later stage nor taken over by an ordinary restart.
CountSurvives == w.attempts = tries

\* A chip that always hangs resets the board a bounded number of times, and
\* the board gives up only after all its tries.
ResetsBounded ==
  /\ hangs <= FastAttempts
  /\ w.blocked => tries = FastAttempts

\* While the board waits to join again nothing listens.
RetryIsSilent == w.assoc = "failed" => ~ w.listener /\ w.recover

\* When faults and commands end and the network answers, the server comes up
\* for good, unless the chip was given up, or the card is missing or says no.
\* Twice it is left idle: a chip that had been given up when the server was to
\* be started, and that AT+WIFIPROBE then finds; and when the configuration
\* could not be read the last time the network was to be joined.
ComesUp ==
  <>[](\/ w.assoc = "active" \/ w.blocked
       \/ card = "absent" \/ (w.ready /\ skipped)
       \/ card = "off" /\ main.loaded /\ w.assoc = "off" /\ ~ w.recover)

=============================================================================

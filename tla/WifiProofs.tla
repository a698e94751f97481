----------------------------- MODULE WifiProofs -----------------------------
(***************************************************************************)
(* Proofs about Wifi.  A handler is a set of outcomes, so the invariant    *)
(* comes in two forms: Sound, of the statics between two handlers, and     *)
(* Outcome, of a handler that has come to its end or hung.                 *)
(***************************************************************************)
EXTENDS Wifi, TLAPS

Statics ==
  [ready : BOOLEAN, blocked : BOOLEAN, retry : BOOLEAN, pending : BOOLEAN,
   after : BOOLEAN, attempts : 0 .. FastAttempts,
   assoc : {"off", "connecting", "active", "failed"}, recover : BOOLEAN,
   noip : BOOLEAN, listener : BOOLEAN]

Links == {"down", "join", "noip", "up", "nonet", "fail"}

Marks ==
  [stage : {"none", "init", "sta", "join"}, attempts : 0 .. FastAttempts]

Handlers ==
  [w : Statics, due : SUBSET Timers, link : Links, scratch : Marks,
   faults : Nat, probes : {0, 1}, hung : BOOLEAN, skipped : BOOLEAN]

\* What the statics x mean after t tries and h hangs: one state of the probe,
\* a try left unless the chip is ready or given up, and a chip that is ready
\* was probed once more than it has hung.
Sound(x, t, h) ==
  /\ x \in Statics
  /\ x.attempts = t
  /\ h \in Nat /\ h <= x.attempts
  /\ x.ready => h < x.attempts
  /\ x.ready \/ x.blocked \/ x.attempts < FastAttempts
  /\ x.blocked => x.attempts = FastAttempts
  /\ x.ready => ~ x.blocked /\ ~ x.retry /\ ~ x.pending
  /\ x.blocked => ~ x.retry /\ ~ x.pending
  /\ ~ (x.retry /\ x.pending)
  /\ x.assoc = "failed" => ~ x.listener /\ x.recover

\* A handler that runs.
Going(r) ==
  /\ r \in Handlers /\ ~ r.hung /\ r.scratch = NoMark
  /\ Sound(r.w, tries + r.probes, hangs)

\* A handler that hung has marked a probe that was not marked before.
Hung(r) ==
  /\ r \in Handlers /\ r.hung
  /\ r.scratch.attempts = tries + r.probes
  /\ r.scratch.stage # "none"
  /\ hangs \in Nat /\ hangs < r.scratch.attempts

Outcome(r) == Going(r) \/ Hung(r)

IInv == TypeOK /\ Sound(w, tries, hangs)

-----------------------------------------------------------------------------
(* Parts of the handlers.                                                  *)

\* A call that fails changes nothing but the count of the faults.
LEMMA FaultyStep ==
  ASSUME NEW r \in Handlers
  PROVE  /\ Faulty(r) \in Handlers
         /\ Faulty(r).w = r.w /\ Faulty(r).due = r.due
         /\ Faulty(r).link = r.link /\ Faulty(r).scratch = r.scratch
         /\ Faulty(r).probes = r.probes /\ Faulty(r).hung = r.hung
         /\ Faulty(r).skipped = r.skipped
<1> DEFINE f == r.faults + 1
<1>1. f \in Nat
  BY DEF Handlers
<1>2. Faulty(r) = [r EXCEPT !.faults = f]
  BY DEF Faulty, Handlers
<1> HIDE DEF f
<1> QED BY <1>1, <1>2 DEF Handlers

\* Handlers that differ in their statics, timers and link.
LEMMA ChangeStep ==
  ASSUME NEW r \in Handlers, NEW x, NEW d \in SUBSET Timers,
         NEW l \in Links,
         ~ r.hung, r.scratch = NoMark, Sound(x, tries + r.probes, hangs)
  PROVE  Going([r EXCEPT !.w = x, !.due = d, !.link = l])
<1> DEFINE s == [r EXCEPT !.w = x, !.due = d, !.link = l]
<1>1. x \in Statics
  BY DEF Sound
<1>2. s \in Handlers
  BY <1>1 DEF Handlers
<1>3. s.w = x /\ s.scratch = r.scratch /\ s.probes = r.probes /\ s.hung = r.hung
  BY DEF Handlers
<1> QED BY <1>2, <1>3 DEF Going

\* A probe is tried again, or the chip is given up.
LEMMA RetryStep ==
  ASSUME IInv, NEW r \in Handlers, ~ r.hung, r.scratch = NoMark,
         ~ r.w.ready, ~ r.w.blocked, ~ r.w.retry, ~ r.w.pending,
         r.w.attempts = tries + r.probes, hangs <= r.w.attempts,
         r.w.assoc = "failed" => ~ r.w.listener /\ r.w.recover
  PROVE  Going(RetryProbe(r))
<1> DEFINE again == [r.w EXCEPT !.blocked = FALSE, !.pending = FALSE,
                                !.retry = TRUE]
           up == [r.w EXCEPT !.blocked = TRUE]
<1>1. hangs \in Nat /\ FastAttempts \in Nat
  BY BoundsAssumption DEF IInv, TypeOK
<1>2. CASE CanRetry(r.w)
  <2>1. RetryProbe(r) = [r EXCEPT !.w = again, !.due = @ \ {"probe"}]
    BY <1>2 DEF RetryProbe, Set, Handlers
  <2>2. Sound(again, tries + r.probes, hangs)
    BY <1>1, <1>2 DEF Sound, Handlers, Statics, CanRetry
  <2> QED BY <2>1, <2>2 DEF Going, Handlers, Sound
<1>3. CASE ~ CanRetry(r.w)
  <2>1. RetryProbe(r) = [r EXCEPT !.w = up]
    BY <1>3 DEF RetryProbe, Handlers
  <2>2. r.w.attempts = FastAttempts
    BY <1>1, <1>3 DEF Handlers, Statics, CanRetry
  <2>3. Sound(up, tries + r.probes, hangs)
    BY <1>1, <2>2 DEF Sound, Handlers, Statics
  <2> QED BY <2>1, <2>3 DEF Going, Handlers, Sound
<1> QED BY <1>2, <1>3

\* The join is given up and tried again later.
LEMMA FailedStep ==
  ASSUME IInv, NEW r, Going(r)
  PROVE  Going(Failed(r)) /\ Going(Failed(Faulty(r)))
<1>1. ASSUME NEW s, Going(s) PROVE Going(Failed(s))
  <2> DEFINE x == [s.w EXCEPT !.assoc = "failed", !.noip = FALSE,
                              !.recover = TRUE, !.listener = FALSE]
             d == s.due \ {"recover"}
  <2>1. Sound(x, tries + s.probes, hangs)
    BY <1>1 DEF Going, Sound, Handlers, Statics
  <2>2. Failed(s) = [s EXCEPT !.w = x, !.due = d, !.link = s.link]
    BY <1>1 DEF Failed, Set, Going, Handlers
  <2>3. /\ d \in SUBSET Timers /\ s.link \in Links
        /\ s \in Handlers /\ ~ s.hung /\ s.scratch = NoMark
    BY <1>1 DEF Going, Handlers
  <2> HIDE DEF x, d
  <2>4. Going([s EXCEPT !.w = x, !.due = d, !.link = s.link])
    BY <2>1, <2>3, ChangeStep
  <2> QED BY <2>2, <2>4
<1>2. Going(Faulty(r))
  BY FaultyStep DEF Going
<1> QED BY <1>1, <1>2

\* The configuration cannot be read.
LEMMA UnreadStep ==
  ASSUME NEW r, Going(r)
  PROVE  Going(Unread(r))
<1> DEFINE s == Faulty(r)
<1>1. Going(s)
  BY FaultyStep DEF Going
<1> HIDE DEF s
<1>2. Going([s EXCEPT !.skipped = TRUE])
  BY <1>1 DEF Going, Handlers
<1> QED BY <1>2 DEF Unread, s

\* A chip that is ready hangs in a call.
LEMMA HangStep ==
  ASSUME IInv, NEW r \in Handlers, NEW stage \in {"init", "sta", "join"},
         r.w.attempts = tries + r.probes, hangs < r.w.attempts
  PROVE  Hung(Hangs(r, stage))
<1> DEFINE m == [stage |-> stage, attempts |-> r.w.attempts]
           s == Faulty(r)
<1>1. s \in Handlers /\ s.probes = r.probes /\ s.w = r.w
  BY FaultyStep
<1>2. m \in Marks /\ m.attempts = r.w.attempts /\ m.stage # "none"
  BY DEF Handlers, Statics, Marks
<1>3. Hangs(r, stage) = [s EXCEPT !.scratch = m, !.hung = TRUE]
  BY DEF Hangs, Mark
<1> HIDE DEF m, s
<1>4. Hangs(r, stage) \in Handlers
  BY <1>1, <1>2, <1>3 DEF Handlers
<1>5. /\ Hangs(r, stage).scratch = m /\ Hangs(r, stage).hung
      /\ Hangs(r, stage).probes = r.probes
  BY <1>1, <1>3 DEF Handlers
<1>6. hangs \in Nat
  BY DEF IInv, TypeOK
<1> QED BY <1>2, <1>4, <1>5, <1>6 DEF Hung

\* The web server is started, or waits for the chip.
LEMMA RemoteInitStep ==
  ASSUME IInv, NEW r0 \in Handlers, ~ r0.hung, r0.scratch = NoMark,
         Sound([r0.w EXCEPT !.assoc = "off", !.recover = FALSE],
               tries + r0.probes, hangs),
         NEW c \in Cards
  PROVE  \A s \in RemoteInit(r0, c) : Outcome(s)
<1> DEFINE x == [r0.w EXCEPT !.assoc = "off", !.recover = FALSE]
           r == [r0 EXCEPT !.w.assoc = "off", !.w.recover = FALSE,
                           !.skipped = r0.w.blocked]
           y == [x EXCEPT !.assoc = "connecting", !.noip = FALSE]
           z == [x EXCEPT !.pending = (@ \/ ~ x.retry), !.after = TRUE]
           joining == Set([r EXCEPT !.w.assoc = "connecting", !.w.noip = FALSE,
                                    !.link = "join"], {"deadline"})
<1>1. Sound(x, tries + r0.probes, hangs) /\ Sound(y, tries + r0.probes, hangs)
  BY DEF Going, Sound, Handlers, Statics
<1>2. r = [r0 EXCEPT !.w = x, !.skipped = r0.w.blocked]
  BY DEF Going, Handlers
<1>3. Going(r) /\ r.w = x /\ r.probes = r0.probes
  BY <1>1, <1>2 DEF Going, Handlers, Statics
<1>4. joining = [r EXCEPT !.w = y, !.link = "join", !.due = @ \ {"deadline"}]
  BY <1>3 DEF Set, Going, Handlers
<1>5. Going(joining)
  <2> DEFINE d == r.due \ {"deadline"}
  <2>1. /\ d \in SUBSET Timers /\ "join" \in Links
        /\ r \in Handlers /\ ~ r.hung /\ r.scratch = NoMark
    BY <1>3 DEF Going, Handlers, Links
  <2>2. joining = [r EXCEPT !.w = y, !.due = d, !.link = "join"]
    BY <1>3, <1>4 DEF Going, Handlers
  <2>3. r.probes = r0.probes
    BY <1>3
  <2> HIDE DEF joining, r, x, y, d
  <2>4. Going([r EXCEPT !.w = y, !.due = d, !.link = "join"])
    BY <1>1, <2>1, <2>3, ChangeStep
  <2> QED BY <2>2, <2>4
<1>6. CASE ~ r.w.ready
  <2>1. RemoteInit(r0, c) = RemoteInitLater(r)
    BY <1>6 DEF RemoteInit
  <2>2. CASE r.w.blocked
    BY <2>1, <2>2, <1>3 DEF RemoteInitLater, Outcome
  <2>3. CASE ~ r.w.blocked
    <3>1. Sound(z, tries + r0.probes, hangs)
      BY <1>1, <1>3, <1>6, <2>3, ZenonT(60) DEF Sound, Statics
    <3>2. r.w = x /\ r \in Handlers /\ r.due \in SUBSET Timers /\ r.link \in Links
      BY <1>3 DEF Going, Handlers
    <3> HIDE DEF r, x
    <3> DEFINE s == [r EXCEPT !.w = z, !.due = r.due, !.link = r.link]
    <3>3. s = [r EXCEPT !.w.pending = (r.w.pending \/ ~ r.w.retry), !.w.after = TRUE]
      BY <3>2 DEF Handlers, Statics
    <3>4. RemoteInitLater(r) = {s}
      BY <2>3, <3>3 DEF RemoteInitLater
    <3> HIDE DEF z
    <3>5. Going(s)
      BY <3>1, <3>2, <1>3, ChangeStep DEF Going
    <3> QED BY <2>1, <3>4, <3>5 DEF Outcome
  <2> QED BY <2>2, <2>3
<1>7. CASE r.w.ready
  <2>1. r \in Handlers /\ r.w.attempts = tries + r.probes /\ hangs < r.w.attempts
    BY <1>3, <1>7 DEF Going, Sound
  <2>2. Going(Failed(r)) /\ Going(Failed(Faulty(r)))
    BY <1>3, FailedStep
  <2>3. Hung(Hangs(r, "sta")) /\ Hung(Hangs(r, "join"))
    BY <2>1, HangStep
  <2>4. RemoteInit(r0, c) \subseteq
          {Failed(r), r, joining, Unread(r), Failed(Faulty(r)),
           Hangs(r, "sta"), Hangs(r, "join")}
    BY <1>7 DEF RemoteInit, Cards
  <2>5. Going(Unread(r))
    BY <1>3, UnreadStep
  <2> QED BY <1>3, <1>5, <2>2, <2>3, <2>4, <2>5 DEF Outcome
<1> QED BY <1>6, <1>7

LEMMA RemoteInitGoing ==
  ASSUME IInv, NEW r, Going(r), NEW c \in Cards
  PROVE  \A s \in RemoteInit(r, c) : Outcome(s)
<1>1. /\ r \in Handlers /\ ~ r.hung /\ r.scratch = NoMark
      /\ Sound(r.w, tries + r.probes, hangs)
  BY DEF Going
<1>2. Sound([r.w EXCEPT !.assoc = "off", !.recover = FALSE],
            tries + r.probes, hangs)
  BY <1>1 DEF Sound, Statics
<1> QED BY <1>1, <1>2, RemoteInitStep

\* A probe is made.
LEMMA ProbeStep ==
  ASSUME IInv, NEW r0 \in Handlers, ~ r0.hung, r0.scratch = NoMark,
         r0.probes = 0, NEW c \in Cards,
         Sound(r0.w, tries, hangs), ~ r0.w.ready, ~ r0.w.blocked,
         ~ r0.w.retry, ~ r0.w.pending
  PROVE  \A s \in Probe(r0, c) : Outcome(s)
<1> DEFINE r == [r0 EXCEPT !.w.attempts = @ + 1, !.probes = 1]
           found == [r EXCEPT !.w.ready = TRUE, !.w.retry = FALSE]
           later == [found EXCEPT !.w.after = FALSE]
           x == [r0.w EXCEPT !.attempts = @ + 1]
           y == [x EXCEPT !.ready = TRUE, !.retry = FALSE]
           z == [y EXCEPT !.after = FALSE]
<1>1. x \in Statics /\ y \in Statics /\ z \in Statics /\ tries \in Nat
  <2>1. r0.w.attempts + 1 \in 0 .. FastAttempts /\ tries \in Nat
    BY BoundsAssumption DEF Sound, Statics, IInv, TypeOK
  <2> QED BY <2>1 DEF Handlers, Statics
<1>2. r = [r0 EXCEPT !.w = x, !.probes = 1]
  BY DEF Handlers
<1>3. found = [r EXCEPT !.w = y] /\ later = [r EXCEPT !.w = z]
  BY <1>2 DEF Handlers
<1>4. r \in Handlers /\ r.w = x /\ r.probes = 1 /\ ~ r.hung
        /\ r.scratch = NoMark
  BY <1>1, <1>2 DEF Handlers
<1>5. Sound(y, tries + 1, hangs) /\ Sound(z, tries + 1, hangs)
  BY <1>1 DEF Sound, Statics
<1>6. Going(found) /\ Going(later)
  <2>1. r.due \in SUBSET Timers /\ r.link \in Links
    BY <1>4 DEF Handlers
  <2>2. /\ found = [r EXCEPT !.w = y, !.due = r.due, !.link = r.link]
        /\ later = [r EXCEPT !.w = z, !.due = r.due, !.link = r.link]
    BY <1>3, <1>4, ZenonT(60) DEF Handlers
  <2> HIDE DEF r, y, z, found, later
  <2> QED BY <1>4, <1>5, <2>1, <2>2, ChangeStep
<1>7. /\ x.attempts = tries + 1 /\ hangs < x.attempts
      /\ ~ x.ready /\ ~ x.blocked /\ ~ x.retry /\ ~ x.pending
      /\ x.assoc = "failed" => ~ x.listener /\ x.recover
  BY <1>1 DEF Sound, Statics
<1>8. Going(RetryProbe(Faulty(r)))
  <2> DEFINE s == Faulty(r)
  <2>1. s \in Handlers /\ s.w = x /\ s.probes = 1 /\ ~ s.hung
          /\ s.scratch = NoMark
    BY <1>4, FaultyStep
  <2>2. Going(RetryProbe(s))
    <3> HIDE DEF s, x
    <3>1. hangs <= x.attempts
      BY <1>7, <1>1 DEF Sound, Statics
    <3> QED BY <1>7, <2>1, <3>1, RetryStep
  <2> QED BY <2>2
<1>9. Hung(Hangs(r, "init"))
  BY <1>4, <1>7, HangStep
<1>10. \A s \in RemoteInit(later, c) : Outcome(s)
  BY <1>6, RemoteInitGoing
<1>11. \A s \in Probe(r0, c) :
          \/ s = RetryProbe(Faulty(r)) \/ s = Hangs(r, "init") \/ s = found
          \/ s \in RemoteInit(later, c)
  BY DEF Probe
<1> QED BY <1>6, <1>8, <1>9, <1>10, <1>11 DEF Outcome

\* The join is looked at.
LEMMA PollJoinStep ==
  ASSUME IInv, NEW r, Going(r), r.w.ready, r.w.assoc = "connecting"
  PROVE  \A s \in PollJoin(r) : Outcome(s)
<1> DEFINE waits(s) == IF "deadline" \in s.due THEN Failed(s) ELSE s
           x == [r.w EXCEPT !.noip = TRUE]
           y == [r.w EXCEPT !.noip = FALSE]
           z == [r.w EXCEPT !.assoc = "active", !.noip = FALSE,
                            !.recover = FALSE, !.listener = TRUE]
           noIp == IF r.w.noip THEN r
                   ELSE Set([r EXCEPT !.w.noip = TRUE], {"noip", "deadline"})
           other == [r EXCEPT !.w.noip = FALSE]
           again == [other EXCEPT !.link = "join"]
           up == [r EXCEPT !.w.assoc = "active", !.w.noip = FALSE,
                           !.w.recover = FALSE, !.w.listener = TRUE]
<1>1. /\ Sound(x, tries + r.probes, hangs)
      /\ Sound(y, tries + r.probes, hangs)
      /\ Sound(z, tries + r.probes, hangs)
  BY DEF Going, Sound, Handlers, Statics
<1>2. /\ noIp = r \/ noIp = [r EXCEPT !.w = x, !.due = @ \ {"noip", "deadline"}]
      /\ other = [r EXCEPT !.w = y]
      /\ up = [r EXCEPT !.w = z]
  BY DEF Set, Going, Handlers
<1>3. again = [r EXCEPT !.w = y, !.link = "join"]
  BY <1>2 DEF Going, Handlers
<1>4. Going(noIp) /\ Going(other) /\ Going(up) /\ Going(again)
  <2> DEFINE d == r.due \ {"noip", "deadline"}
  <2>1. /\ r \in Handlers /\ ~ r.hung /\ r.scratch = NoMark
        /\ r.due \in SUBSET Timers /\ d \in SUBSET Timers
        /\ r.link \in Links /\ "join" \in Links
    BY DEF Going, Handlers, Links
  <2>2. noIp = r \/ noIp = [r EXCEPT !.w = x, !.due = d, !.link = r.link]
    <3> HIDE DEF noIp, x
    <3>1. [r EXCEPT !.w = x, !.due = @ \ {"noip", "deadline"}] =
            [r EXCEPT !.w = x, !.due = d, !.link = r.link]
      BY <2>1 DEF Handlers
    <3> QED BY <1>2, <3>1
  <2>3. other = [r EXCEPT !.w = y, !.due = r.due, !.link = r.link]
    BY <1>2, <2>1 DEF Handlers
  <2>4. up = [r EXCEPT !.w = z, !.due = r.due, !.link = r.link]
    BY <1>2, <2>1 DEF Handlers
  <2>5. again = [r EXCEPT !.w = y, !.due = r.due, !.link = "join"]
    BY <1>3, <2>1 DEF Handlers
  <2> HIDE DEF x, y, z, d, noIp, other, up, again
  <2>6. /\ Going([r EXCEPT !.w = x, !.due = d, !.link = r.link])
        /\ Going([r EXCEPT !.w = y, !.due = r.due, !.link = r.link])
        /\ Going([r EXCEPT !.w = z, !.due = r.due, !.link = r.link])
        /\ Going([r EXCEPT !.w = y, !.due = r.due, !.link = "join"])
    BY <1>1, <2>1, ChangeStep
  <2> QED BY <2>2, <2>3, <2>4, <2>5, <2>6
<1>5. ASSUME NEW s, Going(s)
      PROVE  Going(waits(s)) /\ Going(Failed(s)) /\ Going(Failed(Faulty(s)))
  BY <1>5, FailedStep
<1>6. Going([Faulty(r) EXCEPT !.w.listener = FALSE])
  <2> DEFINE v == [r.w EXCEPT !.listener = FALSE]
  <2>1. Sound(v, tries + r.probes, hangs)
    BY DEF Going, Sound, Handlers, Statics
  <2> DEFINE s == Faulty(r)
  <2>2. /\ s \in Handlers /\ s.w = r.w /\ s.probes = r.probes /\ ~ s.hung
        /\ s.scratch = NoMark
    BY FaultyStep DEF Going
  <2> HIDE DEF s
  <2>3. s.due \in SUBSET Timers /\ s.link \in Links
    BY <2>2 DEF Handlers
  <2>4. [s EXCEPT !.w.listener = FALSE] =
          [s EXCEPT !.w = v, !.due = s.due, !.link = s.link]
    BY <2>2 DEF Handlers
  <2> HIDE DEF v
  <2>5. Sound(v, tries + s.probes, hangs)
    BY <2>1, <2>2
  <2>6. Going([s EXCEPT !.w = v, !.due = s.due, !.link = s.link])
    BY <2>2, <2>3, <2>5, ChangeStep
  <2> QED BY <2>4, <2>6 DEF s
<1>7. Going(Failed([Faulty(r) EXCEPT !.w.listener = FALSE]))
  BY <1>6, FailedStep
<1>8. /\ Going(waits(noIp)) /\ Going(waits(other)) /\ Going(waits(again))
      /\ Going(Failed(r)) /\ Going(Failed(other)) /\ Going(Failed(Faulty(other)))
  <2> HIDE DEF noIp, other, again, waits
  <2> QED BY <1>4, <1>5
<1>9. \A s \in PollJoin(r) :
         \/ s = up \/ s = Failed([Faulty(r) EXCEPT !.w.listener = FALSE])
         \/ s = waits(noIp) \/ s = waits(other) \/ s = waits(again)
         \/ s = Failed(r) \/ s = Failed(other) \/ s = Failed(Faulty(other))
  BY DEF PollJoin, FinishJoin
<1> QED BY <1>4, <1>7, <1>8, <1>9 DEF Outcome
\* After a hang the mark is found, and the probe is tried again or given up.
LEMMA BootStep ==
  ASSUME IInv, NEW m \in Marks, m.stage # "none", NEW h \in Nat,
         h <= m.attempts, m.attempts > 0
  PROVE  /\ Sound(BootCheck(m).w, m.attempts, h)
         /\ BootCheck(m).due = {} /\ BootCheck(m).scratch = NoMark
<1> DEFINE x == [PowerOn EXCEPT !.attempts = m.attempts]
           r == [Now EXCEPT !.w = x, !.due = {}, !.scratch = NoMark]
           y == [x EXCEPT !.blocked = FALSE, !.pending = FALSE, !.retry = TRUE]
           z == [x EXCEPT !.blocked = TRUE]
<1>1. m # NoMark
  BY DEF NoMark
<1>2. r = [[Now EXCEPT !.w = PowerOn, !.due = {}, !.scratch = NoMark]
             EXCEPT !.w.attempts = m.attempts]
  BY DEF Now, PowerOn
<1>3. BootCheck(m) = RetryProbe(r)
  <2>1. m.attempts # 0
    OBVIOUS
  <2>2. BootCheck(m) =
          RetryProbe([[Now EXCEPT !.w = PowerOn, !.due = {}, !.scratch = NoMark]
                        EXCEPT !.w.attempts = m.attempts])
    BY <1>1, <2>1 DEF BootCheck
  <2> QED BY <1>2, <2>2
<1>4. r.w = x /\ r.due = {} /\ r.scratch = NoMark
  BY DEF Now
<1>5. m.attempts \in 0 .. FastAttempts /\ FastAttempts \in Nat
  BY BoundsAssumption DEF Marks
<1>6. CASE CanRetry(x)
  <2>1. Sound(y, m.attempts, h)
    BY <1>5, <1>6 DEF Sound, Statics, PowerOn, CanRetry
  <2>2. RetryProbe(r) = [r EXCEPT !.w = y, !.due = {} \ {"probe"}]
    <3> DEFINE s == [r EXCEPT !.w.blocked = FALSE, !.w.pending = FALSE,
                              !.w.retry = TRUE]
    <3>1. s = [r EXCEPT !.w = y]
      BY ZenonT(60) DEF Now, PowerOn
    <3>2. RetryProbe(r) = Set(s, {"probe"})
      BY <1>4, <1>6 DEF RetryProbe
    <3>3. Set(s, {"probe"}) = [s EXCEPT !.due = s.due \ {"probe"}]
      BY DEF Set
    <3>4. s.due = {}
      BY <3>1 DEF Now
    <3> HIDE DEF y
    <3> QED BY <3>1, <3>2, <3>3, <3>4 DEF Now
  <2>3. RetryProbe(r).w = y /\ RetryProbe(r).due = {}
          /\ RetryProbe(r).scratch = NoMark
    BY <2>2 DEF Now
  <2> QED BY <1>3, <2>1, <2>3
<1>7. CASE ~ CanRetry(x)
  <2>1. m.attempts = FastAttempts
    BY <1>5, <1>7 DEF CanRetry, PowerOn
  <2>2. Sound(z, m.attempts, h)
    BY <1>5, <2>1 DEF Sound, Statics, PowerOn
  <2>3. RetryProbe(r) = [r EXCEPT !.w = z]
    BY <1>4, <1>7 DEF RetryProbe, Now, PowerOn
  <2>4. RetryProbe(r).w = z /\ RetryProbe(r).due = {}
          /\ RetryProbe(r).scratch = NoMark
    BY <2>3 DEF Now
  <2> QED BY <1>3, <2>2, <2>4
<1> QED BY <1>6, <1>7

-----------------------------------------------------------------------------
(* Steps.                                                                  *)

Flags == [initDone : BOOLEAN, loaded : BOOLEAN]

\* A handler that ends, or hangs, keeps the invariant.
LEMMA BecomesStep ==
  ASSUME IInv, NEW r, Outcome(r), Becomes(r), NEW n \in {0, 1},
         budget.commands >= n, NEW m \in Flags, Spends(r, n, m),
         card' \in Cards
  PROVE  IInv'
<1> USE DEF IInv
<1>1. tries \in Nat /\ hangs \in Nat /\ r \in Handlers
  BY DEF TypeOK, Outcome, Going, Hung
<1>2. /\ budget' \in [faults : 0 .. MaxFaults, flaps : 0 .. MaxFlaps,
                      commands : 0 .. MaxCommands]
      /\ main' \in Flags
  <2>1. r.faults \in Nat /\ r.faults <= budget.faults
    BY <1>1 DEF Handlers, Becomes
  <2>2. /\ budget.faults - r.faults \in 0 .. MaxFaults
        /\ budget.commands - n \in 0 .. MaxCommands
    BY <2>1, BoundsAssumption DEF TypeOK
  <2> QED BY <2>2 DEF TypeOK, Spends, Flags
<1>3. CASE Going(r)
  <2>1. Sound(w', tries', hangs')
    BY <1>3 DEF Becomes, Going
  <2>2. /\ w' \in Statics /\ due' \subseteq Timers /\ scratch' = NoMark
        /\ link' \in Links /\ skipped' \in BOOLEAN
        /\ tries' \in Nat /\ hangs' \in Nat
    BY <1>1, <1>3 DEF Becomes, Going, Handlers
  <2> QED BY <1>2, <2>1, <2>2 DEF TypeOK, Statics, Links, Flags
<1>4. CASE Hung(r)
  <2> DEFINE k == r.scratch
  <2>1. /\ k \in Marks /\ k.stage # "none" /\ k.attempts = tries + r.probes
        /\ hangs + 1 \in Nat /\ hangs + 1 <= k.attempts /\ k.attempts > 0
        /\ r.probes \in {0, 1}
    BY <1>1, <1>4 DEF Hung, Handlers, Marks
  <2>2. /\ w' = BootCheck(k).w /\ due' = BootCheck(k).due
        /\ scratch' = BootCheck(k).scratch /\ link' = "down"
        /\ skipped' = FALSE
        /\ hangs' = hangs + 1 /\ tries' = tries + r.probes
    BY <1>4 DEF Hung, Becomes
  <2> HIDE DEF k
  <2>3. /\ Sound(w', tries', hangs') /\ due' = {} /\ scratch' = NoMark
    BY <2>1, <2>2, BootStep
  <2>4. w' \in Statics /\ tries' \in Nat /\ hangs' \in Nat
    BY <1>1, <2>1, <2>2, <2>3 DEF Sound
  <2> QED BY <1>2, <2>2, <2>3, <2>4 DEF TypeOK, Statics, Links, Flags
<1> QED BY <1>3, <1>4 DEF Outcome

\* A handler begins with what the statics are.
LEMMA NowGoing == ASSUME IInv PROVE Going(Now)
<1>1. /\ w \in Statics /\ due \in SUBSET Timers /\ link \in Links
      /\ scratch = NoMark /\ skipped \in BOOLEAN /\ tries \in Nat
      /\ Sound(w, tries, hangs)
  BY DEF IInv, TypeOK, Statics, Links
<1>2. NoMark \in Marks
  BY BoundsAssumption DEF NoMark, Marks
<1>3. Now \in Handlers
  BY <1>1, <1>2 DEF Now, Handlers
<1>4. Now.w = w /\ Now.probes = 0 /\ ~ Now.hung /\ Now.scratch = NoMark
  BY <1>1 DEF Now
<1>5. tries + 0 = tries
  BY <1>1
<1> QED BY <1>1, <1>3, <1>4, <1>5 DEF Going

\* The retry of a probe that has become due.
LEMMA DueGoing == ASSUME IInv PROVE Going(ProbeDue(Now))
<1>1. Going(Now)
  BY NowGoing
<1> DEFINE x == [Now.w EXCEPT !.retry = FALSE, !.pending = TRUE]
<1>2. CASE Now.w.retry
  <2>1. Sound(x, tries + Now.probes, hangs)
    BY <1>1, <1>2 DEF Going, Sound, Statics
  <2>2. /\ Now \in Handlers /\ ~ Now.hung /\ Now.scratch = NoMark
        /\ Now.due \in SUBSET Timers /\ Now.link \in Links
    BY <1>1 DEF Going, Handlers
  <2>3. [Now EXCEPT !.w.retry = FALSE, !.w.pending = TRUE] =
          [Now EXCEPT !.w = x, !.due = Now.due, !.link = Now.link]
    BY DEF Now
  <2> HIDE DEF x
  <2>4. Going([Now EXCEPT !.w = x, !.due = Now.due, !.link = Now.link])
    BY <2>1, <2>2, ChangeStep
  <2> QED BY <1>1, <2>3, <2>4 DEF ProbeDue
<1>3. CASE ~ Now.w.retry
  BY <1>1, <1>3 DEF ProbeDue
<1> QED BY <1>2, <1>3

\* A poll whose results are outcomes.
LEMMA PollEnds ==
  ASSUME IInv, Poll, \A s \in PollResults : Outcome(s)
  PROVE  IInv'
<1>1. card' \in Cards /\ main \in Flags /\ budget.commands >= 0
  BY BoundsAssumption DEF Poll, IInv, TypeOK, Flags
<1>2. PICK r \in PollResults : Becomes(r) /\ Spends(r, 0, main)
  BY DEF Poll
<1> QED BY <1>1, <1>2, BecomesStep

LEMMA PollStep == ASSUME IInv, Poll PROVE IInv'
<1> DEFINE r == ProbeDue(Now)
           called == [r EXCEPT !.w.pending = FALSE]
           again == [r EXCEPT !.w.recover = FALSE, !.link = "down"]
<1>1. /\ Going(r) /\ r \in Handlers /\ ~ r.hung /\ r.scratch = NoMark
      /\ Sound(r.w, tries + r.probes, hangs)
  BY DueGoing DEF Going
<1>2. r.probes = 0 /\ tries + r.probes = tries
  BY DEF ProbeDue, Now, IInv, TypeOK
<1>3. card \in Cards
  BY DEF IInv, TypeOK
<1>4. CASE r.w.pending /\ ~ r.w.ready
  <2> HIDE DEF r
  <2> DEFINE x == [r.w EXCEPT !.pending = FALSE]
  <2>1. called = [r EXCEPT !.w = x]
    BY <1>1 DEF Handlers
  <2>2. Sound(x, tries, hangs) /\ ~ x.ready /\ ~ x.blocked /\ ~ x.retry
          /\ ~ x.pending
    BY <1>1, <1>2, <1>4 DEF Sound, Statics
  <2>3. /\ called \in Handlers /\ called.w = x /\ ~ called.hung
        /\ called.scratch = NoMark /\ called.probes = 0
    <3> HIDE DEF x, called
    <3>1. x \in Statics
      BY <2>2 DEF Sound
    <3> QED BY <1>1, <1>2, <2>1, <3>1 DEF Handlers
  <2>4. PollResults = Probe(called, card)
    BY <1>4 DEF PollResults, r
  <2> HIDE DEF called, x
  <2>5. \A s \in Probe(called, card) : Outcome(s)
    BY <1>3, <2>2, <2>3, ProbeStep
  <2> QED BY <2>4, <2>5, PollEnds
<1>5. CASE /\ ~ (r.w.pending /\ ~ r.w.ready)
           /\ r.w.ready /\ r.w.assoc = "failed" /\ r.w.recover
           /\ "recover" \in r.due
  <2> HIDE DEF r
  <2> DEFINE x == [r.w EXCEPT !.recover = FALSE]
  <2>1. again = [r EXCEPT !.w = x, !.link = "down"]
    BY <1>1 DEF Handlers
  <2>2. x \in Statics /\ "down" \in Links
    BY <1>1 DEF Sound, Statics, Links
  <2>3. Sound([x EXCEPT !.assoc = "off", !.recover = FALSE], tries, hangs)
    BY <1>1, <1>2 DEF Sound, Statics
  <2>4. /\ again \in Handlers /\ again.w = x /\ ~ again.hung
        /\ again.scratch = NoMark /\ again.probes = 0
    <3> HIDE DEF x, again
    <3> QED BY <1>1, <1>2, <2>1, <2>2 DEF Handlers
  <2>5. PollResults = RemoteInit(again, card)
    BY <1>5 DEF PollResults, r
  <2>6. tries + again.probes = tries
    BY <1>2, <2>4
  <2> HIDE DEF again, x
  <2>7. \A s \in RemoteInit(again, card) : Outcome(s)
    BY <1>3, <2>3, <2>4, <2>6, RemoteInitStep
  <2> QED BY <2>5, <2>7, PollEnds
<1>6. CASE ~ (r.w.pending /\ ~ r.w.ready) /\ r.w.ready /\ r.w.assoc = "connecting"
  <2>1. PollResults = PollJoin(r)
    BY <1>6 DEF PollResults
  <2> HIDE DEF r
  <2>2. \A s \in PollJoin(r) : Outcome(s)
    BY <1>1, <1>6, PollJoinStep
  <2> QED BY <2>1, <2>2, PollEnds
<1>7. CASE /\ ~ (r.w.pending /\ ~ r.w.ready)
           /\ ~ (/\ r.w.ready /\ r.w.assoc = "failed" /\ r.w.recover
                 /\ "recover" \in r.due)
           /\ ~ (r.w.ready /\ r.w.assoc = "connecting")
  <2>1. PollResults = {r}
    BY <1>7 DEF PollResults
  <2> QED BY <1>1, <2>1, PollEnds DEF Outcome
<1> QED BY <1>4, <1>5, <1>6, <1>7

\* The first initialisation, and the card that comes late.
LEMMA InitStep == ASSUME IInv, FirstInit \/ HotPlug PROVE IInv'
<1>1. card \in Cards /\ main \in Flags /\ budget.commands >= 0
  BY BoundsAssumption DEF IInv, TypeOK, Flags
<1>2. \A s \in RemoteInit(Now, card) : Outcome(s)
  BY <1>1, NowGoing, RemoteInitGoing
<1>3. CASE FirstInit
  <2> DEFINE m == [initDone |-> TRUE, loaded |-> card # "absent"]
  <2>1. PICK r \in RemoteInit(Now, card) : Becomes(r) /\ Spends(r, 0, m)
    BY <1>3 DEF FirstInit
  <2>2. m \in Flags /\ card' \in Cards
    BY <1>1, <1>3 DEF Flags, FirstInit
  <2> HIDE DEF m
  <2> QED BY <1>1, <1>2, <2>1, <2>2, BecomesStep
<1>4. CASE HotPlug
  <2> DEFINE m == [main EXCEPT !.loaded = TRUE]
  <2>1. PICK r \in RemoteInit(Now, card) : Becomes(r) /\ Spends(r, 0, m)
    BY <1>4 DEF HotPlug
  <2>2. m \in Flags /\ card' \in Cards
    BY <1>1, <1>4 DEF Flags, HotPlug
  <2> HIDE DEF m
  <2> QED BY <1>1, <1>2, <2>1, <2>2, BecomesStep
<1> QED BY <1>3, <1>4

\* A command defers the recovery.
LEMMA DeferredGoing ==
  ASSUME IInv
  PROVE  Going(Deferred(Now)) /\ Deferred(Now).due \subseteq due
<1>1. Going(Now) /\ Now.due = due /\ Now.w = w
  BY NowGoing DEF Now
<1> DEFINE d == Now.due \ {"recover"}
<1>2. /\ Now \in Handlers /\ ~ Now.hung /\ Now.scratch = NoMark
      /\ d \in SUBSET Timers /\ Now.link \in Links
      /\ Sound(Now.w, tries + Now.probes, hangs)
  BY <1>1 DEF Going, Handlers
<1>3. Set(Now, {"recover"}) =
        [Now EXCEPT !.w = Now.w, !.due = d, !.link = Now.link]
  BY DEF Set, Now
<1>4. Set(Now, {"recover"}).due \subseteq due
  BY DEF Set, Now
<1>5. Going([Now EXCEPT !.w = Now.w, !.due = d, !.link = Now.link])
  <2> HIDE DEF d
  <2> QED BY <1>2, ChangeStep
<1> QED BY <1>1, <1>3, <1>4, <1>5 DEF Deferred

LEMMA MountStep == ASSUME IInv, NEW c \in Cards, Mount(c) PROVE IInv'
<1> DEFINE m == [main EXCEPT !.loaded = main.initDone /\ c # "absent"]
           S == IF c # "absent" /\ main.initDone
                  THEN RemoteInit(Deferred(Now), c) ELSE {Deferred(Now)}
<1>1. m \in Flags /\ card' \in Cards /\ budget.commands >= 1
  <2>1. budget.commands \in Nat /\ main \in Flags
    BY DEF IInv, TypeOK, Flags
  <2>2. (main.initDone /\ c # "absent") \in BOOLEAN
    OBVIOUS
  <2>3. m \in Flags
    BY <2>1, <2>2 DEF Flags
  <2>4. card' \in Cards
    BY DEF Mount
  <2> QED BY <2>1, <2>3, <2>4 DEF Mount, Commanded
<1>2. \A s \in S : Outcome(s)
  BY DeferredGoing, RemoteInitGoing DEF Outcome
<1>3. PICK r \in S : Becomes(r) /\ Spends(r, 1, m)
  BY DEF Mount
<1> HIDE DEF m, S
<1> QED BY <1>1, <1>2, <1>3, BecomesStep

\* The command that asks for a probe begins the count again.
LEMMA ProbeNowStep == ASSUME IInv, ProbeNow PROVE IInv'
<1> USE DEF IInv
<1>1. budget' \in [faults : 0 .. MaxFaults, flaps : 0 .. MaxFlaps,
                    commands : 0 .. MaxCommands]
  BY BoundsAssumption DEF ProbeNow, Commanded, CommandSpends, TypeOK
<1>2. CASE w.ready
  <2>1. due' \subseteq Timers
    BY <1>2, DeferredGoing DEF ProbeNow, TypeOK
  <2> QED BY <1>1, <1>2, <2>1 DEF ProbeNow, TypeOK
<1>3. CASE ~ w.ready
  <2> DEFINE x == [w EXCEPT !.blocked = FALSE, !.attempts = 0, !.retry = FALSE,
                            !.pending = TRUE]
  <2>1. w' = x /\ tries' = 0 /\ hangs' = 0
    BY <1>3 DEF ProbeNow
  <2>2. Sound(x, 0, 0)
    <3>1. w \in Statics /\ 0 \in 0 .. FastAttempts /\ 0 < FastAttempts
      BY BoundsAssumption DEF Sound
    <3>2. x \in Statics
      BY <3>1 DEF Statics
    <3>3. /\ ~ x.ready /\ ~ x.blocked /\ ~ x.retry /\ x.attempts = 0
          /\ x.assoc = w.assoc /\ x.listener = w.listener
          /\ x.recover = w.recover
      BY <1>3, <3>1 DEF Statics
    <3>4. w.assoc = "failed" => ~ w.listener /\ w.recover
      BY DEF Sound
    <3> HIDE DEF x
    <3> QED BY <3>1, <3>2, <3>3, <3>4 DEF Sound
  <2>3. x \in Statics
    BY <2>2 DEF Sound
  <2> HIDE DEF x
  <2> QED BY <1>1, <1>3, <2>1, <2>2, <2>3 DEF ProbeNow, TypeOK, Statics
<1> QED BY <1>2, <1>3

LEMMA RestartStep == ASSUME IInv, Restart PROVE IInv'
<1> USE DEF IInv
<1>1. budget' \in [faults : 0 .. MaxFaults, flaps : 0 .. MaxFlaps,
                    commands : 0 .. MaxCommands]
  BY BoundsAssumption DEF Restart, Commanded, CommandSpends, TypeOK
<1>2. BootCheck(NoMark).w = PowerOn /\ BootCheck(NoMark).due = {}
  BY DEF BootCheck, Now
<1>3. w' = PowerOn /\ due' = {} /\ tries' = 0 /\ hangs' = 0
  BY <1>2 DEF Restart, TypeOK
<1>4. Sound(PowerOn, 0, 0)
  BY BoundsAssumption DEF Sound, PowerOn, Statics
<1>5. PowerOn \in Statics
  BY <1>4 DEF Sound
<1>6. /\ scratch' = NoMark /\ link' = "down" /\ main' \in Flags
      /\ card' \in Cards /\ skipped' = FALSE
  BY DEF Restart, TypeOK, Flags
<1> HIDE DEF IInv
<1>7. TypeOK'
  BY <1>1, <1>3, <1>5, <1>6 DEF TypeOK, Statics, Flags
<1>8. Sound(w', tries', hangs')
  BY <1>3, <1>4
<1> QED BY <1>7, <1>8 DEF IInv

LEMMA OtherSteps ==
  ASSUME IInv,
         \/ Insert \/ Command \/ LinkProgress \/ LinkWorse
         \/ \E t \in Timers : Fires(t)
         \/ UNCHANGED vars
  PROVE  IInv'
<1> USE DEF IInv
<1>1. CASE Insert
  BY <1>1, BoundsAssumption
  DEF Insert, Commanded, CommandSpends, TypeOK, Cards
<1>2. CASE Command
  <2>1. due' \subseteq Timers
    BY <1>2, DeferredGoing DEF Command, TypeOK
  <2> QED BY <1>2, <2>1, BoundsAssumption
          DEF Command, Commanded, CommandSpends, TypeOK
<1>3. CASE LinkProgress
  BY <1>3 DEF LinkProgress, TypeOK
<1>4. CASE LinkWorse
  BY <1>4, BoundsAssumption DEF LinkWorse, TypeOK
<1>5. CASE \E t \in Timers : Fires(t)
  <2>1. PICK t \in Timers : Fires(t)
    BY <1>5
  <2>2. due' \subseteq Timers
    BY <2>1 DEF Fires, TypeOK
  <2>3. budget' \in [faults : 0 .. MaxFaults, flaps : 0 .. MaxFlaps,
                      commands : 0 .. MaxCommands]
    BY <2>1, BoundsAssumption DEF Fires, TypeOK
  <2> QED BY <2>1, <2>2, <2>3 DEF Fires, TypeOK
<1>6. CASE UNCHANGED vars
  BY <1>6 DEF vars, TypeOK
<1> QED BY <1>1, <1>2, <1>3, <1>4, <1>5, <1>6

-----------------------------------------------------------------------------
(* The invariant and what follows from it.                                 *)

LEMMA InitInvariant == Init => IInv
<1> SUFFICES ASSUME Init PROVE IInv
  OBVIOUS
<1>1. Sound(PowerOn, 0, 0)
  BY BoundsAssumption DEF Sound, PowerOn, Statics
<1>2. PowerOn \in Statics
  BY <1>1 DEF Sound
<1>3. budget \in [faults : 0 .. MaxFaults, flaps : 0 .. MaxFlaps,
                   commands : 0 .. MaxCommands]
  BY BoundsAssumption DEF Init
<1>4. TypeOK
  BY <1>2, <1>3, ZenonT(60) DEF Init, TypeOK, Statics
<1>5. Sound(w, tries, hangs)
  BY <1>1 DEF Init
<1> QED BY <1>4, <1>5 DEF IInv

LEMMA NextInvariant == IInv /\ [Next]_vars => IInv'
<1> SUFFICES ASSUME IInv, [Next]_vars PROVE IInv'
  OBVIOUS
<1>1. CASE Poll
  BY <1>1, PollStep
<1>2. CASE FirstInit \/ HotPlug
  BY <1>2, InitStep
<1>3. CASE \E c \in Cards : Mount(c)
  BY <1>3, MountStep
<1>4. CASE ProbeNow
  BY <1>4, ProbeNowStep
<1>5. CASE Restart
  BY <1>5, RestartStep
<1>6. CASE \/ Insert \/ Command \/ LinkProgress \/ LinkWorse
           \/ \E t \in Timers : Fires(t)
           \/ UNCHANGED vars
  BY <1>6, OtherSteps
<1> QED BY <1>1, <1>2, <1>3, <1>4, <1>5, <1>6 DEF Next, Operator

LEMMA Invariant == Spec => []IInv
BY InitInvariant, NextInvariant, PTL DEF Spec

\* The types of the statics, the timers, the registers and the link
\* (remote_http.c), for every number of tries.
THEOREM TypeCorrect == Spec => []TypeOK
<1>1. IInv => TypeOK
  BY DEF IInv
<1> QED BY <1>1, Invariant, PTL

\* The probe of the chip (wifi_hw_...) is in one state at a time.
THEOREM ProbeIsInOneState == Spec => []OneProbeState
<1>1. IInv => OneProbeState
  BY DEF IInv, Sound, OneProbeState
<1> QED BY <1>1, Invariant, PTL

\* The number of tries survives every reset by the watchdog, and only those
\* (remote_http_boot_check).
THEOREM TriesAreCounted == Spec => []CountSurvives
<1>1. IInv => CountSurvives
  BY DEF IInv, Sound, CountSurvives
<1> QED BY <1>1, Invariant, PTL

\* A chip that hangs resets the board at most as often as it may be tried, and
\* is given up only then (wifi_probe_can_retry).
THEOREM ResetsAreBounded == Spec => []ResetsBounded
<1>1. IInv => ResetsBounded
  BY BoundsAssumption DEF IInv, Sound, Statics, ResetsBounded
<1> QED BY <1>1, Invariant, PTL

\* While the board waits to join again nothing listens (wifi_schedule_recover).
THEOREM WaitingIsSilent == Spec => []RetryIsSilent
<1>1. IInv => RetryIsSilent
  BY DEF IInv, Sound, RetryIsSilent
<1> QED BY <1>1, Invariant, PTL

=============================================================================

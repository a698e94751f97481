------------------------------ MODULE CoreList ------------------------------
(***************************************************************************)
(* The pages of AT+CORELIST and AT+COREDETAIL, src/src/main.c, over the    *)
(* one static DIR of storage_list_filtered, src/src/storage_fatfs.c.  A    *)
(* listing is read page by page, one command each; between two pages other *)
(* commands, the web server and the mirror update list the card through    *)
(* the same DIR, and the card changes.                                     *)
(*                                                                         *)
(* A directory is a row of slots.  An entry is its name, and Size is the   *)
(* length of the line that reports it.  Only what the filter of            *)
(* storage_list_filtered shows is in the model.                            *)
(***************************************************************************)
EXTENDS Integers, FiniteSets

CONSTANTS
  Names,        \* entries of the directory
  Partials,     \* those that are partial downloads
  Size,         \* [Names -> Nat], bytes of an entry's line
  Slots,        \* slots of the directory
  MaxChoices,   \* what AT+COREMAX is set to; 0 is no limit
  MaxEdits,     \* bound on changes of the directory
  MaxFaults,    \* bound on read errors of the card
  Free, None    \* an empty slot, no entry

ASSUME ListAssumption ==
  /\ Partials \subseteq Names /\ Size \in [Names -> Nat \ {0}]
  /\ Slots \in Nat \ {0} /\ MaxChoices \subseteq Nat /\ 0 \in MaxChoices
  /\ MaxEdits \in Nat /\ MaxFaults \in Nat
  /\ Free \notin Names /\ None \notin Names

VARIABLES
  dir,      \* the directory: [1 .. Slots -> Names \cup {Free}]
  handle,   \* the static DIR: open, and the slot it reads next
  pager,    \* list_state, list_ctx.next_number, list_buffer
  max,      \* max_list_bytes
  numbered, \* core_list_last_dir_valid
  reply,    \* how the last listing command was answered
  seen,     \* history: per entry the bytes and the number reported
  steady,   \* history: the directory, or max, is as when the listing began
  loaded,   \* history: the last number that was resolved, and to what
  edits, faults

vars == <<dir, handle, pager, max, numbered, reply, seen, steady, loaded,
          edits, faults>>

Nothing == [bytes |-> [n \in Names |-> 0], number |-> [n \in Names |-> 0]]
NoBuffer == [name |-> None, left |-> 0]

\* The entries of the directory stand in any order, with gaps.
Arrangements ==
  {d \in [1 .. Slots -> Names \cup {Free}] :
     \A i, j \in 1 .. Slots : i # j /\ d[i] = d[j] => d[i] = Free}

Init ==
  /\ dir \in Arrangements
  /\ handle = [open |-> FALSE, next |-> 1]
  /\ pager = [state |-> "idle", number |-> 1, buf |-> NoBuffer]
  /\ max = 0 /\ numbered = FALSE
  /\ reply = [answer |-> "none", detail |-> FALSE]
  /\ seen = Nothing /\ steady = [dir |-> FALSE, max |-> FALSE]
  /\ loaded = [number |-> 0, name |-> None]
  /\ edits = 0 /\ faults = 0

-----------------------------------------------------------------------------
(* A page in progress is r: the handle, the pager, what was sent, how many *)
(* bytes count against the limit, and how the page ended.                  *)

Page == [handle |-> handle, pager |-> pager, seen |-> seen, returned |-> 0,
         end |-> "no"]

\* Part of a line goes out.
Sends(r, name, count) ==
  [r EXCEPT !.seen.bytes[name] = @ + count]

\* The callback takes the next number.
Numbers(r, name) ==
  [r EXCEPT !.pager.number = @ + 1, !.seen.number[name] = r.pager.number]

Fits(r, name) == max = 0 \/ r.returned + Size[name] <= max

Whole(r, name) ==
  [Sends(r, name, Size[name]) EXCEPT !.returned = @ + Size[name],
                                     !.pager.state = "idle"]

\* Mutant: the entry that does not fit is not kept for the next page.
ListRowDropped(r, name) ==
  IF Fits(r, name) THEN Whole(r, name)
  ELSE [r EXCEPT !.end = "full", !.pager.state = "listing"]

\* list_cb: an entry that does not fit waits in the buffer, and one longer
\* than a page is left out.
ListRow(r, name) ==
  IF Fits(r, name) THEN Whole(r, name)
  ELSE IF Size[name] < max
  THEN [r EXCEPT !.end = "full", !.pager.state = "listingBuf",
                 !.pager.buf = [name |-> name, left |-> Size[name]]]
  ELSE [r EXCEPT !.end = "full", !.pager.state = "listing"]

\* Mutant: what was sent is not taken off the buffer.
SendBufferKept(r, done, more) ==
  LET room == max - r.returned
      left == r.pager.buf.left
      count == IF left > room THEN room ELSE left
  IN [Sends(r, r.pager.buf.name, count)
        EXCEPT !.pager.state = IF count = left THEN done ELSE more]

\* send_list_buffer: as much of the buffered entry as the page still takes.
SendBuffer(r, done, more) ==
  LET room == max - r.returned
      left == r.pager.buf.left
      count == IF left > room THEN room ELSE left
  IN [Sends(r, r.pager.buf.name, count)
        EXCEPT !.pager.buf.left = @ - count,
               !.pager.state = IF count = left THEN done ELSE more]

\* detail_list_cb: an entry that does not fit is sent in parts.
DetailRow(r, name) ==
  IF Fits(r, name) THEN Whole(r, name)
  ELSE SendBuffer([r EXCEPT !.end = "full",
                            !.pager.buf = [name |-> name, left |-> Size[name]]],
                  "detail", "detailBuf")

\* What the callback does with an entry.
Row(r, detailed, name) ==
  IF detailed THEN DetailRow(r, name) ELSE ListRow(r, name)

\* The listing is over, and the DIR is closed.
Closed(r, end) == [r EXCEPT !.end = end, !.handle.open = FALSE]

\* Slot k is read, unless the listing is over; reading slot bad fails.
ReadSlot(r0, detailed, bad, k) ==
  LET r == [r0 EXCEPT !.handle.next = k + 1]
  IN IF r0.end # "no" THEN r0
     ELSE IF k = bad THEN Closed(r, "failed")
     ELSE IF k = Slots + 1 THEN Closed(r, "success")
     ELSE IF dir[k] = Free THEN r
     ELSE Row(Numbers(r, dir[k]), detailed, dir[k])

\* storage_list_filtered, with the callback of a detailed or a plain listing,
\* from the slot the DIR is at.
ListOn(r, detailed, bad) ==
  LET slot[k \in 0 .. Slots + 1] ==
        IF k < r.handle.next THEN r
        ELSE ReadSlot(slot[k - 1], detailed, bad, k)
  IN IF r.handle.open THEN slot[Slots + 1] ELSE Closed(r, "failed")

-----------------------------------------------------------------------------
(* Commands.                                                               *)

\* How a page is answered.
Answers(r, detail) ==
  /\ handle' = r.handle
  /\ pager' = r.pager
  /\ seen' = r.seen
  /\ reply' = [answer |-> r.end, detail |-> detail]
  /\ numbered' = (r.end = "success")
  /\ loaded' = [number |-> 0, name |-> None]

\* Where the card fails to read: bad is no slot, or one that is read.
Reads(bad) ==
  /\ bad \in 0 .. Slots + 1
  /\ IF bad = 0 THEN UNCHANGED faults
     ELSE faults < MaxFaults /\ faults' = faults + 1

Opened == [Page EXCEPT !.handle = [open |-> TRUE, next |-> 1],
                       !.pager.number = 1, !.seen = Nothing]

\* A command that is not served.
Refused(answer) ==
  /\ reply' = [answer |-> answer, detail |-> FALSE]
  /\ UNCHANGED <<dir, handle, pager, max, numbered, seen, steady, loaded,
                 edits, faults>>

\* cmd_list
CoreListCommand ==
  \/ pager.state # "idle" /\ Refused("busy")
  \/ /\ pager.state = "idle"
     /\ \E bad \in 0 .. Slots + 1 :
          Reads(bad) /\ Answers(ListOn(Opened, FALSE, bad), FALSE)
     /\ steady' = [dir |-> TRUE, max |-> TRUE]
     /\ UNCHANGED <<dir, max, edits>>

\* cmd_detail_list
CoreDetailCommand ==
  \/ pager.state # "idle" /\ Refused("busy")
  \/ /\ pager.state = "idle"
     /\ \E bad \in 0 .. Slots + 1 :
          Reads(bad) /\ Answers(ListOn(Opened, TRUE, bad), TRUE)
     /\ steady' = [dir |-> TRUE, max |-> TRUE]
     /\ UNCHANGED <<dir, max, edits>>

\* Mutant: the next page starts the numbers again.
MorePageRenumbered(bad) ==
  LET page == [Page EXCEPT !.pager.number = 1]
  IN CASE pager.state \in {"listing", "listingBuf"} ->
            ListOn(page, FALSE, bad)
       [] pager.state \in {"detail", "detailBuf"} ->
            ListOn(page, TRUE, bad)

\* The next page: the buffer first, then the directory; the rest of a long
\* detail is a page of its own.
MorePage(bad) ==
  CASE pager.state = "listingBuf" ->
         ListOn(SendBuffer(Page, "listing", "listingBuf"), FALSE, bad)
    [] pager.state = "listing" -> ListOn(Page, FALSE, bad)
    [] pager.state = "detailBuf" ->
         [SendBuffer(Page, "detail", "detailBuf") EXCEPT !.end = "full"]
    [] pager.state = "detail" -> ListOn(Page, TRUE, bad)

\* cmd_continue_list
CoreMoreCommand ==
  \/ pager.state = "idle" /\ Refused("nolist")
  \/ /\ pager.state # "idle"
     /\ \E bad \in 0 .. Slots + 1 :
          /\ Reads(bad)
          /\ LET r == MorePage(bad)
             IN Answers(IF r.end = "success"
                          THEN [r EXCEPT !.pager.state = "idle"] ELSE r,
                        pager.state \in {"detail", "detailBuf"})
     /\ UNCHANGED <<dir, max, steady, edits>>

\* cmd_set_core_max
CoreMaxCommand ==
  /\ max' \in MaxChoices
  /\ steady' = [steady EXCEPT !.max = @ /\ max' = max]
  /\ UNCHANGED <<dir, handle, pager, numbered, reply, seen, loaded, edits,
                 faults>>

\* The entry that numbered_resolve_cb finds under a number.
Numbered(number) ==
  {dir[i] : i \in {i \in 1 .. Slots :
     /\ dir[i] # Free
     /\ number = Cardinality({j \in 1 .. i : dir[j] # Free})}}

\* AT+JTAGLOAD with a number, resolve_program_target: the directory of the
\* last complete listing is read again, through the same DIR.
LoadNumber ==
  \E number \in 1 .. Slots :
    IF ~ numbered THEN Refused("nolist")
    ELSE \E bad \in {0, 1} :
      /\ Reads(bad)
      /\ handle' = [open |-> FALSE, next |-> Slots + 2]
      /\ IF bad = 0 /\ Numbered(number) \cap (Names \ Partials) # {}
           THEN \E name \in Numbered(number) :
                  loaded' = [number |-> number, name |-> name]
           ELSE loaded' = [number |-> 0, name |-> None]
      /\ UNCHANGED <<dir, pager, max, numbered, reply, seen, steady, edits>>

\* Any other listing to its end, and AT+MOUNT: the index page, the themes, the
\* clean-up of partial downloads, and AT+JTAGLOAD with a bare name, which lists
\* only once a listing is complete.
OtherListing ==
  /\ handle' = [open |-> FALSE, next |-> Slots + 2]
  /\ UNCHANGED <<dir, pager, max, numbered, reply, seen, steady, loaded,
                 edits, faults>>

\* A file is deleted, or written to a free slot.
Edit ==
  /\ edits < MaxEdits /\ edits' = edits + 1
  /\ \E i \in 1 .. Slots :
       \/ dir[i] # Free /\ dir' = [dir EXCEPT ![i] = Free]
       \/ /\ dir[i] = Free
          /\ \E n \in Names \ {dir[j] : j \in 1 .. Slots} :
               dir' = [dir EXCEPT ![i] = n]
  /\ steady' = [steady EXCEPT !.dir = FALSE]
  /\ UNCHANGED <<handle, pager, max, numbered, reply, seen, loaded, faults>>

Next ==
  \/ CoreListCommand \/ CoreDetailCommand \/ CoreMoreCommand \/ CoreMaxCommand
  \/ LoadNumber \/ OtherListing \/ Edit

Spec == Init /\ [][Next]_vars

-----------------------------------------------------------------------------
(* Properties.                                                             *)

States == {"idle", "listing", "listingBuf", "detail", "detailBuf"}
Handles == [open : BOOLEAN, next : 1 .. Slots + 2]
Pagers == [state : States, number : 1 .. Slots + 2,
           buf : [name : Names \cup {None}, left : Nat]]
Seen == [bytes : [Names -> Nat], number : [Names -> 0 .. Slots]]

TypeOK ==
  /\ dir \in Arrangements
  /\ handle \in Handles /\ pager \in Pagers /\ seen \in Seen
  /\ max \in MaxChoices /\ numbered \in BOOLEAN
  /\ reply \in [answer : {"none", "busy", "nolist", "full", "success", "failed"},
                detail : BOOLEAN]
  /\ steady \in [dir : BOOLEAN, max : BOOLEAN]
  /\ loaded \in [number : 0 .. Slots, name : Names \cup {None}]
  /\ edits \in 0 .. MaxEdits /\ faults \in 0 .. MaxFaults

Listed == {dir[i] : i \in 1 .. Slots} \ {Free}
Complete == reply.answer = "success" /\ steady.dir

\* A detailed listing that ends has sent every entry of an unchanged
\* directory exactly once and to its last byte, however it was cut into
\* pages and however AT+COREMAX was changed in between.
DetailIsComplete ==
  Complete /\ reply.detail =>
    \A name \in Names :
      seen.bytes[name] = IF name \in Listed THEN Size[name] ELSE 0

\* A plain listing under one limit has too, but for the entries whose line
\* is as long as a page or longer.
ListIsComplete ==
  Complete /\ ~ reply.detail /\ steady.max =>
    \A name \in Listed :
      /\ max = 0 \/ Size[name] < max => seen.bytes[name] = Size[name]
      /\ seen.bytes[name] \in {0, Size[name]}

\* A number that AT+JTAGLOAD resolves in an unchanged directory is the
\* number the listing showed with that name, whatever else listed the card.
NumberMeansRow ==
  loaded.number # 0 /\ steady.dir => seen.number[loaded.name] = loaded.number

\* A page that says there is more has come further, so that asking for the
\* next page again and again ends, while there is a limit.
MoreAdvances ==
  [][CoreMoreCommand /\ reply'.answer = "full" /\ max > 0 =>
       \/ handle'.next > handle.next
       \/ pager'.buf.left < pager.buf.left]_vars

=============================================================================

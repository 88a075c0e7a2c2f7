------------------------------- MODULE Alerts -------------------------------
(***************************************************************************)
(* The queue of position alerts of one follower, Trader and coin, and the  *)
(* drain that delivers it: opens and closes are messages, a scale or a new *)
(* take-profit line edits the message of the position's open.  Telegram    *)
(* may fail for a while, reject a chat, have lost the message, or accept   *)
(* a call whose answer is lost.                                            *)
(***************************************************************************)
EXTENDS Integers, Sequences, FiniteSets, SequencesExt

CONSTANTS
  MaxRows,     \* bound: alerts ever queued
  MaxAttempts, \* MAX_DELIVERY_ATTEMPTS
  MaxFaults,   \* bound: transient failures and rejects of Telegram
  MaxCrashes   \* bound: restarts of the bot

AlertAssumption == MaxRows \in Nat /\ MaxAttempts \in Nat

Kinds == {"open", "scale", "tpsl", "close"}
Anchors == {"open", "close"}   \* the boundaries of a position's instances
Lines == {"none", "tp"}        \* NULL, or a rendered take-profit and stop line
NoText == [arrows |-> <<>>, line |-> "none"]

VARIABLES
  rows,    \* position_alerts in id order
  holding, \* the Trader's position is open
  chat,    \* message of a row on Telegram: its text; absent if never sent
  deleted, \* messages of an open that the follower deleted: no other is edited
  sends,   \* how often each row was sent as a message
  pc, batch, cur, \* the drain: its place, the rows it fetched and has not begun, the one at work or 0
  unheard, \* sends of a boundary that were accepted and never answered
  faults, crashes

drain == <<pc, batch, cur>>
vars == <<rows, holding, chat, deleted, sends, drain, unheard, faults, crashes>>

Ids == DOMAIN rows
Pending(i) == i \in Ids /\ ~rows[i].delivered /\ rows[i].attempts < MaxAttempts

Init ==
  /\ rows = <<>> /\ holding = FALSE
  /\ chat = <<>> /\ deleted = {} /\ sends = <<>>
  /\ pc = "idle" /\ batch = {} /\ cur = 0
  /\ unheard = 0 /\ faults = 0 /\ crashes = 0
-----------------------------------------------------------------------------
\* The pollers queue.  An open under the follower's floor leaves no row, and
\* the order poll queues a line while the last boundary queued is an open.
LastBoundary(i) ==
  LET B == {j \in Ids : j < i /\ rows[j].kind \in Anchors}
  IN  IF B = {} THEN 0 ELSE CHOOSE j \in B : \A k \in B : k <= j

\* Mutant: the latest open, whether or not its position has closed since.
LastOpen(i) ==
  LET B == {j \in Ids : j < i /\ rows[j].kind = "open"}
  IN  IF B = {} THEN 0 ELSE CHOOSE j \in B : \A k \in B : k <= j

FindAnchor(i) ==
  LET j == LastBoundary(i) IN IF j # 0 /\ rows[j].kind = "open" THEN j ELSE 0

Queues(kind, line) ==
  /\ rows' = Append(rows, [kind |-> kind, want |-> line, delivered |-> FALSE, attempts |-> 0,
                           sent |-> FALSE, arrows |-> <<>>, line |-> "none"])
  /\ chat' = Append(chat, NoText) /\ sends' = Append(sends, 0)

Queue ==
  /\ Len(rows) < MaxRows
  /\ \/ ~holding /\ holding' = TRUE /\ Queues("open", "none")
     \/ ~holding /\ holding' = TRUE /\ UNCHANGED <<rows, chat, sends>>
     \/ holding /\ holding' = FALSE /\ Queues("close", "none")
     \/ holding /\ UNCHANGED holding /\ Queues("scale", "none")
     \/ /\ holding /\ FindAnchor(Len(rows) + 1) # 0
        /\ \E l \in Lines : Queues("tpsl", l)
        /\ UNCHANGED holding
  /\ UNCHANGED <<deleted, drain, unheard, faults, crashes>>

Delete ==
  /\ \E i \in Ids \ deleted :
       rows[i].kind = "open" /\ sends[i] > 0 /\ deleted' = deleted \cup {i}
  /\ UNCHANGED <<rows, holding, chat, sends, drain, unheard, faults, crashes>>
-----------------------------------------------------------------------------
Goes(place) == pc' = place
Fault == faults < MaxFaults /\ faults' = faults + 1

\* Telegram itself fails, or the network does with a call it may have accepted:
\* the pass ends and every row left waits as it is.
Idles == Goes("idle") /\ batch' = {} /\ cur' = 0
Paused == Fault /\ Idles /\ UNCHANGED rows

\* This chat rejects: the row pays an attempt and the pass goes on.
Rejected ==
  /\ Fault /\ rows' = [rows EXCEPT ![cur].attempts = @ + 1]
  /\ Goes("next") /\ cur' = 0 /\ UNCHANGED batch

Fetch ==
  /\ pc = "idle" /\ Goes("next")
  /\ batch' = {i \in Ids : Pending(i)}
  /\ UNCHANGED <<rows, holding, chat, deleted, sends, cur, unheard, faults, crashes>>

Oldest(i) == \A j \in batch : i <= j

\* The handler a row goes to, by its kind.
Handler(i) ==
  CASE rows[i].kind \in Anchors -> "send" [] rows[i].kind = "scale" -> "scale" [] OTHER -> "tpsl"

\* The batch is worked in id order.
NextRow ==
  /\ pc = "next"
  /\ \/ batch = {} /\ Idles
     \/ \E i \in batch :
          Oldest(i) /\ cur' = i /\ batch' = batch \ {i} /\ Goes(Handler(i))
  /\ UNCHANGED <<rows, holding, chat, deleted, sends, unheard, faults, crashes>>

Text(i) == [arrows |-> rows[i].arrows, line |-> rows[i].line]

\* Telegram takes the row's message: a new one, which nobody has deleted.
Taken == sends' = [sends EXCEPT ![cur] = @ + 1]
Posted == Taken /\ chat' = [chat EXCEPT ![cur] = Text(cur)] /\ deleted' = deleted \ {cur}

DeliverAnchor ==
  /\ pc = "send"
  /\ \/ Posted /\ Goes("save") /\ UNCHANGED <<rows, batch, cur, unheard, faults>>
     \/ Posted /\ Paused /\ unheard' = unheard + 1
     \/ (Paused \/ Rejected) /\ UNCHANGED <<chat, deleted, sends, unheard>>
  /\ UNCHANGED <<holding, crashes>>

SaveMessageId ==
  /\ pc = "save" /\ Goes("stamp") /\ rows' = [rows EXCEPT ![cur].sent = TRUE]
  /\ UNCHANGED <<holding, chat, deleted, sends, batch, cur, unheard, faults, crashes>>

\* A follower who holds the coin is first sent a message of its own; the trail is
\* touched after it.
DeliverScale ==
  /\ pc = "scale"
  /\ \/ UNCHANGED sends /\ Goes("trail") /\ UNCHANGED <<rows, batch, cur, faults>>
     \/ Taken /\ Goes("trail") /\ UNCHANGED <<rows, batch, cur, faults>>
     \/ Taken /\ Paused
     \/ (Paused \/ Rejected) /\ UNCHANGED sends
  /\ UNCHANGED <<holding, chat, deleted, unheard, crashes>>

LeaveArrow ==
  /\ pc = "trail"
  /\ LET a == FindAnchor(cur) IN
       IF a = 0 THEN Goes("stamp") /\ UNCHANGED rows
                ELSE /\ rows' = [rows EXCEPT ![a].arrows = Append(@, cur)]
                     /\ Goes(IF rows[a].sent THEN "edit" ELSE "stamp")
  /\ UNCHANGED <<holding, chat, deleted, sends, batch, cur, unheard, faults, crashes>>

DeliverTpsl ==
  /\ pc = "tpsl"
  /\ LET a == FindAnchor(cur) IN
       IF a = 0 \/ rows[a].line = rows[cur].want
         THEN Goes("stamp") /\ UNCHANGED rows
         ELSE /\ rows' = [rows EXCEPT ![a].line = rows[cur].want]
              /\ Goes(IF rows[a].sent THEN "edit" ELSE "stamp")
  /\ UNCHANGED <<holding, chat, deleted, sends, batch, cur, unheard, faults, crashes>>

\* An edit of a deleted message is refused as a matter of course.
Edited ==
  LET a == FindAnchor(cur) IN
    chat' = IF a \in deleted THEN chat ELSE [chat EXCEPT ![a] = Text(a)]

Edit ==
  /\ pc = "edit"
  /\ \/ Edited /\ Goes("stamp") /\ UNCHANGED <<rows, batch, cur, faults>>
     \/ Edited /\ Paused
     \/ (Paused \/ Rejected) /\ UNCHANGED chat
  /\ UNCHANGED <<holding, deleted, sends, unheard, crashes>>

Stamp ==
  /\ pc = "stamp" /\ Goes("next") /\ cur' = 0 /\ rows' = [rows EXCEPT ![cur].delivered = TRUE]
  /\ UNCHANGED <<holding, chat, deleted, sends, batch, unheard, faults, crashes>>

Restart ==
  /\ pc # "idle" /\ crashes < MaxCrashes /\ crashes' = crashes + 1
  /\ Idles /\ UNCHANGED <<rows, holding, chat, deleted, sends, unheard, faults>>

Drain ==
  \/ Fetch \/ NextRow \/ DeliverAnchor \/ SaveMessageId \/ DeliverScale \/ LeaveArrow
  \/ DeliverTpsl \/ Edit \/ Stamp

Next == Queue \/ Delete \/ Drain \/ Restart

\* The drain loop is supervised and keeps ticking; nobody else promises a step.
Spec == Init /\ [][Next]_vars
FairSpec == Spec /\ WF_vars(Drain)
-----------------------------------------------------------------------------
TypeOK ==
  /\ \A i \in Ids :
       /\ rows[i].kind \in Kinds /\ {rows[i].want, rows[i].line} \subseteq Lines
       /\ rows[i].attempts \in 0 .. MaxAttempts
       /\ rows[i].arrows # <<>> => rows[i].kind = "open"
  /\ Len(chat) = Len(rows) /\ Len(sends) = Len(rows) /\ deleted \subseteq Ids
  /\ pc \in {"idle", "next", "send", "save", "scale", "trail", "tpsl", "edit", "stamp"}
  /\ cur \in 0 .. Len(rows) /\ batch \subseteq Ids
  /\ unheard \in Nat

\* The trail of an open is the life of that position and of no other: every
\* arrow is a scale queued before the next boundary, and a scale that counts as
\* delivered has left its arrow, whatever failed, restarted or came first.
Position(i, j) == rows[j].kind = "open" /\ LastBoundary(i) = j
TrailIsItsOwn ==
  \A i, j \in Ids :
    /\ i \in ToSet(rows[j].arrows) => Position(i, j)
    /\ rows[i].kind = "scale" /\ rows[i].delivered /\ Position(i, j)
         => i \in ToSet(rows[j].arrows)

\* At least once, and again only for a reason: an open's or a close's message is
\* sent again for a restart or for a send that was accepted unheard, and for
\* nothing else; a scale's own message also for a failure after it.
SentAgain(i) == IF rows[i].kind \in Anchors THEN crashes + unheard ELSE crashes + faults
SentOnce == \A i \in Ids : sends[i] <= 1 + SentAgain(i)

\* No row is shed by an outage and none wedges the queue: it is delivered, or
\* its own chat has rejected it to the limit.
Drained == \A i \in Ids : ~Pending(i)
QueueDrains == <>[]Drained

\* What outbox.py says of a transient failure: the run pauses untouched, so a
\* scale leaves one arrow however often its delivery is tried.
OneArrowPerScale ==
  \A i \in Ids : IsInjective(rows[i].arrows)

\* And what an order poll asked to be shown is shown once its row is stamped.
LineIsShown ==
  \A i \in Ids :
    rows[i].kind = "open" /\ rows[i].sent /\ i \notin deleted
      /\ (\A j \in Ids : FindAnchor(j) = i => rows[j].delivered)
      => chat[i].line = rows[i].line
=============================================================================

----------------------------- MODULE SignedCall -----------------------------
(***************************************************************************)
(* One call of an execution gateway, from the audit's attempt row to its   *)
(* outcome row (safety/audit.py, gateway/execution_http.py, backoff.py):   *)
(* the write-ahead row, the rate budget, the nonce, the POST that retries  *)
(* a 429 with the same signed payload, and the word the trail and the      *)
(* caller get.  The request may be processed whatever the answer says, now *)
(* or later; the process may crash anywhere; Postgres comes and goes.      *)
(*                                                                         *)
(* Three lanes share the code: "executor" and "provisioning" write ahead   *)
(* (no evidence, no action), "watchdog" audits as best it can and holds a  *)
(* gateway that refuses whatever opens risk.  A read rides the same 429    *)
(* loop without nonce or trail.                                            *)
(***************************************************************************)
EXTENDS Integers, Sequences

CONSTANTS
  MaxCalls,    \* bound: calls made
  MaxCrashes,  \* bound: crashes of the calling process
  Clocks,      \* the millisecond clock's values; it may stand still or step back
  MaxTries,    \* RATE_LIMIT_MAX_TRIES
  Cap,         \* RATE_LIMIT_BACKOFF_CAP_SECONDS = RETRY_AFTER_CAP_SECONDS
  Total,       \* RATE_LIMIT_TOTAL_BUDGET_SECONDS
  Timeout      \* REQUEST_TIMEOUT, the longest one try takes

CallAssumption ==
  /\ {MaxCalls, MaxCrashes, MaxTries, Cap, Total, Timeout} \subseteq Nat
  /\ Clocks \subseteq Nat

VARIABLES
  lane,        \* whose gateway this is
  wireFirst,   \* AuditedExecutionGateway.wire_first
  db,          \* whether Postgres answers
  clock,       \* what clock.now() reads, in milliseconds
  last,        \* NonceSource._last, in memory
  call,        \* the call in progress
  crashes,     \* crashes so far
  made,        \* what each call asked for
  wire,        \* signed requests that may still reach the exchange
  used,        \* nonces the exchange has consumed
  done,        \* how often each call's action executed
  trail,       \* rows of execution_audit
  told         \* what each call's caller was told

vars == <<lane, wireFirst, db, clock, last, call, crashes, made, wire, used,
          done, trail, told>>
process == <<lane, wireFirst, db, clock, crashes, made>>
exchange == <<wire, used, done>>

Calls == 1..MaxCalls
Additive == {"order", "batchModify", "updateLeverage"}
Subtractive == {"cancel", "scheduleCancel"}
Kinds == {"order", "cancel", "read"}
Idle == [pc |-> "idle"]
Clean == {"rejected", "error", "unwritten"}    \* nothing executed, the caller may go on
Row(id, word) == [id |-> id, word |-> word]
Larger(a, b) == IF a > b THEN a ELSE b
Smaller(a, b) == IF a < b THEN a ELSE b

(* The own backoff before the next try, at both ends of its jitter.  A
   Retry-After the server sends is clamped into 0..Cap.                    *)
Window(tries) == Smaller(Cap, 2 ^ (tries - 1))
Delays(tries) == {Window(tries) \div 2, Window(tries), 0, Cap}

RetryFits(elapsed, delay) == elapsed + delay =< Total

Init ==
  /\ lane \in {"executor", "provisioning", "watchdog"}
  /\ wireFirst = FALSE /\ db = TRUE /\ clock \in Clocks /\ last = 0
  /\ call = Idle /\ crashes = 0 /\ made = <<>>
  /\ wire = {} /\ used = {} /\ done = [id \in Calls |-> 0]
  /\ trail = {} /\ told = [id \in Calls |-> "none"]

(* The caller asks; wire_first is read once, at the top of _audited.       *)
Begin(kind) ==
  /\ call = Idle /\ Len(made) < MaxCalls
  /\ made' = Append(made, kind)
  /\ call' = [pc |-> IF kind = "read" THEN "post" ELSE IF wireFirst THEN "spend" ELSE "attempt",
              id |-> Len(made) + 1, deferred |-> wireFirst, row |-> FALSE,
              nonce |-> 0, tries |-> 0, elapsed |-> 0, word |-> "none"]
  /\ UNCHANGED <<lane, wireFirst, db, clock, last, crashes, trail, told>>
  /\ UNCHANGED exchange

Tell(verdict) ==
  /\ told' = [told EXCEPT ![call.id] = verdict]
  /\ call' = Idle

(* _record_attempt: the evidence, or on the watchdog's lane the loud log.  *)
RecordAttempt ==
  /\ call.pc = "attempt"
  /\ \/ /\ db
        /\ trail' = trail \cup {Row(call.id, "submitted")}
        /\ call' = [call EXCEPT !.pc = "spend", !.row = TRUE]
        /\ UNCHANGED told
     \/ /\ ~db /\ lane = "watchdog"
        /\ call' = [call EXCEPT !.pc = "spend"]
        /\ UNCHANGED <<trail, told>>
     \/ /\ ~db /\ lane # "watchdog"
        /\ Tell("unwritten")
        /\ UNCHANGED trail
  /\ UNCHANGED <<last, exchange>> /\ UNCHANGED process

Refused == lane = "watchdog" /\ made[call.id] \in Additive

(* CancelOnlyExecutionGateway refuses before the budget is asked.          *)
Refuse ==
  /\ call.pc = "spend" /\ Refused
  /\ call' = [call EXCEPT !.pc = "outcome", !.word = "error"]
  /\ UNCHANGED <<last, exchange, trail, told>> /\ UNCHANGED process

(* The shared bucket needs Postgres; the safety lane falls back to pacing
   in its own memory and proceeds (FallbackBudget).                        *)
Spend ==
  /\ call.pc = "spend" /\ ~Refused
  /\ call' = IF db \/ lane = "watchdog"
             THEN [call EXCEPT !.pc = "sign"]
             ELSE [call EXCEPT !.pc = "outcome", !.word = "error"]
  /\ UNCHANGED <<last, exchange, trail, told>> /\ UNCHANGED process

NextNonce == Larger(last + 1, clock)

Sign ==
  /\ call.pc = "sign"
  /\ last' = NextNonce
  /\ call' = [call EXCEPT !.pc = "post", !.nonce = NextNonce]
  /\ UNCHANGED <<exchange, trail, told>> /\ UNCHANGED process

Request == [id |-> call.id, nonce |-> call.nonce]
Reading == made[call.id] = "read"

(* The exchange executes a request whose nonce it has not seen.            *)
Process(request) ==
  /\ request.nonce \notin used
  /\ used' = used \cup {request.nonce}
  /\ done' = [done EXCEPT ![request.id] = @ + 1]

Unprocessed == UNCHANGED <<used, done>>

(* What may become of a request whose answer never arrived: executed,
   lost, or still travelling.                                              *)
Unheard ==
  \/ Reading /\ UNCHANGED exchange
  \/ ~Reading /\ Process(Request) /\ UNCHANGED wire
  \/ UNCHANGED exchange
  \/ ~Reading /\ Unprocessed /\ wire' = wire \cup {Request}

Settle(word, took) ==
  call' = [call EXCEPT !.pc = "outcome", !.word = word, !.tries = @ + 1,
                       !.elapsed = @ + took]

(* One try answered with an envelope: {"status": "ok"}, or {"status":
   "err"} -- for a nonce it has seen, an invalid-nonce reject, which after a
   429 may be the echo of this very request and is never called clean.     *)
Answered(took) ==
  /\ call.pc = "post"
  /\ \/ /\ IF Reading THEN Unprocessed ELSE Process(Request)
        /\ Settle("ok", took)
     \/ /\ ~Reading /\ call.nonce \in used
        /\ Settle(IF call.tries > 0 THEN "ambiguous" ELSE "rejected", took)
        /\ Unprocessed
     \/ /\ ~Reading /\ call.nonce \notin used        \* any other pre-validation refusal
        /\ Settle("rejected", took)
        /\ used' = used \cup {call.nonce} /\ UNCHANGED done
  /\ UNCHANGED <<wire, last, trail, told>> /\ UNCHANGED process

(* A timeout, a transport error after the send, an HTTP error status or a
   200 of a shape this code does not know.                                 *)
Lost(took) ==
  /\ call.pc = "post"
  /\ Unheard
  /\ Settle(IF Reading THEN "failed" ELSE "ambiguous", took)
  /\ UNCHANGED <<last, trail, told>> /\ UNCHANGED process

(* A 200 whose body is not JSON: nothing catches the error it raises, which
   is none of the hierarchy and says nothing of the request.               *)
Garbled(took) ==
  /\ call.pc = "post"
  /\ Unheard
  /\ Settle(IF Reading THEN "failed" ELSE "garbled", took)
  /\ UNCHANGED <<last, trail, told>> /\ UNCHANGED process

(* Mutant: the last try alone decides what is clean. *)
NeverSent(took) ==
  /\ call.pc = "post"
  /\ Settle(IF Reading THEN "failed" ELSE "error", took)
  /\ UNCHANGED <<exchange, last, trail, told>> /\ UNCHANGED process

(* The connection was never made: clean only when no 429 came before.      *)
Unconnected(took) ==
  /\ call.pc = "post"
  /\ Settle(IF Reading THEN "failed" ELSE IF call.tries > 0 THEN "ambiguous" ELSE "error", took)
  /\ UNCHANGED <<exchange, last, trail, told>> /\ UNCHANGED process

(* 429.  Whether the attempt was processed is unverified
   (ExecutionRateLimitedError), so it may have been.  The retry sends the
   same payload, while tries and wall clock last.                          *)
Limited(took) ==
  /\ call.pc = "post"
  /\ \/ ~Reading /\ Process(Request)
     \/ Unprocessed
  /\ \E delay \in Delays(call.tries + 1) :
       IF call.tries + 1 < MaxTries /\ RetryFits(call.elapsed + took, delay)
       THEN call' = [call EXCEPT !.tries = @ + 1, !.elapsed = @ + took + delay]
       ELSE Settle(IF Reading THEN "failed" ELSE "ambiguous", took)
  /\ UNCHANGED <<wire, last, trail, told>> /\ UNCHANGED process

(* classify_failure: whatever it does not know is filed as an error.       *)
Filed(word) == IF word = "garbled" THEN "error" ELSE word

(* The outcome row, and the caller hears.  Write-ahead lanes raise when the
   row cannot be written: the action already ran.  The wire-first posture
   writes the pair here, and its ceiling may cut it short.                 *)
RecordOutcome ==
  /\ call.pc = "outcome"
  /\ \/ /\ Reading
        /\ UNCHANGED trail /\ Tell(call.word)
     \/ /\ ~Reading /\ ~call.deferred /\ call.row /\ db
        /\ trail' = trail \cup {Row(call.id, Filed(call.word))}
        /\ Tell(call.word)
     \/ /\ ~Reading /\ ~call.deferred /\ call.row /\ ~db
        /\ UNCHANGED trail
        /\ Tell(IF lane = "watchdog" THEN call.word ELSE "unknown")
     \/ /\ ~Reading /\ ~call.deferred /\ ~call.row
        /\ UNCHANGED trail /\ Tell(call.word)
     \/ /\ ~Reading /\ call.deferred
        /\ \/ UNCHANGED trail
           \/ db /\ trail' = trail \cup {Row(call.id, "submitted")}
           \/ db /\ trail' = trail \cup {Row(call.id, "submitted"), Row(call.id, Filed(call.word))}
        /\ Tell(call.word)
  /\ UNCHANGED <<last, exchange>> /\ UNCHANGED process

(* A request that was still travelling arrives.                            *)
Arrive ==
  \E request \in wire :
    /\ wire' = wire \ {request}
    /\ IF request.nonce \in used THEN Unprocessed ELSE Process(request)
    /\ UNCHANGED <<last, call, trail, told>> /\ UNCHANGED process

(* The process dies, its memory with it; a request just sent may live on.  *)
Crash ==
  /\ call # Idle /\ crashes < MaxCrashes
  /\ crashes' = crashes + 1 /\ call' = Idle /\ last' = 0
  /\ IF call.pc = "post" THEN Unheard ELSE UNCHANGED exchange
  /\ UNCHANGED <<lane, wireFirst, db, clock, made, trail, told>>

(* Postgres comes and goes; it matters where a call is about to touch it.   *)
Postgres ==
  /\ call.pc \in {"attempt", "spend", "outcome"}
  /\ db' = ~db
  /\ UNCHANGED <<lane, wireFirst, clock, last, call, crashes, made, exchange, trail, told>>

(* The clock matters where a nonce is about to be drawn.                    *)
Tick ==
  /\ call.pc = "sign"
  /\ clock' \in Clocks \ {clock}
  /\ UNCHANGED <<lane, wireFirst, db, last, call, crashes, made, exchange, trail, told>>

(* The watchdog declares or ends a DB-blind incident between its calls.    *)
Posture ==
  /\ lane = "watchdog" /\ call = Idle
  /\ wireFirst' = ~wireFirst
  /\ UNCHANGED <<lane, db, clock, last, call, crashes, made, exchange, trail, told>>

Stretches == {0, Timeout}

Next ==
  \/ \E kind \in Kinds : Begin(kind)
  \/ RecordAttempt \/ Refuse \/ Spend \/ Sign \/ RecordOutcome
  \/ \E took \in Stretches :
       Answered(took) \/ Lost(took) \/ Garbled(took) \/ Unconnected(took) \/ Limited(took)
  \/ Arrive \/ Crash \/ Postgres \/ Tick \/ Posture

Spec == Init /\ [][Next]_vars

-----------------------------------------------------------------------------
Words == {"none", "ok", "rejected", "error", "ambiguous", "failed", "unwritten", "unknown",
          "submitted", "garbled"}

(* Every variable keeps its type.                                          *)
TypeOK ==
  /\ lane \in {"executor", "provisioning", "watchdog"}
  /\ wireFirst \in BOOLEAN /\ db \in BOOLEAN /\ clock \in Clocks /\ last \in Nat
  /\ crashes \in 0..MaxCrashes
  /\ made \in Seq(Kinds) /\ Len(made) =< MaxCalls
  /\ used \in SUBSET Nat
  /\ done \in [Calls -> Nat]
  /\ told \in [Calls -> Words]
  /\ \A row \in trail : row.id \in Calls /\ row.word \in Words
  /\ \A request \in wire : request.id \in Calls /\ request.nonce \in Nat

(* A replayed payload never executes twice, whatever was retried, lost or
   delayed and wherever the process died (execution_http.py: "a replay can
   never execute TWICE").                                                  *)
AtMostOnce == \A id \in Calls : done[id] =< 1

Live(id) == \E request \in wire : request.id = id /\ request.nonce \notin used

(* A call its caller was told came to nothing has executed nothing and never
   will: no late arrival, no 429 that was processed after all
   (ExecutionError: "Nothing executed").                                   *)
CleanMeansNothing ==
  \A id \in Calls : told[id] \in Clean => done[id] = 0 /\ ~Live(id)

(* A row that says nothing executed is to be believed, but for one: a 200 whose
   body is not JSON is filed as an error, and its caller hears an exception
   that promises nothing.                                                  *)
Believable(row) == row.word \in Clean => told[row.id] = "garbled"

(* The trail shows no less than happened.  On the write-ahead lanes an action
   that ran, or still may, has its attempt row, and on every lane no
   believable outcome row of it says that nothing executed; an attempt without
   an outcome is the operator's signal to reconcile.                       *)
TrailOwnsUp ==
  \A id \in Calls :
    done[id] > 0 \/ Live(id) =>
      /\ lane # "watchdog" => Row(id, "submitted") \in trail
      /\ \A row \in trail : row.id = id => Believable(row)

(* A protective cancel is never suppressed by Postgres: the watchdog's call
   ends only with an answer of the wire, and what opens risk never leaves its
   gateway at all (audit.py best_effort_audit, cancel_only.py).            *)
CancelGetsOut ==
  lane = "watchdog" =>
    /\ \A id \in Calls : told[id] \notin {"unwritten", "unknown"}
    /\ call # Idle /\ call.pc = "outcome" /\ made[call.id] \in Subtractive => call.tries > 0
    /\ \A id \in 1..Len(made) :
         made[id] \in Additive => done[id] = 0 /\ ~Live(id)

(* Any call that rides 429s is over within the retry budget plus one request
   timeout (backoff.py: "bounds ANY 429-riding call at
   RATE_LIMIT_TOTAL_BUDGET_SECONDS + REQUEST_TIMEOUT").                    *)
CallIsBounded == call # Idle => call.elapsed =< Total + Timeout

=============================================================================

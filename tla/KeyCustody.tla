----------------------------- MODULE KeyCustody -----------------------------
(***************************************************************************)
(* The keys the processes sign with, and how the watchdog gets its own     *)
(* when Postgres is away (keystore.py, safety/keycache.py,                 *)
(* safety/coldstart.py).  The operator stores and revokes agent keys; the  *)
(* watchdog starts from the keystore, refreshing a local cache, or after a *)
(* grace of unbroken failure cold-starts blind with the cached key, and    *)
(* does the deferred startup once Postgres answers again.  A step is the   *)
(* code between two awaits.  Sealing is kept as what opens with what: a    *)
(* row and the cache open only under the KEK they were sealed with.        *)
(***************************************************************************)
EXTENDS Integers

CONSTANTS
  None,
  Agents,       \* the agent addresses the operator may bring
  Validities,   \* the validities asked for in a ceremony
  MaxDays,      \* MAX_AGENT_KEY_DAYS
  Grace,        \* WATCHDOG_COLDSTART_GRACE_SECONDS
  Retry,        \* the watchdog's interval: retry_every
  Probe,        \* the longest probe: twice SAFETY_DB_TIMEOUT_SECONDS
  MaxTime, MaxKeks,
  MaxUpsets     \* outages, crashes and new KEKs together

KeyAssumption ==
  /\ {MaxDays, Grace, Probe} \subseteq Nat /\ Retry \in Nat \ {0}
  /\ {MaxTime, MaxUpsets} \subseteq Nat /\ Validities \subseteq Int /\ MaxKeks \in Nat \ {0}

VARIABLES
  now,
  keys,         \* agent_keys: address |-> row, None when never stored
  kek,          \* the KEK file the environment names
  db,           \* Postgres answers
  cache,        \* the watchdog's key cache file
  phase,        \* where the watchdog process stands
  launched, due,
  loaded,       \* the KEK the process loaded
  signer, record,
  told,         \* what the reconnect's audit event said
  stamp,        \* process_heartbeats.started_at of the watchdog
  upsets

ofOperator == <<keys, kek>>
ofFiles == <<cache, stamp>>
ofProcess == <<phase, launched, due, loaded, signer, record, told>>
ofWorld == <<now, db, upsets>>
vars == <<ofOperator, ofFiles, ofProcess, ofWorld>>

SigningLanes == {"executor", "watchdog"}
Rows ==
  [lane : SigningLanes, until : 0..(MaxTime + MaxDays), kek : 1..MaxKeks, revoked : BOOLEAN]
Files == [agent : Agents, key : Agents, until : 0..(MaxTime + MaxDays), kek : 1..MaxKeks]

NoneAssumption == None \notin Rows

Attempting == {"open", "signed", "cached"}   \* a DB-backed start under way
Starting == Attempting \cup {"probing", "sleeping"}
Reconnecting == {"reopened", "asked"}

Init ==
  /\ now = 0 /\ db = TRUE /\ upsets = 0
  /\ keys = [a \in Agents |-> None] /\ kek = 1
  /\ cache = None /\ stamp = None
  /\ phase = "off" /\ launched = 0 /\ due = 0 /\ loaded = 1
  /\ signer = None /\ record = None /\ told = None
-----------------------------------------------------------------------------
(* The keystore and the operator's ceremonies. *)

Upset == upsets < MaxUpsets /\ upsets' = upsets + 1

ActiveOn(lane) == {a \in Agents : keys[a] # None /\ keys[a].lane = lane /\ ~keys[a].revoked}

\* The row of a lane: the partial unique index leaves at most one.
Active(lane) == IF ActiveOn(lane) = {} THEN None ELSE CHOOSE a \in ActiveOn(lane) : TRUE

\* A key must be of use now, and the exchange caps what it approves.
Validity(days) == days > 0 /\ days <= MaxDays

\* A key of a new address on a free lane; a tombstone blocks its address for ever.
Store(a, lane, days) ==
  /\ db
  /\ Validity(days)
  /\ keys[a] = None
  /\ ActiveOn(lane) = {}
  /\ keys' = [keys EXCEPT ![a] =
                [lane |-> lane, until |-> now + days, kek |-> kek, revoked |-> FALSE]]
  /\ UNCHANGED <<kek, ofFiles, ofProcess, ofWorld>>

Revoke(lane) ==
  /\ db
  /\ ActiveOn(lane) # {}
  /\ keys' = [keys EXCEPT ![Active(lane)].revoked = TRUE]
  /\ UNCHANGED <<kek, ofFiles, ofProcess, ofWorld>>

\* A fresh KEK in a file of its own: what older KEKs sealed stays as it is.
NewKek ==
  /\ kek < MaxKeks /\ Upset
  /\ kek' = kek + 1
  /\ UNCHANGED <<keys, now, db, ofFiles, ofProcess>>

\* What signer() gives the watchdog: its lane's key, or a refusal (None).
Signable(a) == a # None /\ keys[a].until > now /\ keys[a].kek = loaded
OwnSigner == LET a == Active("watchdog") IN IF Signable(a) THEN a ELSE None
-----------------------------------------------------------------------------
(* The cache file. *)

\* Mutant: a key that is not its record's is cached all the same.
WriteAnything(rec, key, saved) ==
  cache' = IF saved
           THEN [agent |-> rec, key |-> key, until |-> keys[rec].until, kek |-> loaded]
           ELSE cache

\* write(): refused for a key that is not its record's; an unwritable file
\* leaves the old one.
Write(rec, key, saved) ==
  /\ saved => rec = key
  /\ cache' = IF saved
              THEN [agent |-> rec, key |-> key, until |-> keys[rec].until, kek |-> loaded]
              ELSE cache

\* load(): what a cold start accepts.
Usable ==
  /\ cache # None
  /\ cache.kek = loaded
  /\ cache.key = cache.agent
  /\ cache.until > now
-----------------------------------------------------------------------------
(* The start: probe, try, and at the end of the grace go blind. *)

\* The process is gone, and its memory with it.
Stop ==
  /\ phase' = "off" /\ launched' = 0 /\ due' = 0 /\ loaded' = 1
  /\ signer' = None /\ record' = None /\ told' = None

Launch ==
  /\ phase = "off"
  /\ phase' = "probing" /\ launched' = now /\ due' = now + Probe /\ loaded' = kek
  /\ UNCHANGED <<signer, record, told, ofOperator, ofFiles, ofWorld>>

ProbeAgain ==
  /\ phase = "sleeping" /\ now >= due
  /\ phase' = "probing" /\ due' = now + Probe
  /\ UNCHANGED <<launched, loaded, signer, record, told, ofOperator, ofFiles, ofWorld>>

\* What is left of the grace once the probe is over, and never less than one retry interval.
AttemptCeiling ==
  LET rest == Grace - (now - launched) IN IF rest > Retry THEN rest ELSE Retry

\* A probe takes what its connect, its query and its close take, Probe at most.
ProbeAnswers ==
  /\ phase = "probing" /\ db
  /\ phase' = "open" /\ due' = now + AttemptCeiling
  /\ UNCHANGED <<launched, loaded, signer, record, told, ofOperator, ofFiles, ofWorld>>

\* After a failure: sleep, or cold-start with the cached key, or refuse to run.
Failed ==
  \/ /\ now - launched < Grace
     /\ phase' = "sleeping" /\ due' = now + Retry
     /\ signer' = None /\ record' = None
     /\ UNCHANGED <<launched, loaded, told>>
  \/ /\ now - launched >= Grace /\ Usable
     /\ phase' = "blind" /\ due' = now
     /\ signer' = cache.key /\ record' = None
     /\ UNCHANGED <<launched, loaded, told>>
  \/ now - launched >= Grace /\ ~Usable /\ Stop

\* Refused by a database that is away, or hung up to the ceiling.
ProbeFails ==
  /\ phase = "probing"
  /\ ~db \/ now >= due
  /\ Failed
  /\ UNCHANGED <<ofOperator, ofFiles, ofWorld>>

\* Postgres went away after the probe.
AttemptFails ==
  /\ phase \in Attempting /\ ~db
  /\ Failed
  /\ UNCHANGED <<ofOperator, ofFiles, ofWorld>>

\* The attempt stalled up to its ceiling and is abandoned.
Abandon ==
  /\ phase \in Attempting /\ now >= due
  /\ Failed
  /\ UNCHANGED <<ofOperator, ofFiles, ofWorld>>

\* keystore.signer() on the migrated database: no usable key, no process.
ReadSigner ==
  /\ phase = "open" /\ db
  /\ \/ OwnSigner = None /\ Stop
     \/ /\ OwnSigner # None
        /\ signer' = OwnSigner /\ phase' = "signed"
        /\ UNCHANGED <<launched, due, loaded, record, told>>
  /\ UNCHANGED <<ofOperator, ofFiles, ofWorld>>

\* keystore.active_record(), a second read, and the best-effort cache write.
ReadRecord ==
  /\ phase = "signed" /\ db
  /\ LET rec == Active("watchdog")
     IN \/ rec = None /\ Failed /\ UNCHANGED cache
        \/ /\ rec # None
           /\ \E saved \in BOOLEAN : Write(rec, signer, saved)
           /\ record' = rec /\ phase' = "cached"
           /\ UNCHANGED <<launched, due, loaded, signer, told>>
  /\ UNCHANGED <<stamp, ofOperator, ofWorld>>

StampLaunch ==
  /\ phase = "cached" /\ db
  /\ stamp' = launched
  /\ phase' = "wired" /\ due' = 0 /\ record' = None
  /\ UNCHANGED <<launched, loaded, signer, told, cache, ofOperator, ofWorld>>
-----------------------------------------------------------------------------
(* The reconnect of a blind process, at most once per retry interval. *)

\* Migrations and the retroactive launch stamp.
Reopen ==
  /\ phase = "blind" /\ now >= due
  /\ db
  /\ due' = now + Retry
  /\ stamp' = launched
  /\ phase' = "reopened"
  /\ UNCHANGED <<launched, loaded, signer, record, told, cache, ofOperator, ofWorld>>

ReopenFails ==
  /\ phase = "blind" /\ now >= due
  /\ ~db
  /\ due' = now + Retry
  /\ UNCHANGED <<phase, launched, loaded, signer, record, told, ofOperator, ofFiles, ofWorld>>

\* The event of a refresh that went through, or of one that did not: then the
\* active agent is not known and the signer counts as the keystore's.
Tell(refreshed) ==
  /\ told' = [refreshed |-> refreshed, matches |-> (refreshed => record = signer)]
  /\ phase' = "joined"

ReadActive ==
  /\ phase = "reopened" /\ db
  /\ record' = Active("watchdog")
  /\ \/ record' # None /\ phase' = "asked" /\ UNCHANGED told
     \/ record' = None /\ Tell(FALSE)
  /\ UNCHANGED <<launched, due, loaded, signer, ofOperator, ofFiles, ofWorld>>

\* keystore.signer() after active_record(): the lane may have rotated between.
RefreshCache ==
  /\ phase = "asked" /\ db
  /\ \E saved \in BOOLEAN :
       /\ saved => OwnSigner # None
       /\ Write(record, OwnSigner, saved)
       /\ Tell(saved)
  /\ UNCHANGED <<stamp, launched, due, loaded, signer, record, ofOperator, ofWorld>>

\* Postgres is lost again before the event is written: blind as before.
ReconnectLost ==
  /\ phase \in Reconnecting /\ ~db
  /\ phase' = "blind"
  /\ UNCHANGED <<launched, due, loaded, signer, record, told, ofOperator, ofFiles, ofWorld>>
-----------------------------------------------------------------------------
(* The world. *)

Crash ==
  /\ phase # "off" /\ Upset
  /\ Stop
  /\ UNCHANGED <<ofOperator, ofFiles, now, db>>

DbGoes ==
  /\ db /\ Upset
  /\ db' = FALSE
  /\ UNCHANGED <<now, ofOperator, ofFiles, ofProcess>>

DbReturns ==
  /\ ~db /\ db' = TRUE
  /\ UNCHANGED <<now, upsets, ofOperator, ofFiles, ofProcess>>

\* Time waits for a sleep that is over and for a ceiling that is reached:
\* a probe's, an attempt's.
Tick ==
  /\ now < MaxTime
  /\ phase \in Starting => now < due
  /\ now' = now + 1
  /\ UNCHANGED <<db, upsets, ofOperator, ofFiles, ofProcess>>

Next ==
  \/ \E a \in Agents, lane \in SigningLanes, days \in Validities : Store(a, lane, days)
  \/ \E lane \in SigningLanes : Revoke(lane)
  \/ NewKek
  \/ Launch \/ ProbeAgain \/ ProbeAnswers \/ ProbeFails \/ AttemptFails \/ Abandon
  \/ ReadSigner \/ ReadRecord \/ StampLaunch
  \/ Reopen \/ ReopenFails \/ ReadActive \/ RefreshCache \/ ReconnectLost
  \/ Crash \/ DbGoes \/ DbReturns \/ Tick

Spec == Init /\ [][Next]_vars
-----------------------------------------------------------------------------
\* Every variable has its type (keystore.py, safety/keycache.py).
TypeOK ==
  /\ now \in 0..MaxTime /\ db \in BOOLEAN
  /\ upsets \in 0..MaxUpsets
  /\ keys \in [Agents -> Rows \cup {None}] /\ kek \in 1..MaxKeks
  /\ cache \in Files \cup {None} /\ stamp \in (0..MaxTime) \cup {None}
  /\ phase \in Starting \cup Reconnecting \cup {"off", "wired", "blind", "joined"}
  /\ launched \in 0..MaxTime /\ due \in 0..(MaxTime + Grace + Retry + Probe) /\ loaded \in 1..MaxKeks
  /\ signer \in Agents \cup {None} /\ record \in Agents \cup {None}
  /\ told \in [refreshed : BOOLEAN, matches : BOOLEAN] \cup {None}

\* safety/keycache.py: whatever rotates between the two reads of the keystore,
\* a cache that exists holds the key it names, of the watchdog's lane.
CacheOpens ==
  cache # None => cache.key = cache.agent /\ keys[cache.agent].lane = "watchdog"

\* keystore.py LANES: however it got it, the watchdog signs with its own key.
OwnAuthority == signer # None => keys[signer].lane = "watchdog"

\* safety/coldstart.py open_startup: flapping, stalls and all, the start is
\* decided in time.  The sleep that began just inside the grace ends up to an
\* interval past it, its probe takes what a probe may, and an attempt that begins
\* there has an interval of its own.
StartIsDecided == phase \in Starting => now - launched < Grace + 2 * Retry + Probe

\* What the code says of it (safety/coldstart.py: "the single term by which the
\* documented bound can be exceeded"; the runbook: "plus, at most, one poll
\* interval"): the floor under the ceiling is all a start may be late by.
StartsWithinOneInterval == phase \in Starting => now - launched <= Grace + Retry

\* safety/coldstart.py deferred_startup: a process that has its database has
\* the time of its own launch on record, however late that was written.
StampIsLaunch == phase \in {"wired", "joined"} => stamp = launched

\* safety/coldstart.py _refresh_cache: after a refresh that went through, the
\* event says "matches" exactly when the file holds the key in use.
TrailKnowsKey ==
  phase = "joined" /\ told.refreshed => (told.matches <=> cache.key = signer)

\* A start, blind or not, ends in time with the watchdog's own key and its trail true.
ColdStartIsSound ==
  CacheOpens /\ OwnAuthority /\ StartIsDecided /\ StampIsLaunch /\ TrailKnowsKey
=============================================================================

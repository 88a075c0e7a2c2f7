----------------------------- MODULE NewsProofs -----------------------------
(***************************************************************************)
(* What MCNews checks of the order lane and of the alerts, for every value *)
(* of the constants.  Each part keeps its own invariant, LaneInv and       *)
(* QueueInv, with a lemma per action; together they are NewsInv, the       *)
(* inductive invariant of Spec.                                            *)
(***************************************************************************)
EXTENDS MCNews, Sequences, FiniteSets, FiniteSetTheorems, WellFoundedInduction, TLAPS

-----------------------------------------------------------------------------
(* The order lane: the invariant. *)

Terminal(u) == u.kind \in {"canceled", "other"} \/ (u.kind = "filled" /\ u.size = 0)

\* What the Trader's orders push.
Frame ==
  [order : Orders, kind : {"placed", "filled", "canceled", "other"}, size : Sizes \cup {0}]

LaneTypes ==
  /\ O!TypeOK /\ used \subseteq Orders
  /\ O!Remembered \subseteq used /\ DOMAIN view \subseteq used
  /\ placed \in [Orders -> Nat] /\ ended \in [Orders -> Nat]
  /\ wire \in Seq(Frame) /\ (conn # "live" => wire = <<>>)

\* The log against the book and the memory: what was told placed was placed,
\* what was told ended has left both, and a baselined memory has every resting
\* order it told of.
ToldTrue ==
  \A o \in Orders :
    /\ placed[o] <= 1 /\ ended[o] <= 1
    /\ placed[o] > 0 \/ ended[o] > 0 => o \in used
    /\ ended[o] > 0 => o \notin O!Resting /\ o \notin O!Remembered
    /\ baselined /\ placed[o] > 0 /\ o \in O!Resting => o \in O!Remembered

\* The same of a view that has been read and not yet applied.
ViewTrue ==
  conn = "read" =>
    \A o \in Orders :
      /\ ended[o] > 0 => o \notin DOMAIN view
      /\ placed[o] > 0 /\ o \in O!Resting => o \in DOMAIN view
      /\ baselined /\ placed[o] > 0 /\ o \in DOMAIN view => o \in O!Remembered
      /\ o \in O!Remembered /\ o \notin DOMAIN view => o \notin O!Resting

\* A frame on its way is news: its order has not been told ended, nor placed if
\* that is what it says, and what ends an order is the last of it.
WireTrue ==
  /\ \A k \in DOMAIN wire :
       /\ wire[k].order \in used /\ ended[wire[k].order] = 0
       /\ wire[k].size = 0 => Terminal(wire[k])
       /\ wire[k].kind = "placed" => placed[wire[k].order] = 0
       /\ Terminal(wire[k]) => wire[k].order \notin O!Resting
  /\ \A k, l \in DOMAIN wire :
       k < l /\ wire[k].order = wire[l].order => ~Terminal(wire[k]) /\ wire[l].kind # "placed"

LaneInv == LaneTypes /\ ToldTrue /\ ViewTrue /\ WireTrue
-----------------------------------------------------------------------------
(* The alerts: the invariant. *)

Trail == Seq(Nat)
Row ==
  [kind : A!Kinds, want : A!Lines, delivered : BOOLEAN, attempts : 0 .. MaxAttempts,
   sent : BOOLEAN, arrows : Trail, line : A!Lines]
Shown == [arrows : Trail, line : A!Lines]

QueueTypes ==
  /\ rows \in Seq(Row) /\ chat \in Seq(Shown) /\ sends \in Seq(Nat)
  /\ Len(chat) = Len(rows) /\ Len(sends) = Len(rows) /\ deleted \subseteq A!Ids
  /\ pc \in {"idle", "next", "send", "save", "scale", "trail", "tpsl", "edit", "stamp"}
  /\ cur \in 0 .. Len(rows) /\ batch \subseteq A!Ids
  /\ crashes \in Nat /\ unheard \in Nat /\ faults \in Nat

\* The drain works on a row that still waits, and on none it has yet to begin.
AtWork == pc \notin {"idle", "next"}
WorkWaits ==
  /\ \A i \in batch : A!Pending(i)
  /\ AtWork => A!Pending(cur) /\ cur \notin batch
  /\ pc \in {"send", "save"} => rows[cur].kind \in A!Anchors
  /\ pc \in {"scale", "trail"} => rows[cur].kind = "scale"
  /\ pc = "tpsl" => rows[cur].kind = "tpsl"
  /\ pc = "edit" => rows[cur].kind \notin A!Anchors

\* A row not yet stamped was sent once for each reason to send again, and once
\* more if the drain stands between its send and its stamp.
OutPlaces == {"save", "trail", "edit", "stamp"}
SendsCounted ==
  \A i \in A!Ids :
    /\ sends[i] <= A!SentAgain(i) + 1
    /\ ~rows[i].delivered /\ ~(pc \in OutPlaces /\ cur = i) => sends[i] <= A!SentAgain(i)

\* An arrow is of its own position, and a scale about to be stamped has left
\* its arrow.
ArrowsTrue ==
  \A j \in A!Ids :
    /\ rows[j].arrows # <<>> => rows[j].kind = "open"
    /\ \A k \in DOMAIN rows[j].arrows :
         rows[j].arrows[k] \in A!Ids /\ A!Position(rows[j].arrows[k], j)
    /\ \A i \in A!Ids :
         /\ rows[i].kind = "scale" /\ A!Position(i, j)
         /\ rows[i].delivered \/ (pc \in {"edit", "stamp"} /\ cur = i)
         => \E k \in DOMAIN rows[j].arrows : rows[j].arrows[k] = i

QueueInv == QueueTypes /\ WorkWaits /\ SendsCounted /\ ArrowsTrue

NewsInv ==
  /\ part \in {"orders", "alerts"} /\ LaneInv /\ QueueInv
-----------------------------------------------------------------------------
(* The order lane: the lemmas. *)

LEMMA SizesPositive == Sizes \subseteq Nat \ {0}
BY NewsAssumption DEF O!OrderAssumption

LEMMA SizeIsNothingOrMore == \A s \in Sizes \cup {0} : s = 0 \/ s > 0
BY SizesPositive

LEMMA WithWhat ==
  ASSUME NEW f, NEW o, NEW s
  PROVE  /\ DOMAIN O!With(f, o, s) = DOMAIN f \cup {o}
         /\ O!With(f, o, s)[o] = s
         /\ \A x \in DOMAIN f \ {o} : O!With(f, o, s)[x] = f[x]
BY DEF O!With

LEMMA WithoutWhat ==
  ASSUME NEW f, NEW o
  PROVE  /\ DOMAIN O!Without(f, o) = DOMAIN f \ {o}
         /\ \A x \in DOMAIN f \ {o} : O!Without(f, o)[x] = f[x]
BY DEF O!Without, O!Restrict

LEMMA LadderWith ==
  ASSUME NEW f, O!Ladder(f), NEW o \in Orders, NEW s \in Sizes
  PROVE  O!Ladder(O!With(f, o, s))
  <1> DEFINE g == O!With(f, o, s)
  <1>1. DOMAIN g = DOMAIN f \cup {o} /\ g[o] = s /\ \A x \in DOMAIN f \ {o} : g[x] = f[x]
    BY DEF O!With
  <1>2. DOMAIN f \subseteq Orders /\ \A x \in DOMAIN f : f[x] \in Sizes
    BY DEF O!Ladder
  <1> HIDE DEF g
  <1>3. O!Ladder(g)
    BY <1>1, <1>2 DEF O!Ladder
  <1> QED  BY <1>3 DEF g

LEMMA LadderWithout ==
  ASSUME NEW f, O!Ladder(f), NEW o
  PROVE  O!Ladder(O!Without(f, o))
  <1> DEFINE g == O!Without(f, o)
  <1>1. DOMAIN g = DOMAIN f \ {o} /\ \A x \in DOMAIN f \ {o} : g[x] = f[x]
    BY WithoutWhat
  <1>2. DOMAIN f \subseteq Orders /\ \A x \in DOMAIN f : f[x] \in Sizes
    BY DEF O!Ladder
  <1> HIDE DEF g
  <1>3. O!Ladder(g)
    BY <1>1, <1>2 DEF O!Ladder
  <1> QED  BY <1>3 DEF g

LEMMA CountWhat ==
  ASSUME NEW told \in [Orders -> Nat], NEW S
  PROVE  /\ O!Count(told, S) \in [Orders -> Nat]
         /\ \A o \in Orders :
              O!Count(told, S)[o] = IF o \in S THEN told[o] + 1 ELSE told[o]
BY DEF O!Count

LEMMA LaneInit == O!Init => LaneInv
  <1> SUFFICES ASSUME O!Init PROVE LaneInv
    OBVIOUS
  <1>1. DOMAIN O!Empty = {} /\ O!Ladder(O!Empty)
    BY DEF O!Empty, O!Ladder
  <1>2. /\ O!Resting = {} /\ O!Remembered = {} /\ DOMAIN view = {} /\ used = {}
        /\ O!Ladder(book) /\ O!Ladder(memory) /\ O!Ladder(view)
    BY <1>1 DEF O!Init, O!Resting, O!Remembered
  <1>3. /\ placed \in [Orders -> Nat] /\ ended \in [Orders -> Nat]
        /\ \A o \in Orders : placed[o] = 0 /\ ended[o] = 0
    BY DEF O!Init
  <1>4. wire = <<>> /\ ~baselined /\ {baselined, old, followed} \subseteq BOOLEAN
        /\ refresh = "forget" /\ conn = "stopped"
    BY DEF O!Init
  <1>5. O!TypeOK
    BY <1>2, <1>4 DEF O!TypeOK
  <1>5a. LaneTypes
    BY <1>2, <1>3, <1>4, <1>5 DEF LaneTypes
  <1>6. ToldTrue
    <2> SUFFICES ASSUME NEW o \in Orders
                 PROVE  /\ placed[o] <= 1 /\ ended[o] <= 1 /\ ~(placed[o] > 0) /\ ~(ended[o] > 0)
                        /\ o \notin O!Resting
      BY DEF ToldTrue
    <2>1. PICK p, e : p = placed[o] /\ e = ended[o] /\ p = 0 /\ e = 0
      BY <1>3
    <2> QED  BY <2>1, <1>2
  <1>7. ViewTrue /\ WireTrue
    BY <1>4 DEF ViewTrue, WireTrue
  <1> QED  BY <1>5a, <1>6, <1>7 DEF LaneInv

\* A transition that is pushed is news to the wire.
LEMMA PushedWire ==
  ASSUME LaneInv, NEW o \in Orders, NEW kind \in {"placed", "filled", "canceled", "other"},
         NEW size \in Sizes \cup {0}, O!Pushes(o, kind, size),
         UNCHANGED <<placed, ended, conn>>, used \subseteq used', o \in used', ended[o] = 0,
         o \in O!Resting \/ o \notin used,
         \A x \in used \ {o} : x \notin O!Resting => x \notin O!Resting',
         kind = "placed" => o \notin used,
         size = 0 => kind = "filled",
         kind \in {"canceled", "other"} \/ size = 0 => o \notin O!Resting'
  PROVE  /\ wire' \in Seq(Frame) /\ (conn' # "live" => wire' = <<>>)
         /\ \A i \in DOMAIN wire' : wire'[i].order \in used'
         /\ WireTrue'
  <1> DEFINE u == [order |-> o, kind |-> kind, size |-> size]
  <1>1. u \in Frame
    BY DEF Frame
  <1>2. wire \in Seq(Frame) /\ (conn # "live" => wire = <<>>) /\ WireTrue /\ ToldTrue
        /\ placed \in [Orders -> Nat]
    BY DEF LaneInv, LaneTypes
  <1>3. CASE conn # "live"
    <2>1. wire' = wire /\ wire = <<>> /\ conn' # "live"
      BY <1>3, <1>2 DEF O!Pushes
    <2> QED  BY <2>1, <1>2 DEF WireTrue
  <1>4. CASE conn = "live"
    <2>1. wire' = Append(wire, u) /\ conn' = "live"
      BY <1>4 DEF O!Pushes
    <2> DEFINE n == Len(wire)
    <2>2. /\ n \in Nat /\ DOMAIN wire = 1..n /\ DOMAIN wire' = 1..(n + 1) /\ wire' \in Seq(Frame)
          /\ \A k \in 1..n : wire'[k] = wire[k] /\ wire[k] \in Frame
          /\ wire'[n + 1] = u
      BY <2>1, <1>1, <1>2
    <2>3. \A k \in 1..n : wire[k].order # o \/ ~Terminal(wire[k])
      BY <1>2, <2>2 DEF WireTrue
    <2>4. placed[o] = 0 \/ kind # "placed"
      BY <1>2 DEF ToldTrue
    <2>5. \A k \in 1..(n + 1) :
             /\ wire'[k].order \in used' /\ ended'[wire'[k].order] = 0
             /\ wire'[k].size = 0 => Terminal(wire'[k])
             /\ wire'[k].kind = "placed" => placed'[wire'[k].order] = 0
             /\ Terminal(wire'[k]) => wire'[k].order \notin O!Resting'
      <3> TAKE k \in 1..(n + 1)
      <3>1. CASE k \in 1..n
        <4>1. /\ wire'[k] = wire[k] /\ wire[k].order \in used /\ ended[wire[k].order] = 0
              /\ wire[k].size = 0 => Terminal(wire[k])
              /\ wire[k].kind = "placed" => placed[wire[k].order] = 0
              /\ Terminal(wire[k]) => wire[k].order \notin O!Resting
          BY <3>1, <2>2, <1>2 DEF WireTrue
        <4> QED  BY <4>1, <2>3, <3>1
      <3>2. CASE k = n + 1
        <4>1. wire'[k] = u
          BY <3>2, <2>2
        <4>2. u.order = o /\ u.kind = kind /\ u.size = size
          OBVIOUS
        <4> QED  BY <4>1, <4>2, <2>4 DEF Terminal
      <3> QED  BY <3>1, <3>2, <2>2
    <2>6. \A k, l \in 1..(n + 1) :
            k < l /\ wire'[k].order = wire'[l].order
              => ~Terminal(wire'[k]) /\ wire'[l].kind # "placed"
      <3> SUFFICES ASSUME NEW k \in 1..(n + 1), NEW l \in 1..(n + 1), k < l,
                          wire'[k].order = wire'[l].order
                   PROVE  ~Terminal(wire'[k]) /\ wire'[l].kind # "placed"
        OBVIOUS
      <3>1. k \in 1..n /\ wire'[k] = wire[k] /\ wire[k].order \in used
        BY <2>2, <1>2 DEF WireTrue
      <3>2. CASE l \in 1..n
        BY <3>1, <3>2, <2>2, <1>2 DEF WireTrue
      <3>3. CASE l = n + 1
        <4>1. wire'[l].order = o /\ wire'[l].kind = kind
          BY <3>3, <2>2
        <4> QED  BY <4>1, <3>1, <2>3
      <3> QED  BY <3>2, <3>3, <2>2
    <2> QED  BY <2>1, <2>2, <2>5, <2>6 DEF WireTrue
  <1> QED  BY <1>3, <1>4

LEMMA LanePlaces ==
  ASSUME LaneInv, O!Places, UNCHANGED <<O!tables, conn, view, old, followed, refresh>>
  PROVE  LaneInv' 
  <1>1. PICK o \in Orders \ used, s \in Sizes :
          /\ used' = used \cup {o} /\ book' = O!With(book, o, s) /\ O!Pushes(o, "placed", s)
    BY DEF O!Places
  <1>2. O!Ladder(book') /\ O!Resting' = O!Resting \cup {o} /\ s # 0
    BY <1>1, LadderWith, WithWhat, SizesPositive DEF LaneInv, LaneTypes, O!TypeOK, O!Resting
  <1>3. ended[o] = 0 /\ placed[o] = 0
    BY <1>1 DEF LaneInv, LaneTypes, ToldTrue
  <1>4. /\ wire' \in Seq(Frame) /\ (conn' # "live" => wire' = <<>>)
        /\ \A i \in DOMAIN wire' : wire'[i].order \in used'
        /\ WireTrue'
    BY <1>1, <1>2, <1>3, PushedWire DEF O!tables
  <1>5. LaneTypes'
    BY <1>1, <1>2, <1>4 DEF LaneInv, LaneTypes, O!TypeOK, O!tables, O!Resting, O!Remembered, O!Ladder
  <1>6. ToldTrue'
    BY <1>1, <1>2, <1>3 DEF LaneInv, LaneTypes, ToldTrue, O!tables, O!Resting, O!Remembered, O!TypeOK
  <1>7. ViewTrue'
    BY <1>1, <1>2, <1>3 DEF LaneInv, LaneTypes, ViewTrue, O!tables, O!Resting, O!Remembered, O!TypeOK
  <1> QED  BY <1>4, <1>5, <1>6, <1>7 DEF LaneInv

LEMMA LaneFillsPartly ==
  ASSUME LaneInv, O!FillsPartly, UNCHANGED <<O!tables, conn, view, old, followed, refresh>>
  PROVE  LaneInv'
  <1>1. PICK o \in O!Resting, s \in Sizes :
          book' = O!With(book, o, s) /\ UNCHANGED used /\ O!Pushes(o, "filled", s)
    BY DEF O!FillsPartly
  <1>2a. O!Ladder(book) /\ o \in Orders /\ o \in used /\ s # 0
    BY <1>1, SizesPositive DEF LaneInv, LaneTypes, O!TypeOK, O!Resting
  <1>2. O!Ladder(book') /\ O!Resting' = O!Resting /\ s # 0 /\ o \in Orders /\ o \in used
    <2>1. O!Ladder(book')
      BY <1>1, <1>2a, LadderWith
    <2>2. DOMAIN book' = DOMAIN book \cup {o}
      BY Zenon, <1>1, WithWhat
    <2> QED  BY <2>1, <2>2, <1>1, <1>2a DEF O!Resting
  <1>3. ended[o] = 0
    BY <1>1, <1>2 DEF LaneInv, LaneTypes, ToldTrue
  <1>4. /\ wire' \in Seq(Frame) /\ (conn' # "live" => wire' = <<>>)
        /\ \A i \in DOMAIN wire' : wire'[i].order \in used'
        /\ WireTrue'
    BY <1>1, <1>2, <1>3, PushedWire DEF O!tables
  <1>5. LaneTypes'
    BY <1>1, <1>2, <1>4 DEF LaneInv, LaneTypes, O!TypeOK, O!tables, O!Resting, O!Remembered, O!Ladder
  <1>6. ToldTrue'
    BY <1>1, <1>2 DEF LaneInv, ToldTrue, O!tables, O!Remembered
  <1>7. ViewTrue'
    BY <1>1, <1>2 DEF LaneInv, ViewTrue, O!tables, O!Remembered
  <1> QED  BY <1>4, <1>5, <1>6, <1>7 DEF LaneInv

LEMMA LaneLeaves ==
  ASSUME LaneInv, O!Leaves, UNCHANGED <<O!tables, conn, view, old, followed, refresh>>
  PROVE  LaneInv'
  <1>1. PICK o \in O!Resting :
          /\ book' = O!Without(book, o) /\ UNCHANGED used
          /\ \/ O!Pushes(o, "filled", 0) \/ O!Pushes(o, "canceled", book[o])
             \/ O!Pushes(o, "other", book[o])
    BY DEF O!Leaves
  <1>2. O!Ladder(book') /\ O!Resting' = O!Resting \ {o} /\ o \in Orders /\ o \in used
        /\ book[o] \in Sizes /\ book[o] # 0
    BY <1>1, LadderWithout, WithoutWhat, SizesPositive
    DEF LaneInv, LaneTypes, O!TypeOK, O!Resting, O!Ladder
  <1>3. ended[o] = 0
    BY <1>1, <1>2 DEF LaneInv, LaneTypes, ToldTrue
  <1>4. /\ wire' \in Seq(Frame) /\ (conn' # "live" => wire' = <<>>)
        /\ \A i \in DOMAIN wire' : wire'[i].order \in used'
        /\ WireTrue'
    <2>1. CASE O!Pushes(o, "filled", 0)
      BY <2>1, <1>1, <1>2, <1>3, PushedWire DEF O!tables
    <2>2. CASE O!Pushes(o, "canceled", book[o])
      BY <2>2, <1>1, <1>2, <1>3, PushedWire DEF O!tables
    <2>3. CASE O!Pushes(o, "other", book[o])
      BY <2>3, <1>1, <1>2, <1>3, PushedWire DEF O!tables
    <2> QED  BY <2>1, <2>2, <2>3, <1>1
  <1>5. LaneTypes'
    BY <1>1, <1>2, <1>4 DEF LaneInv, LaneTypes, O!TypeOK, O!tables, O!Resting, O!Remembered, O!Ladder
  <1>6. ToldTrue'
    BY <1>1, <1>2 DEF LaneInv, ToldTrue, O!tables, O!Remembered
  <1>7. ViewTrue'
    BY <1>1, <1>2 DEF LaneInv, ViewTrue, O!tables, O!Remembered
  <1> QED  BY <1>4, <1>5, <1>6, <1>7 DEF LaneInv

\* What a step does that leaves the exchange and the log alone and keeps no more
\* of the connection than before.
LEMMA LaneClosed ==
  ASSUME LaneInv, NEW next \in {"stopped", "down"}, O!Closes(next),
         UNCHANGED <<O!exchange, O!tables, followed>>, refresh' \in {"forget", "lanes"}
  PROVE  LaneInv'
  <1>1. DOMAIN O!Empty = {} /\ O!Ladder(O!Empty)
    BY DEF O!Empty, O!Ladder
  <1>2. /\ DOMAIN view' = {} /\ O!Ladder(view') /\ wire' = <<>> /\ conn' = next /\ old' = FALSE
    BY <1>1 DEF O!Closes
  <1>2c. {baselined', old', followed'} \subseteq BOOLEAN /\ conn' \in {"stopped", "down"}
    BY DEF LaneInv, LaneTypes, O!TypeOK, O!Closes, O!tables
  <1>2a. O!TypeOK'
    BY <1>2, <1>2c DEF LaneInv, LaneTypes, O!TypeOK, O!exchange, O!tables, O!Resting, O!Ladder
  <1>2b. LaneTypes'
    BY <1>2, <1>2a DEF LaneInv, LaneTypes, O!exchange, O!tables, O!Remembered
  <1>3. ToldTrue'
    BY DEF LaneInv, ToldTrue, O!exchange, O!tables, O!Resting, O!Remembered
  <1>4. ViewTrue' /\ WireTrue'
    BY <1>2 DEF ViewTrue, WireTrue
  <1> QED  BY <1>2b, <1>3, <1>4 DEF LaneInv

\* Nothing the invariant reads of but the connection's place, and that is not a read.
LEMMA LanePasses ==
  ASSUME LaneInv, UNCHANGED <<O!exchange, O!tables, view, wire>>,
         conn' \in {"stopped", "down", "open", "read", "anchored", "live"},
         conn' = "read" => conn = "read", conn = "live" => conn' = "live",
         {old', followed'} \subseteq BOOLEAN, refresh' \in {"forget", "lanes"}
  PROVE  LaneInv'
  <1>1. LaneTypes'
    BY DEF LaneInv, LaneTypes, O!TypeOK, O!exchange, O!tables, O!Resting, O!Remembered, O!Ladder
  <1>2. ToldTrue' /\ WireTrue'
    BY DEF LaneInv, ToldTrue, WireTrue, O!exchange, O!tables, O!Resting, O!Remembered
  <1>3. ViewTrue'
    BY DEF LaneInv, ViewTrue, O!exchange, O!tables, O!Resting, O!Remembered
  <1> QED  BY <1>1, <1>2, <1>3 DEF LaneInv

LEMMA LaneForgets ==
  ASSUME LaneInv, O!ForgetUnwatched
  PROVE  LaneInv'
  <1>1. CASE followed
    BY <1>1, LanePasses
    DEF O!ForgetUnwatched, LaneInv, LaneTypes, O!TypeOK, O!lane, O!exchange, O!tables
  <1>2. CASE ~followed
    <2>1. /\ memory' = O!Empty /\ baselined' = FALSE
          /\ UNCHANGED <<placed, ended, O!exchange, O!lane, followed>> /\ refresh' = "lanes"
      BY <1>2 DEF O!ForgetUnwatched
    <2>2. O!Remembered' = {} /\ O!Ladder(memory')
      BY <2>1 DEF O!Empty, O!Ladder, O!Remembered
    <2>3. LaneTypes'
      BY <2>1, <2>2 DEF LaneInv, LaneTypes, O!TypeOK, O!exchange, O!lane, O!Resting, O!Ladder,
                        O!Remembered
    <2>4. ToldTrue' /\ WireTrue'
      BY <2>1, <2>2 DEF LaneInv, ToldTrue, WireTrue, O!exchange, O!lane, O!Resting
    <2>5. ViewTrue'
      BY <2>1, <2>2 DEF LaneInv, ViewTrue, O!exchange, O!lane, O!Resting
    <2> QED  BY <2>3, <2>4, <2>5 DEF LaneInv
  <1> QED  BY <1>1, <1>2

LEMMA LaneReads ==
  ASSUME LaneInv, O!FetchOrders
  PROVE  LaneInv'
  <1>1. /\ conn = "open" /\ conn' = "read" /\ view' = book
        /\ UNCHANGED <<wire, old, O!exchange, O!tables, followed, refresh>>
    BY DEF O!FetchOrders
  <1>2. LaneTypes'
    BY <1>1 DEF LaneInv, LaneTypes, O!TypeOK, O!exchange, O!tables, O!Resting, O!Remembered, O!Ladder
  <1>3. ToldTrue' /\ WireTrue'
    BY <1>1 DEF LaneInv, ToldTrue, WireTrue, O!exchange, O!tables, O!Resting, O!Remembered
  <1>4. ViewTrue'
    BY <1>1 DEF LaneInv, ToldTrue, ViewTrue, O!exchange, O!tables, O!Resting, O!Remembered
  <1> QED  BY <1>2, <1>3, <1>4 DEF LaneInv

\* The diff tells each order once: what the view adds to a baselined memory was
\* not told placed, what it lacks was not told ended and rests no more.
LEMMA LaneApplies ==
  ASSUME LaneInv, O!ApplyOrders
  PROVE  LaneInv'
  <1>1. /\ conn = "read" /\ conn' = "anchored" /\ memory' = view /\ baselined' = TRUE
        /\ view' = O!Empty /\ UNCHANGED <<wire, old, O!exchange, followed, refresh>>
    BY DEF O!ApplyOrders
  <1> DEFINE new == DOMAIN view \ O!Remembered
             gone == O!Remembered \ DOMAIN view
  <1>2. LaneTypes /\ ToldTrue /\ ViewTrue /\ WireTrue
    BY DEF LaneInv
  <1>3. /\ placed' \in [Orders -> Nat] /\ ended' \in [Orders -> Nat]
        /\ \A o \in Orders :
             /\ placed'[o] = IF baselined /\ o \in new THEN placed[o] + 1 ELSE placed[o]
             /\ ended'[o] = IF baselined /\ o \in gone THEN ended[o] + 1 ELSE ended[o]
    <2>1. CASE baselined
      <3>1. placed' = O!Count(placed, new) /\ ended' = O!Count(ended, gone)
        BY <2>1 DEF O!ApplyOrders
      <3>2. /\ O!Count(placed, new) \in [Orders -> Nat]
            /\ \A o \in Orders :
                 O!Count(placed, new)[o] = IF o \in new THEN placed[o] + 1 ELSE placed[o]
        BY <1>2, CountWhat DEF LaneTypes
      <3>3. /\ O!Count(ended, gone) \in [Orders -> Nat]
            /\ \A o \in Orders :
                 O!Count(ended, gone)[o] = IF o \in gone THEN ended[o] + 1 ELSE ended[o]
        BY <1>2, CountWhat DEF LaneTypes
      <3> HIDE DEF new, gone
      <3> QED  BY <3>1, <3>2, <3>3, <2>1
    <2>2. CASE ~baselined
      BY <2>2, <1>2 DEF O!ApplyOrders, LaneTypes
    <2> QED  BY <2>1, <2>2
  <1>4. O!Remembered' = DOMAIN view /\ O!Resting' = O!Resting /\ used' = used
    BY <1>1 DEF O!Remembered, O!Resting, O!exchange
  <1>5. LaneTypes'
    <2>1. DOMAIN view' = {} /\ O!Ladder(view')
      BY <1>1 DEF O!Empty, O!Ladder
    <2> QED
      BY <1>1, <1>2, <1>3, <1>4, <2>1
      DEF LaneTypes, O!TypeOK, O!exchange, O!Ladder, O!Remembered, O!Resting
  <1>6. ToldTrue'
    <2> SUFFICES ASSUME NEW o \in Orders
                 PROVE  /\ placed'[o] <= 1 /\ ended'[o] <= 1
                        /\ placed'[o] > 0 \/ ended'[o] > 0 => o \in used
                        /\ ended'[o] > 0 => o \notin O!Resting /\ o \notin DOMAIN view
                        /\ placed'[o] > 0 /\ o \in O!Resting => o \in DOMAIN view
      BY <1>1, <1>4 DEF ToldTrue
    <2>1. /\ placed[o] \in Nat /\ ended[o] \in Nat
          /\ O!Remembered \subseteq used /\ DOMAIN view \subseteq used
      BY <1>2 DEF LaneTypes
    <2>2. /\ placed[o] <= 1 /\ ended[o] <= 1
          /\ placed[o] > 0 \/ ended[o] > 0 => o \in used
          /\ ended[o] > 0 => o \notin O!Resting /\ o \notin O!Remembered
      BY <1>2 DEF ToldTrue
    <2>3. /\ ended[o] > 0 => o \notin DOMAIN view
          /\ placed[o] > 0 /\ o \in O!Resting => o \in DOMAIN view
          /\ baselined /\ placed[o] > 0 /\ o \in DOMAIN view => o \in O!Remembered
          /\ o \in O!Remembered /\ o \notin DOMAIN view => o \notin O!Resting
      BY <1>1, <1>2 DEF ViewTrue
    <2>4. CASE baselined /\ o \in new
      BY <2>1, <2>2, <2>3, <2>4, <1>3
    <2>5. CASE baselined /\ o \in gone
      BY <2>1, <2>2, <2>3, <2>5, <1>3
    <2>6. CASE ~baselined \/ (o \notin new /\ o \notin gone)
      BY <2>1, <2>2, <2>3, <2>6, <1>3
    <2> QED  BY <2>4, <2>5, <2>6
  <1>7. ViewTrue' /\ WireTrue'
    <2>1. wire' = <<>>
      BY <1>1, <1>2 DEF LaneTypes
    <2> QED  BY <2>1, <1>1 DEF ViewTrue, WireTrue
  <1> QED  BY <1>5, <1>6, <1>7 DEF LaneInv

\* A set of naturals below a bound has a greatest member.
LEMMA GreatestBelow ==
  ASSUME NEW n \in Nat, NEW B \in SUBSET (0 .. n), B # {}
  PROVE  \E j \in B : \A k \in B : k <= j
  <1> DEFINE T == {n - j : j \in B}
             R == OpToRel(<, Nat)
  <1>1. \A j \in B : n - j \in T /\ n - j \in Nat
    OBVIOUS
  <1>2. T \subseteq Nat /\ T # {} /\ \A t \in T : \E j \in B : t = n - j
    BY <1>1
  <1>3. R = {ss \in Nat \X Nat : ss[1] < ss[2]}
    BY DEF OpToRel
  <1>4. \A x, y \in Nat : y < x => <<y, x>> \in R
    <2> HIDE DEF R
    <2> QED  BY <1>3
  <1> HIDE DEF T, R
  <1>5. PICK x \in T : \A y \in T : ~(<<y, x>> \in R)
    BY <1>2, NatLessThanWellFounded, WFMin DEF R
  <1>6. PICK j \in B : x = n - j
    BY <1>2
  <1>7. ASSUME NEW k \in B PROVE k <= j
    <2>1. ~(n - k < n - j)
      BY <1>1, <1>2, <1>4, <1>5, <1>6
    <2> QED  BY <2>1
  <1> QED  BY <1>7

\* What is left of the wire after a frame is what it was.
LEMMA RestOfWire ==
  ASSUME wire \in Seq(Frame), NEW n \in 1 .. Len(wire), wire' = SubSeq(wire, n + 1, Len(wire))
  PROVE  /\ wire' \in Seq(Frame)
         /\ \A k \in DOMAIN wire' :
              k \in Nat \ {0} /\ k + n \in DOMAIN wire /\ wire'[k] = wire[k + n]
  <1>1. Len(wire) \in Nat /\ DOMAIN wire = 1 .. Len(wire) /\ \A k \in 1 .. Len(wire) : wire[k] \in Frame
    OBVIOUS
  <1>2. /\ Len(wire') = Len(wire) - n /\ DOMAIN wire' = 1 .. (Len(wire) - n)
        /\ \A k \in 1 .. (Len(wire) - n) : wire'[k] = wire[k + n]
    BY <1>1
  <1> QED  BY <1>1, <1>2

\* A set of indices with two members at most the same counts nothing or one.
LEMMA OneAtMost ==
  ASSUME NEW S, IsFiniteSet(S), \A x, y \in S : x = y
  PROVE  /\ S = {} => O!Cardinality(S) = 0
         /\ S # {} => O!Cardinality(S) = 1
  <1>1. O!Cardinality(S) = Cardinality(S)
    BY DEF O!Cardinality, Cardinality
  <1>2. S # {} => \E x : S = {x}
    OBVIOUS
  <1> QED  BY <1>1, <1>2, FS_EmptySet, FS_Singleton

\* What a frame of n updates says of an order: the last word on it, one
\* placement at most and one ending at most, which is that last word.
LEMMA FrameSays ==
  ASSUME LaneTypes, WireTrue, NEW n \in 1 .. Len(wire), NEW o \in Orders
  PROVE  /\ O!PlacedBy(n, o) = {} => O!Cardinality(O!PlacedBy(n, o)) = 0
         /\ O!PlacedBy(n, o) # {} => O!Cardinality(O!PlacedBy(n, o)) = 1 /\ placed[o] = 0
         /\ O!EndedBy(n, o) = {} => O!Cardinality(O!EndedBy(n, o)) = 0
         /\ O!EndedBy(n, o) # {} => O!Cardinality(O!EndedBy(n, o)) = 1
         /\ O!Of(n, o) = {} => O!PlacedBy(n, o) = {} /\ O!EndedBy(n, o) = {}
         /\ O!Of(n, o) # {} =>
              /\ o \in used /\ ended[o] = 0
              /\ O!LastWord(n, o) \in DOMAIN wire /\ O!LastWord(n, o) <= n
              /\ wire[O!LastWord(n, o)].order = o
              /\ O!EndedBy(n, o) # {} => O!Ends(wire[O!LastWord(n, o)])
  <1> DEFINE W == O!Of(n, o)
             l == O!LastWord(n, o)
  <1>1. /\ n \in Nat /\ DOMAIN wire = 1 .. Len(wire) /\ Len(wire) \in Nat /\ n <= Len(wire)
    BY DEF LaneTypes
  <1>2. W \subseteq 1 .. n /\ W \subseteq DOMAIN wire /\ \A i \in W : wire[i].order = o /\ i \in Nat
    BY <1>1 DEF O!Of
  <1>3. IsFiniteSet(W)
    <2>1. IsFiniteSet(1 .. n)
      BY <1>1, FS_Interval
    <2> HIDE DEF W
    <2> QED  BY <1>2, <2>1, FS_Subset
  <1>4. \A i, j \in W : i < j => ~Terminal(wire[i]) /\ wire[j].kind # "placed"
    BY <1>2 DEF WireTrue
  <1>5. \A i, j \in W : i # j => i < j \/ j < i
    BY <1>2
  <1>6. \A u : O!Ends(u) => Terminal(u)
    BY DEF O!Ends, Terminal
  <1>7. O!PlacedBy(n, o) = {i \in W : wire[i].kind = "placed"}
    BY DEF O!PlacedBy
  <1>8. O!EndedBy(n, o) = {i \in W : O!Ends(wire[i])}
    BY DEF O!EndedBy
  <1>9. W # {} => l \in W /\ \A j \in W : j <= l
    <2>1. ASSUME W # {} PROVE \E i \in W : \A j \in W : j <= i
      <3>1. W \in SUBSET (0 .. n)
        BY <1>1, <1>2
      <3> HIDE DEF W
      <3> QED  BY <1>1, <2>1, <3>1, GreatestBelow
    <2>2. l = CHOOSE i \in W : \A j \in W : j <= i
      BY DEF O!LastWord
    <2> HIDE DEF W, l
    <2> QED  BY <2>1, <2>2
  <1> HIDE DEF W, l
  <1>10. IsFiniteSet(O!PlacedBy(n, o)) /\ IsFiniteSet(O!EndedBy(n, o))
    BY <1>3, <1>7, <1>8, FS_Subset
  <1>11. /\ \A x, y \in O!PlacedBy(n, o) : x = y
         /\ \A x, y \in O!EndedBy(n, o) : x = y
    BY <1>4, <1>5, <1>6, <1>7, <1>8
  <1>12. O!PlacedBy(n, o) # {} => placed[o] = 0
    BY <1>2, <1>7 DEF WireTrue
  <1>13. W # {} => o \in used /\ ended[o] = 0
    BY <1>2 DEF WireTrue
  <1>14. W # {} => l \in DOMAIN wire /\ l <= n /\ wire[l].order = o
    <2> SUFFICES ASSUME W # {} PROVE l \in DOMAIN wire /\ l <= n /\ wire[l].order = o
      OBVIOUS
    <2>1. l \in W /\ l \in 1 .. n
      BY <1>2, <1>9
    <2> QED  BY <1>1, <1>2, <2>1
  <1>15. ASSUME O!EndedBy(n, o) # {} PROVE O!Ends(wire[l])
    <2>1. PICK i \in W : O!Ends(wire[i])
      BY <1>8, <1>15
    <2>2. l \in W /\ i <= l /\ i \in Nat /\ l \in Nat
      BY <2>1, <1>2, <1>9
    <2>3. ~(i < l)
      BY <2>1, <2>2, <1>4, <1>6
    <2>4. i = l
      BY <2>2, <2>3
    <2> QED  BY <2>1, <2>4
  <1>16. W = {} => O!PlacedBy(n, o) = {} /\ O!EndedBy(n, o) = {}
    BY <1>7, <1>8
  <1>17. /\ O!PlacedBy(n, o) = {} => O!Cardinality(O!PlacedBy(n, o)) = 0
         /\ O!PlacedBy(n, o) # {} => O!Cardinality(O!PlacedBy(n, o)) = 1
         /\ O!EndedBy(n, o) = {} => O!Cardinality(O!EndedBy(n, o)) = 0
         /\ O!EndedBy(n, o) # {} => O!Cardinality(O!EndedBy(n, o)) = 1
    BY <1>10, <1>11, OneAtMost
  <1> QED  BY <1>12, <1>13, <1>14, <1>15, <1>16, <1>17 DEF W, l

LEMMA LaneReceives ==
  ASSUME LaneInv, O!Receive
  PROVE  LaneInv'
  <1>1. LaneTypes /\ ToldTrue /\ ViewTrue /\ WireTrue
    BY DEF LaneInv
  <1>2. PICK n \in 1 .. Len(wire) :
          /\ wire' = SubSeq(wire, n + 1, Len(wire))
          /\ IF baselined
               THEN /\ memory' = O!Remembers(n)
                    /\ placed' = [o \in Orders |-> placed[o] + O!Cardinality(O!PlacedBy(n, o))]
                    /\ ended' = [o \in Orders |-> ended[o] + O!Cardinality(O!EndedBy(n, o))]
               ELSE UNCHANGED <<memory, placed, ended>>
    BY DEF O!Receive
  <1>3. /\ conn = "live" /\ conn' = "live"
        /\ UNCHANGED <<baselined, view, old, O!exchange, followed, refresh>>
    BY DEF O!Receive
  <1>4. /\ wire' \in Seq(Frame) /\ n \in Nat
        /\ \A k \in DOMAIN wire' :
             /\ k \in Nat \ {0} /\ k + n \in DOMAIN wire /\ wire'[k] = wire[k + n]
             /\ wire'[k] \in Frame /\ n < k + n
    <2>1. wire \in Seq(Frame) /\ n \in Nat
      BY <1>1 DEF LaneTypes
    <2>2. /\ wire' \in Seq(Frame)
          /\ \A k \in DOMAIN wire' :
               k \in Nat \ {0} /\ k + n \in DOMAIN wire /\ wire'[k] = wire[k + n]
      BY <1>2, <2>1, RestOfWire
    <2> QED  BY <2>1, <2>2
  <1>5. O!Resting' = O!Resting /\ used' = used
    BY <1>3 DEF O!Resting, O!exchange
  <1>6. \A k, l \in DOMAIN wire' :
          k < l /\ wire'[k].order = wire'[l].order => ~Terminal(wire'[k]) /\ wire'[l].kind # "placed"
    <2>1. \A k, l \in DOMAIN wire' : k \in Nat /\ l \in Nat /\ (k < l => k + n < l + n)
      BY <1>4
    <2> QED  BY <2>1, <1>1, <1>4 DEF WireTrue
  <1>7. CASE ~baselined
    <2>1. UNCHANGED <<memory, placed, ended>>
      BY <1>2, <1>7
    <2>2. LaneTypes'
      BY <1>1, <1>3, <1>4, <2>1
      DEF LaneTypes, O!TypeOK, WireTrue, O!exchange, O!Resting, O!Remembered, O!Ladder
    <2>3. ToldTrue' /\ ViewTrue'
      BY <1>1, <1>3, <1>5, <2>1 DEF ToldTrue, ViewTrue, O!Remembered
    <2>4. WireTrue'
      BY <1>1, <1>4, <1>5, <1>6, <2>1 DEF WireTrue
    <2> QED  BY <2>2, <2>3, <2>4 DEF LaneInv
  <1>8. CASE baselined
    <2>1. /\ memory' = O!Remembers(n)
          /\ placed' = [o \in Orders |-> placed[o] + O!Cardinality(O!PlacedBy(n, o))]
          /\ ended' = [o \in Orders |-> ended[o] + O!Cardinality(O!EndedBy(n, o))]
      BY <1>2, <1>8
    <2>2. /\ placed' \in [Orders -> Nat] /\ ended' \in [Orders -> Nat]
          /\ \A o \in Orders :
               /\ placed'[o] = IF O!PlacedBy(n, o) = {} THEN placed[o] ELSE 1
               /\ ended'[o] = IF O!EndedBy(n, o) = {} THEN ended[o] ELSE 1
               /\ O!PlacedBy(n, o) # {} \/ O!EndedBy(n, o) # {} => O!Of(n, o) # {} /\ o \in used
      <3>1. placed \in [Orders -> Nat] /\ ended \in [Orders -> Nat]
        BY <1>1 DEF LaneTypes
      <3>2. ASSUME NEW o \in Orders
            PROVE  /\ placed'[o] = IF O!PlacedBy(n, o) = {} THEN placed[o] ELSE 1
                   /\ ended'[o] = IF O!EndedBy(n, o) = {} THEN ended[o] ELSE 1
                   /\ O!PlacedBy(n, o) # {} \/ O!EndedBy(n, o) # {} => O!Of(n, o) # {} /\ o \in used
        <4>1. /\ placed'[o] = placed[o] + O!Cardinality(O!PlacedBy(n, o)) /\ placed[o] \in Nat
              /\ ended'[o] = ended[o] + O!Cardinality(O!EndedBy(n, o)) /\ ended[o] \in Nat
          BY <2>1, <3>1
        <4> QED  BY <4>1, <1>1, FrameSays
      <3>3. /\ DOMAIN placed' = Orders /\ DOMAIN ended' = Orders
            /\ \A o \in Orders : placed'[o] \in Nat /\ ended'[o] \in Nat
        BY <2>1, <3>1, <3>2
      <3>4. placed' = [o \in Orders |-> placed'[o]] /\ ended' = [o \in Orders |-> ended'[o]]
        BY <2>1
      <3> QED  BY <3>2, <3>3, <3>4
    <2>3. ASSUME NEW o \in Orders
          PROVE  /\ O!Of(n, o) = {} => /\ o \in O!Remembered' <=> o \in O!Remembered
                                       /\ o \in O!Remembered => memory'[o] = memory[o]
                 /\ O!Of(n, o) # {} =>
                      /\ o \in O!Remembered' <=> O!Keeps(wire[O!LastWord(n, o)])
                      /\ o \in O!Remembered' => memory'[o] = O!Believed(wire[O!LastWord(n, o)])
      BY <2>1 DEF O!Remembers, O!Remembered
    <2>4. O!Remembered' \subseteq Orders
      BY <2>1 DEF O!Remembers, O!Remembered
    <2>5. ASSUME NEW o \in Orders
          PROVE  /\ o \in O!Remembered' => memory'[o] \in Sizes /\ o \in used
                 /\ O!EndedBy(n, o) # {} => o \notin O!Resting /\ o \notin O!Remembered'
                 /\ O!Of(n, o) # {} /\ o \in O!Resting => o \in O!Remembered'
      <3>1. O!Ladder(memory) /\ O!Remembered \subseteq used
        BY <1>1 DEF LaneTypes, O!TypeOK
      <3>2. CASE O!Of(n, o) = {}
        <4>1. O!EndedBy(n, o) = {}
          BY <3>2, <1>1, FrameSays
        <4> QED  BY <3>1, <3>2, <4>1, <2>3 DEF O!Ladder, O!Remembered
      <3>3. CASE O!Of(n, o) # {}
        <4> DEFINE l == O!LastWord(n, o)
                   u == wire[l]
        <4>1. /\ o \in used /\ l \in DOMAIN wire /\ u.order = o
              /\ O!EndedBy(n, o) # {} => O!Ends(u)
          BY <3>3, <1>1, FrameSays
        <4>2. /\ u \in Frame /\ (u.size = 0 => Terminal(u)) /\ (Terminal(u) => o \notin O!Resting)
          BY <4>1, <1>1 DEF LaneTypes, WireTrue
        <4>3. /\ o \in O!Remembered' <=> O!Keeps(u)
              /\ o \in O!Remembered' => memory'[o] = O!Believed(u)
          BY <3>3, <2>3
        <4> HIDE DEF l, u
        <4>4. /\ u.size \in Sizes \cup {0} /\ (u.size = 0 \/ u.size > 0)
              /\ u.kind \in {"placed", "filled", "canceled", "other"} /\ u.order = o
          BY <4>1, <4>2, SizeIsNothingOrMore DEF Frame
        <4>5. O!Ends(u) => Terminal(u) /\ ~O!Keeps(u)
          <5>1. ~(u.size = 0 /\ u.size > 0)
            BY <4>4
          <5> QED  BY <4>4, <5>1 DEF O!Ends, Terminal, O!Keeps
        <4>6. ~Terminal(u) => O!Keeps(u)
          BY <4>4 DEF Terminal, O!Keeps
        <4>7. O!Keeps(u) => O!Believed(u) \in Sizes
          <5>1. CASE u.kind = "other"
            BY <5>1, <4>4, <3>1 DEF O!Keeps, O!Believed, O!Ladder, O!Remembered
          <5>2. CASE u.kind # "other" /\ O!Keeps(u)
            <6>1. u.size # 0
              BY <5>2, <4>2, <4>4 DEF O!Keeps, Terminal
            <6> QED  BY <6>1, <5>2, <4>4 DEF O!Believed
          <5> QED  BY <5>1, <5>2
        <4> QED  BY <4>1, <4>2, <4>3, <4>5, <4>6, <4>7
      <3> QED  BY <3>2, <3>3
    <2>6. O!Ladder(memory') /\ O!Remembered' \subseteq used
      BY <2>4, <2>5 DEF O!Ladder, O!Remembered
    <2>7. LaneTypes'
      BY <1>1, <1>3, <1>4, <1>5, <2>2, <2>6
      DEF LaneTypes, O!TypeOK, WireTrue, O!exchange, O!Ladder
    <2>8. ToldTrue'
      <3> SUFFICES ASSUME NEW o \in Orders
                   PROVE  /\ placed'[o] <= 1 /\ ended'[o] <= 1
                          /\ placed'[o] > 0 \/ ended'[o] > 0 => o \in used
                          /\ ended'[o] > 0 => o \notin O!Resting /\ o \notin O!Remembered'
                          /\ placed'[o] > 0 /\ o \in O!Resting => o \in O!Remembered'
        BY <1>5 DEF ToldTrue
      <3>1. placed[o] \in Nat /\ ended[o] \in Nat
        BY <1>1 DEF LaneTypes
      <3>2. /\ placed[o] <= 1 /\ ended[o] <= 1
            /\ placed[o] > 0 \/ ended[o] > 0 => o \in used
            /\ ended[o] > 0 => o \notin O!Resting /\ o \notin O!Remembered
            /\ placed[o] > 0 /\ o \in O!Resting => o \in O!Remembered
        BY <1>1, <1>8 DEF ToldTrue
      <3>3. /\ placed'[o] = IF O!PlacedBy(n, o) = {} THEN placed[o] ELSE 1
            /\ ended'[o] = IF O!EndedBy(n, o) = {} THEN ended[o] ELSE 1
            /\ O!PlacedBy(n, o) # {} \/ O!EndedBy(n, o) # {} => O!Of(n, o) # {} /\ o \in used
        BY <2>2
      <3>4. CASE O!Of(n, o) = {}
        BY <3>1, <3>2, <3>3, <3>4, <2>3
      <3>5. CASE O!Of(n, o) # {}
        <4>1. ended[o] = 0
          BY <3>5, <1>1, FrameSays
        <4> QED  BY <4>1, <3>1, <3>2, <3>3, <3>5, <2>5
      <3> QED  BY <3>4, <3>5
    <2>9. ViewTrue'
      BY <1>3 DEF ViewTrue
    <2>10. WireTrue'
      <3>1. ASSUME NEW k \in DOMAIN wire'
            PROVE  /\ wire'[k].order \in used /\ ended'[wire'[k].order] = 0
                   /\ wire'[k].size = 0 => Terminal(wire'[k])
                   /\ wire'[k].kind = "placed" => placed'[wire'[k].order] = 0
                   /\ Terminal(wire'[k]) => wire'[k].order \notin O!Resting
        <4> DEFINE o == wire'[k].order
        <4>1. /\ o \in used /\ ended[o] = 0 /\ o \in Orders
              /\ wire'[k].size = 0 => Terminal(wire'[k])
              /\ wire'[k].kind = "placed" => placed[o] = 0
              /\ Terminal(wire'[k]) => o \notin O!Resting
          BY <1>1, <1>4 DEF WireTrue, LaneTypes
        <4>2. ASSUME NEW i \in O!Of(n, o) PROVE ~Terminal(wire[i]) /\ wire'[k].kind # "placed"
          <5>1. /\ i \in 1 .. n /\ i \in DOMAIN wire /\ wire[i].order = o /\ i < k + n
                /\ k + n \in DOMAIN wire /\ wire'[k] = wire[k + n]
            BY <4>2, <1>1, <1>4 DEF O!Of, LaneTypes
          <5> QED  BY <5>1, <1>1 DEF WireTrue
        <4> HIDE DEF o
        <4>3. O!EndedBy(n, o) = {}
          BY <4>2 DEF O!EndedBy, O!Ends, Terminal
        <4>4. wire'[k].kind = "placed" => O!PlacedBy(n, o) = {}
          BY <4>2 DEF O!PlacedBy
        <4>5. ended'[o] = 0 /\ (wire'[k].kind = "placed" => placed'[o] = 0)
          BY <4>1, <4>3, <4>4, <2>2
        <4> QED  BY <4>1, <4>5 DEF o
      <3> QED  BY <3>1, <1>5, <1>6 DEF WireTrue
    <2> QED  BY <2>7, <2>8, <2>9, <2>10 DEF LaneInv
  <1> QED  BY <1>7, <1>8

LEMMA LaneSteps ==
  ASSUME LaneInv, O!Next
  PROVE  LaneInv'
  <1>0. /\ LaneTypes /\ O!TypeOK
    BY DEF LaneInv, LaneTypes
  <1>1. CASE O!TraderMoves
    BY <1>1, LanePlaces, LaneFillsPartly, LaneLeaves DEF O!TraderMoves
  <1>2. CASE O!FollowOrUnfollow
    BY <1>2, <1>0, LanePasses DEF O!FollowOrUnfollow, O!TypeOK, O!lane, O!tables, O!exchange
  <1>3. CASE O!Supervise
    <2>1. CASE O!ForgetUnwatched
      BY <2>1, LaneForgets
    <2>2. CASE O!ReconcileOrderLanes
      <3>1. CASE UNCHANGED O!lane
        BY <3>1, <2>2, <1>0, LanePasses
        DEF O!ReconcileOrderLanes, O!TypeOK, O!lane, O!tables, O!exchange
      <3>2. CASE O!Closes("down") \/ O!Closes("stopped")
        BY <3>2, <2>2, LaneClosed DEF O!ReconcileOrderLanes
      <3> QED  BY <3>1, <3>2, <2>2 DEF O!ReconcileOrderLanes
    <2> QED  BY <2>1, <2>2, <1>3 DEF O!Supervise
  <1>4. CASE O!Lane
    <2>1. CASE O!Connect \/ O!Subscribe
      BY <2>1, <1>0, LanePasses DEF O!Connect, O!Subscribe, O!TypeOK, O!tables, O!exchange
    <2>2. CASE O!Recycle
      BY <2>2, <1>0, LaneClosed DEF O!Recycle, O!TypeOK
    <2> QED  BY <2>1, <2>2, <1>4, LaneReads, LaneApplies, LaneReceives DEF O!Lane
  <1>5. CASE O!Age
    BY <1>5, <1>0, LanePasses DEF O!Age, O!TypeOK, O!tables, O!exchange
  <1>6. CASE O!Drop
    BY <1>6, <1>0, LaneClosed DEF O!Drop, O!TypeOK
  <1> QED  BY <1>1, <1>2, <1>3, <1>4, <1>5, <1>6 DEF O!Next

LEMMA LaneStutters == LaneInv /\ UNCHANGED ofOrders => LaneInv'
BY DEF ofOrders, LaneInv, LaneTypes, ToldTrue, ViewTrue, WireTrue, O!TypeOK, O!Ladder, O!Resting,
       O!Remembered

-----------------------------------------------------------------------------
(* The alerts: the lemmas. *)

\* The boundary a row looks back to is an earlier one.
LEMMA BoundaryWhat ==
  ASSUME QueueTypes, NEW i \in A!Ids, A!LastBoundary(i) # 0
  PROVE  A!LastBoundary(i) \in A!Ids /\ A!LastBoundary(i) < i
  <1> DEFINE B == {j \in A!Ids : j < i /\ rows[j].kind \in A!Anchors}
  <1>1. A!LastBoundary(i) = IF B = {} THEN 0 ELSE CHOOSE j \in B : \A k \in B : k <= j
    BY DEF A!LastBoundary
  <1>2. A!Ids = 1 .. Len(rows) /\ Len(rows) \in Nat
    BY DEF QueueTypes, A!Ids
  <1>3. B # {}
    BY <1>1
  <1>4. B \in SUBSET (0 .. Len(rows))
    BY <1>2
  <1>5. \E j \in B : \A k \in B : k <= j
    BY <1>2, <1>3, <1>4, GreatestBelow
  <1> QED  BY <1>1, <1>3, <1>5

\* And the anchor of a row is an open, the only one it has.
LEMMA AnchorWhat ==
  ASSUME QueueTypes, NEW i \in A!Ids
  PROVE  /\ A!FindAnchor(i) # 0 =>
              /\ A!FindAnchor(i) \in A!Ids /\ A!FindAnchor(i) < i
              /\ rows[A!FindAnchor(i)].kind = "open" /\ A!Position(i, A!FindAnchor(i))
         /\ \A j \in A!Ids : A!Position(i, j) => j = A!FindAnchor(i)
  <1> DEFINE a == A!FindAnchor(i)
  <1>1. a = IF A!LastBoundary(i) # 0 /\ rows[A!LastBoundary(i)].kind = "open"
              THEN A!LastBoundary(i) ELSE 0
    BY DEF A!FindAnchor
  <1>2. \A j : A!Position(i, j) <=> rows[j].kind = "open" /\ A!LastBoundary(i) = j
    BY DEF A!Position
  <1> HIDE DEF a
  <1>3. \A j \in A!Ids : j # 0
    BY DEF QueueTypes, A!Ids
  <1>4. a # 0 => /\ a \in A!Ids /\ a < i /\ rows[a].kind = "open" /\ A!Position(i, a)
    BY <1>1, <1>2, BoundaryWhat
  <1>5. \A j \in A!Ids : A!Position(i, j) => j = a
    BY <1>1, <1>2, <1>3
  <1> QED  BY <1>4, <1>5 DEF a

\* What was behind a row stays behind it.
LEMMA BoundaryStays ==
  ASSUME rows \in Seq(Row), rows' \in Seq(Row), Len(rows) <= Len(rows'),
         \A k \in A!Ids : rows'[k].kind = rows[k].kind, NEW i \in A!Ids
  PROVE  A!LastBoundary(i)' = A!LastBoundary(i)
  <1> DEFINE B == {k \in A!Ids : k < i /\ rows[k].kind \in A!Anchors}
             C == {k \in A!Ids' : k < i /\ rows'[k].kind \in A!Anchors}
  <1>1. /\ A!Ids = 1 .. Len(rows) /\ A!Ids' = 1 .. Len(rows')
        /\ Len(rows) \in Nat /\ Len(rows') \in Nat
    BY DEF A!Ids
  <1>2. \A k \in Nat : k < i /\ k \in A!Ids' => k \in A!Ids
    BY <1>1
  <1>3. B = C
    BY <1>1, <1>2
  <1>4. A!LastBoundary(i) = IF B = {} THEN 0 ELSE CHOOSE k \in B : \A l \in B : l <= k
    BY DEF A!LastBoundary
  <1>5. A!LastBoundary(i)' = IF C = {} THEN 0 ELSE CHOOSE k \in C : \A l \in C : l <= k
    BY DEF A!LastBoundary
  <1> HIDE DEF B, C
  <1> QED  BY <1>3, <1>4, <1>5

LEMMA PositionStays ==
  ASSUME rows \in Seq(Row), rows' \in Seq(Row), Len(rows) <= Len(rows'),
         \A k \in A!Ids : rows'[k].kind = rows[k].kind,
         NEW i \in A!Ids, NEW j \in A!Ids
  PROVE  A!Position(i, j)' <=> A!Position(i, j)
  <1>1. A!LastBoundary(i)' = A!LastBoundary(i)
    BY BoundaryStays
  <1> QED  BY <1>1 DEF A!Position

LEMMA RowReplaced ==
  ASSUME rows \in Seq(Row), NEW c \in A!Ids, NEW r \in Row, rows' = [rows EXCEPT ![c] = r]
  PROVE  /\ rows' \in Seq(Row) /\ Len(rows') = Len(rows) /\ A!Ids' = A!Ids
         /\ rows'[c] = r /\ \A k \in A!Ids \ {c} : rows'[k] = rows[k]
BY DEF A!Ids

LEMMA RowAdded ==
  ASSUME rows \in Seq(Row), NEW r \in Row, rows' = Append(rows, r)
  PROVE  /\ rows' \in Seq(Row) /\ Len(rows') = Len(rows) + 1 /\ Len(rows) \in Nat
         /\ A!Ids = 1 .. Len(rows) /\ A!Ids' = A!Ids \cup {Len(rows) + 1}
         /\ Len(rows) + 1 \notin A!Ids
         /\ rows'[Len(rows) + 1] = r /\ \A k \in A!Ids : rows'[k] = rows[k]
BY DEF A!Ids

\* A step that draws no arrow keeps the arrows, unless it stamps a scale that
\* had none to leave.
LEMMA ArrowsKept ==
  ASSUME QueueTypes, ArrowsTrue, rows' \in Seq(Row), Len(rows') = Len(rows),
         \A k \in A!Ids :
           /\ rows'[k].kind = rows[k].kind /\ rows'[k].arrows = rows[k].arrows
           /\ rows'[k].delivered /\ rows[k].kind = "scale" =>
                rows[k].delivered \/ (pc \in {"edit", "stamp"} /\ cur = k),
         \A k \in A!Ids : pc' \in {"edit", "stamp"} /\ cur' = k /\ rows[k].kind = "scale" =>
           \/ pc \in {"edit", "stamp"} /\ cur = k
           \/ \A j \in A!Ids : ~A!Position(k, j)
  PROVE  ArrowsTrue'
  <1>1. A!Ids' = A!Ids
    BY DEF A!Ids, QueueTypes
  <1>2. \A i, j \in A!Ids : A!Position(i, j)' <=> A!Position(i, j)
    BY PositionStays DEF QueueTypes
  <1> SUFFICES ASSUME NEW j \in A!Ids
               PROVE  /\ rows'[j].arrows # <<>> => rows'[j].kind = "open"
                      /\ \A k \in DOMAIN rows'[j].arrows :
                           rows'[j].arrows[k] \in A!Ids /\ A!Position(rows'[j].arrows[k], j)
                      /\ \A i \in A!Ids :
                           /\ rows'[i].kind = "scale" /\ A!Position(i, j)
                           /\ rows'[i].delivered \/ (pc' \in {"edit", "stamp"} /\ cur' = i)
                           => \E k \in DOMAIN rows'[j].arrows : rows'[j].arrows[k] = i
    BY <1>1, <1>2 DEF ArrowsTrue
  <1>3. rows'[j].kind = rows[j].kind /\ rows'[j].arrows = rows[j].arrows
    OBVIOUS
  <1>4. rows'[j].arrows # <<>> => rows'[j].kind = "open"
    BY <1>3 DEF ArrowsTrue
  <1>5. \A k \in DOMAIN rows'[j].arrows :
          rows'[j].arrows[k] \in A!Ids /\ A!Position(rows'[j].arrows[k], j)
    BY <1>3 DEF ArrowsTrue
  <1>6. ASSUME NEW i \in A!Ids, rows'[i].kind = "scale", A!Position(i, j),
               rows'[i].delivered \/ (pc' \in {"edit", "stamp"} /\ cur' = i)
        PROVE  \E k \in DOMAIN rows'[j].arrows : rows'[j].arrows[k] = i
    <2>1. rows[i].kind = "scale"
      BY <1>6
    <2>2. rows[i].delivered \/ (pc \in {"edit", "stamp"} /\ cur = i)
      BY <1>6, <2>1
    <2>3. \E k \in DOMAIN rows[j].arrows : rows[j].arrows[k] = i
      BY <1>6, <2>1, <2>2 DEF ArrowsTrue
    <2> QED  BY <2>3, <1>3
  <1> QED  BY <1>4, <1>5, <1>6

LEMMA QueueInitially == A!Init => QueueInv
  <1> SUFFICES ASSUME A!Init PROVE QueueInv
    OBVIOUS
  <1>1. /\ rows = <<>> /\ chat = <<>> /\ sends = <<>> /\ deleted = {} /\ batch = {}
        /\ pc = "idle" /\ cur = 0 /\ crashes = 0 /\ unheard = 0 /\ faults = 0
    BY DEF A!Init
  <1>2. A!Ids = {}
    BY <1>1 DEF A!Ids
  <1>3. QueueTypes
    BY <1>1, <1>2 DEF QueueTypes
  <1>4. WorkWaits /\ SendsCounted /\ ArrowsTrue
    BY <1>1, <1>2 DEF WorkWaits, AtWork, SendsCounted, ArrowsTrue
  <1> QED  BY <1>3, <1>4 DEF QueueInv

\* The reasons to send again only grow in number.
Grows ==
  /\ crashes' \in Nat /\ unheard' \in Nat /\ faults' \in Nat
  /\ crashes <= crashes' /\ unheard <= unheard' /\ faults <= faults'

LEMMA AgainGrows ==
  ASSUME QueueTypes, Grows, NEW i \in A!Ids, rows'[i].kind = rows[i].kind
  PROVE  /\ A!SentAgain(i) \in Nat /\ A!SentAgain(i)' \in Nat
         /\ A!SentAgain(i) <= A!SentAgain(i)'
         /\ sends[i] \in Nat
         /\ rows[i].kind \in A!Anchors => A!SentAgain(i) = crashes + unheard
         /\ rows[i].kind \in A!Anchors => A!SentAgain(i)' = crashes' + unheard'
         /\ rows[i].kind \notin A!Anchors => A!SentAgain(i) = crashes + faults
         /\ rows[i].kind \notin A!Anchors => A!SentAgain(i)' = crashes' + faults'
  <1>1. sends[i] \in Nat
    BY DEF QueueTypes, A!Ids
  <1>2. /\ crashes \in Nat /\ unheard \in Nat /\ faults \in Nat
    BY DEF QueueTypes
  <1>3. /\ A!SentAgain(i) = IF rows[i].kind \in A!Anchors THEN crashes + unheard ELSE crashes + faults
        /\ A!SentAgain(i)' = IF rows[i].kind \in A!Anchors THEN crashes' + unheard' ELSE crashes' + faults'
    BY DEF A!SentAgain, A!Anchors
  <1> HIDE DEF A!SentAgain
  <1>4. CASE rows[i].kind \in A!Anchors
    BY <1>1, <1>2, <1>3, <1>4 DEF Grows
  <1>5. CASE rows[i].kind \notin A!Anchors
    <2>1. A!SentAgain(i) = crashes + faults /\ A!SentAgain(i)' = crashes' + faults'
      BY <1>3, <1>5
    <2>2. /\ crashes + faults \in Nat /\ crashes' + faults' \in Nat
          /\ crashes + faults <= crashes' + faults'
      BY <1>2 DEF Grows
    <2> QED  BY <1>1, <1>5, <2>1, <2>2
  <1> QED  BY <1>4, <1>5

\* A step that sends nothing and leaves no row between its send and its stamp
\* without a reason keeps the count.
LEMMA CountKept ==
  ASSUME QueueTypes, SendsCounted, Grows, UNCHANGED sends, A!Ids' = A!Ids,
         \A i \in A!Ids : rows'[i].kind = rows[i].kind,
         \A i \in A!Ids : rows[i].delivered => rows'[i].delivered,
         \A i \in A!Ids : pc \in OutPlaces /\ cur = i =>
            rows'[i].delivered \/ (pc' \in OutPlaces /\ cur' = i)
  PROVE  SendsCounted'
  <1> SUFFICES ASSUME NEW i \in A!Ids
               PROVE  /\ sends[i] <= A!SentAgain(i)' + 1
                      /\ ~rows'[i].delivered /\ ~(pc' \in OutPlaces /\ cur' = i)
                           => sends[i] <= A!SentAgain(i)'
    BY DEF SendsCounted
  <1>1. /\ A!SentAgain(i) \in Nat /\ A!SentAgain(i)' \in Nat /\ sends[i] \in Nat
        /\ A!SentAgain(i) <= A!SentAgain(i)'
    BY AgainGrows
  <1>2. /\ sends[i] <= A!SentAgain(i) + 1
        /\ ~rows[i].delivered /\ ~(pc \in OutPlaces /\ cur = i) => sends[i] <= A!SentAgain(i)
    BY DEF SendsCounted
  <1> QED  BY <1>1, <1>2

LEMMA NothingGrows == QueueTypes /\ UNCHANGED <<crashes, unheard, faults>> => Grows
BY DEF QueueTypes, Grows

\* A step that leaves the rows alone and goes no closer to a stamp.
LEMMA RowsAlone ==
  ASSUME QueueInv, rows' = rows,
         chat' \in Seq(Shown), Len(chat') = Len(chat), UNCHANGED sends, Grows,
         deleted' \subseteq A!Ids, batch' \subseteq batch, cur' \in 0 .. Len(rows),
         pc' \in {"idle", "next"} \/ (pc = "edit" /\ pc' = "stamp" /\ cur' = cur)
           \/ (pc' = pc /\ cur' = cur),
         pc \in OutPlaces => pc' \in OutPlaces /\ cur' = cur
  PROVE  QueueInv'
  <1>0. QueueTypes /\ WorkWaits /\ SendsCounted /\ ArrowsTrue
    BY DEF QueueInv
  <1>1. A!Ids' = A!Ids /\ \A i \in A!Ids : A!Pending(i)' <=> A!Pending(i)
    BY DEF A!Ids, A!Pending
  <1>2. QueueTypes'
    BY <1>0, <1>1 DEF QueueTypes, Grows
  <1>3. WorkWaits'
    BY <1>0, <1>1 DEF WorkWaits, AtWork, QueueTypes, A!Pending
  <1>4. SendsCounted'
    BY <1>0, <1>1, CountKept
  <1>5. ArrowsTrue'
    BY <1>0, ArrowsKept DEF QueueTypes
  <1> QED  BY <1>2, <1>3, <1>4, <1>5 DEF QueueInv

LEMMA QueueFetches ==
  ASSUME QueueInv, A!Fetch
  PROVE  QueueInv'
  <1>0. QueueTypes /\ WorkWaits /\ SendsCounted /\ ArrowsTrue
    BY DEF QueueInv
  <1>1. /\ pc = "idle" /\ pc' = "next" /\ batch' = {i \in A!Ids : A!Pending(i)}
        /\ UNCHANGED <<rows, chat, deleted, sends, cur, crashes, unheard, faults>>
    BY DEF A!Fetch, A!Goes
  <1>2. A!Ids' = A!Ids /\ \A i \in A!Ids : A!Pending(i)' <=> A!Pending(i)
    BY <1>1 DEF A!Ids, A!Pending
  <1>3. QueueTypes'
    BY <1>0, <1>1, <1>2 DEF QueueTypes
  <1>4. WorkWaits'
    BY <1>1, <1>2 DEF WorkWaits, AtWork
  <1>5. SendsCounted'
    BY <1>0, <1>1, <1>2, NothingGrows, CountKept DEF OutPlaces
  <1>6. ArrowsTrue'
    BY <1>0, <1>1, ArrowsKept DEF QueueTypes
  <1> QED  BY <1>3, <1>4, <1>5, <1>6 DEF QueueInv

LEMMA QueueTakesRow ==
  ASSUME QueueInv, A!NextRow
  PROVE  QueueInv'
  <1>0. QueueTypes /\ WorkWaits /\ SendsCounted /\ ArrowsTrue
    BY DEF QueueInv
  <1>1. /\ pc = "next" /\ UNCHANGED <<rows, chat, deleted, sends, crashes, unheard, faults>>
    BY DEF A!NextRow
  <1>2. CASE batch = {} /\ A!Idles
    <2>1. pc' = "idle" /\ batch' = {} /\ cur' = 0 /\ 0 \in 0 .. Len(rows)
      BY <1>0, <1>2 DEF A!Idles, A!Goes, QueueTypes
    <2> QED  BY <1>0, <1>1, <2>1, NothingGrows, RowsAlone DEF QueueTypes, OutPlaces
  <1>3. CASE \E i \in batch :
               A!Oldest(i) /\ cur' = i /\ batch' = batch \ {i} /\ A!Goes(A!Handler(i))
    <2>1. PICK i \in batch : cur' = i /\ batch' = batch \ {i} /\ pc' = A!Handler(i)
      BY <1>3 DEF A!Goes
    <2>2. A!Ids' = A!Ids /\ \A k \in A!Ids : A!Pending(k)' <=> A!Pending(k)
      BY <1>1 DEF A!Ids, A!Pending
    <2>3. i \in A!Ids /\ A!Pending(i) /\ rows[i].kind \in A!Kinds /\ i \in 0 .. Len(rows)
      <3>1. i \in A!Ids /\ A!Pending(i) /\ i \in 1 .. Len(rows) /\ Len(rows) \in Nat
        BY <1>0, <2>1 DEF QueueTypes, WorkWaits, A!Ids
      <3>2. rows[i] \in Row
        BY <1>0, <3>1 DEF QueueTypes
      <3> QED  BY <3>1, <3>2 DEF Row
    <2>4. /\ pc' \in {"send", "scale", "tpsl"}
          /\ pc' = "send" => rows[i].kind \in A!Anchors
          /\ pc' = "scale" => rows[i].kind = "scale"
          /\ pc' = "tpsl" => rows[i].kind = "tpsl"
      BY <2>1, <2>3 DEF A!Handler, A!Kinds, A!Anchors
    <2>5. QueueTypes'
      BY <1>0, <1>1, <2>1, <2>2, <2>3, <2>4 DEF QueueTypes
    <2>6. WorkWaits'
      BY <1>0, <1>1, <2>1, <2>2, <2>3, <2>4 DEF WorkWaits, AtWork, QueueTypes
    <2>7. SendsCounted'
      BY <1>0, <1>1, <2>2, NothingGrows, CountKept DEF OutPlaces
    <2>8. ArrowsTrue'
      BY <1>0, <1>1, <2>4, ArrowsKept DEF QueueTypes
    <2> QED  BY <2>5, <2>6, <2>7, <2>8 DEF QueueInv
  <1> QED  BY <1>2, <1>3 DEF A!NextRow, A!Goes

\* The pass ends with its row as it was, sent or not: what was sent has a reason
\* to be sent again.
LEMMA QueuePauses ==
  ASSUME QueueInv, A!Paused, AtWork, UNCHANGED crashes, unheard' \in Nat, unheard <= unheard',
         chat' \in Seq(Shown), Len(chat') = Len(chat), deleted' \subseteq A!Ids,
         sends' \in Seq(Nat), Len(sends') = Len(sends),
         NEW c \in A!Ids, c = cur, sends'[c] <= A!SentAgain(c)',
         \A k \in A!Ids \ {c} : sends'[k] = sends[k]
  PROVE  QueueInv'
  <1>0. QueueTypes /\ WorkWaits /\ SendsCounted /\ ArrowsTrue
    BY DEF QueueInv
  <1>1. /\ rows' = rows /\ pc' = "idle" /\ batch' = {} /\ cur' = 0 /\ faults' = faults + 1
    BY DEF A!Paused, A!Idles, A!Goes, A!Fault
  <1>2. A!Ids' = A!Ids
    BY <1>1 DEF A!Ids
  <1>3. Grows
    BY <1>0, <1>1 DEF Grows, QueueTypes
  <1>4. QueueTypes'
    BY <1>0, <1>1, <1>2, <1>3 DEF QueueTypes, Grows
  <1>5. WorkWaits'
    BY <1>1 DEF WorkWaits, AtWork
  <1>6. SendsCounted'
    <2> SUFFICES ASSUME NEW i \in A!Ids
                 PROVE  /\ sends'[i] <= A!SentAgain(i)' + 1
                        /\ ~rows[i].delivered => sends'[i] <= A!SentAgain(i)'
      BY <1>1, <1>2 DEF SendsCounted, OutPlaces
    <2>1. /\ A!SentAgain(i) \in Nat /\ A!SentAgain(i)' \in Nat /\ sends[i] \in Nat
          /\ A!SentAgain(i) <= A!SentAgain(i)'
      BY <1>0, <1>1, <1>3, AgainGrows
    <2>2. CASE i = c
      <3>1. sends'[i] \in Nat
        BY <1>0, <1>2 DEF QueueTypes, A!Ids
      <3> QED  BY <2>1, <2>2, <3>1
    <2>3. CASE i # c
      <3>1. /\ sends'[i] = sends[i] /\ sends[i] <= A!SentAgain(i) + 1
            /\ ~rows[i].delivered => sends[i] <= A!SentAgain(i)
        BY <1>0, <2>3 DEF SendsCounted
      <3> QED  BY <2>1, <3>1
    <2> QED  BY <2>2, <2>3
  <1>7. ArrowsTrue'
    BY <1>0, <1>1, ArrowsKept DEF QueueTypes
  <1> QED  BY <1>4, <1>5, <1>6, <1>7 DEF QueueInv

\* A row of the drain is rewritten, its kind and its trail left as they were.
LEMMA RowRewritten ==
  ASSUME QueueInv, NEW c \in A!Ids, NEW r \in Row, rows' = [rows EXCEPT ![c] = r],
         r.kind = rows[c].kind, r.arrows = rows[c].arrows,
         UNCHANGED <<chat, sends, deleted, batch>>
  PROVE  /\ rows' \in Seq(Row) /\ Len(rows') = Len(rows) /\ A!Ids' = A!Ids
         /\ rows'[c] = r /\ \A k \in A!Ids \ {c} : rows'[k] = rows[k]
         /\ \A k \in A!Ids : rows'[k].kind = rows[k].kind /\ rows'[k].arrows = rows[k].arrows
         /\ \A k \in A!Ids \ {c} : A!Pending(k)' <=> A!Pending(k)
  <1>1. rows \in Seq(Row)
    BY DEF QueueInv, QueueTypes
  <1>2. /\ rows' \in Seq(Row) /\ Len(rows') = Len(rows) /\ A!Ids' = A!Ids
        /\ rows'[c] = r /\ \A k \in A!Ids \ {c} : rows'[k] = rows[k]
    BY <1>1, RowReplaced
  <1> QED  BY <1>2 DEF A!Pending

LEMMA QueueRejects ==
  ASSUME QueueInv, A!Rejected, UNCHANGED <<chat, sends, deleted, crashes, unheard>>, AtWork,
         NEW c \in A!Ids, c = cur, sends[c] <= A!SentAgain(c)'
  PROVE  QueueInv'
  <1>0. QueueTypes /\ WorkWaits /\ SendsCounted /\ ArrowsTrue
    BY DEF QueueInv
  <1> DEFINE r == [rows[c] EXCEPT !.attempts = @ + 1]
  <1>1. /\ rows' = [rows EXCEPT ![c] = r] /\ pc' = "next" /\ cur' = 0 /\ faults' = faults + 1
        /\ UNCHANGED <<chat, sends, deleted, batch, crashes, unheard>>
    BY DEF A!Rejected, A!Goes, A!Fault
  <1>2. rows[c] \in Row /\ rows[c].attempts < MaxAttempts /\ c \notin batch
    BY <1>0 DEF QueueTypes, WorkWaits, A!Pending, A!Ids
  <1>3. r \in Row /\ r.kind = rows[c].kind /\ r.arrows = rows[c].arrows
        /\ r.delivered = rows[c].delivered
    BY <1>2, NewsAssumption DEF Row, A!AlertAssumption
  <1> HIDE DEF r
  <1>4. /\ rows' \in Seq(Row) /\ Len(rows') = Len(rows) /\ A!Ids' = A!Ids
        /\ rows'[c] = r /\ \A k \in A!Ids \ {c} : rows'[k] = rows[k]
        /\ \A k \in A!Ids : rows'[k].kind = rows[k].kind /\ rows'[k].arrows = rows[k].arrows
        /\ \A k \in A!Ids \ {c} : A!Pending(k)' <=> A!Pending(k)
    BY <1>1, <1>2, <1>3, RowRewritten
  <1>5. \A k \in A!Ids : rows'[k].delivered = rows[k].delivered
    BY <1>3, <1>4
  <1>6. Grows
    BY <1>0, <1>1 DEF Grows, QueueTypes
  <1>7. QueueTypes'
    BY <1>0, <1>1, <1>4, <1>6 DEF QueueTypes, Grows
  <1>8. WorkWaits'
    BY <1>0, <1>1, <1>2, <1>4 DEF WorkWaits, AtWork, QueueTypes
  <1>9. SendsCounted'
    <2> SUFFICES ASSUME NEW i \in A!Ids
                 PROVE  /\ sends[i] <= A!SentAgain(i)' + 1
                        /\ ~rows[i].delivered => sends[i] <= A!SentAgain(i)'
      BY <1>1, <1>4, <1>5 DEF SendsCounted, OutPlaces
    <2>1. /\ A!SentAgain(i) \in Nat /\ A!SentAgain(i)' \in Nat /\ sends[i] \in Nat
          /\ A!SentAgain(i) <= A!SentAgain(i)'
      BY <1>0, <1>4, <1>6, AgainGrows
    <2>2. i # c => /\ sends[i] <= A!SentAgain(i) + 1
                   /\ ~rows[i].delivered => sends[i] <= A!SentAgain(i)
      BY <1>0 DEF SendsCounted
    <2> QED  BY <2>1, <2>2
  <1>10. ArrowsTrue'
    BY <1>0, <1>1, <1>4, <1>5, ArrowsKept
  <1> QED  BY <1>7, <1>8, <1>9, <1>10 DEF QueueInv

\* The row at work, and the reasons to send it again before and after a fault.
LEMMA RowAtWork ==
  ASSUME QueueInv, AtWork
  PROVE  /\ cur \in A!Ids /\ A!Pending(cur) /\ ~rows[cur].delivered /\ rows[cur] \in Row
         /\ cur \notin batch
BY DEF QueueInv, QueueTypes, WorkWaits, A!Pending, A!Ids

LEMMA RejectedKind ==
  ASSUME A!Rejected, NEW c \in A!Ids, c = cur, rows[c] \in Row
  PROVE  faults' = faults + 1 /\ rows'[c].kind = rows[c].kind
  <1> DEFINE r == [rows[c] EXCEPT !.attempts = @ + 1]
  <1>1. r.kind = rows[c].kind
    BY DEF Row
  <1>2. rows' = [rows EXCEPT ![c] = r] /\ faults' = faults + 1
    BY DEF A!Rejected, A!Fault
  <1> HIDE DEF r
  <1> QED  BY <1>1, <1>2 DEF A!Ids

LEMMA QueueSends ==
  ASSUME QueueInv, A!DeliverAnchor
  PROVE  QueueInv'
  <1>0. QueueTypes /\ WorkWaits /\ SendsCounted /\ ArrowsTrue
    BY DEF QueueInv
  <1>1. pc = "send" /\ UNCHANGED crashes /\ AtWork
    BY DEF A!DeliverAnchor, AtWork
  <1>2. PICK c \in A!Ids : c = cur
    BY <1>1, RowAtWork
  <1>3. /\ ~rows[c].delivered /\ rows[c] \in Row /\ c \notin batch /\ A!Pending(c)
        /\ rows[c].kind \in A!Anchors
    BY <1>0, <1>1, <1>2, RowAtWork DEF WorkWaits
  <1>4. sends[c] <= A!SentAgain(c) /\ sends[c] \in Nat
    BY <1>0, <1>1, <1>2, <1>3 DEF SendsCounted, OutPlaces, QueueTypes, A!Ids
  <1>5. ASSUME A!Posted
        PROVE  /\ chat' \in Seq(Shown) /\ Len(chat') = Len(chat) /\ deleted' \subseteq A!Ids
               /\ sends' \in Seq(Nat) /\ Len(sends') = Len(sends) /\ sends'[c] = sends[c] + 1
               /\ \A k \in A!Ids \ {c} : sends'[k] = sends[k]
    <2> DEFINE t == A!Text(c)
    <2>1. t \in Shown
      BY <1>3 DEF A!Text, Shown, Row
    <2>2. /\ chat' = [chat EXCEPT ![c] = t] /\ sends' = [sends EXCEPT ![c] = @ + 1]
          /\ deleted' \subseteq deleted
      BY <1>2, <1>5 DEF A!Posted, A!Taken
    <2> HIDE DEF t
    <2>3. /\ chat \in Seq(Shown) /\ c \in 1 .. Len(chat) /\ deleted \subseteq A!Ids
          /\ sends \in Seq(Nat) /\ c \in 1 .. Len(sends) /\ A!Ids = 1 .. Len(sends)
      BY <1>0, <1>2 DEF QueueTypes, A!Ids
    <2> QED  BY <2>1, <2>2, <2>3
  <1>6. CASE A!Posted /\ A!Goes("save") /\ UNCHANGED <<rows, batch, cur, unheard, faults>>
    <2>1. pc' = "save" /\ UNCHANGED <<rows, batch, cur, unheard, faults, crashes>>
      BY <1>1, <1>6 DEF A!Goes
    <2>2. A!Ids' = A!Ids /\ \A k \in A!Ids : A!Pending(k)' <=> A!Pending(k)
      BY <2>1 DEF A!Ids, A!Pending
    <2>3. QueueTypes'
      BY <1>0, <1>5, <1>6, <2>1, <2>2 DEF QueueTypes
    <2>4. WorkWaits'
      BY <1>0, <1>1, <1>2, <1>3, <2>1, <2>2 DEF WorkWaits, QueueTypes
    <2>5. SendsCounted'
      <3> SUFFICES ASSUME NEW i \in A!Ids
                   PROVE  /\ sends'[i] <= A!SentAgain(i)' + 1
                          /\ ~rows[i].delivered /\ c # i => sends'[i] <= A!SentAgain(i)'
        BY <1>2, <2>1, <2>2 DEF SendsCounted, OutPlaces
      <3>1. /\ A!SentAgain(i) \in Nat /\ A!SentAgain(i)' \in Nat /\ sends[i] \in Nat
            /\ A!SentAgain(i) <= A!SentAgain(i)'
        BY <1>0, <2>1, NothingGrows, AgainGrows
      <3>2. i # c => /\ sends'[i] = sends[i] /\ sends[i] <= A!SentAgain(i) + 1
                     /\ ~rows[i].delivered => sends[i] <= A!SentAgain(i)
        BY <1>0, <1>1, <1>2, <1>5, <1>6 DEF SendsCounted
      <3>3. sends'[c] = sends[c] + 1
        BY <1>5, <1>6
      <3> QED  BY <1>4, <3>1, <3>2, <3>3
    <2>6. ArrowsTrue'
      BY <1>0, <2>1, ArrowsKept DEF QueueTypes
    <2> QED  BY <2>3, <2>4, <2>5, <2>6 DEF QueueInv
  <1>7. CASE A!Posted /\ A!Paused /\ unheard' = unheard + 1
    <2>1. rows' = rows /\ faults' = faults + 1
      BY <1>7 DEF A!Paused, A!Fault
    <2>2. Grows /\ unheard' \in Nat /\ unheard <= unheard'
      BY <1>0, <1>1, <1>7, <2>1 DEF Grows, QueueTypes
    <2>3. /\ A!SentAgain(c) = crashes + unheard /\ A!SentAgain(c)' = crashes' + unheard'
      BY <1>0, <1>3, <2>1, <2>2, AgainGrows
    <2>4. sends'[c] <= A!SentAgain(c)'
      <3>1. crashes \in Nat /\ unheard \in Nat /\ sends'[c] = sends[c] + 1
        BY <1>0, <1>5, <1>7 DEF QueueTypes
      <3> QED  BY <1>1, <1>4, <1>7, <2>3, <3>1
    <2> QED  BY <1>1, <1>2, <1>5, <1>7, <2>2, <2>4, QueuePauses
  <1>8. CASE (A!Paused \/ A!Rejected) /\ UNCHANGED <<chat, deleted, sends, unheard>>
    <2>1. faults' = faults + 1 /\ rows'[c].kind = rows[c].kind
      <3>1. CASE A!Paused
        BY <3>1 DEF A!Paused, A!Fault
      <3>2. CASE A!Rejected
        BY <1>2, <1>3, <3>2, RejectedKind
      <3> QED  BY <1>8, <3>1, <3>2
    <2>2. Grows
      BY <1>0, <1>1, <1>8, <2>1 DEF Grows, QueueTypes
    <2>3. sends[c] <= A!SentAgain(c)'
      BY <1>0, <1>4, <2>1, <2>2, AgainGrows
    <2>4. CASE A!Paused
      BY <1>0, <1>1, <1>2, <1>8, <2>2, <2>3, <2>4, QueuePauses DEF QueueTypes, Grows
    <2>5. CASE A!Rejected
      BY <1>1, <1>2, <1>8, <2>3, <2>5, QueueRejects
    <2> QED  BY <1>8, <2>4, <2>5
  <1> QED  BY <1>6, <1>7, <1>8 DEF A!DeliverAnchor

LEMMA QueueSaves ==
  ASSUME QueueInv, A!SaveMessageId
  PROVE  QueueInv'
  <1>0. QueueTypes /\ WorkWaits /\ SendsCounted /\ ArrowsTrue
    BY DEF QueueInv
  <1> DEFINE r == [rows[cur] EXCEPT !.sent = TRUE]
  <1>1. /\ rows' = [rows EXCEPT ![cur] = r] /\ pc = "save" /\ pc' = "stamp"
        /\ UNCHANGED <<chat, sends, deleted, batch, cur, crashes, unheard, faults>>
    BY DEF A!SaveMessageId, A!Goes
  <1>2. cur \in A!Ids /\ rows[cur] \in Row /\ A!Pending(cur) /\ cur \notin batch
        /\ rows[cur].kind \in A!Anchors
    BY <1>0, <1>1 DEF QueueTypes, WorkWaits, AtWork, A!Pending, A!Ids
  <1>3. r \in Row /\ r.kind = rows[cur].kind /\ r.arrows = rows[cur].arrows
        /\ r.delivered = rows[cur].delivered /\ r.attempts = rows[cur].attempts
    BY <1>2 DEF Row
  <1> HIDE DEF r
  <1>4. /\ rows' \in Seq(Row) /\ Len(rows') = Len(rows) /\ A!Ids' = A!Ids
        /\ rows'[cur] = r /\ \A k \in A!Ids \ {cur} : rows'[k] = rows[k]
        /\ \A k \in A!Ids : rows'[k].kind = rows[k].kind /\ rows'[k].arrows = rows[k].arrows
        /\ \A k \in A!Ids \ {cur} : A!Pending(k)' <=> A!Pending(k)
    BY <1>1, <1>2, <1>3, RowRewritten
  <1>5. \A k \in A!Ids : rows'[k].delivered = rows[k].delivered
    BY <1>3, <1>4
  <1>6. A!Pending(cur)'
    BY <1>1, <1>2, <1>3, <1>4 DEF A!Pending
  <1>7. QueueTypes'
    BY <1>0, <1>1, <1>4 DEF QueueTypes
  <1>8. WorkWaits'
    BY <1>0, <1>1, <1>2, <1>4, <1>6 DEF WorkWaits, AtWork, QueueTypes
  <1>9. SendsCounted'
    BY <1>0, <1>1, <1>4, <1>5, NothingGrows, CountKept DEF OutPlaces
  <1>10. ArrowsTrue'
    BY <1>0, <1>1, <1>2, <1>4, <1>5, ArrowsKept DEF A!Anchors
  <1> QED  BY <1>7, <1>8, <1>9, <1>10 DEF QueueInv

LEMMA QueueStamps ==
  ASSUME QueueInv, A!Stamp
  PROVE  QueueInv'
  <1>0. QueueTypes /\ WorkWaits /\ SendsCounted /\ ArrowsTrue
    BY DEF QueueInv
  <1> DEFINE r == [rows[cur] EXCEPT !.delivered = TRUE]
  <1>1. /\ rows' = [rows EXCEPT ![cur] = r] /\ pc = "stamp" /\ pc' = "next" /\ cur' = 0
        /\ UNCHANGED <<chat, sends, deleted, batch, crashes, unheard, faults>>
    BY DEF A!Stamp, A!Goes
  <1>2. cur \in A!Ids /\ rows[cur] \in Row /\ cur \notin batch
    BY <1>0, <1>1 DEF QueueTypes, WorkWaits, AtWork, A!Pending, A!Ids
  <1>3. r \in Row /\ r.kind = rows[cur].kind /\ r.arrows = rows[cur].arrows /\ r.delivered = TRUE
    BY <1>2 DEF Row
  <1> HIDE DEF r
  <1>4. /\ rows' \in Seq(Row) /\ Len(rows') = Len(rows) /\ A!Ids' = A!Ids
        /\ rows'[cur] = r /\ \A k \in A!Ids \ {cur} : rows'[k] = rows[k]
        /\ \A k \in A!Ids : rows'[k].kind = rows[k].kind /\ rows'[k].arrows = rows[k].arrows
        /\ \A k \in A!Ids \ {cur} : A!Pending(k)' <=> A!Pending(k)
    BY <1>1, <1>2, <1>3, RowRewritten
  <1>5. QueueTypes'
    BY <1>0, <1>1, <1>4 DEF QueueTypes
  <1>6. WorkWaits'
    BY <1>0, <1>1, <1>2, <1>4 DEF WorkWaits, AtWork, QueueTypes
  <1>7. SendsCounted'
    BY <1>0, <1>1, <1>3, <1>4, NothingGrows, CountKept DEF OutPlaces
  <1>8. ArrowsTrue'
    BY <1>0, <1>1, <1>4, ArrowsKept
  <1> QED  BY <1>5, <1>6, <1>7, <1>8 DEF QueueInv

\* The trail of an open takes the arrow of the scale at work.
LEMMA QueueDrawsArrow ==
  ASSUME QueueInv, pc = "trail", NEW a \in A!Ids, a = A!FindAnchor(cur),
         rows' = [rows EXCEPT ![a].arrows = Append(@, cur)], pc' \in {"edit", "stamp"},
         UNCHANGED <<chat, sends, deleted, batch, cur, crashes, unheard, faults>>
  PROVE  QueueInv'
  <1>0. QueueTypes /\ WorkWaits /\ SendsCounted /\ ArrowsTrue
    BY DEF QueueInv
  <1> DEFINE r == [rows[a] EXCEPT !.arrows = Append(@, cur)]
  <1>1. rows' = [rows EXCEPT ![a] = r]
    OBVIOUS
  <1>2. /\ cur \in A!Ids /\ A!Pending(cur) /\ cur \notin batch /\ rows[cur].kind = "scale"
        /\ rows[a] \in Row /\ rows[a].arrows \in Trail /\ cur \in Nat /\ a # 0
    <2>1. /\ cur \in A!Ids /\ A!Pending(cur) /\ cur \notin batch /\ rows[cur].kind = "scale"
      BY <1>0 DEF WorkWaits, AtWork, A!Pending
    <2>2. rows[a] \in Row /\ cur \in Nat /\ a # 0
      BY <1>0, <2>1 DEF QueueTypes, A!Ids
    <2> QED  BY <2>1, <2>2 DEF Row
  <1>3. /\ rows[a].kind = "open" /\ A!Position(cur, a)
        /\ \A j \in A!Ids : A!Position(cur, j) => j = a
    BY <1>0, <1>2, AnchorWhat
  <1>4. /\ r \in Row /\ r.kind = rows[a].kind /\ r.delivered = rows[a].delivered
        /\ r.attempts = rows[a].attempts /\ r.arrows = Append(rows[a].arrows, cur)
    <2> DEFINE t == Append(rows[a].arrows, cur)
    <2>1. t \in Trail
      BY <1>2 DEF Trail
    <2>2. r = [rows[a] EXCEPT !.arrows = t]
      OBVIOUS
    <2> HIDE DEF t, r
    <2>3. r \in Row /\ r.kind = rows[a].kind /\ r.delivered = rows[a].delivered
          /\ r.attempts = rows[a].attempts /\ r.arrows = t
      BY <1>2, <2>1, <2>2 DEF Row
    <2> QED  BY <2>3 DEF t
  <1> HIDE DEF r
  <1>5. /\ rows' \in Seq(Row) /\ Len(rows') = Len(rows) /\ A!Ids' = A!Ids
        /\ rows'[a] = r /\ \A k \in A!Ids \ {a} : rows'[k] = rows[k]
    BY <1>0, <1>1, <1>4, RowReplaced DEF QueueTypes
  <1>6. /\ \A k \in A!Ids : /\ rows'[k].kind = rows[k].kind
                            /\ rows'[k].delivered = rows[k].delivered
        /\ \A k \in A!Ids : A!Pending(k)' <=> A!Pending(k)
    BY <1>4, <1>5 DEF A!Pending
  <1>7. QueueTypes'
    BY <1>0, <1>5 DEF QueueTypes
  <1>8. WorkWaits'
    BY <1>0, <1>2, <1>5, <1>6 DEF WorkWaits, QueueTypes, A!Anchors
  <1>9. SendsCounted'
    BY <1>0, <1>5, <1>6, NothingGrows, CountKept DEF OutPlaces
  <1>10. \A i, j \in A!Ids : A!Position(i, j)' <=> A!Position(i, j)
    BY <1>0, <1>5, <1>6, PositionStays DEF QueueTypes
  <1> DEFINE n == Len(rows[a].arrows)
  <1>11. /\ n \in Nat /\ DOMAIN rows'[a].arrows = 1 .. (n + 1) /\ DOMAIN rows[a].arrows = 1 .. n
         /\ \A k \in 1 .. n : rows'[a].arrows[k] = rows[a].arrows[k]
         /\ rows'[a].arrows[n + 1] = cur /\ n + 1 \in 1 .. (n + 1)
    BY <1>2, <1>4, <1>5 DEF Trail
  <1> HIDE DEF n
  <1>12. ASSUME NEW j \in A!Ids
         PROVE  /\ rows'[j].arrows # <<>> => rows'[j].kind = "open"
                /\ \A k \in DOMAIN rows'[j].arrows :
                     rows'[j].arrows[k] \in A!Ids /\ A!Position(rows'[j].arrows[k], j)
                /\ \A i \in A!Ids :
                     /\ rows'[i].kind = "scale" /\ A!Position(i, j)
                     /\ rows'[i].delivered \/ (pc' \in {"edit", "stamp"} /\ cur' = i)
                     => \E k \in DOMAIN rows'[j].arrows : rows'[j].arrows[k] = i
    <2>1. \A i \in A!Ids : rows[i].kind = "scale" /\ A!Position(i, j) /\ rows[i].delivered
             => \E k \in DOMAIN rows[j].arrows : rows[j].arrows[k] = i
      BY <1>0 DEF ArrowsTrue
    <2>2. \A k \in DOMAIN rows[j].arrows :
             rows[j].arrows[k] \in A!Ids /\ A!Position(rows[j].arrows[k], j)
      BY <1>0 DEF ArrowsTrue
    <2>3. CASE j # a
      <3>1. rows'[j] = rows[j]
        BY <2>3, <1>5
      <3>2. rows'[j].arrows # <<>> => rows'[j].kind = "open"
        BY <3>1, <1>0 DEF ArrowsTrue
      <3>3. \A i \in A!Ids : A!Position(i, j) /\ cur = i => FALSE
        BY <2>3, <1>3
      <3>4. \A k \in DOMAIN rows'[j].arrows :
               rows'[j].arrows[k] \in A!Ids /\ A!Position(rows'[j].arrows[k], j)
        BY <3>1, <2>2
      <3>5. ASSUME NEW i \in A!Ids, rows'[i].kind = "scale", A!Position(i, j),
                   rows'[i].delivered \/ (pc' \in {"edit", "stamp"} /\ cur' = i)
            PROVE  \E k \in DOMAIN rows'[j].arrows : rows'[j].arrows[k] = i
        <4>1. cur # i
          BY <3>3, <3>5
        <4>2. rows[i].kind = "scale" /\ rows[i].delivered
          BY <4>1, <3>5, <1>6
        <4> QED  BY <4>2, <3>1, <3>5, <2>1
      <3> QED  BY <3>2, <3>4, <3>5
    <2>4. CASE j = a
      <3>1. rows'[j].kind = "open"
        BY <2>4, <1>3, <1>6
      <3>2. \A k \in DOMAIN rows'[a].arrows :
               rows'[a].arrows[k] \in A!Ids /\ A!Position(rows'[a].arrows[k], a)
        <4> TAKE k \in DOMAIN rows'[a].arrows
        <4>1. CASE k \in 1 .. n
          BY <4>1, <2>2, <2>4, <1>11
        <4>2. CASE k = n + 1
          BY <4>2, <1>2, <1>3, <1>11
        <4> QED  BY <4>1, <4>2, <1>11
      <3>3. ASSUME NEW i \in A!Ids, rows'[i].kind = "scale", A!Position(i, a),
                   rows'[i].delivered \/ (pc' \in {"edit", "stamp"} /\ cur' = i)
            PROVE  \E k \in DOMAIN rows'[a].arrows : rows'[a].arrows[k] = i
        <4>1. CASE i = cur
          BY <4>1, <1>11
        <4>2. CASE i # cur
          <5>1. PICK k \in DOMAIN rows[a].arrows : rows[a].arrows[k] = i
            BY <4>2, <3>3, <2>1, <2>4, <1>6
          <5>2. k \in 1 .. (n + 1) /\ rows'[a].arrows[k] = i
            BY <5>1, <1>11
          <5> QED  BY <5>2, <1>11
        <4> QED  BY <4>1, <4>2
      <3> QED  BY <3>1, <3>2, <3>3, <2>4
    <2> QED  BY <2>3, <2>4
  <1>13. ArrowsTrue'
    BY <1>5, <1>10, <1>12 DEF ArrowsTrue
  <1> QED  BY <1>7, <1>8, <1>9, <1>13 DEF QueueInv

LEMMA QueueScales ==
  ASSUME QueueInv, A!DeliverScale
  PROVE  QueueInv'
  <1>0. QueueTypes /\ WorkWaits /\ SendsCounted /\ ArrowsTrue
    BY DEF QueueInv
  <1>1. pc = "scale" /\ UNCHANGED <<chat, deleted, unheard, crashes>> /\ AtWork
    BY DEF A!DeliverScale, AtWork
  <1>2. PICK c \in A!Ids : c = cur
    BY <1>1, RowAtWork
  <1>3. /\ ~rows[c].delivered /\ rows[c] \in Row /\ c \notin batch /\ A!Pending(c)
        /\ rows[c].kind = "scale" /\ rows[c].kind \notin A!Anchors
    BY <1>0, <1>1, <1>2, RowAtWork DEF WorkWaits, A!Anchors
  <1>4. sends[c] <= A!SentAgain(c) /\ sends[c] \in Nat
    BY <1>0, <1>1, <1>2, <1>3 DEF SendsCounted, OutPlaces, QueueTypes, A!Ids
  <1>5. ASSUME A!Taken \/ UNCHANGED sends
        PROVE  /\ sends' \in Seq(Nat) /\ Len(sends') = Len(sends)
               /\ sends'[c] \in Nat /\ sends'[c] <= sends[c] + 1
               /\ \A k \in A!Ids \ {c} : sends'[k] = sends[k]
    <2>1. sends \in Seq(Nat) /\ c \in 1 .. Len(sends) /\ A!Ids = 1 .. Len(sends)
      BY <1>0, <1>2 DEF QueueTypes, A!Ids
    <2>2. CASE A!Taken
      <3>1. sends' = [sends EXCEPT ![c] = @ + 1]
        BY <1>2, <2>2 DEF A!Taken
      <3> QED  BY <2>1, <3>1
    <2>3. CASE UNCHANGED sends
      BY <1>4, <2>1, <2>3
    <2> QED  BY <1>5, <2>2, <2>3
  <1>6. CASE /\ A!Taken \/ UNCHANGED sends
             /\ A!Goes("trail") /\ UNCHANGED <<rows, batch, cur, faults>>
    <2>1. pc' = "trail" /\ UNCHANGED <<rows, batch, cur, faults>>
      BY <1>6 DEF A!Goes
    <2>2. A!Ids' = A!Ids /\ \A k \in A!Ids : A!Pending(k)' <=> A!Pending(k)
      BY <2>1 DEF A!Ids, A!Pending
    <2>3. QueueTypes'
      BY <1>0, <1>1, <1>5, <1>6, <2>1, <2>2 DEF QueueTypes
    <2>4. WorkWaits'
      BY <1>0, <1>1, <1>2, <1>3, <2>1, <2>2 DEF WorkWaits, AtWork, QueueTypes
    <2>5. SendsCounted'
      <3> SUFFICES ASSUME NEW i \in A!Ids
                   PROVE  /\ sends'[i] <= A!SentAgain(i)' + 1
                          /\ ~rows[i].delivered /\ c # i => sends'[i] <= A!SentAgain(i)'
        BY <1>2, <2>1, <2>2 DEF SendsCounted, OutPlaces
      <3>1. /\ A!SentAgain(i) \in Nat /\ A!SentAgain(i)' \in Nat /\ sends[i] \in Nat
            /\ A!SentAgain(i) <= A!SentAgain(i)'
        BY <1>0, <1>1, <2>1, NothingGrows, AgainGrows
      <3>2. i # c => /\ sends'[i] = sends[i] /\ sends[i] <= A!SentAgain(i) + 1
                     /\ ~rows[i].delivered => sends[i] <= A!SentAgain(i)
        BY <1>0, <1>1, <1>2, <1>5, <1>6 DEF SendsCounted
      <3>3. sends'[c] \in Nat /\ sends'[c] <= sends[c] + 1
        BY <1>5, <1>6
      <3> QED  BY <1>4, <3>1, <3>2, <3>3
    <2>6. ArrowsTrue'
      BY <1>0, <1>1, <2>1, ArrowsKept DEF QueueTypes
    <2> QED  BY <2>3, <2>4, <2>5, <2>6 DEF QueueInv
  <1>7. ASSUME faults' = faults + 1, rows'[c].kind = rows[c].kind
        PROVE  /\ A!SentAgain(c)' = crashes + faults + 1 /\ A!SentAgain(c) = crashes + faults
               /\ crashes \in Nat /\ faults \in Nat
    <2>1. Grows
      BY <1>0, <1>1, <1>7 DEF Grows, QueueTypes
    <2>2. crashes \in Nat /\ faults \in Nat
      BY <1>0 DEF QueueTypes
    <2>3. /\ A!SentAgain(c)' = crashes' + faults' /\ A!SentAgain(c) = crashes + faults
      BY <1>0, <1>3, <1>7, <2>1, AgainGrows
    <2> QED  BY <1>1, <1>7, <2>2, <2>3
  <1>8. CASE (A!Taken \/ UNCHANGED sends) /\ A!Paused
    <2>1. rows' = rows /\ faults' = faults + 1
      BY <1>8 DEF A!Paused, A!Fault
    <2>2. sends'[c] <= A!SentAgain(c)'
      BY <1>4, <1>5, <1>7, <1>8, <2>1
    <2>3. unheard' \in Nat /\ unheard <= unheard' /\ chat' \in Seq(Shown)
          /\ Len(chat') = Len(chat) /\ deleted' \subseteq A!Ids
      BY <1>0, <1>1 DEF QueueTypes
    <2> QED  BY <1>1, <1>2, <1>5, <1>8, <2>2, <2>3, QueuePauses
  <1>9. CASE A!Rejected /\ UNCHANGED sends
    <2>1. faults' = faults + 1 /\ rows'[c].kind = rows[c].kind
      BY <1>2, <1>3, <1>9, RejectedKind
    <2>2. sends[c] <= A!SentAgain(c)'
      BY <1>4, <1>7, <2>1
    <2> QED  BY <1>1, <1>2, <1>9, <2>2, QueueRejects
  <1> QED  BY <1>6, <1>8, <1>9 DEF A!DeliverScale

LEMMA QueueLeavesArrow ==
  ASSUME QueueInv, A!LeaveArrow
  PROVE  QueueInv'
  <1>0. QueueTypes /\ WorkWaits /\ SendsCounted /\ ArrowsTrue
    BY DEF QueueInv
  <1>1. pc = "trail" /\ UNCHANGED <<chat, deleted, sends, batch, cur, unheard, faults, crashes>>
    BY DEF A!LeaveArrow
  <1>2. cur \in A!Ids /\ A!Pending(cur) /\ cur \notin batch
    BY <1>0, <1>1 DEF WorkWaits, AtWork, A!Pending
  <1>3. CASE A!FindAnchor(cur) = 0 /\ A!Goes("stamp") /\ UNCHANGED rows
    <2>1. A!Ids' = A!Ids /\ \A i \in A!Ids : A!Pending(i)' <=> A!Pending(i)
      BY <1>3 DEF A!Ids, A!Pending
    <2>2. \A j \in A!Ids : ~A!Position(cur, j)
      <3>1. \A j \in A!Ids : j # 0
        BY <1>0 DEF QueueTypes, A!Ids
      <3> QED  BY <3>1, <1>0, <1>2, <1>3, AnchorWhat
    <2>3. pc' = "stamp" /\ rows' = rows
      BY <1>3 DEF A!Goes
    <2>4. QueueTypes'
      BY <1>0, <1>1, <2>3, <2>1 DEF QueueTypes
    <2>5. WorkWaits'
      BY <1>0, <1>1, <1>2, <2>3, <2>1 DEF WorkWaits, AtWork, QueueTypes
    <2>6. SendsCounted'
      BY <1>0, <1>1, <2>3, <2>1, NothingGrows, CountKept DEF OutPlaces
    <2>7. ArrowsTrue'
      BY <1>0, <1>1, <2>3, <2>2, ArrowsKept DEF QueueTypes
    <2> QED  BY <2>4, <2>5, <2>6, <2>7 DEF QueueInv
  <1>4. CASE /\ A!FindAnchor(cur) # 0
             /\ rows' = [rows EXCEPT ![A!FindAnchor(cur)].arrows = Append(@, cur)]
             /\ A!Goes(IF rows[A!FindAnchor(cur)].sent THEN "edit" ELSE "stamp")
    <2>1. A!FindAnchor(cur) \in A!Ids
      BY <1>0, <1>2, <1>4, AnchorWhat
    <2>2. pc' \in {"edit", "stamp"}
      BY <1>4 DEF A!Goes
    <2> QED  BY <1>1, <1>4, <2>1, <2>2, QueueDrawsArrow
  <1> QED  BY <1>3, <1>4 DEF A!LeaveArrow

LEMMA QueueDrawsLine ==
  ASSUME QueueInv, A!DeliverTpsl
  PROVE  QueueInv'
  <1>0. QueueTypes /\ WorkWaits /\ SendsCounted /\ ArrowsTrue
    BY DEF QueueInv
  <1> DEFINE a == A!FindAnchor(cur)
  <1>1. /\ pc = "tpsl" /\ pc' \in {"edit", "stamp"}
        /\ UNCHANGED <<chat, sends, deleted, batch, cur, crashes, unheard, faults>>
        /\ rows' = rows \/ (a # 0 /\ rows' = [rows EXCEPT ![a].line = rows[cur].want])
    BY DEF A!DeliverTpsl, A!Goes
  <1>2. /\ cur \in A!Ids /\ A!Pending(cur) /\ cur \notin batch /\ rows[cur].kind = "tpsl"
        /\ rows[cur] \in Row
    BY <1>0, <1>1 DEF QueueTypes, WorkWaits, AtWork, A!Pending, A!Ids
  <1>3. /\ rows' \in Seq(Row) /\ Len(rows') = Len(rows) /\ A!Ids' = A!Ids
        /\ \A k \in A!Ids : /\ rows'[k].kind = rows[k].kind /\ rows'[k].arrows = rows[k].arrows
                            /\ rows'[k].delivered = rows[k].delivered
                            /\ rows'[k].attempts = rows[k].attempts
    <2>1. CASE rows' = rows
      BY <2>1, <1>0 DEF QueueTypes, A!Ids
    <2>2. CASE a # 0 /\ rows' = [rows EXCEPT ![a].line = rows[cur].want]
      <3> DEFINE r == [rows[a] EXCEPT !.line = rows[cur].want]
      <3>1. a \in A!Ids /\ rows[a] \in Row
        <4>1. a \in A!Ids
          BY <2>2, <1>0, <1>2, AnchorWhat
        <4> QED  BY <4>1, <1>0 DEF QueueTypes, A!Ids
      <3> HIDE DEF a
      <3>2. /\ r \in Row /\ r.kind = rows[a].kind /\ r.arrows = rows[a].arrows
            /\ r.delivered = rows[a].delivered /\ r.attempts = rows[a].attempts
        BY <3>1, <1>2 DEF Row
      <3>3. rows' = [rows EXCEPT ![a] = r]
        BY <2>2
      <3> HIDE DEF r
      <3>4. /\ rows' \in Seq(Row) /\ Len(rows') = Len(rows) /\ A!Ids' = A!Ids
            /\ rows'[a] = r /\ \A k \in A!Ids \ {a} : rows'[k] = rows[k]
        BY <3>1, <3>2, <3>3, <1>0, RowReplaced DEF QueueTypes
      <3> QED  BY <3>2, <3>4
    <2> QED  BY <2>1, <2>2, <1>1
  <1> HIDE DEF a
  <1>4. \A k \in A!Ids : A!Pending(k)' <=> A!Pending(k)
    BY <1>3 DEF A!Pending
  <1>5. QueueTypes'
    BY <1>0, <1>1, <1>3 DEF QueueTypes
  <1>6. WorkWaits'
    BY <1>0, <1>1, <1>2, <1>3, <1>4 DEF WorkWaits, QueueTypes, A!Anchors
  <1>7. SendsCounted'
    BY <1>0, <1>1, <1>3, NothingGrows, CountKept DEF OutPlaces
  <1>8. ArrowsTrue'
    BY <1>0, <1>1, <1>2, <1>3, ArrowsKept
  <1> QED  BY <1>5, <1>6, <1>7, <1>8 DEF QueueInv

LEMMA QueueEdits ==
  ASSUME QueueInv, A!Edit
  PROVE  QueueInv'
  <1>0. QueueTypes /\ WorkWaits /\ SendsCounted
    BY DEF QueueInv
  <1>1. pc = "edit" /\ UNCHANGED <<deleted, sends, unheard, crashes>> /\ AtWork
    BY DEF A!Edit, AtWork
  <1>2. PICK c \in A!Ids : c = cur
    BY <1>1, RowAtWork
  <1>3. rows[c].kind \notin A!Anchors /\ sends[c] <= A!SentAgain(c) + 1 /\ rows[c] \in Row
    BY <1>0, <1>1, <1>2, RowAtWork DEF WorkWaits, SendsCounted
  <1>4. ASSUME faults' = faults + 1, rows'[c].kind = rows[c].kind
        PROVE  sends[c] <= A!SentAgain(c)'
    <2>1. Grows
      BY <1>0, <1>1, <1>4 DEF Grows, QueueTypes
    <2>2. crashes \in Nat /\ faults \in Nat
      BY <1>0 DEF QueueTypes
    <2>3. /\ A!SentAgain(c)' = crashes' + faults' /\ A!SentAgain(c) = crashes + faults
          /\ sends[c] \in Nat
      BY <1>0, <1>3, <1>4, <2>1, AgainGrows
    <2> QED  BY <1>1, <1>3, <1>4, <2>2, <2>3
  <1> DEFINE a == A!FindAnchor(cur)
  <1>5. ASSUME A!Edited \/ UNCHANGED chat
        PROVE  chat' \in Seq(Shown) /\ Len(chat') = Len(chat)
    <2> DEFINE t == A!Text(a)
    <2>1. chat' = chat \/ chat' = [chat EXCEPT ![a] = t]
      BY <1>5 DEF A!Edited
    <2>2. chat \in Seq(Shown) /\ A!Ids = 1 .. Len(chat)
      BY <1>0 DEF QueueTypes, A!Ids
    <2>3. CASE a \in A!Ids
      <3>1. rows[a] \in Row
        BY <2>3, <1>0 DEF QueueTypes, A!Ids
      <3>2. t \in Shown
        BY <3>1 DEF A!Text, Shown, Row
      <3> HIDE DEF t, a
      <3> QED  BY <2>1, <2>2, <2>3, <3>2
    <2>4. CASE a \notin A!Ids
      <3> HIDE DEF t, a
      <3> QED  BY <2>1, <2>2, <2>4
    <2> QED  BY <2>3, <2>4
  <1> HIDE DEF a
  <1>6. CASE A!Edited /\ A!Goes("stamp") /\ UNCHANGED <<rows, batch, cur, faults>>
    <2>1. pc' = "stamp" /\ UNCHANGED <<rows, batch, cur, faults>>
      BY <1>6 DEF A!Goes
    <2>2. Grows
      BY <1>0, <1>1, <2>1, NothingGrows
    <2> QED  BY <1>0, <1>1, <1>5, <1>6, <2>1, <2>2, RowsAlone DEF QueueTypes, OutPlaces
  <1>7. CASE (A!Edited \/ UNCHANGED chat) /\ A!Paused
    <2>1. rows' = rows /\ faults' = faults + 1
      BY <1>7 DEF A!Paused, A!Fault
    <2>2. sends'[c] <= A!SentAgain(c)'
      BY <1>1, <1>4, <2>1
    <2>3. unheard' \in Nat /\ unheard <= unheard' /\ deleted' \subseteq A!Ids
          /\ sends' \in Seq(Nat) /\ Len(sends') = Len(sends)
          /\ \A k \in A!Ids \ {c} : sends'[k] = sends[k]
      BY <1>0, <1>1 DEF QueueTypes
    <2> QED  BY <1>1, <1>2, <1>5, <1>7, <2>2, <2>3, QueuePauses
  <1>8. CASE A!Rejected /\ UNCHANGED chat
    <2>1. faults' = faults + 1 /\ rows'[c].kind = rows[c].kind
      BY <1>2, <1>3, <1>8, RejectedKind
    <2>2. sends[c] <= A!SentAgain(c)'
      BY <1>4, <2>1
    <2> QED  BY <1>1, <1>2, <1>8, <2>2, QueueRejects
  <1> QED  BY <1>6, <1>7, <1>8 DEF A!Edit

LEMMA QueueGrows ==
  ASSUME QueueInv, NEW kind \in A!Kinds, NEW line \in A!Lines, A!Queues(kind, line),
         UNCHANGED <<deleted, pc, batch, cur, crashes, unheard, faults>>
  PROVE  QueueInv'
  <1>0. QueueTypes /\ WorkWaits /\ SendsCounted /\ ArrowsTrue
    BY DEF QueueInv
  <1> DEFINE r == [kind |-> kind, want |-> line, delivered |-> FALSE, attempts |-> 0,
                   sent |-> FALSE, arrows |-> <<>>, line |-> "none"]
  <1>1a. PICK n : n = Len(rows) + 1
    OBVIOUS
  <1>1. rows' = Append(rows, r) /\ chat' = Append(chat, A!NoText) /\ sends' = Append(sends, 0)
    BY DEF A!Queues
  <1>2. /\ r \in Row /\ r.delivered = FALSE /\ r.arrows = <<>>
        /\ A!NoText \in Shown
    BY NewsAssumption DEF Row, Trail, Shown, A!NoText, A!Lines, A!AlertAssumption
  <1> HIDE DEF r
  <1>3. /\ rows' \in Seq(Row) /\ Len(rows') = n /\ Len(rows) \in Nat
        /\ A!Ids = 1 .. Len(rows) /\ A!Ids' = A!Ids \cup {n} /\ n \notin A!Ids
        /\ rows'[n] = r /\ \A k \in A!Ids : rows'[k] = rows[k]
    BY <1>1a, <1>0, <1>1, <1>2, RowAdded DEF QueueTypes
  <1>4. /\ chat' \in Seq(Shown) /\ Len(chat') = n /\ sends' \in Seq(Nat) /\ Len(sends') = n
        /\ sends'[n] = 0 /\ \A k \in A!Ids : sends'[k] = sends[k]
    BY <1>0, <1>1, <1>2, <1>3 DEF QueueTypes
  <1>5. \A k \in A!Ids : A!Pending(k)' <=> A!Pending(k)
    BY <1>3 DEF A!Pending
  <1>6. QueueTypes'
    BY <1>1a, <1>0, <1>3, <1>4 DEF QueueTypes
  <1>7. WorkWaits'
    <2>1. AtWork => cur \in A!Ids
      BY <1>0 DEF WorkWaits, A!Pending
    <2> QED  BY <2>1, <1>0, <1>3, <1>5 DEF WorkWaits, AtWork, QueueTypes
  <1>8. SendsCounted'
    <2>1. AtWork => cur \in A!Ids
      BY <1>0 DEF WorkWaits, A!Pending
    <2>2. ASSUME NEW i \in A!Ids
          PROVE  /\ sends'[i] <= A!SentAgain(i)' + 1
                 /\ ~rows'[i].delivered /\ ~(pc' \in OutPlaces /\ cur' = i)
                      => sends'[i] <= A!SentAgain(i)'
      <3>1. rows'[i] = rows[i] /\ sends'[i] = sends[i]
        BY <1>3, <1>4
      <3>2. A!SentAgain(i)' = A!SentAgain(i)
        BY <3>1 DEF A!SentAgain
      <3> QED  BY <3>1, <3>2, <1>0 DEF SendsCounted
    <2>3. sends'[n] <= A!SentAgain(n)' + 1 /\ sends'[n] <= A!SentAgain(n)'
      <3>1. A!SentAgain(n)' = crashes + unheard \/ A!SentAgain(n)' = crashes + faults
        BY DEF A!SentAgain
      <3> QED  BY <3>1, <1>0, <1>4 DEF QueueTypes
    <2> QED  BY <2>2, <2>3, <1>3 DEF SendsCounted
  <1>9. ArrowsTrue'
    <2>1. \A i \in A!Ids : A!LastBoundary(i)' = A!LastBoundary(i)
      <3>1. Len(rows) <= Len(rows') /\ rows \in Seq(Row)
        BY <1>1a, <1>0, <1>3 DEF QueueTypes
      <3> QED  BY <3>1, <1>3, BoundaryStays
    <2>2. \A i \in A!Ids : A!LastBoundary(i) # n
      <3>1. n # 0
        BY <1>1a, <1>3
      <3> QED  BY <3>1, <1>0, <1>3, BoundaryWhat
    <2>3. \A i, j \in A!Ids : A!Position(i, j)' <=> A!Position(i, j)
      BY <2>1, <1>3 DEF A!Position
    <2>4. \A i \in A!Ids : ~A!Position(i, n)'
      BY <2>1, <2>2 DEF A!Position
    <2>5. pc \in {"edit", "stamp"} => cur # n
      BY <1>0, <1>3 DEF WorkWaits, AtWork, A!Pending
    <2>6. ASSUME NEW j \in A!Ids'
          PROVE  /\ rows'[j].arrows # <<>> => rows'[j].kind = "open"
                 /\ \A k \in DOMAIN rows'[j].arrows :
                      \E i \in A!Ids' : i = rows'[j].arrows[k] /\ A!Position(i, j)'
                 /\ \A i \in A!Ids' :
                      /\ rows'[i].kind = "scale" /\ A!Position(i, j)'
                      /\ rows'[i].delivered \/ (pc' \in {"edit", "stamp"} /\ cur' = i)
                      => \E k \in DOMAIN rows'[j].arrows : rows'[j].arrows[k] = i
      <3>1. ASSUME NEW i \in A!Ids', rows'[i].delivered \/ (pc' \in {"edit", "stamp"} /\ cur' = i)
            PROVE  i \in A!Ids /\ rows'[i] = rows[i]
        <4>1. i # n
          BY <3>1, <2>5, <1>2, <1>3
        <4> QED  BY <4>1, <1>3
      <3>2. CASE j \in A!Ids
        <4>1. rows'[j] = rows[j]
          BY <3>2, <1>3
        <4>2. rows'[j].arrows # <<>> => rows'[j].kind = "open"
          BY <3>2, <4>1, <1>0 DEF ArrowsTrue
        <4>3. ASSUME NEW k \in DOMAIN rows'[j].arrows
              PROVE  \E i \in A!Ids' : i = rows'[j].arrows[k] /\ A!Position(i, j)'
          <5>1. rows[j].arrows[k] \in A!Ids /\ A!Position(rows[j].arrows[k], j)
            BY <3>2, <4>1, <1>0 DEF ArrowsTrue
          <5>2. PICK i \in A!Ids : i = rows[j].arrows[k]
            BY <5>1
          <5> QED  BY <5>1, <5>2, <4>1, <3>2, <2>3, <1>3
        <4>4. ASSUME NEW i \in A!Ids', rows'[i].kind = "scale", A!Position(i, j)',
                     rows'[i].delivered \/ (pc' \in {"edit", "stamp"} /\ cur' = i)
              PROVE  \E k \in DOMAIN rows'[j].arrows : rows'[j].arrows[k] = i
          <5>1. i \in A!Ids /\ rows'[i] = rows[i]
            BY <3>1, <4>4
          <5>2. A!Position(i, j) /\ rows[i].kind = "scale"
                /\ (rows[i].delivered \/ (pc \in {"edit", "stamp"} /\ cur = i))
            BY <5>1, <4>4, <3>2, <2>3
          <5> QED  BY <5>1, <5>2, <4>1, <3>2, <1>0 DEF ArrowsTrue
        <4> QED  BY <4>2, <4>3, <4>4
      <3>3. CASE j = n
        <4>1. rows'[j].arrows = <<>> /\ DOMAIN rows'[j].arrows = {}
          BY <3>3, <1>2, <1>3
        <4>2. ASSUME NEW i \in A!Ids', A!Position(i, j)',
                     rows'[i].delivered \/ (pc' \in {"edit", "stamp"} /\ cur' = i)
              PROVE  FALSE
          BY <4>2, <3>1, <3>3, <2>4
        <4> QED  BY <4>1, <4>2
      <3> QED  BY <3>2, <3>3, <1>3
    <2> QED  BY <2>6 DEF ArrowsTrue
  <1> QED  BY <1>6, <1>7, <1>8, <1>9 DEF QueueInv

LEMMA QueueRestarts ==
  ASSUME QueueInv, A!Restart
  PROVE  QueueInv'
  <1>0. QueueTypes /\ WorkWaits /\ SendsCounted /\ ArrowsTrue
    BY DEF QueueInv
  <1>1. /\ pc' = "idle" /\ batch' = {} /\ cur' = 0 /\ crashes' = crashes + 1
        /\ UNCHANGED <<rows, chat, deleted, sends, unheard, faults>>
    BY DEF A!Restart, A!Idles, A!Goes
  <1>2. A!Ids' = A!Ids
    BY <1>1 DEF A!Ids
  <1>3. QueueTypes'
    BY <1>0, <1>1, <1>2 DEF QueueTypes
  <1>4. WorkWaits'
    BY <1>1 DEF WorkWaits, AtWork
  <1>5. SendsCounted'
    <2>1. Grows
      BY <1>0, <1>1 DEF Grows, QueueTypes
    <2> SUFFICES ASSUME NEW i \in A!Ids
                 PROVE  sends[i] <= A!SentAgain(i)' + 1 /\ sends[i] <= A!SentAgain(i)'
      BY <1>1, <1>2 DEF SendsCounted
    <2>2. /\ sends[i] \in Nat /\ crashes \in Nat /\ unheard \in Nat /\ faults \in Nat
          /\ sends[i] <= A!SentAgain(i) + 1
      BY <1>0 DEF SendsCounted, QueueTypes, A!Ids
    <2>3. A!SentAgain(i)' = A!SentAgain(i) + 1 /\ A!SentAgain(i) \in Nat
      BY <1>1, <2>2 DEF A!SentAgain
    <2> QED  BY <2>2, <2>3
  <1>6. ArrowsTrue'
    BY <1>0, <1>1, ArrowsKept DEF QueueTypes
  <1> QED  BY <1>3, <1>4, <1>5, <1>6 DEF QueueInv

LEMMA QueueSteps ==
  ASSUME QueueInv, A!Next
  PROVE  QueueInv'
  <1>1. CASE A!Queue
    <2>1. PICK kind \in A!Kinds, line \in A!Lines :
             A!Queues(kind, line) \/ UNCHANGED <<rows, chat, sends>>
      BY <1>1 DEF A!Queue, A!Kinds, A!Lines
    <2>2. UNCHANGED <<deleted, pc, batch, cur, crashes, unheard, faults>>
      BY <1>1 DEF A!Queue, A!drain
    <2>3. CASE A!Queues(kind, line)
      BY <2>2, <2>3, QueueGrows
    <2>4. CASE UNCHANGED <<rows, chat, sends>>
      BY <2>2, <2>4, NothingGrows, RowsAlone DEF QueueInv, QueueTypes
    <2> QED  BY <2>1, <2>3, <2>4
  <1>2. CASE A!Delete
    <2>1. deleted' \subseteq A!Ids
      BY <1>2 DEF A!Delete, QueueInv, QueueTypes
    <2> QED  BY <2>1, <1>2, NothingGrows, RowsAlone DEF A!Delete, A!drain, QueueInv, QueueTypes
  <1>3. CASE A!Drain
    BY <1>3, QueueFetches, QueueTakesRow, QueueSends, QueueSaves, QueueScales, QueueLeavesArrow,
       QueueDrawsLine,
       QueueEdits, QueueStamps DEF A!Drain
  <1> QED  BY <1>1, <1>2, <1>3, QueueRestarts DEF A!Next

LEMMA QueueStutters ==
  ASSUME QueueInv, UNCHANGED ofAlerts, faults' = faults \/ faults' = faults + 1
  PROVE  QueueInv'
  <1>1. Grows
    BY DEF ofAlerts, Grows, QueueInv, QueueTypes
  <1> QED  BY <1>1, RowsAlone DEF ofAlerts, QueueInv, QueueTypes

LEMMA LaneFaults == O!Next => faults' = faults \/ faults' = faults + 1
BY DEF O!Next, O!TraderMoves, O!FollowOrUnfollow, O!Supervise, O!ForgetUnwatched,
       O!ReconcileOrderLanes, O!Lane, O!Connect, O!FetchOrders, O!ApplyOrders, O!Subscribe,
       O!Receive, O!Recycle, O!Age, O!Drop
-----------------------------------------------------------------------------
(* Both parts. *)

LEMMA NewsInitially == Init => NewsInv
BY LaneInit, QueueInitially DEF Init, NewsInv

LEMMA NewsSteps == NewsInv /\ [Next]_vars => NewsInv'
  <1> SUFFICES ASSUME NewsInv, [Next]_vars PROVE NewsInv'
    OBVIOUS
  <1>1. CASE InOrders /\ O!Next
    BY <1>1, LaneSteps, LaneFaults, QueueStutters DEF InOrders, NewsInv
  <1>2. CASE InAlerts /\ A!Next
    BY <1>2, QueueSteps, LaneStutters DEF InAlerts, NewsInv
  <1>3. CASE UNCHANGED vars
    BY <1>3, LaneStutters, QueueStutters DEF vars, NewsInv
  <1> QED  BY <1>1, <1>2, <1>3 DEF Next

\* The inductive invariant of the lane and of the queue.
THEOREM NewsInvariant == Spec => []NewsInv
BY NewsInitially, NewsSteps, PTL DEF Spec

LEMMA NewsTypes == NewsInv => TypesOK
  <1> SUFFICES ASSUME NewsInv PROVE O!TypeOK /\ A!TypeOK
    BY DEF TypesOK
  <1>1. O!TypeOK /\ QueueTypes /\ ArrowsTrue
    BY DEF NewsInv, LaneInv, LaneTypes, QueueInv
  <1>2. ASSUME NEW i \in A!Ids
        PROVE  /\ rows[i].kind \in A!Kinds /\ {rows[i].want, rows[i].line} \subseteq A!Lines
               /\ rows[i].attempts \in 0 .. MaxAttempts
               /\ rows[i].arrows # <<>> => rows[i].kind = "open"
    <2>1. rows[i] \in Row
      BY <1>1 DEF QueueTypes, A!Ids
    <2> QED  BY <2>1, <1>1 DEF Row, ArrowsTrue
  <1> QED  BY <1>1, <1>2 DEF A!TypeOK, QueueTypes

\* An order is told placed once and ended once, a trail is the life of its own
\* position, and a message is repeated only for a reason: a restart, an answer
\* that was lost, or after a scale's own message a failure.
LEMMA NewsOnce == NewsInv => NewsIsToldOnce
  <1> SUFFICES ASSUME NewsInv PROVE O!OrderToldOnce /\ A!TrailIsItsOwn /\ A!SentOnce
    BY DEF NewsIsToldOnce
  <1>1. ToldTrue /\ QueueTypes /\ SendsCounted /\ ArrowsTrue
    BY DEF NewsInv, LaneInv, QueueInv
  <1>2. O!OrderToldOnce
    BY <1>1 DEF ToldTrue, O!OrderToldOnce
  <1>3. A!SentOnce
    <2> SUFFICES ASSUME NEW i \in A!Ids PROVE sends[i] <= 1 + A!SentAgain(i)
      BY DEF A!SentOnce
    <2>1. sends[i] <= A!SentAgain(i) + 1 /\ A!SentAgain(i) \in Nat
      BY <1>1 DEF SendsCounted, A!SentAgain, QueueTypes
    <2> QED  BY <2>1
  <1>4. \A s, i : i \in A!ToSet(s) <=> \E k \in DOMAIN s : s[k] = i
    BY DEF A!ToSet
  <1>5. A!TrailIsItsOwn
    <2> SUFFICES ASSUME NEW i \in A!Ids, NEW j \in A!Ids
                 PROVE  /\ i \in A!ToSet(rows[j].arrows) => A!Position(i, j)
                        /\ rows[i].kind = "scale" /\ rows[i].delivered /\ A!Position(i, j)
                             => i \in A!ToSet(rows[j].arrows)
      BY DEF A!TrailIsItsOwn
    <2>1. \A k \in DOMAIN rows[j].arrows : A!Position(rows[j].arrows[k], j)
      BY <1>1 DEF ArrowsTrue
    <2>2. rows[i].kind = "scale" /\ rows[i].delivered /\ A!Position(i, j)
            => \E k \in DOMAIN rows[j].arrows : rows[j].arrows[k] = i
      BY <1>1 DEF ArrowsTrue
    <2> QED  BY <1>4, <2>1, <2>2
  <1> QED  BY <1>2, <1>3, <1>5

\* The order lane and the alert queue keep their types (OrderLane, Alerts).
THEOREM NewsTypeCorrect == Spec => []TypesOK
BY NewsInvariant, NewsTypes, PTL

\* However the feed, Telegram and the bot fail: each order is told placed once
\* and ended once, each trail is its own, and a message is sent again at most
\* once for each restart and for each failure that hides or follows it.
THEOREM NewsIsToldOnceHolds == Spec => []NewsIsToldOnce
BY NewsInvariant, NewsOnce, PTL
=============================================================================

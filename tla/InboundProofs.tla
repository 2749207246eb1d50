---------------------------- MODULE InboundProofs ----------------------------
(***************************************************************************)
(* Proofs about what comes in from outside.  First Relay: for any ids,     *)
(* books, tables, sizes and caps, what is proposed and confirmed is what   *)
(* the sessions hold, a book is whole unless a record came twice, and      *)
(* nobody's session is replaced.  Then SelfServe: for any signups, books   *)
(* and servers, whoever is written to was meant, and what was answered     *)
(* stays on record however deliveries repeat, overlap and fail.            *)
(***************************************************************************)
EXTENDS Relay, SelfServe, FiniteSetTheorems, SequenceTheorems, WellFoundedInduction, TLAPS

(* What a session says of itself: its proposal and its replay are of what  *)
(* it holds; as long as no record came twice it received as many as        *)
(* arrived, and it holds them all unless some were dropped.                *)
Counts(s) ==
    /\ s.dropped <= s.received /\ Stored(s) <= s.cap
    /\ s.arrived \subseteq 1..s.expected
    /\ ~ s.repeated => s.received = Cardinality(s.arrived)
    /\ ~ s.repeated /\ s.dropped = 0 => s.raw = s.arrived

Fresh(s) ==
    /\ \A c \in s.proposal : c = ContentOf(s)
    /\ s.replay # {} => s.proposal # {}

Whole(s) ==
    s.proposal # {} =>
        \/ s.raw = 1..s.expected
        \/ s.repeated
        \/ s.dropped > 0 /\ s.acked

SessionInv(s) == s \in Session /\ Counts(s) /\ Fresh(s) /\ Whole(s)

(* The tables of a book agree. *)
BookInv(book) ==
    /\ DOMAIN book \subseteq Tables
    /\ book = [t \in DOMAIN book |-> book[t]]
    /\ \A t \in DOMAIN book : SessionInv(book[t])
    /\ \A t, u \in DOMAIN book :
           /\ book[t].replay # {} /\ book[u].replay # {} => book[t].replay = book[u].replay
           /\ \A r \in book[t].replay : r[t] = {ContentOf(book[t])}

(* As long as no host picked an id of the server's form, those in use were *)
(* made up, and have a smaller number than the next.                       *)
IdsInv ==
    ~ squatted => \A i \in DOMAIN AutoIds :
        AutoIds[i] \in DOMAIN sessions => i <= Cardinality(DOMAIN sessions)

IInv ==
    /\ IsFiniteSet(DOMAIN sessions) /\ DOMAIN sessions \subseteq Ids
    /\ sessions = [id \in DOMAIN sessions |-> sessions[id]]
    /\ \A id \in DOMAIN sessions : SessionInv(sessions[id])
    /\ last \in DOMAIN sessions \union {NULL}
    /\ books = [b \in Books |-> books[b]]
    /\ \A b \in Books : BookInv(books[b])
    /\ received \in 0..MaxReceived
    /\ squatted \in BOOLEAN
    /\ IdsInv

-----------------------------------------------------------------------------
(* A chunk is finite, and some of it is kept. *)
LEMMA ChunkIsFinite ==
    ASSUME NEW n \in Nat, NEW S, S \subseteq 1..n
    PROVE  IsFiniteSet(S) /\ Cardinality(S) \in Nat
  <1>1. 1 \in Int /\ n \in Int
    OBVIOUS
  <1>2. IsFiniteSet(1..n)
    BY <1>1, FS_Interval, Zenon
  <1>3. IsFiniteSet(S)
    BY <1>2, FS_Subset
  <1> QED
    BY <1>3, FS_CardinalityType

LEMMA OpenedIsSession ==
    ASSUME NEW n \in Sizes, NEW cap \in Nat, NEW contract \in Contracts \union {NULL}
    PROVE  SessionInv(Opened(n, cap, contract)) /\ Opened(n, cap, contract).expected = n
           /\ Opened(n, cap, contract).contract = contract
           /\ Opened(n, cap, contract).replay = {} /\ Opened(n, cap, contract).received = 0
  <1> DEFINE s == Opened(n, cap, contract)
  <1>1. s \in Session
    BY DEF Opened, Session
  <1>2. /\ s.received = 0 /\ s.dropped = 0 /\ s.cap = cap /\ s.arrived = {} /\ s.raw = {}
        /\ s.proposal = {} /\ s.replay = {} /\ s.expected = n /\ s.contract = contract
    BY DEF Opened
  <1> HIDE DEF s
  <1>3. Counts(s)
    BY <1>2, FS_EmptySet DEF Counts, Stored
  <1>4. Fresh(s) /\ Whole(s)
    BY <1>2 DEF Fresh, Whole
  <1> QED
    BY <1>1, <1>2, <1>3, <1>4 DEF SessionInv, s

(* A chunk that is received. *)
LEMMA ExtendedIsSession ==
    ASSUME NEW s, SessionInv(s), NEW chunk, chunk \subseteq 1..s.expected, NEW kept \in Kept(s, chunk)
    PROVE  LET e == Extended(s, chunk, kept) IN
           /\ e \in Session /\ Counts(e) /\ e.proposal = {} /\ e.replay = {}
           /\ e.expected = s.expected /\ e.contract = s.contract /\ e.cap = s.cap
           /\ e.received >= s.received
  <1> DEFINE e == Extended(s, chunk, kept)
             more == Cardinality(chunk)
             stored == Cardinality(kept)
  <1>1. /\ s \in Session /\ s.expected \in Sizes /\ s.expected \in Nat /\ s.cap \in Nat
        /\ s.raw \subseteq Records /\ s.arrived \subseteq Records
        /\ s.received \in Nat /\ s.dropped \in Nat /\ s.repeated \in BOOLEAN
    BY SizesAssumption DEF SessionInv, Session
  <1>2. chunk \subseteq Records
    BY <1>1 DEF Records
  <1>3. IsFiniteSet(chunk) /\ more \in Nat
    BY <1>1, ChunkIsFinite
  <1>4. kept \subseteq chunk /\ stored = Lesser(more, s.cap - Stored(s))
    BY DEF Kept
  <1>5. IsFiniteSet(kept) /\ stored \in Nat /\ stored <= more /\ (stored = more => kept = chunk)
    BY <1>3, <1>4, FS_Subset, FS_CardinalityType
  <1> DEFINE r == s.received + more
             d == s.dropped + more - stored
             raw == s.raw \union kept
             arrived == s.arrived \union chunk
             repeated == s.repeated \/ chunk \intersect s.arrived # {}
  <1>6. e = [s EXCEPT !.raw = raw, !.received = r, !.dropped = d, !.proposal = {}, !.replay = {},
                      !.arrived = arrived, !.repeated = repeated]
    BY DEF Extended
  <1>7. r \in Nat /\ d \in Nat /\ r - d = s.received - s.dropped + stored /\ d <= r
    BY <1>1, <1>3, <1>5 DEF SessionInv, Counts
  <1>8. raw \subseteq Records /\ arrived \subseteq Records /\ repeated \in BOOLEAN
    BY <1>1, <1>2, <1>4
  <1> HIDE DEF e, more, stored
  <1>9. s.received - s.dropped + stored <= s.cap
    BY <1>1, <1>3, <1>4, <1>5 DEF SessionInv, Counts, Stored, Lesser
  <1>10. arrived \subseteq 1..s.expected
    BY DEF SessionInv, Counts
  <1>11. ~ repeated => r = Cardinality(arrived)
    <2> SUFFICES ASSUME ~ repeated PROVE r = Cardinality(arrived)
      OBVIOUS
    <2>1. chunk \intersect s.arrived = {} /\ ~ s.repeated
      OBVIOUS
    <2>2. s.received = Cardinality(s.arrived) /\ s.arrived \subseteq 1..s.expected
      BY <2>1 DEF SessionInv, Counts
    <2>3. IsFiniteSet(s.arrived)
      BY <1>1, <2>2, ChunkIsFinite
    <2>4. Cardinality(s.arrived \union chunk) =
              Cardinality(s.arrived) + Cardinality(chunk) - Cardinality(s.arrived \intersect chunk)
      BY <1>3, <2>3, FS_Union
    <2>5. Cardinality(s.arrived \intersect chunk) = 0
      <3>1. s.arrived \intersect chunk = {}
        BY <2>1
      <3> QED
        BY <3>1, FS_EmptySet
    <2> QED
      BY <1>1, <1>3, <2>2, <2>4, <2>5 DEF more
  <1>12. ~ repeated /\ d = 0 => raw = arrived
    <2> SUFFICES ASSUME ~ repeated, d = 0 PROVE raw = arrived
      OBVIOUS
    <2>1. s.dropped = 0 /\ stored = more
      BY <1>1, <1>3, <1>5
    <2>2. s.raw = s.arrived
      BY <2>1 DEF SessionInv, Counts
    <2> QED
      BY <1>5, <2>1, <2>2
  <1> HIDE DEF r, d, raw, arrived, repeated
  <1>13. e \in Session
    BY <1>1, <1>6, <1>7, <1>8 DEF Session
  <1>14. /\ e.raw = raw /\ e.received = r /\ e.dropped = d /\ e.proposal = {} /\ e.replay = {}
         /\ e.arrived = arrived /\ e.repeated = repeated /\ e.expected = s.expected
         /\ e.cap = s.cap /\ e.contract = s.contract
    BY <1>1, <1>6 DEF Session
  <1>15. Counts(e)
    BY <1>7, <1>9, <1>10, <1>11, <1>12, <1>14 DEF Counts, Stored
  <1>16. e.received >= s.received
    BY <1>1, <1>3, <1>14 DEF r
  <1> QED
    BY <1>13, <1>14, <1>15, <1>16 DEF e

LEMMA ContentIsContent ==
    ASSUME NEW s \in Session, s.dropped <= s.received
    PROVE  ContentOf(s) \in Content
  <1>1. s.raw \in SUBSET Records /\ s.received - s.dropped \in Nat
    BY DEF Session
  <1> QED
    BY <1>1 DEF ContentOf, Content, Stored

(* The final chunk of a complete session proposes what the session holds,  *)
(* and counting records is enough to know it is all, if none came twice.   *)
LEMMA ProposedIsSession ==
    ASSUME NEW e \in Session, Counts(e), e.proposal = {}, e.replay = {}, NEW mode
    PROVE  LET p == Proposed(e, mode) IN
           /\ SessionInv(p) /\ p.replay = {}
           /\ p.expected = e.expected /\ p.contract = e.contract /\ p.cap = e.cap
           /\ p.received = e.received
  <1>1. CASE ~ Complete(e, mode)
    BY <1>1 DEF Proposed, SessionInv, Fresh, Whole
  <1>2. CASE Complete(e, mode)
    <2> DEFINE content == {ContentOf(e)}
               acked == e.dropped > 0 /\ mode = "acknowledged"
               p == Proposed(e, mode)
    <2>1. p = [e EXCEPT !.proposal = content, !.acked = acked]
      BY <1>2 DEF Proposed
    <2>2. content \in SUBSET Content /\ acked \in BOOLEAN
      BY ContentIsContent DEF Counts
    <2> HIDE DEF content, acked, p
    <2>3. /\ p \in Session /\ p.proposal = content /\ p.acked = acked /\ p.replay = {}
          /\ p.raw = e.raw /\ p.received = e.received /\ p.dropped = e.dropped
          /\ p.arrived = e.arrived /\ p.repeated = e.repeated /\ p.expected = e.expected
          /\ p.cap = e.cap /\ p.contract = e.contract
      BY <2>1, <2>2 DEF Session
    <2>4. Counts(p) /\ ContentOf(p) = ContentOf(e)
      BY <2>3 DEF Counts, ContentOf, Stored
    <2>5. Fresh(p)
      BY <2>3, <2>4 DEF Fresh, content
    <2>6. Whole(p)
      <3> SUFFICES ASSUME ~ p.repeated, ~ (p.dropped > 0 /\ p.acked) PROVE p.raw = 1..p.expected
        BY DEF Whole
      <3>1. e.received = e.expected /\ (e.dropped > 0 => mode = "acknowledged")
        BY <1>2 DEF Complete
      <3>2. e.dropped = 0 /\ e.expected \in Nat
        BY <2>3, <3>1, SizesAssumption DEF acked, Session
      <3>3. e.raw = e.arrived /\ e.arrived \subseteq 1..e.expected /\ Cardinality(e.arrived) = e.expected
        BY <2>3, <3>1, <3>2 DEF Counts
      <3>4. IsFiniteSet(1..e.expected) /\ Cardinality(1..e.expected) = e.expected
        <4>1. 1 \in Int /\ e.expected \in Int
          BY <3>2
        <4>2. /\ IsFiniteSet(1..e.expected)
              /\ Cardinality(1..e.expected) = IF 1 > e.expected THEN 0 ELSE e.expected - 1 + 1
          BY <4>1, FS_Interval, Zenon
        <4> QED
          BY <3>2, <4>2
      <3>5. e.arrived = 1..e.expected
        BY <3>3, <3>4, FS_Subset
      <3> QED
        BY <2>3, <3>3, <3>5
    <2> QED
      BY <2>3, <2>4, <2>5, <2>6 DEF SessionInv, p
  <1> QED
    BY <1>1, <1>2

LEMMA AfterIsSession ==
    ASSUME NEW s, SessionInv(s), NEW chunk, chunk \subseteq 1..s.expected, NEW mode,
           NEW a \in After(s, chunk, mode)
    PROVE  /\ SessionInv(a) /\ a.replay = {} /\ a.contract = s.contract
           /\ a.received >= s.received
  <1>1. PICK kept \in Kept(s, chunk) : a = Proposed(Extended(s, chunk, kept), mode)
    BY DEF After
  <1> DEFINE e == Extended(s, chunk, kept)
  <1>2. /\ e \in Session /\ Counts(e) /\ e.proposal = {} /\ e.replay = {}
        /\ e.contract = s.contract /\ e.received >= s.received
    BY ExtendedIsSession
  <1> HIDE DEF e
  <1>3. /\ SessionInv(Proposed(e, mode)) /\ Proposed(e, mode).replay = {}
        /\ Proposed(e, mode).contract = e.contract /\ Proposed(e, mode).received = e.received
    BY <1>2, ProposedIsSession
  <1> QED
    BY <1>1, <1>2, <1>3 DEF e

(* A session that is confirmed still holds what it held. *)
LEMMA ConfirmedIsSession ==
    ASSUME NEW s, SessionInv(s), s.proposal # {}, NEW r \in [Tables \union {NULL} -> SUBSET Content]
    PROVE  LET c == [s EXCEPT !.replay = {r}] IN
           /\ SessionInv(c) /\ ContentOf(c) = ContentOf(s) /\ c.replay = {r}
           /\ c.contract = s.contract /\ c.received = s.received
  <1> DEFINE c == [s EXCEPT !.replay = {r}]
  <1>1. s \in Session
    BY DEF SessionInv
  <1>2. /\ c \in Session /\ c.proposal = s.proposal /\ c.acked = s.acked /\ c.replay = {r}
        /\ c.raw = s.raw /\ c.received = s.received /\ c.dropped = s.dropped
        /\ c.arrived = s.arrived /\ c.repeated = s.repeated /\ c.expected = s.expected
        /\ c.cap = s.cap /\ c.contract = s.contract
    BY <1>1 DEF Session
  <1> HIDE DEF c
  <1>3. Counts(c) /\ ContentOf(c) = ContentOf(s) /\ Whole(c)
    BY <1>2 DEF SessionInv, Counts, ContentOf, Stored, Whole
  <1>4. Fresh(c)
    BY <1>2, <1>3 DEF SessionInv, Fresh
  <1> QED
    BY <1>2, <1>3, <1>4 DEF SessionInv, c

LEMMA ReplayIsReplay ==
    ASSUME NEW book, \A t \in DOMAIN book : SessionInv(book[t])
    PROVE  Replay(book) \in [Tables \union {NULL} -> SUBSET Content]
  <1>1. \A t \in DOMAIN book : ContentOf(book[t]) \in Content
    BY ContentIsContent DEF SessionInv, Counts
  <1> QED
    BY <1>1 DEF Replay

-----------------------------------------------------------------------------
(* The steps.  Each also keeps what every session has received, as long as *)
(* no host has picked an id of the server's form.                          *)
KeepsReceived ==
    ~ squatted' => \A id \in DOMAIN sessions : sessions'[id].received >= sessions[id].received

LEMMA SessionTypes ==
    ASSUME NEW s, SessionInv(s)
    PROVE  s.received \in Nat /\ s.received >= s.received
  BY DEF SessionInv, Session

LEMMA ReceivesCounts ==
    ASSUME IInv, NEW n \in Sizes, NEW chunk, chunk \subseteq 1..n, Receives(chunk)
    PROVE  received' \in 0..MaxReceived
  <1>1. n \in Nat /\ received \in 0..MaxReceived /\ MaxReceived \in Nat
    BY SizesAssumption, BoundAssumption DEF IInv
  <1>2. Cardinality(chunk) \in Nat
    BY <1>1, ChunkIsFinite
  <1> QED
    BY <1>1, <1>2 DEF Receives

LEMMA NextIdIsNew ==
    ASSUME IInv, Cardinality(DOMAIN sessions) < Len(AutoIds)
    PROVE  /\ NextAutoId \in Ids
           /\ ~ squatted => NextAutoId \notin DOMAIN sessions
           /\ \A i \in DOMAIN AutoIds :
                  NextAutoId = AutoIds[i] => i = Cardinality(DOMAIN sessions) + 1
  <1> DEFINE k == Cardinality(DOMAIN sessions)
  <1>1. k \in Nat /\ AutoIds \in Seq(Ids) /\ DOMAIN AutoIds = 1..Len(AutoIds) /\ Len(AutoIds) \in Nat
    BY IdsAssumption, FS_CardinalityType DEF IInv
  <1>2. k + 1 \in DOMAIN AutoIds /\ NextAutoId = AutoIds[k + 1]
    BY <1>1 DEF NextAutoId
  <1>3. AutoIds[k + 1] \in Ids
    BY <1>2 DEF Ids
  <1>4. ~ squatted => NextAutoId \notin DOMAIN sessions
    BY <1>1, <1>2 DEF IInv, IdsInv
  <1>5. \A i \in DOMAIN AutoIds : NextAutoId = AutoIds[i] => i = k + 1
    BY <1>2, IdsAssumption
  <1> QED
    BY <1>2, <1>3, <1>4, <1>5

LEMMA IngestBookKeeps ==
    ASSUME IInv, NEW id \in Ids \union {NULL}, NEW chunk, NEW n \in Sizes, NEW cap \in Caps,
           NEW mode, IngestBook(id, chunk, n, cap, mode)
    PROVE  IInv' /\ KeepsReceived
  <1> DEFINE known == id # NULL /\ id \in DOMAIN sessions
             unnamed == id # NULL /\ ~ known /\ id \notin OwnIds
  <1>1. PICK sid, old : /\ sid = Selected(id)
                        /\ old = IF known THEN sessions[id] ELSE Opened(n, cap, NULL)
    OBVIOUS
  <1>2. /\ Receives(chunk) /\ CanSelect(id) /\ chunk \subseteq 1..n /\ last' = sid
        /\ squatted' = (squatted \/ unnamed) /\ UNCHANGED books
        /\ IF old.expected # n THEN UNCHANGED sessions
           ELSE \E a \in After(old, chunk, mode) : sessions' = With(sessions, sid, a)
    BY <1>1 DEF IngestBook
  <1>3. SessionInv(old) /\ (~ known => old.expected = n)
    <2>1. CASE known
      BY <1>1, <2>1 DEF IInv
    <2>2. CASE ~ known
      BY <1>1, <2>2, CapsAssumption, OpenedIsSession
    <2> QED
      BY <2>1, <2>2
  <1>4. /\ sid \in Ids /\ (known => sid \in DOMAIN sessions /\ old = sessions[sid])
        /\ ~ known /\ ~ squatted => sid \notin DOMAIN sessions
    <2>1. CASE id = NULL
      BY <1>1, <1>2, <2>1, NextIdIsNew DEF Selected, CanSelect
    <2>2. CASE id # NULL
      BY <1>1, <2>2 DEF Selected
    <2> QED
      BY <2>1, <2>2
  <1>5. received' \in 0..MaxReceived /\ squatted' \in BOOLEAN
    BY <1>2, ReceivesCounts DEF IInv
  <1>6. /\ books' = [b \in Books |-> books'[b]]
        /\ \A b \in Books : BookInv(books'[b])
    BY <1>2 DEF IInv
  <1>7. CASE old.expected # n
    <2>1. known /\ UNCHANGED <<sessions, books, squatted>>
      <3>1. known
        BY <1>3, <1>7
      <3>2. ~ unnamed /\ squatted \in BOOLEAN
        BY <3>1 DEF IInv
      <3>3. squatted' = squatted
        BY <1>2, <3>2
      <3> QED
        BY <1>2, <1>7, <3>1, <3>3
    <2>2. \A x \in DOMAIN sessions : sessions[x].received >= sessions[x].received
      BY SessionTypes DEF IInv
    <2> QED
      BY <1>2, <1>4, <1>5, <1>6, <2>1, <2>2 DEF IInv, IdsInv, KeepsReceived
  <1>8. CASE old.expected = n
    <2>1. PICK a \in After(old, chunk, mode) : sessions' = With(sessions, sid, a)
      BY <1>2, <1>8
    <2>2. SessionInv(a) /\ a.received >= old.received
      BY <1>2, <1>3, <1>8, AfterIsSession
    <2>3. /\ DOMAIN sessions' = DOMAIN sessions \union {sid}
          /\ sessions'[sid] = a
          /\ \A x \in DOMAIN sessions \ {sid} : sessions'[x] = sessions[x]
          /\ sessions' = [x \in DOMAIN sessions' |-> sessions'[x]]
      BY <2>1 DEF With
    <2>4. /\ IsFiniteSet(DOMAIN sessions')
          /\ Cardinality(DOMAIN sessions') =
                 IF sid \in DOMAIN sessions THEN Cardinality(DOMAIN sessions)
                 ELSE Cardinality(DOMAIN sessions) + 1
      BY <2>3, FS_AddElement DEF IInv
    <2>5. \A x \in DOMAIN sessions' : SessionInv(sessions'[x])
      BY <2>2, <2>3 DEF IInv
    <2>6. KeepsReceived
      <3> SUFFICES ASSUME ~ squatted', NEW x \in DOMAIN sessions
                   PROVE  sessions'[x].received >= sessions[x].received
        BY DEF KeepsReceived
      <3>1. CASE x = sid
        BY <1>2, <1>4, <2>2, <2>3, <3>1
      <3>2. CASE x # sid
        BY <2>3, <3>2, SessionTypes DEF IInv
      <3> QED
        BY <3>1, <3>2
    <2>7. IdsInv'
      <3> SUFFICES ASSUME ~ squatted', NEW i \in DOMAIN AutoIds, AutoIds[i] \in DOMAIN sessions'
                   PROVE  i <= Cardinality(DOMAIN sessions')
        BY DEF IdsInv
      <3>1. ~ squatted /\ ~ unnamed
        BY <1>2
      <3>2. Cardinality(DOMAIN sessions) \in Nat /\ i \in Nat
        BY IdsAssumption, FS_CardinalityType DEF IInv
      <3>3. CASE AutoIds[i] \in DOMAIN sessions
        <4>1. i <= Cardinality(DOMAIN sessions)
          BY <3>1, <3>3 DEF IInv, IdsInv
        <4> QED
          BY <2>4, <3>2, <4>1
      <3>4. CASE AutoIds[i] \notin DOMAIN sessions
        <4>1. AutoIds[i] = sid /\ sid \notin DOMAIN sessions
          BY <2>3, <3>4
        <4>2. id = NULL
          BY <1>1, <3>1, <4>1, IdsAssumption DEF Selected
        <4>3. i = Cardinality(DOMAIN sessions) + 1
          BY <1>1, <1>2, <4>1, <4>2, NextIdIsNew DEF Selected, CanSelect
        <4> QED
          BY <2>4, <3>2, <4>1, <4>3
      <3> QED
        BY <3>3, <3>4
    <2> QED
      BY <1>2, <1>4, <1>5, <1>6, <2>3, <2>4, <2>5, <2>6, <2>7 DEF IInv
  <1> QED
    BY <1>7, <1>8

LEMMA ConfirmMappingsKeeps ==
    ASSUME IInv, NEW id \in Ids \union {NULL}, ConfirmBookMappings(id)
    PROVE  IInv' /\ KeepsReceived
  <1>1. PICK sid, old : sid = (IF id = NULL THEN last ELSE id) /\ old = sessions[sid]
    OBVIOUS
  <1> DEFINE r == Replay([t \in {NULL} |-> old])
             c == [old EXCEPT !.replay = {r}]
  <1>2. /\ sid \in DOMAIN sessions /\ old.proposal # {}
        /\ sessions' = [sessions EXCEPT ![sid] = c]
        /\ UNCHANGED <<last, books, received, squatted>>
    BY <1>1 DEF ConfirmBookMappings
  <1>3. SessionInv(old)
    BY <1>1, <1>2 DEF IInv
  <1>4. r \in [Tables \union {NULL} -> SUBSET Content]
    <2> DEFINE book == [t \in {NULL} |-> old]
    <2>1. \A t \in DOMAIN book : SessionInv(book[t])
      BY <1>3
    <2> HIDE DEF book
    <2>2. Replay(book) \in [Tables \union {NULL} -> SUBSET Content]
      BY <2>1, ReplayIsReplay
    <2> QED
      BY <2>2 DEF book
  <1> HIDE DEF r
  <1>5. SessionInv(c) /\ c.received = old.received
    BY <1>2, <1>3, <1>4, ConfirmedIsSession
  <1> HIDE DEF c
  <1>6. /\ DOMAIN sessions' = DOMAIN sessions /\ sessions'[sid] = c
        /\ \A x \in DOMAIN sessions \ {sid} : sessions'[x] = sessions[x]
        /\ sessions' = [x \in DOMAIN sessions' |-> sessions'[x]]
    BY <1>2 DEF IInv
  <1>7. \A x \in DOMAIN sessions' : SessionInv(sessions'[x])
    BY <1>5, <1>6 DEF IInv
  <1>8. KeepsReceived
    <2> SUFFICES ASSUME NEW x \in DOMAIN sessions
                 PROVE  sessions'[x].received >= sessions[x].received
      BY DEF KeepsReceived
    <2>1. sessions'[x].received = sessions[x].received
      BY <1>1, <1>5, <1>6
    <2> QED
      BY <2>1, SessionTypes DEF IInv
  <1> QED
    BY <1>2, <1>6, <1>7, <1>8 DEF IInv, IdsInv

(* A step on a book leaves the sessions alone. *)
LEMMA BooksStep ==
    ASSUME IInv, NEW b \in Books, NEW book, BookInv(book), books' = [books EXCEPT ![b] = book],
           UNCHANGED <<sessions, last, squatted>>, received' \in 0..MaxReceived
    PROVE  IInv' /\ KeepsReceived
  <1>1. /\ books' = [x \in Books |-> books'[x]]
        /\ \A x \in Books : BookInv(books'[x])
    BY DEF IInv
  <1>2. \A x \in DOMAIN sessions : sessions[x].received >= sessions[x].received
    BY SessionTypes DEF IInv
  <1> QED
    BY <1>1, <1>2 DEF IInv, IdsInv, KeepsReceived

(* A table that is opened, sent or sent again has no replay; the others    *)
(* keep the book they were confirmed in.                                   *)
LEMMA IngestTableKeeps ==
    ASSUME IInv, NEW b \in Books, NEW t \in Tables, NEW contract \in Contracts, NEW chunk,
           NEW n \in Sizes, NEW mode, IngestTable(b, t, contract, chunk, n, mode)
    PROVE  IInv' /\ KeepsReceived
  <1>1. PICK book, old : /\ book = books[b]
                         /\ old = IF t \in DOMAIN book THEN book[t]
                                   ELSE Opened(n, DefaultCap, contract)
    OBVIOUS
  <1>2. PICK a \in After(old, chunk, mode) :
            /\ Receives(chunk) /\ old.expected = n /\ chunk \subseteq 1..n
            /\ books' = [books EXCEPT ![b] = With(book, t, a)]
            /\ UNCHANGED <<sessions, last, squatted>>
    BY <1>1 DEF IngestTable
  <1>3. BookInv(book)
    BY <1>1 DEF IInv
  <1>4. SessionInv(old)
    BY <1>1, <1>3, OpenedIsSession, CapsAssumption DEF BookInv
  <1>5. SessionInv(a) /\ a.replay = {}
    BY <1>2, <1>4, AfterIsSession
  <1> DEFINE new == With(book, t, a)
  <1>6. /\ DOMAIN new = DOMAIN book \union {t} /\ new[t] = a
        /\ \A u \in DOMAIN book \ {t} : new[u] = book[u]
        /\ new = [u \in DOMAIN new |-> new[u]]
    BY DEF With
  <1> HIDE DEF new
  <1>7. BookInv(new)
    <2>1. DOMAIN new \subseteq Tables /\ \A u \in DOMAIN new : SessionInv(new[u])
      BY <1>3, <1>5, <1>6 DEF BookInv
    <2>2. \A u \in DOMAIN new : new[u].replay # {} => u \in DOMAIN book /\ new[u] = book[u]
      BY <1>5, <1>6
    <2> QED
      BY <1>3, <1>6, <2>1, <2>2 DEF BookInv
  <1>8. received' \in 0..MaxReceived
    BY <1>2, ReceivesCounts
  <1> QED
    BY <1>2, <1>7, <1>8, BooksStep DEF new

LEMMA ConfirmBookKeeps ==
    ASSUME IInv, NEW b \in Books, ConfirmBook(b)
    PROVE  IInv' /\ KeepsReceived
  <1>1. PICK book : book = books[b]
    OBVIOUS
  <1>2. /\ \A t \in DOMAIN book : book[t].proposal # {}
        /\ books' = [books EXCEPT ![b] = Frozen(book)]
        /\ UNCHANGED <<sessions, last, received, squatted>>
    BY <1>1 DEF ConfirmBook
  <1>3. BookInv(book) /\ received \in 0..MaxReceived
    BY <1>1 DEF IInv
  <1> DEFINE r == Replay(book)
             new == Frozen(book)
  <1>4. r \in [Tables \union {NULL} -> SUBSET Content]
    BY <1>3, ReplayIsReplay DEF BookInv
  <1>5. DOMAIN new = DOMAIN book /\ \A t \in DOMAIN book : new[t] = [book[t] EXCEPT !.replay = {r}]
    BY DEF Frozen
  <1>6. \A t \in DOMAIN book : r[t] = {ContentOf(book[t])}
    BY <1>3 DEF Replay, BookInv
  <1> HIDE DEF r
  <1>7. \A t \in DOMAIN book : /\ SessionInv(new[t]) /\ ContentOf(new[t]) = ContentOf(book[t])
                               /\ new[t].replay = {r}
    <2> SUFFICES ASSUME NEW t \in DOMAIN book
                 PROVE  /\ SessionInv(new[t]) /\ ContentOf(new[t]) = ContentOf(book[t])
                        /\ new[t].replay = {r}
      OBVIOUS
    <2>1. PICK old : old = book[t]
      OBVIOUS
    <2>2. SessionInv(old) /\ old.proposal # {}
      BY <1>2, <1>3, <2>1 DEF BookInv
    <2> DEFINE c == [old EXCEPT !.replay = {r}]
    <2>3. SessionInv(c) /\ ContentOf(c) = ContentOf(old) /\ c.replay = {r}
      BY <1>4, <2>2, ConfirmedIsSession
    <2>4. new[t] = c
      BY <1>5, <2>1
    <2> HIDE DEF c, new
    <2> QED
      BY <2>1, <2>3, <2>4
  <1>8. new = [t \in DOMAIN new |-> new[t]]
    BY DEF Frozen
  <1> HIDE DEF new
  <1>9. BookInv(new)
    <2>1. DOMAIN new \subseteq Tables /\ \A t \in DOMAIN new : SessionInv(new[t])
      BY <1>3, <1>5, <1>7 DEF BookInv
    <2>2. \A t \in DOMAIN new : new[t].replay = {r} /\ r[t] = {ContentOf(new[t])}
      BY <1>5, <1>6, <1>7
    <2> QED
      BY <1>8, <2>1, <2>2 DEF BookInv
  <1> QED
    BY <1>2, <1>3, <1>9, BooksStep DEF new

LEMMA InitEstablishes == Init => IInv
  <1> SUFFICES ASSUME Init PROVE IInv
    OBVIOUS
  <1>1. DOMAIN sessions = {} /\ sessions = [id \in DOMAIN sessions |-> sessions[id]]
    BY DEF Init
  <1>2. IsFiniteSet(DOMAIN sessions)
    BY <1>1, FS_EmptySet
  <1>3. \A b \in Books : BookInv(books[b])
    BY DEF Init, BookInv
  <1>4. books = [b \in Books |-> books[b]] /\ received \in 0..MaxReceived /\ squatted \in BOOLEAN
    <2>1. books = [b \in Books |-> books[b]]
      BY DEF Init
    <2>2. received \in 0..MaxReceived
      BY BoundAssumption DEF Init
    <2>3. squatted \in BOOLEAN
      BY DEF Init
    <2> QED
      BY <2>1, <2>2, <2>3
  <1> QED
    BY <1>1, <1>2, <1>3, <1>4 DEF Init, IInv, IdsInv

LEMMA StepKeeps ==
    ASSUME IInv, [Next]_vars
    PROVE  IInv' /\ KeepsReceived
  <1>1. CASE UNCHANGED vars
    <2>1. \A x \in DOMAIN sessions : sessions[x].received >= sessions[x].received
      BY SessionTypes DEF IInv
    <2> QED
      BY <1>1, <2>1 DEF vars, IInv, IdsInv, KeepsReceived
  <1>2. ASSUME NEW id \in Ids \union {NULL}, NEW chunk \in SUBSET Records, NEW n \in Sizes,
               NEW cap \in Caps, NEW mode \in Modes, IngestBook(id, chunk, n, cap, mode)
        PROVE  IInv' /\ KeepsReceived
    BY <1>2, IngestBookKeeps
  <1>3. CASE \E id \in Ids \union {NULL} : ConfirmBookMappings(id)
    BY <1>3, ConfirmMappingsKeeps
  <1>4. ASSUME NEW b \in Books, NEW t \in Tables, NEW contract \in Contracts,
               NEW chunk \in SUBSET Records, NEW n \in Sizes, NEW mode \in Modes,
               IngestTable(b, t, contract, chunk, n, mode)
        PROVE  IInv' /\ KeepsReceived
    BY <1>4, IngestTableKeeps
  <1>5. CASE \E b \in Books : ConfirmBook(b)
    BY <1>5, ConfirmBookKeeps
  <1> QED
    BY <1>1, <1>2, <1>3, <1>4, <1>5 DEF Next

-----------------------------------------------------------------------------
(* IInv holds in every reachable state: what each session counts, proposes *)
(* and was confirmed as, and which ids are in use (mcp_server.py:1142).    *)
THEOREM Invariance == Spec => []IInv
  <1>1. IInv /\ [Next]_vars => IInv'
    BY StepKeeps
  <1> QED
    BY <1>1, InitEstablishes, PTL DEF Spec

LEMMA SessionsHold ==
    ASSUME IInv, NEW s \in AllSessions
    PROVE  SessionInv(s)
  BY DEF IInv, AllSessions, BookInv

(* A proposal, and a replay confirmed from it, are of exactly what the     *)
(* session holds now (mcp_server.py:2014).                                 *)
THEOREM NothingIsStale == Spec => []NothingStale
  <1>1. IInv => NothingStale
    BY SessionsHold DEF NothingStale, SessionInv, Fresh
  <1> QED
    BY <1>1, Invariance, PTL

(* What is proposed is the whole book, unless a record came twice or an    *)
(* acknowledged truncation left one out, for any sizes and caps            *)
(* (mcp_server.py:1156, 1167).                                             *)
THEOREM ProposalsAreWhole == Spec => []WholeUnlessRepeated
  <1>1. IInv => WholeUnlessRepeated
    BY SessionsHold DEF WholeUnlessRepeated, SessionInv, Whole
  <1> QED
    BY <1>1, Invariance, PTL

(* The confirmed tables of a book agree, for any number of tables          *)
(* (mcp_server.py:1622).                                                   *)
THEOREM ReplaysAreOne == Spec => []ReplaysAgree
  <1>1. IInv => ReplaysAgree
    BY DEF IInv, ReplaysAgree, BookInv
  <1> QED
    BY <1>1, Invariance, PTL

(* No session is replaced by another host's while hosts keep to ids of     *)
(* their own form (mcp_server.py:1994).                                    *)
THEOREM NobodyIsReplaced == Spec => SessionsAreKept
  <1>1. IInv /\ [Next]_vars =>
            [~ squatted' => \A id \in DOMAIN sessions :
                               sessions'[id].received >= sessions[id].received]_vars
    BY StepKeeps DEF KeepsReceived
  <1> QED
    BY <1>1, Invariance, PTL DEF Spec, SessionsAreKept

-----------------------------------------------------------------------------
(* Whoever is written to was meant: what the workflow reads decides it.    *)

(* One of a non-empty set of contacts is the first by level.               *)
LEMMA FirstLevel ==
    ASSUME NEW S, S # {}, \A c \in S : c.level \in Nat
    PROVE  \E c \in S : \A d \in S : Level(c) <= Level(d)
  <1> DEFINE levels == {Level(c) : c \in S}
             less == {ss \in Nat \X Nat : ss[1] < ss[2]}
  <1>1. \A c \in S : Level(c) \in Nat
    BY DEF Level
  <1>2. levels \subseteq Nat /\ levels # {}
    BY <1>1
  <1>3. PICK x \in levels : \A y \in levels : <<y, x>> \notin less
    <2> HIDE DEF levels, less
    <2>1. IsWellFoundedOn(less, Nat)
      BY NatLessThanWellFounded DEF OpToRel, less
    <2> QED
      BY <1>2, <2>1, WFMin
  <1>4. \A y \in levels : x <= y
    <2> TAKE y \in levels
    <2>1. x \in Nat /\ y \in Nat
      BY <1>2
    <2>2. <<y, x>> \in less <=> y < x
      BY <2>1
    <2> QED
      BY <1>3, <2>1, <2>2
  <1>5. PICK c \in S : Level(c) = x
    BY <1>3
  <1>6. \A d \in S : Level(d) \in levels
    OBVIOUS
  <1> QED
    BY <1>4, <1>5, <1>6

(* Of one account only, when a single candidate is left.                   *)
LEMMA AccountIsMeant ==
    ASSUME NEW e \in Events, NEW b \in BooksRead, ExactlyOne(e, b)
    PROVE  /\ AccountFor(e, b) \in b.accounts
           /\ BelongsTo(e, AccountFor(e, b), b)
  <1> DEFINE a == AccountFor(e, b)
             same == {c \in b.contacts : c.email = e.email}
             domain == {c \in b.contacts : c.account \in b.listed /\ c.email.domain = e.email.domain}
  <1>1. /\ b.listed \subseteq b.accounts /\ IsFiniteSet(b.contacts)
        /\ \A c \in b.contacts : c.account \in b.accounts
    BY BookAssumption DEF IsBook
  <1>2. ASSUME NEW S, S \subseteq b.contacts
        PROVE  IsFiniteSet(AccountsOf(S))
    <2> DEFINE f == [c \in S |-> c.account]
    <2>1. IsFiniteSet(S)
      BY <1>1, <1>2, FS_Subset
    <2>2. f \in Surjection(S, AccountsOf(S))
      BY DEF Surjection, AccountsOf
    <2> QED
      BY <2>1, <2>2, FS_Surjection
  <1>3. IsFiniteSet(Candidates(e, b))
    <2>1. IsFiniteSet({e.account} \intersect b.accounts) /\ IsFiniteSet({})
      BY FS_Singleton, FS_Intersection, FS_EmptySet
    <2>2. IsFiniteSet(AccountsOf(same)) /\ IsFiniteSet(AccountsOf(domain))
      BY <1>2
    <2> QED
      BY <2>1, <2>2 DEF Candidates
  <1>4. Candidates(e, b) = {a}
    <2>1. PICK x : Candidates(e, b) = {x}
      BY <1>3, FS_Singleton DEF ExactlyOne
    <2> QED
      BY <2>1 DEF AccountFor
  <1>5. CASE e.account # NONE
    BY <1>4, <1>5 DEF Candidates, BelongsTo
  <1>6. CASE e.account = NONE /\ same # {}
    <2>1. AccountsOf(same) = {a}
      BY <1>4, <1>6 DEF Candidates
    <2>2. \A c \in same : c.account = a
      BY <2>1 DEF AccountsOf
    <2> QED
      BY <1>1, <1>6, <2>2 DEF BelongsTo
  <1>7. CASE e.account = NONE /\ same = {}
    <2>1. AccountsOf(domain) = {a}
      BY <1>4, <1>7 DEF Candidates
    <2>2. domain # {} /\ \A c \in domain : c.account = a
      BY <2>1 DEF AccountsOf
    <2> QED
      BY <1>1, <1>7, <2>2 DEF BelongsTo
  <1> QED
    BY <1>5, <1>6, <1>7

Crmpath == "crm_enterprise_curious"

(* No other path is selected by what shows interest in the CRM.            *)
LEMMA CrmIsApart ==
    ASSUME NEW q \in DOMAIN PathDefinitions, q # Crmpath
    PROVE  PathDefinitions[q].selection \intersect PathDefinitions[Crmpath].selection = {}
  <1>1. DOMAIN PathDefinitions =
           {"solo_evaluator", "team_workspace_creator", "integration_led_evaluator",
            "crm_enterprise_curious", "workflow_automation_evaluator",
            "reporting_visibility_evaluator", "support_friction_signup"}
    BY DEF PathDefinitions
  <1>2. PathDefinitions[Crmpath].selection =
           {"crm_integration_viewed", "crm_connect_clicked", "crm_connection_requested",
            "enterprise_plan_viewed", "stakeholder_invited", "champion_invited",
            "integration_boundary_hit"}
    BY DEF PathDefinitions, Crmpath, CrmInterest, CrmSponsor
  <1>3. CASE q = "solo_evaluator"
    BY <1>2, <1>3 DEF PathDefinitions
  <1>4. CASE q = "team_workspace_creator"
    BY <1>2, <1>4 DEF PathDefinitions
  <1>5. CASE q = "integration_led_evaluator"
    BY <1>2, <1>5 DEF PathDefinitions
  <1>6. CASE q = "workflow_automation_evaluator"
    BY <1>2, <1>6 DEF PathDefinitions
  <1>7. CASE q = "reporting_visibility_evaluator"
    BY <1>2, <1>7 DEF PathDefinitions
  <1>8. CASE q = "support_friction_signup"
    BY <1>2, <1>8 DEF PathDefinitions
  <1> QED
    BY <1>1, <1>3, <1>4, <1>5, <1>6, <1>7, <1>8 DEF Crmpath

(* It is the first of the paths by name.                                   *)
LEMMA CrmIsFirst ==
    ASSUME NEW paths, Crmpath \in paths
    PROVE  FirstByName(paths) = Crmpath
  <1> DEFINE First(i) == ByName[i] \in paths /\ \A j \in 1..(i - 1) : ByName[j] \notin paths
             i == CHOOSE k \in DOMAIN ByName : First(k)
  <1>1. DOMAIN ByName = 1..7 /\ ByName[1] = Crmpath
    BY DEF ByName, Crmpath
  <1>2. First(1)
    BY <1>1
  <1>3. i \in 1..7 /\ First(i)
    BY <1>1, <1>2
  <1>4. i = 1
    <2> SUFFICES ASSUME i # 1
                 PROVE  1 \in 1..(i - 1)
      BY <1>1, <1>3
    <2> HIDE DEF i
    <2> QED
      BY <1>3
  <1> QED
    BY <1>1, <1>4 DEF FirstByName

(* When that path is not the primary one, other evidence outnumbers it.    *)
LEMMA CrmIsOutnumbered ==
    ASSUME NEW b \in BooksRead, NEW a, PrimaryPath(a, b) # Crmpath
    PROVE  Cardinality(Crm(a, b)) > 0 => Cardinality(Crm(a, b)) < Cardinality(Others(a, b))
  <1> DEFINE hypotheses == {p \in DOMAIN PathDefinitions : Evidence(p, a, b) # {}}
             best == {p \in hypotheses : \A q \in hypotheses : Score(q, a, b) <= Score(p, a, b)}
  <1>1. /\ IsFiniteSet(b.signals) /\ IsFiniteSet(b.cases)
        /\ \A s \in b.signals : DOMAIN s = {"account", "metric", "nth", "value"}
        /\ \A k \in b.cases : DOMAIN k = {"account", "nth"}
    BY BookAssumption DEF IsBook
  <1>2. /\ IsFiniteSet(Cases(a, b)) /\ Cardinality(Cases(a, b)) \in Nat
        /\ IsFiniteSet(Crm(a, b)) /\ Cardinality(Crm(a, b)) \in Nat
        /\ IsFiniteSet(Others(a, b)) /\ Cardinality(Others(a, b)) \in Nat
    <2>1. Cases(a, b) \subseteq b.cases /\ Crm(a, b) \subseteq b.signals
          /\ Known(a, b) \ Crm(a, b) \subseteq b.signals
      BY DEF Cases, Crm, Known
    <2>2. Others(a, b) = (Known(a, b) \ Crm(a, b)) \union Cases(a, b)
      BY DEF Others, Cases
    <2>3. IsFiniteSet(Cases(a, b)) /\ IsFiniteSet(Crm(a, b)) /\ IsFiniteSet(Known(a, b) \ Crm(a, b))
      BY <1>1, <2>1, FS_Subset
    <2>4. IsFiniteSet(Others(a, b))
      BY <2>2, <2>3, FS_Union
    <2> QED
      BY <2>3, <2>4, FS_CardinalityType
  <1>3. ASSUME NEW metrics
        PROVE  IsFiniteSet(Seen(a, b, metrics)) /\ Cardinality(Seen(a, b, metrics)) \in Nat
    <2>1. Seen(a, b, metrics) \subseteq b.signals
      BY DEF Seen, Signals
    <2> QED
      BY <1>1, <2>1, FS_Subset, FS_CardinalityType
  <1>4. Crm(a, b) = Seen(a, b, PathDefinitions[Crmpath].selection)
    BY DEF Crm, Known, Seen, Signals, Crmpath
  <1>5. Score(Crmpath, a, b) = 4 * Cardinality(Crm(a, b)) + 2
    BY <1>4 DEF Score, Crmpath
  <1>6. ASSUME NEW q \in DOMAIN PathDefinitions, q # Crmpath
        PROVE  Score(q, a, b) \in Int /\ Score(q, a, b) <= 4 * Cardinality(Others(a, b)) + 1
    <2> DEFINE seen == Seen(a, b, PathDefinitions[q].selection)
    <2>1. seen \subseteq Known(a, b) \ Crm(a, b)
      BY <1>6, CrmIsApart DEF Seen, Signals, Known, Crm, Crmpath
    <2>2. IsFiniteSet(seen) /\ Cardinality(seen) \in Nat
      BY <1>3
    <2>3. seen \union Cases(a, b) \subseteq Others(a, b) /\ seen \subseteq Others(a, b)
      BY <2>1 DEF Others, Cases
    <2>4. seen \intersect Cases(a, b) = {}
      <3>1. \A s \in seen : DOMAIN s = {"account", "metric", "nth", "value"}
        BY <1>1 DEF Seen, Signals
      <3>2. \A k \in Cases(a, b) : DOMAIN k = {"account", "nth"}
        BY <1>1 DEF Cases
      <3>3. {"account", "metric", "nth", "value"} # {"account", "nth"}
        OBVIOUS
      <3> QED
        BY <3>1, <3>2, <3>3
    <2>5. Cardinality(seen) + Cardinality(Cases(a, b)) <= Cardinality(Others(a, b))
      <3>1. Cardinality(seen \intersect Cases(a, b)) = 0
        BY <2>4, FS_EmptySet
      <3>2. Cardinality(seen \union Cases(a, b)) =
                Cardinality(seen) + Cardinality(Cases(a, b)) - Cardinality(seen \intersect Cases(a, b))
        BY <1>2, <2>2, FS_Union
      <3>3. Cardinality(seen \union Cases(a, b)) <= Cardinality(Others(a, b))
        BY <1>2, <2>3, FS_Subset
      <3> QED
        BY <1>2, <2>2, <3>1, <3>2, <3>3
    <2>6. \/ Score(q, a, b) = 4 * Cardinality(seen) + 3 * Cardinality(Cases(a, b))
          \/ Score(q, a, b) = 4 * Cardinality(seen) + 1
          \/ Score(q, a, b) = 4 * Cardinality(seen) + 0
      BY <1>6 DEF Score, Crmpath
    <2> HIDE DEF seen
    <2> QED
      BY <1>2, <2>2, <2>5, <2>6
  <1> SUFFICES ASSUME Cardinality(Crm(a, b)) > 0
               PROVE  Cardinality(Crm(a, b)) < Cardinality(Others(a, b))
    OBVIOUS
  <1>7. Crmpath \in hypotheses
    <2>1. Crm(a, b) # {}
      BY FS_EmptySet
    <2>2. Crmpath \in DOMAIN PathDefinitions
      BY DEF PathDefinitions, Crmpath
    <2> QED
      BY <1>4, <2>1, <2>2 DEF Evidence
  <1>8. Crmpath \notin best
    <2> SUFFICES ASSUME Crmpath \in best
                 PROVE  PrimaryPath(a, b) = Crmpath
      OBVIOUS
    <2> QED
      BY CrmIsFirst DEF PrimaryPath
  <1>9. PICK q \in hypotheses : ~ (Score(q, a, b) <= Score(Crmpath, a, b))
    BY <1>7, <1>8
  <1>10. q # Crmpath /\ q \in DOMAIN PathDefinitions
    BY <1>2, <1>5, <1>9
  <1>11. Score(q, a, b) \in Int /\ Score(q, a, b) <= 4 * Cardinality(Others(a, b)) + 1
    BY <1>6, <1>10
  <1> HIDE DEF hypotheses, best
  <1> QED
    BY <1>2, <1>5, <1>9, <1>11

(* All that Warranted says except that the consent was recorded.           *)
Meant(p) ==
    LET e == p.event
        a == p.account
        b == p.read
    IN  /\ a \in b.accounts /\ BelongsTo(e, a, b)
        /\ p.contact.account = a /\ p.contact.consent
        /\ e.email.domain \notin Personal /\ e.plan # "enterprise"
        /\ \A s \in Known(a, b) : s.metric # "activation_nudge_sent"
        /\ \E s \in b.signals : s.account = a
        /\ Cardinality(Crm(a, b)) > 0 => Cardinality(Crm(a, b)) < Cardinality(Others(a, b))

Plans == {Plan[<<e, b>>] : e \in Events, b \in BooksRead}

LEMMA PlanFields ==
    ASSUME NEW e \in Events, NEW b \in BooksRead
    PROVE  /\ Plan[<<e, b>>].event = e /\ Plan[<<e, b>>].read = b
           /\ Plan[<<e, b>>].account = AccountFor(e, b)
           /\ Plan[<<e, b>>].contact = IF Status(e, b) = "ready"
                                        THEN PreferredContact(AccountFor(e, b), b) ELSE NONE
  BY DEF Plan

LEMMA ReadyIsMeant ==
    ASSUME NEW e \in Events, NEW b \in BooksRead, Status(e, b) = "ready"
    PROVE  Plan[<<e, b>>].contact # NONE /\ Meant(Plan[<<e, b>>])
  <1> DEFINE a == AccountFor(e, b)
             c == PreferredContact(a, b)
             consented == {x \in Contacts(a, b) : x.consent}
  <1>1. Suppressions(e, b) = {} /\ "product_telemetry" \notin MissingSources(e, b)
    BY DEF Status
  <1>2. Blockers(e, b) = {} /\ e.plan # "enterprise" /\ Seen(a, b, {"activation_nudge_sent"}) = {}
        /\ ActionType(a, b) # "route_to_sales_assisted_expansion"
    <2> HIDE DEF a
    <2>1. /\ Blockers(e, b) \subseteq Suppressions(e, b)
          /\ Seen(a, b, {"activation_nudge_sent"}) # {} => "recent_nudge" \in Suppressions(e, b)
          /\ e.plan = "enterprise" => "enterprise_plan" \in Suppressions(e, b)
          /\ ActionType(a, b) = "route_to_sales_assisted_expansion"
                 => "sales_assisted_review" \in Suppressions(e, b)
      BY DEF Suppressions, a
    <2> QED
      BY <1>1, <2>1
  <1>3. MissingSources(e, b) = {} /\ c # NONE /\ e.email.domain \notin Personal
    <2> HIDE DEF a, c
    <2>1. /\ MissingSources(e, b) \subseteq Blockers(e, b)
          /\ c = NONE => "no_consented_contact" \in Blockers(e, b)
          /\ e.email.domain \in Personal => "personal_email_domain" \in Blockers(e, b)
      BY DEF Blockers, a, c
    <2> QED
      BY <1>2, <2>1
  <1>4. ExactlyOne(e, b) /\ Signals(a, b) # {}
    <2>1. "resolved_organization" \notin MissingSources(e, b)
      BY <1>3
    <2> QED
      BY <1>1, <2>1 DEF MissingSources
  <1>5. a \in b.accounts /\ BelongsTo(e, a, b)
    BY <1>4, AccountIsMeant
  <1>6. c.account = a /\ c.consent
    <2>1. consented # {}
      BY <1>3 DEF PreferredContact
    <2>2. c = CHOOSE x \in consented : \A d \in consented : Level(x) <= Level(d)
      BY <2>1 DEF PreferredContact
    <2>3. \A x \in consented : x.level \in Nat
      BY BookAssumption DEF IsBook, Contacts
    <2>4. \E x \in consented : \A d \in consented : Level(x) <= Level(d)
      <3> HIDE DEF consented
      <3> QED
        BY <2>1, <2>3, FirstLevel
    <2>5. c \in consented
      <3> HIDE DEF consented, c
      <3> QED
        BY <2>2, <2>4
    <2> QED
      BY <2>5 DEF Contacts
  <1>7. \A s \in Known(a, b) : s.metric # "activation_nudge_sent"
    BY <1>2 DEF Seen, Signals, Known
  <1>8. \E s \in b.signals : s.account = a
    BY <1>4 DEF Signals
  <1>9. PrimaryPath(a, b) # Crmpath
    BY <1>2 DEF ActionType, Crmpath
  <1>10. Cardinality(Crm(a, b)) > 0 => Cardinality(Crm(a, b)) < Cardinality(Others(a, b))
    BY <1>9, CrmIsOutnumbered
  <1> HIDE DEF a, c
  <1> QED
    BY <1>2, <1>3, <1>5, <1>6, <1>7, <1>8, <1>10, PlanFields DEF Meant, a, c

LEMMA PlanIsMeant ==
    ASSUME NEW plan \in Plans
    PROVE  /\ Status(plan.event, plan.read) = "ready" <=> plan.contact # NONE
           /\ plan.contact # NONE => Meant(plan)
  <1>1. PICK e \in Events, b \in BooksRead : plan = Plan[<<e, b>>]
    BY DEF Plans
  <1>2. /\ plan.event = e /\ plan.read = b
        /\ Status(e, b) # "ready" => plan.contact = NONE
    BY <1>1, PlanFields
  <1>3. Status(e, b) = "ready" => plan.contact # NONE /\ Meant(plan)
    BY <1>1, ReadyIsMeant
  <1> QED
    BY <1>2, <1>3

-----------------------------------------------------------------------------
(* A call, and what it has already put on record.                          *)
SignupCall == [pc : {"idle", "consent", "propose", "store", "log"},
               plan : Plans \union {NONE}, proposal : Nat, logged : 0..2]

IdOf(p) == PacketId(proposals[p].event)

RowFor(type, ref) == \E x \in ledger : x.type = type /\ x.ref = ref

PacketFor(id) == \E x \in packets : x.id = id

CallOK(s) ==
    LET c == calls[s] IN
    /\ c.pc # "idle" => c.plan \in Plans
    /\ c.pc \in {"propose", "store", "log"} /\ c.plan.contact # NONE => c.plan.contact \in consents
    /\ c.pc \in {"idle", "consent", "propose"} => c.proposal = 0
    /\ c.pc \in {"store", "log"} =>
          c.proposal \in DOMAIN proposals /\ proposals[c.proposal] = c.plan
    /\ c.pc = "log" => PacketFor(PacketId(c.plan.event))
    /\ c.pc # "log" => c.logged = 0
    /\ c.logged >= 1 => RowFor("trigger", TriggerRef(c.plan.event))
    /\ c.logged >= 2 => RowFor("packet", PacketId(c.plan.event))

CallsInv ==
    /\ calls \in [Servers -> SignupCall]
    /\ \A s \in Servers : CallOK(s)

ProposalsInv ==
    /\ proposals \in Seq(Plans)
    /\ \A p \in DOMAIN proposals :
          proposals[p].contact # NONE => proposals[p].contact \in consents

PacketsInv ==
    \A x \in packets :
        /\ x.proposal \in DOMAIN proposals /\ x.id = IdOf(x.proposal)
        /\ x.account = proposals[x.proposal].account
        /\ x.status = "ready" <=> proposals[x.proposal].contact # NONE

LedgerInv ==
    \A x \in ledger : x.type # "trigger" =>
        x.proposal \in DOMAIN proposals /\ x.ref = IdOf(x.proposal)

AnsweredInv ==
    \A p \in answered :
        /\ p \in DOMAIN proposals
        /\ PacketFor(IdOf(p)) /\ RowFor("packet", IdOf(p)) /\ RowFor("value_path", IdOf(p))
        /\ RowFor("trigger", TriggerRef(proposals[p].event))

(* An id that no two calls had at once, and none that failed, is calm: its *)
(* proposals are made, stored and logged one call after the other.         *)
CallId(s) == PacketId(calls[s].plan.event)

OverlapInv ==
    \A s, u \in Servers :
        s # u /\ Running(s) /\ Running(u) /\ CallId(s) = CallId(u) => CallId(s) \in disturbed

FirstInv ==
    \A p \in DOMAIN proposals : IdOf(p) \notin disturbed =>
        /\ p \in InHand \/ RowFor("packet", IdOf(p))
        /\ \A x \in ledger : x.type = "packet" /\ x.ref = IdOf(p) => x.proposal <= p

IsLast(p) == \A q \in DOMAIN proposals : IdOf(q) = IdOf(p) => q <= p

LastInv ==
    /\ \A s \in Servers : calls[s].pc \in {"store", "log"} /\ CallId(s) \notin disturbed =>
          /\ \A q \in DOMAIN proposals : IdOf(q) = CallId(s) => q <= calls[s].proposal
          /\ calls[s].pc = "log" =>
                \E x \in packets : x.id = CallId(s) /\ x.proposal = calls[s].proposal
    /\ \A p \in DOMAIN proposals : IdOf(p) \notin disturbed /\ IsLast(p) =>
          p \in InHand \/ \E x \in packets : x.id = IdOf(p) /\ x.proposal = p

SignupInv ==
    /\ CallsInv /\ ProposalsInv /\ PacketsInv /\ LedgerInv /\ AnsweredInv
    /\ OverlapInv /\ FirstInv /\ LastInv

-----------------------------------------------------------------------------
(* Nothing on record is lost, except that a packet may be renamed.         *)
Grown ==
    /\ consents \subseteq consents' /\ ledger \subseteq ledger' /\ disturbed \subseteq disturbed'
    /\ \A p \in DOMAIN proposals : p \in DOMAIN proposals' /\ proposals'[p] = proposals[p]
    /\ \A x \in packets : \E y \in packets' : y.id = x.id

LEMMA CallKept ==
    ASSUME Grown, NEW s \in Servers, CallOK(s), calls'[s] = calls[s]
    PROVE  CallOK(s)'
  <1>1. \A id : PacketFor(id) => PacketFor(id)'
    BY DEF Grown, PacketFor
  <1>2. \A type, ref : RowFor(type, ref) => RowFor(type, ref)'
    BY DEF Grown, RowFor
  <1>3. /\ PacketFor(PacketId(calls[s].plan.event)) => PacketFor(PacketId(calls[s].plan.event))'
        /\ RowFor("trigger", TriggerRef(calls[s].plan.event)) =>
              RowFor("trigger", TriggerRef(calls[s].plan.event))'
        /\ RowFor("packet", PacketId(calls[s].plan.event)) =>
              RowFor("packet", PacketId(calls[s].plan.event))'
    BY <1>1, <1>2 DEF PacketFor, RowFor
  <1>4. /\ consents \subseteq consents'
        /\ \A p \in DOMAIN proposals : p \in DOMAIN proposals' /\ proposals'[p] = proposals[p]
    BY DEF Grown
  <1> QED
    BY <1>3, <1>4 DEF CallOK

LEMMA AnsweredKept ==
    ASSUME Grown, AnsweredInv
    PROVE  \A p \in answered :
        /\ p \in DOMAIN proposals'
        /\ PacketFor(IdOf(p))' /\ RowFor("packet", IdOf(p))' /\ RowFor("value_path", IdOf(p))'
        /\ RowFor("trigger", TriggerRef(proposals[p].event))'
  BY DEF Grown, AnsweredInv, PacketFor, RowFor, IdOf

LEMMA RecordsKept ==
    ASSUME Grown, ProposalsInv, PacketsInv, LedgerInv
    PROVE  /\ proposals' = proposals => ProposalsInv'
           /\ packets' = packets => PacketsInv'
           /\ ledger' = ledger => LedgerInv'
  <1>1. ASSUME NEW p \in DOMAIN proposals
        PROVE  p \in DOMAIN proposals' /\ proposals'[p] = proposals[p] /\ IdOf(p)' = IdOf(p)
    BY DEF Grown, IdOf
  <1>2. proposals' = proposals => ProposalsInv'
    BY DEF Grown, ProposalsInv
  <1>3. packets' = packets => PacketsInv'
    BY <1>1 DEF PacketsInv
  <1>4. ledger' = ledger => LedgerInv'
    BY <1>1 DEF LedgerInv
  <1> QED
    BY <1>2, <1>3, <1>4

LEMMA OverlapKept ==
    ASSUME Grown, OverlapInv,
           \A s \in Servers : Running(s)' => Running(s) /\ calls'[s].plan = calls[s].plan
    PROVE  OverlapInv'
  BY DEF Grown, OverlapInv, CallId

(* The calls that leave no hand empty of a calm proposal.                  *)
HandsKeep == \A p \in DOMAIN proposals :
                 p \in InHand /\ IdOf(p) \notin disturbed' => p \in InHand'

LEMMA FirstKept ==
    ASSUME Grown, FirstInv, UNCHANGED <<proposals, ledger>>, HandsKeep
    PROVE  FirstInv'
  <1> SUFFICES ASSUME NEW p \in DOMAIN proposals, IdOf(p) \notin disturbed'
               PROVE  /\ p \in InHand' \/ RowFor("packet", IdOf(p))'
                      /\ \A x \in ledger : x.type = "packet" /\ x.ref = IdOf(p) => x.proposal <= p
    BY DEF FirstInv, IdOf
  <1>1. IdOf(p) \notin disturbed
    BY DEF Grown
  <1>2. RowFor("packet", IdOf(p)) => RowFor("packet", IdOf(p))'
    BY DEF RowFor, IdOf
  <1> QED
    BY <1>1, <1>2 DEF FirstInv, HandsKeep

LEMMA LastKept ==
    ASSUME Grown, LastInv, UNCHANGED <<proposals, packets>>, HandsKeep,
           \A s \in Servers : calls'[s].pc \in {"store", "log"} =>
               /\ calls'[s].pc = calls[s].pc
               /\ calls'[s].plan = calls[s].plan /\ calls'[s].proposal = calls[s].proposal
    PROVE  LastInv'
  <1>1. ASSUME NEW s \in Servers, calls'[s].pc \in {"store", "log"}, CallId(s)' \notin disturbed'
        PROVE  /\ \A q \in DOMAIN proposals' : IdOf(q)' = CallId(s)' => q <= calls'[s].proposal
               /\ calls'[s].pc = "log" =>
                     \E x \in packets' : x.id = CallId(s)' /\ x.proposal = calls'[s].proposal
    <2>1. /\ calls[s].pc \in {"store", "log"} /\ calls'[s].proposal = calls[s].proposal
          /\ CallId(s)' = CallId(s) /\ CallId(s) \notin disturbed /\ calls'[s].pc = calls[s].pc
      BY <1>1 DEF CallId, Grown
    <2>2. \A q \in DOMAIN proposals : IdOf(q)' = IdOf(q)
      BY DEF IdOf
    <2> QED
      BY <1>1, <2>1, <2>2 DEF LastInv
  <1>2. ASSUME NEW p \in DOMAIN proposals', IdOf(p)' \notin disturbed', IsLast(p)'
        PROVE  p \in InHand' \/ \E x \in packets' : x.id = IdOf(p)' /\ x.proposal = p
    <2>1. IdOf(p)' = IdOf(p) /\ IdOf(p) \notin disturbed /\ IsLast(p) /\ p \in DOMAIN proposals
      BY <1>2 DEF IdOf, IsLast, Grown
    <2> QED
      BY <1>2, <2>1 DEF LastInv, HandsKeep
  <1> QED
    BY <1>1, <1>2 DEF LastInv, IsLast

LEMMA NoCallTyped == NoCall \in SignupCall
  BY DEF NoCall, SignupCall

LEMMA ReceiveKeeps ==
    ASSUME SignupInv, NEW s \in Servers, NEW e \in Events, NEW b \in BooksRead, Receive(s, e, b)
    PROVE  SignupInv'
  <1> DEFINE plan == Plan[<<e, b>>]
             first == IF plan.contact = NONE THEN "propose" ELSE "consent"
             call == [NoCall EXCEPT !.pc = first, !.plan = plan]
  <1>1. plan \in Plans /\ plan.event = e
    BY PlanFields DEF Plans
  <1>2. calls' = [calls EXCEPT ![s] = call] /\ calls[s].pc = "idle"
    BY DEF Receive, Running
  <1>3. Grown
    BY DEF Receive, Grown
  <1>4. /\ call \in SignupCall /\ call.plan = plan /\ call.proposal = 0 /\ call.logged = 0
        /\ call.pc \in {"consent", "propose"} /\ (call.pc = "propose" => plan.contact = NONE)
    <2>1. first \in {"consent", "propose"} /\ (first = "propose" => plan.contact = NONE)
      OBVIOUS
    <2> HIDE DEF first, plan
    <2>2. /\ call.pc = first /\ call.plan = plan /\ call.proposal = 0 /\ call.logged = 0
      BY DEF NoCall
    <2>3. call \in SignupCall
      <3>1. first \in {"idle", "consent", "propose", "store", "log"}
        BY <2>1
      <3> QED
        BY <1>1, <3>1, NoCallTyped DEF SignupCall
    <2> QED
      BY <2>1, <2>2, <2>3
  <1>5. calls' \in [Servers -> SignupCall] /\ calls'[s] = call
        /\ \A u \in Servers \ {s} : calls'[u] = calls[u]
    BY <1>2, <1>4 DEF SignupInv, CallsInv
  <1> HIDE DEF plan, call
  <1>6. CallsInv'
    <2>1. CallOK(s)'
      BY <1>1, <1>4, <1>5 DEF CallOK
    <2>2. \A u \in Servers \ {s} : CallOK(u)'
      BY <1>3, <1>5, CallKept DEF SignupInv, CallsInv
    <2> QED
      BY <1>5, <2>1, <2>2 DEF CallsInv
  <1>7. UNCHANGED <<consents, proposals, packets, ledger, answered>>
    BY DEF Receive
  <1>8. ProposalsInv' /\ PacketsInv' /\ LedgerInv'
    BY <1>3, <1>7, RecordsKept DEF SignupInv
  <1>9. AnsweredInv'
    BY <1>3, <1>7, AnsweredKept DEF SignupInv, AnsweredInv
  <1>10. OverlapInv'
    <2>1. \A u \in Servers \ {s} : Running(u)' = Running(u) /\ CallId(u)' = CallId(u)
      BY <1>5 DEF Running, CallId
    <2>2. CallId(s)' = PacketId(e)
      BY <1>1, <1>4, <1>5 DEF CallId
    <2>3. ASSUME NEW u \in Servers \ {s}, Running(u), CallId(u) = PacketId(e)
          PROVE  PacketId(e) \in disturbed'
      BY <2>3 DEF Receive, CallId
    <2> QED
      BY <1>3, <2>1, <2>2, <2>3 DEF SignupInv, OverlapInv, Grown
  <1>11. HandsKeep
    <2>1. calls[s].proposal = 0
      BY <1>2 DEF SignupInv, CallsInv, CallOK
    <2>2. InHand' = InHand
      BY <1>4, <1>5, <2>1 DEF InHand
    <2> QED
      BY <2>2 DEF HandsKeep
  <1>12. FirstInv'
    BY <1>3, <1>7, <1>11, FirstKept DEF SignupInv
  <1>13. LastInv'
    <2>1. calls'[s].pc \notin {"store", "log"}
      BY <1>4, <1>5
    <2> QED
      BY <1>3, <1>5, <1>7, <1>11, <2>1, LastKept DEF SignupInv
  <1> QED
    BY <1>6, <1>8, <1>9, <1>10, <1>12, <1>13 DEF SignupInv

LEMMA RecordConsentKeeps ==
    ASSUME SignupInv, NEW s \in Servers, RecordConsent(s)
    PROVE  SignupInv'
  <1>1. Grown /\ UNCHANGED <<proposals, packets, ledger, answered>>
    BY DEF RecordConsent, Grown
  <1>2. calls \in [Servers -> SignupCall] /\ calls' = [calls EXCEPT ![s].pc = "propose"]
    BY DEF SignupInv, CallsInv, RecordConsent
  <1>3. /\ calls[s].pc = "consent" /\ calls'[s].pc = "propose"
        /\ calls'[s].plan = calls[s].plan /\ calls'[s].proposal = calls[s].proposal
        /\ calls'[s].logged = calls[s].logged
        /\ \A u \in Servers \ {s} : calls'[u] = calls[u]
        /\ calls' \in [Servers -> SignupCall]
    BY <1>2 DEF SignupCall, RecordConsent
  <1>4. CallsInv'
    <2>1. CallOK(s)'
      BY <1>3 DEF SignupInv, CallsInv, CallOK, RecordConsent
    <2> QED
      BY <1>1, <1>3, <2>1, CallKept DEF SignupInv, CallsInv
  <1>5. ProposalsInv' /\ PacketsInv' /\ LedgerInv'
    BY <1>1, RecordsKept DEF SignupInv
  <1>6. AnsweredInv'
    BY <1>1, AnsweredKept DEF SignupInv, AnsweredInv
  <1>7. OverlapInv'
    BY <1>1, <1>3, OverlapKept DEF SignupInv, Running
  <1>8. HandsKeep
    <2>1. InHand' = InHand
      BY <1>3 DEF InHand
    <2> QED
      BY <2>1 DEF HandsKeep
  <1>9. FirstInv'
    BY <1>1, <1>8, FirstKept DEF SignupInv
  <1>10. LastInv'
    BY <1>1, <1>3, <1>8, LastKept DEF SignupInv
  <1> QED
    BY <1>4, <1>5, <1>6, <1>7, <1>9, <1>10 DEF SignupInv

LEMMA ProposeKeeps ==
    ASSUME SignupInv, NEW s \in Servers, Propose(s)
    PROVE  SignupInv'
  <1> DEFINE n == Len(proposals) + 1
             plan == calls[s].plan
  <1>1. /\ calls[s].pc = "propose" /\ plan \in Plans /\ calls[s].proposal = 0 /\ calls[s].logged = 0
        /\ plan.contact # NONE => plan.contact \in consents
    BY DEF SignupInv, CallsInv, CallOK, Propose
  <1>2. proposals \in Seq(Plans) /\ proposals' = Append(proposals, plan)
    BY DEF SignupInv, ProposalsInv, Propose
  <1>3. /\ proposals' \in Seq(Plans) /\ n \in Nat \ {0}
        /\ DOMAIN proposals = 1..n - 1 /\ DOMAIN proposals' = 1..n
        /\ \A p \in DOMAIN proposals : p \in DOMAIN proposals' /\ proposals'[p] = proposals[p]
        /\ proposals'[n] = plan
    <2> HIDE DEF plan
    <2> QED
      BY <1>1, <1>2, AppendProperties
  <1>4. Grown /\ UNCHANGED <<consents, packets, ledger, answered, disturbed>>
    BY <1>3 DEF Propose, Grown
  <1>5. calls \in [Servers -> SignupCall]
        /\ calls' = [calls EXCEPT ![s].pc = "store", ![s].proposal = n]
    BY DEF SignupInv, CallsInv, Propose
  <1> HIDE DEF n
  <1>6. /\ calls'[s].pc = "store" /\ calls'[s].plan = plan /\ calls'[s].proposal = n
        /\ calls'[s].logged = calls[s].logged
        /\ \A u \in Servers \ {s} : calls'[u] = calls[u]
    BY <1>5 DEF SignupCall
  <1>7. calls' \in [Servers -> SignupCall]
    <2>1. calls'[s] \in SignupCall /\ calls' = [calls EXCEPT ![s] = calls'[s]]
      BY <1>3, <1>5 DEF SignupCall
    <2> QED
      BY <1>5, <2>1
  <1>8. CallsInv'
    <2>1. CallOK(s)'
      BY <1>1, <1>3, <1>4, <1>6 DEF CallOK
    <2> QED
      BY <1>4, <1>6, <1>7, <2>1, CallKept DEF SignupInv, CallsInv
  <1>9. ProposalsInv'
    BY <1>1, <1>3, <1>4 DEF SignupInv, ProposalsInv
  <1>10. PacketsInv' /\ LedgerInv'
    BY <1>4, RecordsKept DEF SignupInv
  <1>11. AnsweredInv'
    BY <1>4, AnsweredKept DEF SignupInv, AnsweredInv
  <1>12. OverlapInv'
    BY <1>1, <1>4, <1>6, OverlapKept DEF SignupInv, Running
  <1>13. /\ \A p \in DOMAIN proposals : IdOf(p)' = IdOf(p) /\ p < n
         /\ \A q : q = n => IdOf(q)' = PacketId(plan.event)
         /\ CallId(s) = PacketId(plan.event)
         /\ CallId(s)' = PacketId(plan.event)
         /\ DOMAIN proposals' = DOMAIN proposals \union {n}
    <2>1. \A p \in DOMAIN proposals : IdOf(p)' = IdOf(p)
      BY <1>3 DEF IdOf
    <2>2. \A p \in DOMAIN proposals : p < n
      BY <1>3
    <2>3. \A q : q = n => IdOf(q)' = PacketId(plan.event)
      BY <1>3 DEF IdOf
    <2>4. CallId(s) = PacketId(plan.event) /\ CallId(s)' = PacketId(plan.event)
      BY <1>6 DEF CallId
    <2>5. DOMAIN proposals' = DOMAIN proposals \union {n}
      BY <1>3
    <2> QED
      BY <2>1, <2>2, <2>3, <2>4, <2>5
  <1>14. n \in InHand' /\ \A p \in DOMAIN proposals : p \in InHand => p \in InHand'
    <2>1. \A p \in DOMAIN proposals : p # 0
      BY <1>3
    <2> QED
      BY <1>1, <1>6, <2>1 DEF InHand
  <1>15. FirstInv'
    <2> SUFFICES ASSUME NEW p \in DOMAIN proposals', IdOf(p)' \notin disturbed'
                 PROVE  /\ p \in InHand' \/ RowFor("packet", IdOf(p))'
                        /\ \A x \in ledger' : x.type = "packet" /\ x.ref = IdOf(p)' => x.proposal <= p
      BY DEF FirstInv
    <2>1. CASE p \in DOMAIN proposals
      <3>1. p \in InHand \/ RowFor("packet", IdOf(p))
        BY <1>4, <1>13, <2>1 DEF SignupInv, FirstInv
      <3>2. RowFor("packet", IdOf(p)) => RowFor("packet", IdOf(p))'
        BY <1>4, <1>13, <2>1 DEF RowFor
      <3> QED
        BY <1>4, <1>13, <1>14, <2>1, <3>1, <3>2 DEF SignupInv, FirstInv
    <2>2. CASE p = n
      <3>1. ASSUME NEW x \in ledger', x.type = "packet"
            PROVE  x.proposal <= n
        <4>1. x.proposal \in DOMAIN proposals
          BY <1>4, <3>1 DEF SignupInv, LedgerInv
        <4> QED
          BY <1>3, <4>1
      <3> QED
        BY <1>14, <2>2, <3>1
    <2> QED
      BY <1>13, <2>1, <2>2
  <1>16. LastInv'
    <2>1. ASSUME NEW u \in Servers, calls'[u].pc \in {"store", "log"}, CallId(u)' \notin disturbed'
          PROVE  /\ \A q \in DOMAIN proposals' : IdOf(q)' = CallId(u)' => q <= calls'[u].proposal
                 /\ calls'[u].pc = "log" =>
                       \E x \in packets' : x.id = CallId(u)' /\ x.proposal = calls'[u].proposal
      <3>1. CASE u = s
        <4>1. calls'[u].proposal = n /\ calls'[u].pc # "log"
          BY <1>6, <3>1
        <4>2. \A q \in DOMAIN proposals' : q <= n
          BY <1>3
        <4> QED
          BY <4>1, <4>2
      <3>2. CASE u # s
        <4>1. calls'[u] = calls[u] /\ CallId(u)' = CallId(u) /\ CallId(u) \notin disturbed
          BY <1>4, <1>6, <2>1, <3>2 DEF CallId
        <4>2. CallId(u) # CallId(s)
          BY <1>1, <2>1, <3>2, <4>1 DEF SignupInv, OverlapInv, Running
        <4> QED
          BY <1>4, <1>13, <2>1, <4>1, <4>2 DEF SignupInv, LastInv
      <3> QED
        BY <3>1, <3>2
    <2>2. ASSUME NEW p \in DOMAIN proposals', IdOf(p)' \notin disturbed', IsLast(p)'
          PROVE  p \in InHand' \/ \E x \in packets' : x.id = IdOf(p)' /\ x.proposal = p
      <3>1. CASE p = n
        BY <1>14, <3>1
      <3>2. CASE p \in DOMAIN proposals
        <4>1. IsLast(p)
          BY <1>13, <2>2, <3>2 DEF IsLast
        <4> QED
          BY <1>4, <1>13, <1>14, <2>2, <3>2, <4>1 DEF SignupInv, LastInv
      <3> QED
        BY <1>13, <3>1, <3>2
    <2> QED
      BY <2>1, <2>2 DEF LastInv
  <1> QED
    BY <1>8, <1>9, <1>10, <1>11, <1>12, <1>15, <1>16 DEF SignupInv

LEMMA StorePacketKeeps ==
    ASSUME SignupInv, NEW s \in Servers, StorePacket(s)
    PROVE  SignupInv'
  <1> DEFINE call == calls[s]
             plan == call.plan
             id   == PacketId(plan.event)
             new  == [id |-> id, account |-> plan.account, proposal |-> call.proposal,
                      status |-> Status(plan.event, plan.read)]
  <1>1. /\ call.pc = "store" /\ plan \in Plans /\ call.logged = 0
        /\ plan.contact # NONE => plan.contact \in consents
        /\ call.proposal \in DOMAIN proposals /\ proposals[call.proposal] = plan
    BY DEF SignupInv, CallsInv, CallOK, StorePacket
  <1>2. packets' = {x \in packets : x.id # id} \union {new}
    BY DEF StorePacket
  <1>3. /\ new.id = id /\ new.account = plan.account /\ new.proposal = call.proposal
        /\ new.status = Status(plan.event, plan.read)
    OBVIOUS
  <1> HIDE DEF new
  <1>4. UNCHANGED <<consents, proposals, ledger, answered, disturbed>>
    BY DEF StorePacket
  <1>5. Grown
    BY <1>2, <1>3, <1>4 DEF Grown
  <1>6. calls \in [Servers -> SignupCall] /\ calls' = [calls EXCEPT ![s].pc = "log"]
    BY DEF SignupInv, CallsInv, StorePacket
  <1>7. /\ calls'[s].pc = "log" /\ calls'[s].plan = plan /\ calls'[s].proposal = call.proposal
        /\ calls'[s].logged = call.logged
        /\ \A u \in Servers \ {s} : calls'[u] = calls[u]
        /\ calls' \in [Servers -> SignupCall]
    BY <1>6 DEF SignupCall
  <1>8. CallId(s) = id /\ CallId(s)' = id /\ IdOf(call.proposal) = id
    BY <1>1, <1>7 DEF CallId, IdOf
  <1>9. CallsInv'
    <2>1. \E x \in packets' : x.id = PacketId(calls'[s].plan.event)
      BY <1>2, <1>3, <1>7
    <2>2. CallOK(s)'
      BY <1>1, <1>4, <1>7, <2>1 DEF CallOK, PacketFor
    <2> QED
      BY <1>5, <1>7, <2>2, CallKept DEF SignupInv, CallsInv
  <1>10. ProposalsInv' /\ LedgerInv'
    BY <1>4, <1>5, RecordsKept DEF SignupInv
  <1>11. PacketsInv'
    <2>1. \A p : IdOf(p)' = IdOf(p)
      BY <1>4 DEF IdOf
    <2>2. /\ new.proposal \in DOMAIN proposals /\ new.id = IdOf(new.proposal)
          /\ new.account = proposals[new.proposal].account
      BY <1>1, <1>3, <1>8
    <2>3. new.status = "ready" <=> proposals[new.proposal].contact # NONE
      BY <1>1, <1>3, PlanIsMeant
    <2> QED
      BY <1>2, <1>4, <2>1, <2>2, <2>3 DEF SignupInv, PacketsInv
  <1>12. AnsweredInv'
    BY <1>4, <1>5, AnsweredKept DEF SignupInv, AnsweredInv
  <1>13. OverlapInv'
    BY <1>1, <1>5, <1>7, OverlapKept DEF SignupInv, Running
  <1>14. InHand' = InHand
    BY <1>7 DEF InHand
  <1>15. FirstInv'
    BY <1>4, <1>5, <1>14, FirstKept DEF SignupInv, HandsKeep
  <1>16. LastInv'
    <2>0. \A p : IdOf(p)' = IdOf(p)
      BY <1>4 DEF IdOf
    <2>a. id \notin disturbed => \A q \in DOMAIN proposals : IdOf(q) = id => q <= call.proposal
      BY <1>1, <1>8 DEF SignupInv, LastInv
    <2>1. ASSUME NEW u \in Servers, calls'[u].pc \in {"store", "log"}, CallId(u)' \notin disturbed'
          PROVE  /\ \A q \in DOMAIN proposals' : IdOf(q)' = CallId(u)' => q <= calls'[u].proposal
                 /\ calls'[u].pc = "log" =>
                       \E x \in packets' : x.id = CallId(u)' /\ x.proposal = calls'[u].proposal
      <3>1. CASE u = s
        BY <1>2, <1>3, <1>4, <1>7, <1>8, <2>0, <2>1, <2>a, <3>1
      <3>2. CASE u # s
        <4>1. calls'[u] = calls[u] /\ CallId(u)' = CallId(u) /\ CallId(u) \notin disturbed
          BY <1>4, <1>7, <2>1, <3>2 DEF CallId
        <4>2. CallId(u) # id
          BY <1>1, <1>8, <2>1, <3>2, <4>1 DEF SignupInv, OverlapInv, Running
        <4> QED
          BY <1>2, <1>4, <2>0, <2>1, <4>1, <4>2 DEF SignupInv, LastInv
      <3> QED
        BY <3>1, <3>2
    <2>2. ASSUME NEW p \in DOMAIN proposals', IdOf(p)' \notin disturbed', IsLast(p)'
          PROVE  p \in InHand' \/ \E x \in packets' : x.id = IdOf(p)' /\ x.proposal = p
      <3>1. IdOf(p) \notin disturbed /\ IsLast(p) /\ p \in DOMAIN proposals
        BY <1>4, <2>0, <2>2 DEF IsLast
      <3>2. CASE IdOf(p) # id
        BY <1>2, <1>14, <2>0, <3>1, <3>2 DEF SignupInv, LastInv
      <3>3. CASE IdOf(p) = id
        <4>1. call.proposal <= p /\ p <= call.proposal
          BY <1>1, <1>8, <2>a, <3>1, <3>3 DEF IsLast
        <4>2. p \in Nat /\ call.proposal \in Nat
          BY <1>1, <3>1 DEF SignupInv, ProposalsInv
        <4>3. p = call.proposal
          BY <4>1, <4>2
        <4> QED
          BY <1>14, <4>3 DEF InHand
      <3> QED
        BY <3>2, <3>3
    <2> QED
      BY <2>1, <2>2 DEF LastInv
  <1> QED
    BY <1>9, <1>10, <1>11, <1>12, <1>13, <1>15, <1>16 DEF SignupInv

LEMMA FailKeeps ==
    ASSUME SignupInv, NEW s \in Servers, Fail(s)
    PROVE  SignupInv'
  <1>1. UNCHANGED <<consents, proposals, packets, ledger, answered>>
        /\ disturbed' = disturbed \union {CallId(s)}
    BY DEF Fail, CallId
  <1>2. Grown
    BY <1>1 DEF Grown
  <1>3. calls'[s] = NoCall /\ calls' \in [Servers -> SignupCall]
        /\ \A u \in Servers \ {s} : calls'[u] = calls[u]
    BY NoCallTyped DEF Fail, SignupInv, CallsInv
  <1>4. CallsInv'
    <2>1. CallOK(s)'
      BY <1>3 DEF NoCall, CallOK
    <2> QED
      BY <1>2, <1>3, <2>1, CallKept DEF SignupInv, CallsInv
  <1>5. ProposalsInv' /\ PacketsInv' /\ LedgerInv'
    BY <1>1, <1>2, RecordsKept DEF SignupInv
  <1>6. AnsweredInv'
    BY <1>1, <1>2, AnsweredKept DEF SignupInv, AnsweredInv
  <1>7. OverlapInv'
    BY <1>2, <1>3, OverlapKept DEF SignupInv, Running, NoCall
  <1>8. HandsKeep
    <2> SUFFICES ASSUME NEW p \in DOMAIN proposals, p \in InHand, p \notin InHand'
                 PROVE  IdOf(p) \in disturbed'
      BY DEF HandsKeep
    <2>1. p = calls[s].proposal
      BY <1>3 DEF InHand
    <2>2. p # 0
      BY DEF SignupInv, ProposalsInv
    <2>3. calls[s].pc \in {"store", "log"}
      BY <2>1, <2>2 DEF SignupInv, CallsInv, CallOK, SignupCall
    <2>4. IdOf(p) = CallId(s)
      BY <2>1, <2>3 DEF SignupInv, CallsInv, CallOK, IdOf, CallId
    <2> QED
      BY <1>1, <2>4
  <1>9. FirstInv'
    BY <1>1, <1>2, <1>8, FirstKept DEF SignupInv
  <1>10. LastInv'
    BY <1>1, <1>2, <1>3, <1>8, LastKept DEF SignupInv, NoCall
  <1> QED
    BY <1>4, <1>5, <1>6, <1>7, <1>9, <1>10 DEF SignupInv

LEMMA InsertedKeeps ==
    ASSUME NEW row
    PROVE  /\ ledger \subseteq Inserted(row)
           /\ \E x \in Inserted(row) : x.type = row.type /\ x.ref = row.ref
           /\ \A x \in Inserted(row) \ ledger : x = row /\ ~ RowFor(row.type, row.ref)
  BY DEF Inserted, RowFor

LEMMA RecordAuditEventKeeps ==
    ASSUME SignupInv, NEW s \in Servers, RecordAuditEvent(s)
    PROVE  SignupInv'
  <1> DEFINE call == calls[s]
             e    == call.plan.event
             id   == PacketId(e)
             type == AuditEvents[call.logged + 1]
             ref  == SourceRef(type, e)
             row  == [type |-> type, ref |-> ref,
                      proposal |-> IF type = "trigger" THEN 0 ELSE call.proposal]
             done == call.logged + 1 >= Len(AuditEvents)
  <1>1. /\ call \in SignupCall /\ call.pc = "log" /\ call.plan \in Plans
        /\ call.plan.contact # NONE => call.plan.contact \in consents
        /\ call.proposal \in DOMAIN proposals /\ proposals[call.proposal] = call.plan
        /\ PacketFor(id)
        /\ call.logged >= 1 => RowFor("trigger", TriggerRef(e))
        /\ call.logged >= 2 => RowFor("packet", id)
    BY DEF SignupInv, CallsInv, CallOK, RecordAuditEvent
  <1>2. /\ call.logged \in 0..2
        /\ call.logged = 0 => type = "trigger" /\ ~ done
        /\ call.logged = 1 => type = "packet" /\ ~ done
        /\ call.logged = 2 => type = "value_path" /\ done
    BY <1>1 DEF SignupCall, AuditEvents
  <1>3. ref = IF type = "trigger" THEN TriggerRef(e) ELSE id
    BY DEF SourceRef
  <1>4. /\ row.type = type /\ row.ref = ref
        /\ type # "trigger" => row.proposal = call.proposal
    OBVIOUS
  <1>5. ledger' = Inserted(row)
    BY DEF RecordAuditEvent
  <1>6. UNCHANGED <<consents, proposals, packets, disturbed>>
    BY DEF RecordAuditEvent
  <1>7. \/ ~ done /\ calls' = [calls EXCEPT ![s].logged = @ + 1] /\ answered' = answered
        \/ done /\ calls' = [calls EXCEPT ![s] = NoCall] /\ answered' = answered \union {call.proposal}
    <2>1. call.logged + 1 \in Nat /\ Len(AuditEvents) \in Nat
      BY <1>2 DEF AuditEvents
    <2> QED
      BY <2>1 DEF RecordAuditEvent
  <1> HIDE DEF type, ref, row, done
  <1>8. /\ ledger \subseteq ledger'
        /\ \E x \in ledger' : x.type = type /\ x.ref = ref
        /\ \A x \in ledger' : x \in ledger \/ (x = row /\ ~ RowFor(type, ref))
    BY <1>4, <1>5, InsertedKeeps
  <1>9. Grown
    BY <1>6, <1>8 DEF Grown
  <1>10. calls \in [Servers -> SignupCall]
    BY DEF SignupInv, CallsInv
  <1>11. ASSUME ~ done
         PROVE  /\ calls'[s].pc = "log" /\ calls'[s].plan = call.plan
                /\ calls'[s].proposal = call.proposal /\ calls'[s].logged = call.logged + 1
                /\ calls'[s] \in SignupCall
    <2>1. calls' = [calls EXCEPT ![s].logged = call.logged + 1]
      BY <1>7, <1>11
    <2>2. call.logged + 1 \in 0..2
      BY <1>2, <1>11
    <2> QED
      BY <1>1, <1>10, <2>1, <2>2 DEF SignupCall
  <1>12. ASSUME done
         PROVE  calls'[s] = NoCall /\ calls'[s] \in SignupCall
    BY <1>7, <1>10, <1>12, NoCallTyped
  <1>13. /\ calls' \in [Servers -> SignupCall]
         /\ \A u \in Servers \ {s} : calls'[u] = calls[u]
    <2>1. calls' = [calls EXCEPT ![s] = calls'[s]]
      BY <1>7, <1>10
    <2> QED
      BY <1>10, <1>11, <1>12, <2>1
  <1>14. CallId(s) = id /\ IdOf(call.proposal) = id /\ (~ done => CallId(s)' = id)
         /\ \A p : IdOf(p)' = IdOf(p)
    BY <1>1, <1>6, <1>11 DEF CallId, IdOf
  <1>15. CallsInv'
    <2>1. CASE ~ done
      <3>1. call.logged + 1 >= 1 => \E x \in ledger' : x.type = "trigger" /\ x.ref = TriggerRef(e)
        BY <1>1, <1>2, <1>3, <1>8 DEF RowFor
      <3>2. call.logged + 1 >= 2 => \E x \in ledger' : x.type = "packet" /\ x.ref = id
        BY <1>2, <1>3, <1>8, <2>1
      <3>3. \E x \in packets' : x.id = id
        BY <1>1, <1>6 DEF PacketFor
      <3>4. CallOK(s)'
        BY <1>1, <1>6, <1>11, <2>1, <3>1, <3>2, <3>3 DEF CallOK, RowFor, PacketFor
      <3> QED
        BY <1>9, <1>13, <3>4, CallKept DEF SignupInv, CallsInv
    <2>2. CASE done
      <3>1. CallOK(s)'
        BY <1>12, <2>2 DEF NoCall, CallOK
      <3> QED
        BY <1>9, <1>13, <3>1, CallKept DEF SignupInv, CallsInv
    <2> QED
      BY <2>1, <2>2
  <1>16. ProposalsInv' /\ PacketsInv'
    BY <1>6, <1>9, RecordsKept DEF SignupInv
  <1>17. LedgerInv'
    BY <1>1, <1>3, <1>4, <1>6, <1>8, <1>14 DEF SignupInv, LedgerInv
  <1>18. AnsweredInv'
    <2>1. \A p \in answered :
             /\ p \in DOMAIN proposals'
             /\ PacketFor(IdOf(p))' /\ RowFor("packet", IdOf(p))' /\ RowFor("value_path", IdOf(p))'
             /\ RowFor("trigger", TriggerRef(proposals[p].event))'
      BY <1>9, AnsweredKept DEF SignupInv
    <2>2. ASSUME done, NEW p, p = call.proposal
          PROVE  /\ p \in DOMAIN proposals'
                 /\ PacketFor(IdOf(p))' /\ RowFor("packet", IdOf(p))' /\ RowFor("value_path", IdOf(p))'
                 /\ RowFor("trigger", TriggerRef(proposals[p].event))'
      <3>1. /\ IdOf(p) = id /\ IdOf(p)' = id /\ proposals[p].event = e /\ proposals'[p].event = e
            /\ p \in DOMAIN proposals'
        BY <1>1, <1>6, <1>14, <2>2
      <3>2. /\ \E x \in packets' : x.id = id
            /\ \E x \in ledger' : x.type = "packet" /\ x.ref = id
            /\ \E x \in ledger' : x.type = "value_path" /\ x.ref = id
            /\ \E x \in ledger' : x.type = "trigger" /\ x.ref = TriggerRef(e)
        <4>1. call.logged = 2
          BY <1>2, <2>2
        <4> QED
          BY <1>1, <1>2, <1>3, <1>6, <1>8, <4>1 DEF PacketFor, RowFor
      <3> QED
        BY <3>1, <3>2 DEF PacketFor, RowFor
    <2>3. \A p \in answered' : p \in answered \/ (done /\ p = call.proposal)
      BY <1>7
    <2> QED
      BY <2>1, <2>2, <2>3 DEF AnsweredInv
  <1>19. OverlapInv'
    <2>1. \A u \in Servers : Running(u)' => Running(u) /\ calls'[u].plan = calls[u].plan
      BY <1>1, <1>11, <1>12, <1>13 DEF Running, NoCall
    <2> QED
      BY <1>9, <2>1, OverlapKept DEF SignupInv
  <1>20. \A p \in DOMAIN proposals : p \in InHand => p \in InHand' \/ (done /\ p = call.proposal)
    BY <1>11, <1>13 DEF InHand
  <1>21. FirstInv'
    <2> SUFFICES ASSUME NEW p \in DOMAIN proposals, IdOf(p) \notin disturbed
                 PROVE  /\ p \in InHand' \/ RowFor("packet", IdOf(p))'
                        /\ \A x \in ledger' : x.type = "packet" /\ x.ref = IdOf(p) => x.proposal <= p
      BY <1>6, <1>14 DEF FirstInv
    <2>1. RowFor("packet", IdOf(p)) => RowFor("packet", IdOf(p))'
      BY <1>6, <1>8, <1>14 DEF RowFor
    <2>2. p \in InHand' \/ RowFor("packet", IdOf(p))'
      <3>1. CASE done /\ p = call.proposal
        <4>1. call.logged >= 2
          BY <1>2, <3>1
        <4> QED
          BY <1>1, <1>14, <2>1, <3>1, <4>1
      <3> QED
        BY <1>20, <2>1, <3>1 DEF SignupInv, FirstInv
    <2>3. ASSUME NEW x \in ledger', x.type = "packet", x.ref = IdOf(p)
          PROVE  x.proposal <= p
      <3>1. CASE x \in ledger
        BY <2>3, <3>1 DEF SignupInv, FirstInv
      <3>2. CASE x \notin ledger
        <4>1. x = row /\ ~ RowFor(type, ref)
          BY <1>8, <3>2
        <4>2. type = "packet" /\ ref = id /\ id = IdOf(p) /\ x.proposal = call.proposal
          BY <1>3, <1>4, <2>3, <4>1
        <4>3. p \in InHand /\ p # 0
          BY <4>1, <4>2 DEF SignupInv, FirstInv, ProposalsInv
        <4>4. PICK u \in Servers : p = calls[u].proposal
          BY <4>3 DEF InHand
        <4>5. calls[u].pc \in {"store", "log"} /\ proposals[p] = calls[u].plan
          BY <1>10, <4>3, <4>4 DEF SignupInv, CallsInv, CallOK, SignupCall
        <4>6. CallId(u) = id /\ Running(u) /\ Running(s)
          BY <1>1, <4>2, <4>5 DEF CallId, IdOf, Running
        <4>7. u = s
          BY <1>14, <4>2, <4>6 DEF SignupInv, OverlapInv
        <4> QED
          BY <4>2, <4>3, <4>4, <4>7 DEF SignupInv, ProposalsInv
      <3> QED
        BY <3>1, <3>2
    <2> QED
      BY <2>2, <2>3
  <1>22. LastInv'
    <2>1. ASSUME NEW u \in Servers, calls'[u].pc \in {"store", "log"}, CallId(u)' \notin disturbed'
          PROVE  /\ \A q \in DOMAIN proposals' : IdOf(q)' = CallId(u)' => q <= calls'[u].proposal
                 /\ calls'[u].pc = "log" =>
                       \E x \in packets' : x.id = CallId(u)' /\ x.proposal = calls'[u].proposal
      <3>1. /\ calls'[u].pc = calls[u].pc /\ calls'[u].plan = calls[u].plan
            /\ calls'[u].proposal = calls[u].proposal
        BY <1>1, <1>11, <1>12, <1>13, <2>1 DEF NoCall
      <3>2. CallId(u)' = CallId(u)
        BY <3>1 DEF CallId
      <3> QED
        BY <1>6, <1>14, <2>1, <3>1, <3>2 DEF SignupInv, LastInv
    <2>2. ASSUME NEW p \in DOMAIN proposals', IdOf(p)' \notin disturbed', IsLast(p)'
          PROVE  p \in InHand' \/ \E x \in packets' : x.id = IdOf(p)' /\ x.proposal = p
      <3>1. IdOf(p) \notin disturbed /\ IsLast(p) /\ p \in DOMAIN proposals
        BY <1>6, <1>14, <2>2 DEF IsLast
      <3>2. \/ p \in InHand \/ \E x \in packets : x.id = IdOf(p) /\ x.proposal = p
        BY <3>1 DEF SignupInv, LastInv
      <3>3. CASE p = call.proposal
        BY <1>1, <1>6, <1>14, <3>1, <3>3 DEF SignupInv, LastInv
      <3> QED
        BY <1>6, <1>14, <1>20, <3>1, <3>2, <3>3
    <2> QED
      BY <2>1, <2>2 DEF LastInv
  <1> QED
    BY <1>15, <1>16, <1>17, <1>18, <1>19, <1>21, <1>22 DEF SignupInv

-----------------------------------------------------------------------------
LEMMA SignupInitEstablishes == SignupInit => SignupInv
  <1> SUFFICES ASSUME SignupInit
               PROVE  SignupInv
    OBVIOUS
  <1>1. calls \in [Servers -> SignupCall] /\ \A s \in Servers : calls[s] = NoCall
    BY NoCallTyped DEF SignupInit
  <1>2. \A s \in Servers : CallOK(s)
    BY <1>1 DEF CallOK, NoCall
  <1>3. /\ proposals = <<>> /\ DOMAIN proposals = {}
        /\ packets = {} /\ ledger = {} /\ answered = {}
    BY DEF SignupInit
  <1>4. ProposalsInv /\ PacketsInv /\ LedgerInv /\ AnsweredInv /\ FirstInv
    BY <1>3 DEF ProposalsInv, PacketsInv, LedgerInv, AnsweredInv, FirstInv
  <1>5. OverlapInv /\ LastInv
    BY <1>1, <1>3 DEF OverlapInv, LastInv, Running, NoCall
  <1> QED
    BY <1>1, <1>2, <1>4, <1>5 DEF SignupInv, CallsInv

(* SignupInv is inductive: each transaction of a call leaves on record     *)
(* what the next one relies on, whatever other calls do in between.        *)
THEOREM SignupInvariance == SignupSpec => []SignupInv
  <1>1. ASSUME SignupInv, [SignupNext]_signupVars
        PROVE  SignupInv'
    <2>1. CASE SignupNext
      BY <1>1, <2>1, ReceiveKeeps, RecordConsentKeeps, ProposeKeeps, StorePacketKeeps,
         RecordAuditEventKeeps, FailKeeps DEF SignupNext
    <2>2. CASE UNCHANGED signupVars
      BY <1>1, <2>2 DEF signupVars, SignupInv, CallsInv, CallOK, ProposalsInv, PacketsInv,
         LedgerInv, AnsweredInv, OverlapInv, FirstInv, LastInv, IsLast, InHand, IdOf, CallId,
         RowFor, PacketFor, Running
    <2> QED
      BY <1>1, <2>1, <2>2
  <1> QED
    BY <1>1, SignupInitEstablishes, PTL DEF SignupSpec

(* Every proposal addressed to somebody was warranted by what was read.    *)
THEOREM OutreachStaysWarranted == SignupSpec => []OutreachIsWarranted
  <1>1. SignupInv => OutreachIsWarranted
    <2> SUFFICES ASSUME SignupInv, NEW p \in DOMAIN proposals, proposals[p].contact # NONE
                 PROVE  Warranted(proposals[p])
      BY DEF OutreachIsWarranted
    <2>1. proposals[p] \in Plans /\ proposals[p].contact \in consents
      BY DEF SignupInv, ProposalsInv
    <2>2. Meant(proposals[p])
      BY <2>1, PlanIsMeant
    <2> QED
      BY <2>1, <2>2 DEF Warranted, Meant
  <1> QED
    BY <1>1, SignupInvariance, PTL

(* The first and the last proposal of a calm signup are found.             *)
THEOREM FirstAndLastStayFound == SignupSpec => []FirstAndLastAreFound
  <1>1. SignupInv => FirstAndLastAreFound
    <2> SUFFICES ASSUME SignupInv, NEW p \in DOMAIN proposals, IdOf(p) \notin disturbed,
                        \/ \A q \in DOMAIN proposals \ {p} : IdOf(q) = IdOf(p) => p < q
                        \/ \A q \in DOMAIN proposals \ {p} : IdOf(q) = IdOf(p) => q < p,
                        p \notin InHand
                 PROVE  p \in NamedFor(IdOf(p))
      BY DEF FirstAndLastAreFound, IdOf
    <2>0. DOMAIN proposals \subseteq Nat
      BY DEF SignupInv, ProposalsInv
    <2>1. CASE \A q \in DOMAIN proposals \ {p} : IdOf(q) = IdOf(p) => p < q
      <3>1. PICK x \in ledger : x.type = "packet" /\ x.ref = IdOf(p)
        BY DEF SignupInv, FirstInv, RowFor
      <3>2. x.proposal <= p /\ x.proposal \in DOMAIN proposals /\ IdOf(x.proposal) = IdOf(p)
        BY <3>1 DEF SignupInv, FirstInv, LedgerInv
      <3>3. x.proposal = p
        BY <2>0, <2>1, <3>2
      <3> QED
        BY <3>1, <3>3 DEF NamedFor
    <2>2. CASE \A q \in DOMAIN proposals \ {p} : IdOf(q) = IdOf(p) => q < p
      <3>1. IsLast(p)
        BY <2>0, <2>2 DEF IsLast
      <3> QED
        BY <3>1 DEF SignupInv, LastInv, NamedFor
    <2> QED
      BY <2>1, <2>2
  <1> QED
    BY <1>1, SignupInvariance, PTL

(* What was answered stays on record.                                      *)
THEOREM AnsweredStaysRecorded == SignupSpec => []AnsweredIsRecorded
  <1>0. \A e, f : PacketId(e) = PacketId(f) => SameSignup(e, f)
    BY DEF PacketId, SameSignup
  <1>1. SignupInv => AnsweredIsRecorded
    <2> SUFFICES ASSUME SignupInv, NEW p \in answered
                 PROVE  LET e == proposals[p].event
                        IN  /\ HasPacket(e)
                            /\ HasRow("packet", e) /\ HasRow("value_path", e)
                            /\ \E x \in ledger : x.type = "trigger" /\ x.ref = <<e.workspace, e.email>>
      BY DEF AnsweredIsRecorded
    <2> DEFINE e == proposals[p].event
    <2>1. /\ PacketFor(IdOf(p)) /\ RowFor("packet", IdOf(p)) /\ RowFor("value_path", IdOf(p))
          /\ RowFor("trigger", TriggerRef(e))
      BY DEF SignupInv, AnsweredInv
    <2>2. HasPacket(e)
      <3>1. PICK x \in packets : x.id = IdOf(p)
        BY <2>1 DEF PacketFor
      <3>2. IdOf(x.proposal) = IdOf(p) /\ x.account = proposals[x.proposal].account
            /\ (x.status = "ready" <=> proposals[x.proposal].contact # NONE)
        BY <3>1 DEF SignupInv, PacketsInv
      <3>3. SameSignup(proposals[x.proposal].event, e)
        BY <1>0, <3>2 DEF IdOf
      <3> QED
        BY <3>2, <3>3 DEF HasPacket
    <2>3. ASSUME NEW type, type # "trigger", RowFor(type, IdOf(p))
          PROVE  HasRow(type, e)
      <3>1. PICK x \in ledger : x.type = type /\ x.ref = IdOf(p)
        BY <2>3 DEF RowFor
      <3>2. IdOf(x.proposal) = IdOf(p)
        BY <2>3, <3>1 DEF SignupInv, LedgerInv
      <3>3. SameSignup(proposals[x.proposal].event, e)
        BY <1>0, <3>2 DEF IdOf
      <3> QED
        BY <3>1, <3>3 DEF HasRow
    <2>4. \E x \in ledger : x.type = "trigger" /\ x.ref = <<e.workspace, e.email>>
      BY <2>1 DEF RowFor, TriggerRef
    <2> QED
      BY <2>1, <2>2, <2>3, <2>4
  <1> QED
    BY <1>1, SignupInvariance, PTL
=============================================================================

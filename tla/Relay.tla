-------------------------------- MODULE Relay --------------------------------
(***************************************************************************)
(* The relay tools of the MCP server (mcp_server.py): a host sends the     *)
(* records of a book in chunks, gets a mapping proposal back with the last *)
(* one, and confirms it, which freezes the book under a replay hash.       *)
(* ingest_book and confirm_book_mappings keep a flat table per session,    *)
(* ingest_table and confirm_book several tables per relational book.       *)
(*                                                                         *)
(* The server handles one call at a time, but hosts are free: chunks come  *)
(* in any order, twice when a host repeats a call whose answer it did not  *)
(* get, or never; several hosts share the sessions and may pick each       *)
(* other's ids; and any table may be sent again after it was confirmed.    *)
(***************************************************************************)
EXTENDS Integers, Sequences, FiniteSets

CONSTANTS
    AutoIds,     \* the ids relay-0001, relay-0002, ... in their order
    OwnIds,      \* other session ids hosts choose
    Books,       \* ids of relational books
    Tables,      \* table names
    Contracts,   \* what a table's records may be
    Sizes,       \* values of expected_count; a book of size n has records 1..n
    Caps,        \* values of max_records
    DefaultCap,  \* max_records of a table
    MaxReceived, \* bound on the records all sessions together receive
    NULL

Ids == OwnIds \union {AutoIds[i] : i \in DOMAIN AutoIds}

ASSUME SizesAssumption == Sizes \subseteq Nat
ASSUME CapsAssumption  == Caps \subseteq Nat /\ DefaultCap \in Nat
ASSUME BoundAssumption == MaxReceived \in Nat
ASSUME NullAssumption  == NULL \notin Ids \union Contracts \union Tables

(* The server's ids are all different, and not of the form of other ids. *)
ASSUME IdsAssumption ==
    /\ AutoIds \in Seq(Ids)
    /\ \A i, j \in DOMAIN AutoIds : AutoIds[i] = AutoIds[j] => i = j
    /\ \A i \in DOMAIN AutoIds : AutoIds[i] \notin OwnIds

VARIABLES
    sessions,  \* _relay_sessions
    last,      \* _last_relay_session_id
    books,     \* _relational_books: the tables of each book
    received,  \* records received by all sessions, at most MaxReceived
    squatted   \* a host began a session under an id of the server's own form

vars == <<sessions, last, books, received, squatted>>

-----------------------------------------------------------------------------
(* A session: the records it stored, how many it received and dropped, the *)
(* proposal made and the replay frozen, as a set of at most one.  A        *)
(* content says what was stored when it was made; arrived, repeated and    *)
(* acked remember which records came, whether one came twice, and whether  *)
(* the proposal is of a truncated book, which somebody acknowledged.       *)
Records == UNION {1..n : n \in Sizes}

Content == [raw : SUBSET Records, stored : Nat]

Session == [expected : Sizes, cap : Nat, contract : Contracts \union {NULL},
            raw : SUBSET Records, received : Nat, dropped : Nat,
            proposal : SUBSET Content, replay : SUBSET [Tables \union {NULL} -> SUBSET Content],
            arrived : SUBSET Records, repeated : BOOLEAN, acked : BOOLEAN]

Opened(n, cap, contract) ==
    [expected |-> n, cap |-> cap, contract |-> contract, raw |-> {}, received |-> 0,
     dropped |-> 0, proposal |-> {}, replay |-> {}, arrived |-> {}, repeated |-> FALSE,
     acked |-> FALSE]

Stored(s) == s.received - s.dropped

ContentOf(s) == [raw |-> s.raw, stored |-> Stored(s)]

(* A replay names the tables of a book and what they hold; the one table   *)
(* of a flat book has no name.                                             *)
Replay(book) ==
    [t \in Tables \union {NULL} |-> IF t \in DOMAIN book THEN {ContentOf(book[t])} ELSE {}]

Init ==
    /\ sessions = [id \in {} |-> NULL]
    /\ last = NULL
    /\ books = [b \in Books |-> [t \in {} |-> NULL]]
    /\ received = 0
    /\ squatted = FALSE

(* A call brings a chunk, which may be empty. *)
Receives(chunk) ==
    /\ received + Cardinality(chunk) <= MaxReceived
    /\ received' = received + Cardinality(chunk)

(* _append_relay_records: what fits under the cap is stored, which of the  *)
(* chunk that is depends on its order; everything counts as received.      *)
Lesser(m, n) == IF m < n THEN m ELSE n

Kept(s, chunk) ==
    {kept \in SUBSET chunk :
        Cardinality(kept) = Lesser(Cardinality(chunk), s.cap - Stored(s))}

KeepsProposal(s, chunk, kept) ==  \* mutant
    [s EXCEPT !.raw = @ \union kept, !.received = @ + Cardinality(chunk),
              !.dropped = @ + Cardinality(chunk) - Cardinality(kept),
              !.arrived = @ \union chunk,
              !.repeated = @ \/ chunk \intersect s.arrived # {}]

Extended(s, chunk, kept) ==
    [s EXCEPT !.raw = @ \union kept, !.received = @ + Cardinality(chunk),
              !.dropped = @ + Cardinality(chunk) - Cardinality(kept),
              !.proposal = {}, !.replay = {},
              !.arrived = @ \union chunk,
              !.repeated = @ \/ chunk \intersect s.arrived # {}]

(* A chunk is one of more, or the final one, with or without acknowledging *)
(* truncation.                                                             *)
Modes == {"more", "final", "acknowledged"}

(* The final chunk of a complete session yields a proposal; a refused one  *)
(* has been appended all the same.                                         *)
IgnoresTheCount(s, mode) ==  \* mutant
    mode # "more" /\ (s.dropped > 0 => mode = "acknowledged")

Complete(s, mode) ==
    /\ mode # "more"
    /\ s.received = s.expected
    /\ s.dropped > 0 => mode = "acknowledged"

Proposed(s, mode) ==
    IF Complete(s, mode)
    THEN [s EXCEPT !.proposal = {ContentOf(s)}, 
                        !.acked = (s.dropped > 0 /\ mode = "acknowledged")]
    ELSE s

(* What a call makes of a session. *)
After(s, chunk, mode) == {Proposed(Extended(s, chunk, k), mode) : k \in Kept(s, chunk)}

-----------------------------------------------------------------------------
(* Flat books.  Without an id the server makes one up from the number of   *)
(* sessions, and replaces whatever has that id.                            *)
With(f, x, y) == [z \in DOMAIN f \union {x} |-> IF z = x THEN y ELSE f[z]]

CountsFromZero == IF sessions = <<>> THEN AutoIds[1]  \* mutant
                  ELSE AutoIds[Cardinality(DOMAIN sessions)]

NextAutoId == AutoIds[Cardinality(DOMAIN sessions) + 1]

Selected(id) == IF id = NULL THEN NextAutoId ELSE id

CanSelect(id) == id # NULL \/ Cardinality(DOMAIN sessions) < Len(AutoIds)

IngestBook(id, chunk, n, cap, mode) ==
    LET sid == Selected(id)
        known == id # NULL /\ id \in DOMAIN sessions
        session == IF known THEN sessions[id] ELSE Opened(n, cap, NULL)
    IN
    /\ Receives(chunk)
    /\ CanSelect(id)
    /\ known => cap = session.cap      \* it is not looked at again
    /\ chunk \subseteq 1..n
    /\ last' = sid
    /\ squatted' = (squatted \/ (id # NULL /\ ~ known /\ id \notin OwnIds))
    /\ IF session.expected # n THEN UNCHANGED sessions     \* EXPECTED_COUNT_CHANGED
       ELSE \E s \in After(session, chunk, mode) : sessions' = With(sessions, sid, s)
    /\ UNCHANGED books

(* confirm_book_mappings: the given session or the last one used. *)
ConfirmBookMappings(id) ==
    LET sid == IF id = NULL THEN last ELSE id IN
    /\ sid \in DOMAIN sessions
    /\ sessions[sid].proposal # {}
    /\ sessions' = [sessions EXCEPT ![sid].replay = {Replay([t \in {NULL} |-> sessions[sid]])}]
    /\ UNCHANGED <<last, books, received, squatted>>

-----------------------------------------------------------------------------
(* Relational books.  A table is opened by its first chunk, unless another *)
(* table of the book has claimed the contract; contract and expected count *)
(* then stay.                                                              *)
MayOpen(b, t, contract) ==
    t \in DOMAIN books[b] \/ \A u \in DOMAIN books[b] : books[b][u].contract # contract

IngestTable(b, t, contract, chunk, n, mode) ==
    LET session == IF t \in DOMAIN books[b] THEN books[b][t] ELSE Opened(n, DefaultCap, contract) IN
    /\ Receives(chunk)
    /\ MayOpen(b, t, contract)
    /\ session.contract = contract
    /\ session.expected = n
    /\ chunk \subseteq 1..n
    /\ \E s \in After(session, chunk, mode) : books' = [books EXCEPT ![b] = With(@, t, s)]
    /\ UNCHANGED <<sessions, last, squatted>>

(* confirm_book: every table has a proposal; all get the replay of the     *)
(* book they make up together.                                             *)
FreezesTheNew(book) ==  \* mutant
    [t \in DOMAIN book |->
        IF book[t].replay = {} THEN [book[t] EXCEPT !.replay = {Replay(book)}] ELSE book[t]]

Frozen(book) == [t \in DOMAIN book |-> [book[t] EXCEPT !.replay = {Replay(book)}]]

ConfirmBook(b) ==
    /\ DOMAIN books[b] # {}
    /\ \A t \in DOMAIN books[b] : books[b][t].proposal # {}
    /\ books' = [books EXCEPT ![b] = Frozen(@)]
    /\ UNCHANGED <<sessions, last, received, squatted>>

Next ==
    \/ \E id \in Ids \union {NULL}, chunk \in SUBSET Records, n \in Sizes, cap \in Caps,
          mode \in Modes : IngestBook(id, chunk, n, cap, mode)
    \/ \E id \in Ids \union {NULL} : ConfirmBookMappings(id)
    \/ \E b \in Books, t \in Tables, contract \in Contracts, chunk \in SUBSET Records, n \in Sizes,
          mode \in Modes : IngestTable(b, t, contract, chunk, n, mode)
    \/ \E b \in Books : ConfirmBook(b)

Spec == Init /\ [][Next]_vars

-----------------------------------------------------------------------------
(* Properties.                                                             *)

AllSessions ==
    {sessions[id] : id \in DOMAIN sessions}
    \union UNION {{books[b][t] : t \in DOMAIN books[b]} : b \in Books}

TypeOK ==
    /\ DOMAIN sessions \subseteq Ids
    /\ last \in DOMAIN sessions \union {NULL}
    /\ \A b \in Books : DOMAIN books[b] \subseteq Tables
    /\ AllSessions \subseteq Session
    /\ received \in 0..MaxReceived
    /\ squatted \in BOOLEAN

(* A proposal, and a replay confirmed from it, are of exactly the records  *)
(* the session now holds, whatever arrived, was refused or was sent again  *)
(* after them (mcp_server.py:2014).                                        *)
NothingStale ==
    \A s \in AllSessions :
        /\ \A c \in s.proposal : c = ContentOf(s)
        /\ s.replay # {} => s.proposal # {}

(* A session with a proposal holds the whole book of its host; only a      *)
(* record that came twice can stand for one that never came, and only an   *)
(* acknowledged truncation can leave one out (mcp_server.py:1156, 1167).   *)
WholeUnlessRepeated ==
    \A s \in AllSessions : s.proposal # {} =>
        \/ s.raw = 1..s.expected
        \/ s.repeated
        \/ s.dropped > 0 /\ s.acked

(* The tables of a book that are confirmed agree on the book they were     *)
(* confirmed in, and each is in it as it is now: confirming again after    *)
(* one was sent again, or added, leaves no table with the old replay       *)
(* (mcp_server.py:1622).                                                   *)
ReplaysAgree ==
    \A b \in Books : \A t, u \in DOMAIN books[b] :
        /\ books[b][t].replay # {} /\ books[b][u].replay # {} =>
               books[b][t].replay = books[b][u].replay
        /\ \A book \in books[b][t].replay : book[t] = {ContentOf(books[b][t])}

(* As long as no host begins a session under an id of the server's own     *)
(* form, a session is never replaced by another host's: what it received   *)
(* only grows (mcp_server.py:1994).                                        *)
SessionsAreKept ==
    [][~ squatted' => \A id \in DOMAIN sessions : sessions'[id].received >= sessions[id].received]_vars
=============================================================================

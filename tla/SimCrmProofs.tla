---------------------------- MODULE SimCrmProofs ----------------------------
(***************************************************************************)
(* Proofs about SimCrm: for any number of keys, accounts and processes,    *)
(* and whatever dies, fails or expires, the state file stays whole until   *)
(* two operations meet in the temporary file, and what is completed is     *)
(* logged, events match and nothing is taken back unless copies raced.     *)
(***************************************************************************)
EXTENDS SimCrm, TLAPS

Holding == {"open", "write", "rename"}

StoredIn(text) == text.activities \union text.completions

(* What a call leaves without an event if it ends now. *)
Lost(c) ==
    IF c.half = "audit" /\ c.pc \in {"read", "open", "write", "rename"} THEN c.adds ELSE {}

(* What a call is, whatever others do: one that holds a copy has something *)
(* to add, a commit its key, and the copy was computed from a whole file.  *)
Shape(c) ==
    /\ c.pc = "idle" => c.half = "change" /\ c.k = NULL
    /\ c.pc = "write" => c.fd # "none"
    /\ c.pc \in {"mark", "fail"} => c.k # NULL
    /\ c.pc \in Holding => c.next.state = "whole"
    /\ c.pc \in Holding \/ (c.pc = "read" /\ c.half = "audit") =>
           /\ c.adds # {}
           /\ c.k # NULL => c.adds = {c.k}

(* A copy of the file f: apart from what raced (r) and from what it adds,  *)
(* it is f; and it has what it adds.                                       *)
Near(c, f, r) ==
    /\ StoredIn(f) \subseteq StoredIn(c.next) \union r
    /\ StoredIn(c.next) \subseteq StoredIn(f) \union c.adds \union r
    /\ f.events \subseteq c.next.events \union r
    /\ c.next.events \subseteq f.events \union c.adds \union r
    /\ IF c.half = "change" THEN c.adds \subseteq StoredIn(c.next)
                            ELSE c.adds \subseteq c.next.events

(* What a call has stored stays stored. *)
CallLogged(c, f, r) ==
    /\ c.pc \in Holding => Near(c, f, r)
    /\ Lost(c) \subseteq StoredIn(f) \union r
    /\ c.pc = "mark" => c.k \in StoredIn(f) \union r

FileLogged ==
    /\ \A x \in StoredIn(file) \ (file.events \union unaudited \union raced) :
           \E w \in Workers : x \in Lost(call[w])
    /\ file.events \subseteq StoredIn(file) \union raced

KeysLogged == \A k \in Keys : keyRow[k].state = "completed" => k \in StoredIn(file) \union raced

(* Two copies held at once are noted, with what they add. *)
RacesAreNoted ==
    \A v, w \in Workers :
        v # w /\ call[v].pc \in Holding /\ call[w].pc \in Holding => call[v].adds \subseteq raced

(* One operation has the temporary file in use, and finds in it what it    *)
(* put there.                                                              *)
OneTmp ==
    /\ file.state = "whole"
    /\ \A v, w \in Workers : HasTmp(v) /\ HasTmp(w) => v = w
    /\ \A w \in Workers :
           /\ call[w].pc = "write" => call[w].fd = "tmp" /\ tmp = <<Truncated>>
           /\ call[w].pc = "rename" => tmp = <<call[w].next>>

Logged ==
    /\ FileLogged
    /\ KeysLogged
    /\ \A w \in Workers : CallLogged(call[w], file, raced)

IInv ==
    /\ TypeOK
    /\ \A w \in Workers : Shape(call[w])
    /\ RacesAreNoted
    /\ ~ collided => OneTmp /\ Logged

-----------------------------------------------------------------------------
LEMMA Texts ==
    /\ Seeded \in Text /\ Truncated \in Text /\ Mixed \in Text
    /\ NoCall \in Call /\ NoCall.pc = "idle" /\ NoCall.half = "change" /\ NoCall.k = NULL
    /\ StoredIn(Seeded) = {} /\ Seeded.events = {} /\ Seeded.state = "whole"
  BY DEF Seeded, Truncated, Mixed, Text, NoCall, Call, StoredIn

LEMMA InitEstablishes == Init => IInv
  <1> SUFFICES ASSUME Init PROVE IInv
    OBVIOUS
  <1>1. \A w \in Workers : call[w] = NoCall
    BY DEF Init
  <1>2. TypeOK
    <2>1. keyRow \in [Keys -> KeyRow]
      BY DEF Init, KeyRow
    <2>2. call \in [Workers -> Call]
      BY Texts DEF Init
    <2>3. started \in 0..MaxCalls /\ faults \in 0..MaxFaults
      BY BoundAssumption DEF Init
    <2> QED
      BY <2>1, <2>2, <2>3, Texts DEF Init, TypeOK
  <1>3. \A w \in Workers : Shape(call[w])
    BY <1>1, Texts DEF Shape, Holding
  <1>4. RacesAreNoted
    BY <1>1, Texts DEF RacesAreNoted, Holding
  <1>5. OneTmp
    BY <1>1, Texts DEF Init, OneTmp, HasTmp
  <1>6. FileLogged /\ KeysLogged
    BY Texts DEF Init, FileLogged, KeysLogged
  <1>7. \A w \in Workers : CallLogged(call[w], file, raced)
    BY <1>1, Texts DEF CallLogged, Lost, Holding
  <1> QED
    BY <1>2, <1>3, <1>4, <1>5, <1>6, <1>7 DEF IInv, Logged

-----------------------------------------------------------------------------
(* The calls an operation continues with. *)
LEMMA Endings ==
    ASSUME NEW c \in Call
    PROVE  /\ Raised(c) \in Call /\ Done(c) \in Call
           /\ Raised(c).pc \in {"idle", "fail"} /\ Raised(c).half = "change"
           /\ Done(c).pc \in {"idle", "mark"} /\ Done(c).half = "change"
           /\ Raised(c).pc = "idle" => Raised(c).k = NULL
           /\ Done(c).pc = "idle" => Done(c).k = NULL
           /\ Raised(c).pc = "fail" => Raised(c).k # NULL
           /\ Done(c).pc = "mark" => Done(c).k # NULL /\ Done(c).k = c.k
  BY DEF Raised, Done, NoCall, Call, Seeded, Text

LEMMA EndingsAreShaped ==
    ASSUME NEW c \in Call, c.pc \notin Holding, c.half = "change",
           c.pc = "idle" => c.k = NULL,
           c.pc \in {"mark", "fail"} => c.k # NULL
    PROVE  Shape(c) /\ Lost(c) = {}
  BY DEF Shape, Lost, Holding

(* A call may be replaced by one that holds no copy if what it has stored  *)
(* without an event is remembered.                                         *)
LEMMA CallEnds ==
    ASSUME IInv, NEW w \in Workers, NEW c \in Call,
           call' = [call EXCEPT ![w] = c], UNCHANGED <<raced, collided>>,
           file' \in Text, tmp' = <<>> \/ (Len(tmp') = 1 /\ tmp'[1] \in Text),
           ~ collided => file' = file /\ (HasTmp(w) \/ tmp' = tmp),
           keyRow' \in [Keys -> KeyRow], started' \in 0..MaxCalls, faults' \in 0..MaxFaults,
           unaudited \subseteq unaudited', unaudited' \subseteq Keys \union Accounts,
           Shape(c), c.pc \notin Holding, Lost(call[w]) \subseteq unaudited' \union Lost(c),
           ~ collided => CallLogged(c, file, raced),
           ~ collided => \A k \in Keys : keyRow'[k].state = "completed" =>
               keyRow[k].state = "completed" \/ k \in StoredIn(file) \union raced
    PROVE  IInv'
  <1>1. call'[w] = c /\ \A v \in Workers \ {w} : call'[v] = call[v]
    BY DEF IInv, TypeOK
  <1>2. TypeOK'
    BY DEF IInv, TypeOK
  <1>3. \A v \in Workers : Shape(call'[v])
    BY <1>1 DEF IInv
  <1>4. RacesAreNoted'
    BY <1>1 DEF IInv, RacesAreNoted
  <1>5. ASSUME ~ collided PROVE OneTmp' /\ Logged'
    <2>0. file' = file
      BY <1>5
    <2>1. OneTmp /\ Logged
      BY <1>5 DEF IInv
    <2>2. ~ HasTmp(w)' /\ \A v \in Workers \ {w} : HasTmp(v)' <=> HasTmp(v)
      BY <1>1 DEF HasTmp, Holding
    <2>3. OneTmp'
      BY <1>1, <1>5, <2>1, <2>2 DEF OneTmp, HasTmp
    <2>4. FileLogged'
      <3>1. ASSUME NEW x \in StoredIn(file) \ (file.events \union unaudited' \union raced)
            PROVE  \E v \in Workers : x \in Lost(call'[v])
        <4>1. PICK v \in Workers : x \in Lost(call[v])
          BY <2>1 DEF Logged, FileLogged
        <4> QED
          BY <1>1, <4>1
      <3> QED
        BY <2>0, <2>1, <3>1 DEF Logged, FileLogged
    <2>5. KeysLogged'
      BY <1>5, <2>0, <2>1 DEF Logged, KeysLogged
    <2>6. \A v \in Workers : CallLogged(call'[v], file', raced')
      BY <1>1, <1>5, <2>0, <2>1 DEF Logged
    <2> QED
      BY <2>3, <2>4, <2>5, <2>6 DEF Logged
  <1> QED
    BY <1>2, <1>3, <1>4, <1>5 DEF IInv

LEMMA Marking ==
    ASSUME TypeOK, NEW w \in Workers, NEW s \in {"completed", "failed"}, Marked(w, s)
    PROVE  /\ keyRow' \in [Keys -> KeyRow]
           /\ \A k \in Keys : keyRow'[k] = keyRow[k] \/ (k = call[w].k /\ keyRow'[k].state = s)
  BY DEF TypeOK, Marked, KeyRow

LEMMA AcquireKeeps ==
    ASSUME IInv, NEW w \in Workers, NEW k \in Keys, Acquire(w, k)
    PROVE  IInv'
  <1> DEFINE c == [NoCall EXCEPT !.pc = "read", !.k = k]
  <1>1. c \in Call /\ c.pc = "read" /\ c.half = "change"
    BY DEF NoCall, Call, Seeded, Text
  <1>2. Shape(c) /\ Lost(c) = {} /\ c.pc \notin Holding /\ c.pc # "mark"
    BY <1>1 DEF Shape, Lost, Holding
  <1>3. call' = [call EXCEPT ![w] = c] /\ call[w].pc = "idle"
    BY DEF Acquire, Starts, At
  <1> HIDE DEF c
  <1>4. keyRow' \in [Keys -> KeyRow] /\ keyRow'[k].state = "pending"
        /\ \A j \in Keys \ {k} : keyRow'[j] = keyRow[j]
    BY DEF IInv, TypeOK, KeyRow, Acquire
  <1>5. started' \in 0..MaxCalls /\ faults' \in 0..MaxFaults
    BY BoundAssumption DEF IInv, TypeOK, Acquire, Starts
  <1>6. CallLogged(c, file, raced)
    BY <1>2 DEF CallLogged
  <1>7. Lost(call[w]) = {}
    BY <1>3 DEF Lost
  <1>8. /\ UNCHANGED <<file, tmp, raced, collided, unaudited>>
        /\ file \in Text /\ (tmp = <<>> \/ (Len(tmp) = 1 /\ tmp[1] \in Text))
        /\ unaudited \subseteq Keys \union Accounts
    BY DEF IInv, TypeOK, Acquire
  <1> QED
    BY <1>1, <1>2, <1>3, <1>4, <1>5, <1>6, <1>7, <1>8, CallEnds

LEMMA AdvanceKeeps ==
    ASSUME IInv, NEW w \in Workers, Advance(w)
    PROVE  IInv'
  <1> DEFINE c == [call[w] EXCEPT !.pc = "read"]
  <1>1. c \in Call /\ c.pc = "read" /\ c.half = "change" /\ c.k = NULL
    BY DEF IInv, TypeOK, Call, Shape, Advance, Starts, At
  <1>2. Shape(c) /\ Lost(c) = {} /\ c.pc \notin Holding /\ c.pc # "mark"
    BY <1>1 DEF Shape, Lost, Holding
  <1>3. call' = [call EXCEPT ![w] = c] /\ call[w].pc = "idle"
    BY DEF Advance, Starts, At
  <1> HIDE DEF c
  <1>5. started' \in 0..MaxCalls /\ faults' \in 0..MaxFaults
    BY BoundAssumption DEF IInv, TypeOK, Advance, Starts
  <1>6. CallLogged(c, file, raced)
    BY <1>2 DEF CallLogged
  <1>7. Lost(call[w]) = {}
    BY <1>3 DEF Lost
  <1>8. /\ UNCHANGED <<keyRow, file, tmp, raced, collided, unaudited>>
        /\ keyRow \in [Keys -> KeyRow]
        /\ file \in Text /\ (tmp = <<>> \/ (Len(tmp) = 1 /\ tmp[1] \in Text))
        /\ unaudited \subseteq Keys \union Accounts
    BY DEF IInv, TypeOK, Advance
  <1> QED
    BY <1>1, <1>2, <1>3, <1>5, <1>6, <1>7, <1>8, CallEnds

LEMMA MarkKeeps ==
    ASSUME IInv, NEW w \in Workers, Mark(w) \/ MarkFailed(w)
    PROVE  IInv'
  <1>1. call' = [call EXCEPT ![w] = NoCall] /\ call[w].pc \in {"mark", "fail"}
    BY DEF Mark, MarkFailed, At
  <1>2. PICK s \in {"completed", "failed"} :
            Marked(w, s) /\ (s = "completed" => call[w].pc = "mark")
    BY DEF Mark, MarkFailed, At, FailureState
  <1>3. Shape(NoCall) /\ Lost(NoCall) = {} /\ NoCall.pc \notin Holding /\ NoCall.pc # "mark"
    BY Texts DEF Shape, Lost, Holding
  <1>4. keyRow' \in [Keys -> KeyRow]
        /\ \A k \in Keys : keyRow'[k] = keyRow[k] \/ (k = call[w].k /\ keyRow'[k].state = s)
    BY <1>2, Marking DEF IInv
  <1>5. ASSUME ~ collided, NEW k \in Keys, keyRow'[k].state = "completed"
        PROVE  keyRow[k].state = "completed" \/ k \in StoredIn(file) \union raced
    <2>1. CASE keyRow'[k] = keyRow[k]
      BY <1>5, <2>1
    <2>2. CASE k = call[w].k /\ s = "completed"
      BY <1>2, <1>5, <2>2 DEF IInv, Logged, CallLogged
    <2> QED
      BY <1>4, <1>5, <2>1, <2>2
  <1>6. CallLogged(NoCall, file, raced)
    BY <1>3 DEF CallLogged
  <1>7. Lost(call[w]) = {}
    BY <1>1 DEF Lost
  <1>8. /\ UNCHANGED <<file, tmp, faults, started, raced, collided, unaudited>>
        /\ file \in Text /\ (tmp = <<>> \/ (Len(tmp) = 1 /\ tmp[1] \in Text))
        /\ unaudited \subseteq Keys \union Accounts
        /\ started \in 0..MaxCalls /\ faults \in 0..MaxFaults
    BY DEF IInv, TypeOK, Mark, MarkFailed
  <1> QED
    BY <1>1, <1>3, <1>4, <1>5, <1>6, <1>7, <1>8, Texts, CallEnds

(* What an operation that raises had stored without its event is noted. *)
LEMMA RaisingNotes ==
    ASSUME IInv, NEW w \in Workers, Raise(w)
    PROVE  /\ unaudited \subseteq unaudited' /\ unaudited' \subseteq Keys \union Accounts
           /\ Lost(call[w]) \subseteq unaudited'
  BY DEF IInv, TypeOK, Call, Raise, Interrupted, Lost

LEMMA CrashKeeps ==
    ASSUME IInv, NEW w \in Workers, Crash(w)
    PROVE  IInv'
  <1>1. call' = [call EXCEPT ![w] = NoCall] /\ Raise(w)
    BY DEF Crash
  <1>2. Shape(NoCall) /\ Lost(NoCall) = {} /\ NoCall.pc \notin Holding /\ NoCall.pc # "mark"
    BY Texts DEF Shape, Lost, Holding
  <1>3. CallLogged(NoCall, file, raced)
    BY <1>2 DEF CallLogged
  <1>4. /\ UNCHANGED <<keyRow, file, tmp, raced, collided, started>>
        /\ keyRow \in [Keys -> KeyRow]
        /\ file \in Text /\ (tmp = <<>> \/ (Len(tmp) = 1 /\ tmp[1] \in Text))
        /\ started \in 0..MaxCalls /\ faults' \in 0..MaxFaults
    BY BoundAssumption DEF IInv, TypeOK, Crash, Fault
  <1> QED
    BY <1>1, <1>2, <1>3, <1>4, Texts, CallEnds, RaisingNotes

LEMMA ExpireLeaseKeeps ==
    ASSUME IInv, NEW k \in Keys, ExpireLease(k)
    PROVE  IInv'
  <1>1. keyRow' \in [Keys -> KeyRow] /\ \A j \in Keys : keyRow'[j].state = keyRow[j].state
    BY DEF IInv, TypeOK, KeyRow, ExpireLease
  <1>2. UNCHANGED <<file, tmp, call, raced, collided, unaudited, started>>
    BY DEF ExpireLease
  <1>3. faults' \in 0..MaxFaults
    BY BoundAssumption DEF IInv, TypeOK, ExpireLease, Fault
  <1>4. TypeOK'
    BY <1>1, <1>2, <1>3 DEF IInv, TypeOK
  <1>5. ~ collided => OneTmp' /\ Logged'
    BY <1>1, <1>2 DEF IInv, OneTmp, HasTmp, Logged, FileLogged, KeysLogged
  <1> QED
    BY <1>2, <1>4, <1>5 DEF IInv, RacesAreNoted

-----------------------------------------------------------------------------
(* The state file is read: a copy is made of it, which others may hold as  *)
(* well, and all of them are then noted.                                   *)
LEMMA CopyIsMade ==
    ASSUME IInv, NEW w \in Workers, call[w].pc = "read", file.state = "whole",
           NEW adds \in SUBSET (Keys \union Accounts), adds # {},
           call[w].k # NULL => adds = {call[w].k},
           NEW text \in Text, text.state = "whole",
           StartsWrite(w, adds, text),
           UNCHANGED <<keyRow, file, tmp, faults, collided, unaudited, started>>,
           StoredIn(file) \subseteq StoredIn(text), StoredIn(text) \subseteq StoredIn(file) \union adds,
           file.events \subseteq text.events, text.events \subseteq file.events \union adds,
           call[w].half = "change" => adds \subseteq StoredIn(text),
           call[w].half = "audit" => adds = call[w].adds /\ adds \subseteq text.events
    PROVE  IInv'
  <1> DEFINE c == [call[w] EXCEPT !.pc = "open", !.adds = adds, !.next = text]
  <1>1. /\ c \in Call /\ c.pc = "open" /\ c.adds = adds /\ c.next = text
        /\ c.half = call[w].half /\ c.k = call[w].k
    BY DEF IInv, TypeOK, Call
  <1>2. call' = [call EXCEPT ![w] = c]
    BY DEF StartsWrite, IInv, TypeOK
  <1> HIDE DEF c
  <1>3. call'[w] = c /\ \A v \in Workers \ {w} : call'[v] = call[v]
    BY <1>2 DEF IInv, TypeOK
  <1>4. raced \subseteq raced' /\ raced' \subseteq Keys \union Accounts
    BY DEF StartsWrite, IInv, TypeOK, Subject, Call, IsCommit
  <1>5. TypeOK'
    BY <1>1, <1>2, <1>4 DEF IInv, TypeOK
  <1>6. Shape(c)
    BY <1>1 DEF Shape, Holding
  <1>7. RacesAreNoted'
    <2>1. ASSUME NEW v \in Workers \ {w}, call[v].pc \in Holding
          PROVE  adds \subseteq raced' /\ call[v].adds \subseteq raced'
      <3>1. Holds(v)
        BY <2>1 DEF Holds, Holding
      <3>2. Subject(v) = call[v].adds
        BY <2>1 DEF IInv, Shape, Subject, IsCommit
      <3> QED
        BY <3>1, <3>2 DEF StartsWrite
    <2> QED
      BY <1>1, <1>3, <1>4, <2>1 DEF IInv, RacesAreNoted
  <1>8. ASSUME ~ collided PROVE OneTmp' /\ Logged'
    <2>1. OneTmp /\ Logged
      BY <1>8 DEF IInv
    <2>2. ~ HasTmp(w)' /\ \A v \in Workers \ {w} : HasTmp(v)' <=> HasTmp(v)
      BY <1>1, <1>3 DEF HasTmp
    <2>3. OneTmp'
      BY <1>1, <1>3, <2>1, <2>2 DEF OneTmp, HasTmp
    <2>4. Lost(c) = Lost(call[w])
      BY <1>1 DEF Lost, IInv, TypeOK, Call
    <2>5. FileLogged'
      <3>1. ASSUME NEW x \in StoredIn(file) \ (file.events \union unaudited \union raced')
            PROVE  \E v \in Workers : x \in Lost(call'[v])
        <4>1. PICK v \in Workers : x \in Lost(call[v])
          BY <1>4, <2>1 DEF Logged, FileLogged
        <4> QED
          BY <1>3, <2>4, <4>1
      <3> QED
        BY <1>4, <2>1, <3>1 DEF Logged, FileLogged
    <2>6. KeysLogged'
      BY <1>4, <2>1 DEF Logged, KeysLogged
    <2>7. Near(c, file, raced')
      BY <1>1 DEF Near, IInv, TypeOK, Call
    <2>8. CallLogged(c, file, raced')
      BY <1>1, <1>4, <2>1, <2>4, <2>7 DEF Logged, CallLogged
    <2>9. ASSUME NEW v \in Workers \ {w} PROVE CallLogged(call[v], file, raced')
      BY <1>4, <2>1, CallLogged(call[v], file, raced) DEF Logged, CallLogged, Near
    <2> QED
      BY <1>3, <2>3, <2>5, <2>6, <2>8, <2>9 DEF Logged
  <1> QED
    BY <1>3, <1>5, <1>6, <1>7, <1>8 DEF IInv

LEMMA ReadKeeps ==
    ASSUME IInv, NEW w \in Workers, Read(w)
    PROVE  IInv'
  <1>1. /\ call[w].pc = "read" /\ call[w] \in Call /\ file \in Text
        /\ UNCHANGED <<keyRow, file, tmp, faults, collided, started>>
        /\ keyRow \in [Keys -> KeyRow]
        /\ tmp = <<>> \/ (Len(tmp) = 1 /\ tmp[1] \in Text)
        /\ started \in 0..MaxCalls /\ faults \in 0..MaxFaults
        /\ unaudited \subseteq Keys \union Accounts
    BY DEF Read, At, IInv, TypeOK
  <1>2. CASE file.state # "whole"
    <2> DEFINE c == Raised(call[w])
    <2>1. c \in Call /\ c.pc \in {"idle", "fail"} /\ Shape(c) /\ Lost(c) = {}
      BY <1>1, Endings, EndingsAreShaped DEF Holding
    <2>2. call' = [call EXCEPT ![w] = c] /\ Raise(w) /\ UNCHANGED raced
      BY <1>2 DEF Read
    <2> HIDE DEF c
    <2>3. CallLogged(c, file, raced) /\ c.pc \notin Holding
      BY <2>1 DEF CallLogged, Holding
    <2> QED
      BY <1>1, <2>1, <2>2, <2>3, RaisingNotes, CallEnds
  <1>3. CASE file.state = "whole" /\ call[w].half = "audit"
    <2> DEFINE adds == call[w].adds  text == Audited(adds)
    <2>1. StartsWrite(w, adds, text) /\ UNCHANGED unaudited
      BY <1>3 DEF Read
    <2>2. adds \in SUBSET (Keys \union Accounts) /\ adds # {}
          /\ (call[w].k # NULL => adds = {call[w].k})
      BY <1>1, <1>3 DEF IInv, Shape, Call
    <2>3. /\ text \in Text /\ text.state = "whole" /\ StoredIn(text) = StoredIn(file)
          /\ text.events = file.events \union adds
      BY <1>1, <1>3, <2>2 DEF Audited, Text, StoredIn
    <2> HIDE DEF adds, text
    <2>4. adds = call[w].adds
      BY DEF adds
    <2> QED
      BY <1>1, <1>3, <2>1, <2>2, <2>3, <2>4, CopyIsMade
  <1>4. CASE file.state = "whole" /\ call[w].half = "change" /\ ToAdd(w) # {}
    <2> DEFINE adds == ToAdd(w)  text == Changed(w, adds)
    <2>1. StartsWrite(w, adds, text) /\ UNCHANGED unaudited
      BY <1>4 DEF Read
    <2>2. adds \in SUBSET (Keys \union Accounts) /\ adds # {}
          /\ (call[w].k # NULL => adds = {call[w].k})
      BY <1>1, <1>4, KeysAssumption, OutboxAssumption DEF ToAdd, IsCommit, Reached, Call, Text
    <2> HIDE DEF adds
    <2>3. /\ text \in Text /\ text.state = "whole"
          /\ text.activities = file.activities \union (adds \intersect Keys)
          /\ text.completions = file.completions \union (adds \intersect Accounts)
          /\ text.events = file.events
      BY <1>1, <1>4, <2>2 DEF Changed, Text
    <2> HIDE DEF text
    <2>4. StoredIn(text) = StoredIn(file) \union adds
      BY <2>2, <2>3 DEF StoredIn
    <2> QED
      BY <1>1, <1>4, <2>1, <2>2, <2>3, <2>4, CopyIsMade
  <1>5. CASE file.state = "whole" /\ call[w].half = "change" /\ ToAdd(w) = {}
    <2> DEFINE c == Done(call[w])
    <2>1. /\ c \in Call /\ c.pc \in {"idle", "mark"} /\ Shape(c) /\ Lost(c) = {}
          /\ c.pc = "mark" => c.k # NULL /\ c.k = call[w].k
      BY <1>1, Endings, EndingsAreShaped DEF Holding
    <2>2. call' = [call EXCEPT ![w] = c] /\ UNCHANGED <<unaudited, raced>>
      BY <1>5 DEF Read
    <2> HIDE DEF c
    <2>3. CallLogged(c, file, raced) /\ c.pc \notin Holding
      BY <1>5, <2>1 DEF CallLogged, Holding, ToAdd, IsCommit, StoredIn
    <2>4. Lost(call[w]) = {}
      BY <1>5 DEF Lost
    <2> QED
      BY <1>1, <2>1, <2>2, <2>3, <2>4, CallEnds
  <1> QED
    BY <1>1, <1>2, <1>3, <1>4, <1>5 DEF Call

-----------------------------------------------------------------------------
(* The copy is put into the temporary file. *)
LEMMA CopyMoves ==
    ASSUME IInv, NEW w \in Workers, NEW c \in Call, call' = [call EXCEPT ![w] = c],
           call[w].pc \in Holding, c.pc \in Holding, c.pc = "write" => c.fd # "none",
           c.k = call[w].k, c.half = call[w].half, c.adds = call[w].adds, c.next = call[w].next,
           UNCHANGED <<keyRow, faults, raced, unaudited, started>>,
           TypeOK', ~ collided' => ~ collided /\ file' = file /\ OneTmp'
    PROVE  IInv'
  <1>1. call'[w] = c /\ \A v \in Workers \ {w} : call'[v] = call[v]
    BY DEF IInv, TypeOK
  <1>2. Shape(c)
    BY DEF IInv, Shape, Holding
  <1>3. Lost(c) = Lost(call[w])
    BY DEF Lost, Holding
  <1>4. RacesAreNoted'
    BY <1>1 DEF IInv, RacesAreNoted
  <1>5. ASSUME ~ collided' PROVE Logged'
    <2>1. Logged /\ file' = file
      BY <1>5 DEF IInv
    <2>2. FileLogged'
      BY <1>1, <1>3, <2>1 DEF Logged, FileLogged
    <2>3. CallLogged(c, file, raced)
      BY <1>3, <2>1, CallLogged(call[w], file, raced) DEF Logged, CallLogged, Near, Holding
    <2> QED
      BY <1>1, <2>1, <2>2, <2>3 DEF Logged, KeysLogged
  <1> QED
    BY <1>1, <1>2, <1>4, <1>5 DEF IInv

LEMMA OpenKeeps ==
    ASSUME IInv, NEW w \in Workers, Open(w)
    PROVE  IInv'
  <1> DEFINE c == [call[w] EXCEPT !.pc = "write", !.fd = "tmp"]
  <1>1. /\ c \in Call /\ c.pc = "write" /\ c.fd = "tmp" /\ call[w].pc = "open"
        /\ c.k = call[w].k /\ c.half = call[w].half /\ c.adds = call[w].adds
        /\ c.next = call[w].next
    BY DEF IInv, TypeOK, Call, Open, At
  <1>2. call' = [call EXCEPT ![w] = c] /\ tmp' = <<Truncated>> /\ UNCHANGED file
    BY DEF Open, OpensTmp, IInv, TypeOK
  <1> HIDE DEF c
  <1>3. call'[w] = c /\ \A v \in Workers \ {w} : call'[v] = call[v]
    BY <1>2 DEF IInv, TypeOK
  <1>4. UNCHANGED <<keyRow, faults, raced, unaudited, started>> /\ collided' \in BOOLEAN
    BY DEF Open
  <1>5. TypeOK'
    BY <1>1, <1>2, <1>4, Texts DEF IInv, TypeOK
  <1>6. ASSUME ~ collided' PROVE ~ collided /\ OneTmp'
    <2>1. ~ collided /\ \A v \in Workers \ {w} : ~ HasTmp(v)
      BY <1>6 DEF Open
    <2>2. \A v \in Workers \ {w} : call'[v].pc \notin {"write", "rename"}
      BY <1>3, <2>1 DEF HasTmp
    <2> QED
      BY <1>1, <1>2, <1>3, <2>1, <2>2 DEF IInv, OneTmp, HasTmp
  <1> QED
    BY <1>1, <1>2, <1>4, <1>5, <1>6, CopyMoves DEF Holding

(* What a write leaves: texts, and the copy itself in the temporary file   *)
(* unless two operations met there.                                        *)
LEMMA Putting ==
    ASSUME IInv, NEW w \in Workers, NEW fails \in BOOLEAN, call[w].pc = "write", Puts(w, fails)
    PROVE  /\ file' \in Text
           /\ tmp' = <<>> \/ (Len(tmp') = 1 /\ tmp'[1] \in Text)
           /\ ~ collided => file' = file /\ (~ fails => tmp' = <<call[w].next>>)
  <1>1. /\ call[w].fd \in {"tmp", "file", "unlinked"} /\ call[w].next \in Text /\ file \in Text
        /\ tmp = <<>> \/ (Len(tmp) = 1 /\ tmp[1] \in Text)
    BY DEF IInv, TypeOK, Call, Shape
  <1>2. \A old : Results(w, old, fails) \subseteq Text
    BY <1>1, Texts DEF Results, Over
  <1>3. CASE call[w].fd = "tmp"
    <2>1. UNCHANGED file /\ \E t \in Results(w, tmp[1], fails) : tmp' = <<t>>
      BY <1>3 DEF Puts
    <2>2. ~ collided /\ ~ fails => Results(w, tmp[1], fails) = {call[w].next}
      BY Texts DEF IInv, OneTmp, Results, Over, Truncated, Seeded
    <2> QED
      BY <1>1, <1>2, <2>1, <2>2
  <1>4. CASE call[w].fd = "file"
    <2>1. file' \in Results(w, file, fails) /\ UNCHANGED tmp
      BY <1>4 DEF Puts
    <2>2. collided
      BY <1>4 DEF IInv, OneTmp
    <2> QED
      BY <1>1, <1>2, <2>1, <2>2
  <1>5. CASE call[w].fd = "unlinked"
    <2>1. UNCHANGED <<file, tmp>>
      BY <1>5 DEF Puts
    <2>2. collided
      BY <1>5 DEF IInv, OneTmp
    <2> QED
      BY <1>1, <2>1, <2>2
  <1> QED
    BY <1>1, <1>3, <1>4, <1>5

LEMMA WriteKeeps ==
    ASSUME IInv, NEW w \in Workers, Write(w)
    PROVE  IInv'
  <1> DEFINE c == [call[w] EXCEPT !.pc = "rename", !.fd = "none"]
  <1>1. /\ c \in Call /\ c.pc = "rename" /\ call[w].pc = "write"
        /\ c.k = call[w].k /\ c.half = call[w].half /\ c.adds = call[w].adds
        /\ c.next = call[w].next
    BY DEF IInv, TypeOK, Call, Write, At
  <1>2. call' = [call EXCEPT ![w] = c] /\ Puts(w, FALSE)
        /\ UNCHANGED <<keyRow, faults, raced, collided, unaudited, started>>
    BY DEF Write, IInv, TypeOK
  <1> HIDE DEF c
  <1>3. call'[w] = c /\ \A v \in Workers \ {w} : call'[v] = call[v]
    BY <1>2 DEF IInv, TypeOK
  <1>4. /\ file' \in Text
        /\ tmp' = <<>> \/ (Len(tmp') = 1 /\ tmp'[1] \in Text)
        /\ ~ collided => file' = file /\ tmp' = <<call[w].next>>
    BY <1>1, <1>2, Putting
  <1>5. TypeOK'
    BY <1>1, <1>2, <1>4 DEF IInv, TypeOK
  <1>6. ASSUME ~ collided PROVE OneTmp'
    <2>1. OneTmp
      BY <1>6 DEF IInv
    <2>2. \A v \in Workers \ {w} : call[v].pc \notin {"write", "rename"}
      BY <1>1, <2>1 DEF OneTmp, HasTmp
    <2> QED
      BY <1>1, <1>3, <1>4, <1>6, <2>1, <2>2 DEF OneTmp, HasTmp
  <1> QED
    BY <1>1, <1>2, <1>4, <1>5, <1>6, CopyMoves DEF Holding

LEMMA WriteFailsKeeps ==
    ASSUME IInv, NEW w \in Workers, WriteFails(w)
    PROVE  IInv'
  <1> DEFINE c == Raised(call[w])
  <1>1. call[w].pc = "write" /\ call[w] \in Call
    BY DEF WriteFails, At, IInv, TypeOK
  <1>2. c \in Call /\ c.pc \in {"idle", "fail"} /\ Shape(c) /\ Lost(c) = {}
    BY <1>1, Endings, EndingsAreShaped DEF Holding
  <1>3. /\ call' = [call EXCEPT ![w] = c] /\ Raise(w) /\ Puts(w, TRUE)
        /\ UNCHANGED <<keyRow, raced, collided, started>>
    BY DEF WriteFails
  <1> HIDE DEF c
  <1>4. CallLogged(c, file, raced) /\ c.pc \notin Holding
    BY <1>2 DEF CallLogged, Holding
  <1>5. /\ file' \in Text
        /\ tmp' = <<>> \/ (Len(tmp') = 1 /\ tmp'[1] \in Text)
        /\ ~ collided => file' = file
    BY <1>1, <1>3, Putting
  <1>6. HasTmp(w) /\ faults' \in 0..MaxFaults
    BY <1>1, BoundAssumption DEF HasTmp, IInv, TypeOK, WriteFails, Fault
  <1>7. keyRow \in [Keys -> KeyRow] /\ started \in 0..MaxCalls
    BY DEF IInv, TypeOK
  <1> QED
    BY <1>2, <1>3, <1>4, <1>5, <1>6, <1>7, RaisingNotes, CallEnds

-----------------------------------------------------------------------------
(* The rename replaces the file by the only copy, or by one of those that  *)
(* raced.                                                                  *)
LEMMA AfterRenames ==
    ASSUME NEW c \in Call, c.pc = "rename", Shape(c)
    PROVE  /\ AfterRename(c) \in Call /\ Shape(AfterRename(c))
           /\ AfterRename(c).pc \in {"idle", "mark", "read"}
           /\ c.half = "change" => Lost(AfterRename(c)) = c.adds /\ AfterRename(c).pc = "read"
           /\ c.half = "audit" => Lost(AfterRename(c)) = {}
           /\ AfterRename(c).pc = "mark" => AfterRename(c).k = c.k /\ c.k # NULL
  <1>1. CASE c.half = "change"
    <2> DEFINE d == [NoCall EXCEPT !.pc = "read", !.k = c.k, !.half = "audit", !.adds = c.adds]
    <2>1. /\ d \in Call /\ d.pc = "read" /\ d.half = "audit" /\ d.k = c.k /\ d.adds = c.adds
      BY DEF NoCall, Call, Seeded, Text
    <2> HIDE DEF d
    <2>2. Shape(d) /\ Lost(d) = c.adds
      BY <2>1 DEF Shape, Holding, Lost
    <2>3. AfterRename(c) = d
      BY <1>1 DEF AfterRename, d
    <2> QED
      BY <1>1, <2>1, <2>2, <2>3
  <1>2. CASE c.half = "audit"
    <2>1. AfterRename(c) = Done(c)
      BY <1>2 DEF AfterRename
    <2>2. Shape(Done(c)) /\ Lost(Done(c)) = {}
      BY Endings, EndingsAreShaped DEF Holding
    <2> QED
      BY <1>2, <2>1, <2>2, Endings
  <1> QED
    BY <1>1, <1>2 DEF Call

LEMMA MovedKeeps ==
    ASSUME NEW c \in Call
    PROVE  LET d == [c EXCEPT !.fd = Moved(@)]
           IN  /\ d \in Call /\ Lost(d) = Lost(c)
               /\ Shape(c) => Shape(d)
               /\ d.pc = c.pc /\ d.k = c.k /\ d.adds = c.adds /\ d.half = c.half /\ d.next = c.next
  <1> DEFINE d == [c EXCEPT !.fd = Moved(@)]
  <1>1. Moved(c.fd) \in {"none", "tmp", "file", "unlinked"} /\ (c.fd # "none" => Moved(c.fd) # "none")
    BY DEF Moved, Call
  <1>2. /\ d \in Call /\ d.fd = Moved(c.fd)
        /\ d.pc = c.pc /\ d.k = c.k /\ d.adds = c.adds /\ d.half = c.half /\ d.next = c.next
    BY <1>1 DEF Call
  <1> HIDE DEF d
  <1>3. Lost(d) = Lost(c) /\ (Shape(c) => Shape(d))
    BY <1>1, <1>2 DEF Lost, Shape, Holding
  <1> QED
    BY <1>2, <1>3 DEF d

LEMMA RenameKeeps ==
    ASSUME IInv, NEW w \in Workers, Rename(w)
    PROVE  IInv'
  <1>1. call[w].pc = "rename" /\ call \in [Workers -> Call] /\ Shape(call[w])
        /\ UNCHANGED <<keyRow, faults, raced, collided, started>>
    BY DEF Rename, At, IInv, TypeOK
  <1>2. CASE tmp = <<>>
    <2> DEFINE c == Raised(call[w])
    <2>1. c \in Call /\ c.pc \in {"idle", "fail"} /\ Shape(c) /\ Lost(c) = {}
      BY <1>1, Endings, EndingsAreShaped DEF Holding
    <2>2. call' = [call EXCEPT ![w] = c] /\ Raise(w) /\ UNCHANGED <<file, tmp>>
      BY <1>2 DEF Rename
    <2> HIDE DEF c
    <2>3. CallLogged(c, file, raced) /\ c.pc \notin Holding
      BY <2>1 DEF CallLogged, Holding
    <2>4. /\ keyRow \in [Keys -> KeyRow] /\ file \in Text
          /\ started \in 0..MaxCalls /\ faults \in 0..MaxFaults
      BY DEF IInv, TypeOK
    <2> QED
      BY <1>1, <1>2, <2>1, <2>2, <2>3, <2>4, RaisingNotes, CallEnds
  <1>3. CASE tmp # <<>>
    <2>1. file' = tmp[1] /\ tmp[1] \in Text /\ tmp' = <<>> /\ UNCHANGED unaudited
      BY <1>3 DEF Rename, IInv, TypeOK
    <2>2. call' = [v \in Workers |-> IF v = w THEN AfterRename(call[v])
                                             ELSE [call[v] EXCEPT !.fd = Moved(@)]]
      BY <1>3 DEF Rename
    <2>3. PICK c \in Call : c = call[w]
      BY <1>1
    <2>4. PICK d \in Call : d = AfterRename(c)
      BY <1>1, <2>3, AfterRenames
    <2>5. /\ Shape(d) /\ d.pc \in {"idle", "mark", "read"}
          /\ c.half = "change" => Lost(d) = c.adds /\ d.pc = "read"
          /\ c.half = "audit" => Lost(d) = {}
          /\ d.pc = "mark" => d.k = c.k /\ c.k # NULL
      BY <1>1, <2>3, <2>4, AfterRenames
    <2>6. call'[w] = d
      BY <2>2, <2>3, <2>4
    <2>7. ASSUME NEW v \in Workers \ {w}
          PROVE  /\ call'[v] \in Call /\ Lost(call'[v]) = Lost(call[v]) /\ Shape(call'[v])
                 /\ call'[v].pc = call[v].pc /\ call'[v].k = call[v].k
                 /\ call'[v].adds = call[v].adds /\ call'[v].half = call[v].half
                 /\ call'[v].next = call[v].next
      <3>1. call'[v] = [call[v] EXCEPT !.fd = Moved(@)]
        BY <2>2
      <3>2. call[v] \in Call /\ Shape(call[v])
        BY <1>1 DEF IInv
      <3> QED
        BY <3>1, <3>2, MovedKeeps
    <2>8. call' \in [Workers -> Call]
      BY <2>2, <2>6, <2>7
    <2>9. TypeOK'
      BY <1>1, <2>1, <2>8 DEF IInv, TypeOK
    <2>10. RacesAreNoted'
      BY <1>1, <2>5, <2>6, <2>7 DEF IInv, RacesAreNoted, Holding
    <2>11. ASSUME ~ collided PROVE OneTmp' /\ Logged'
      <3> DEFINE n == c.next
      <3>1. OneTmp /\ Logged
        BY <2>11 DEF IInv
      <3>2. file' = n /\ n.state = "whole"
        BY <1>1, <2>1, <2>3, <3>1 DEF OneTmp, Shape, Holding
      <3>3. Near(c, file, raced) /\ CallLogged(c, file, raced)
        BY <1>1, <2>3, <3>1 DEF Logged, CallLogged, Holding
      <3>4. /\ StoredIn(file) \subseteq StoredIn(n) \union raced
            /\ StoredIn(n) \subseteq StoredIn(file) \union c.adds \union raced
            /\ file.events \subseteq n.events \union raced
            /\ n.events \subseteq file.events \union c.adds \union raced
            /\ c.half = "change" => c.adds \subseteq StoredIn(n)
            /\ c.half = "audit" => c.adds \subseteq n.events
                                   /\ c.adds \subseteq StoredIn(file) \union raced
        BY <1>1, <2>3, <3>3 DEF Near, CallLogged, Lost
      <3> HIDE DEF n
      <3>5. c.half \in {"change", "audit"}
        BY DEF Call
      <3>6. OneTmp'
        <4>1. \A v \in Workers \ {w} : call'[v].pc \notin {"write", "rename"}
          BY <1>1, <2>7, <3>1 DEF OneTmp, HasTmp
        <4> QED
          BY <2>5, <2>6, <3>2, <4>1 DEF OneTmp, HasTmp
      <3>7. FileLogged'
        <4>1. ASSUME NEW x \in StoredIn(n) \ (n.events \union unaudited \union raced)
              PROVE  \E v \in Workers : x \in Lost(call'[v])
          <5>1. CASE x \in c.adds
            BY <2>5, <2>6, <3>4, <3>5, <4>1, <5>1
          <5>2. CASE x \notin c.adds
            <6>1. x \in StoredIn(file) \ (file.events \union unaudited \union raced)
              BY <3>4, <4>1, <5>2
            <6>2. PICK v \in Workers : x \in Lost(call[v])
              BY <3>1, <6>1 DEF Logged, FileLogged
            <6>3. v # w
              BY <2>3, <5>2, <6>2 DEF Lost
            <6> QED
              BY <2>7, <6>2, <6>3
          <5> QED
            BY <5>1, <5>2
        <4>2. n.events \subseteq StoredIn(n) \union raced
          BY <3>1, <3>4, <3>5 DEF Logged, FileLogged
        <4> QED
          BY <1>1, <2>1, <3>2, <4>1, <4>2 DEF FileLogged
      <3>8. KeysLogged'
        BY <1>1, <3>1, <3>2, <3>4 DEF Logged, KeysLogged
      <3>9. CallLogged(d, n, raced)
        <4>1. d.pc \notin Holding
          BY <2>5 DEF Holding
        <4>2. Lost(d) \subseteq StoredIn(n) \union raced
          BY <2>5, <3>4, <3>5
        <4>3. d.pc = "mark" => d.k \in StoredIn(n) \union raced
          <5>1. d.pc = "mark" => c.half = "audit" /\ c.adds = {d.k}
            BY <1>1, <2>3, <2>5, <3>5 DEF Shape, Holding
          <5> QED
            BY <3>4, <5>1
        <4> QED
          BY <4>1, <4>2, <4>3 DEF CallLogged
      <3>10. ASSUME NEW v \in Workers \ {w} PROVE CallLogged(call'[v], n, raced)
        <4>1. PICK e \in Call : e = call[v]
          BY <1>1
        <4>2. CallLogged(e, file, raced)
          BY <3>1, <4>1 DEF Logged
        <4>3. e.pc \in Holding => c.adds \subseteq raced /\ e.adds \subseteq raced
          BY <1>1, <2>3, <4>1 DEF IInv, RacesAreNoted, Holding
        <4>4. CallLogged(e, n, raced)
          BY <3>4, <4>2, <4>3 DEF CallLogged, Near
        <4> QED
          BY <2>7, <4>1, <4>4 DEF CallLogged, Near
      <3> QED
        BY <1>1, <2>6, <3>2, <3>6, <3>7, <3>8, <3>9, <3>10 DEF Logged
    <2> QED
      BY <1>1, <2>5, <2>6, <2>7, <2>9, <2>10, <2>11 DEF IInv
  <1> QED
    BY <1>2, <1>3

-----------------------------------------------------------------------------
LEMMA StepKeeps == IInv /\ [Next]_vars => IInv'
  <1> SUFFICES ASSUME IInv, [Next]_vars PROVE IInv'
    OBVIOUS
  <1>1. CASE UNCHANGED vars
    BY <1>1 DEF vars, IInv, TypeOK, RacesAreNoted, OneTmp, HasTmp, Logged, FileLogged, KeysLogged
  <1>2. ASSUME NEW w \in Workers, NEW k \in Keys, Acquire(w, k) PROVE IInv'
    BY <1>2, AcquireKeeps
  <1>3. ASSUME NEW w \in Workers, Advance(w) PROVE IInv'
    BY <1>3, AdvanceKeeps
  <1>4. ASSUME NEW w \in Workers, Read(w) PROVE IInv'
    BY <1>4, ReadKeeps
  <1>5. ASSUME NEW w \in Workers, Open(w) PROVE IInv'
    BY <1>5, OpenKeeps
  <1>6. ASSUME NEW w \in Workers, Write(w) PROVE IInv'
    BY <1>6, WriteKeeps
  <1>7. ASSUME NEW w \in Workers, Rename(w) PROVE IInv'
    BY <1>7, RenameKeeps
  <1>8. ASSUME NEW w \in Workers, Mark(w) \/ MarkFailed(w) PROVE IInv'
    BY <1>8, MarkKeeps
  <1>9. ASSUME NEW w \in Workers, Crash(w) PROVE IInv'
    BY <1>9, CrashKeeps
  <1>10. ASSUME NEW w \in Workers, WriteFails(w) PROVE IInv'
    BY <1>10, WriteFailsKeeps
  <1>11. ASSUME NEW k \in Keys, ExpireLease(k) PROVE IInv'
    BY <1>11, ExpireLeaseKeeps
  <1> QED
    BY <1>1, <1>2, <1>3, <1>4, <1>5, <1>6, <1>7, <1>8, <1>9, <1>10, <1>11 DEF Next

(* Leases, copies, the temporary file and what was noted of races fit      *)
(* together in every reachable state, for any keys and processes.          *)
THEOREM Invariance == Spec => []IInv
  BY InitEstablishes, StepKeeps, PTL DEF Spec

(* The state file stays readable until two operations have had the         *)
(* temporary file in use at once (sim_tenant.py:188).                      *)
THEOREM FileStaysWhole == Spec => []WholeUnlessCollided
  <1>1. IInv => WholeUnlessCollided
    BY DEF IInv, OneTmp, WholeUnlessCollided
  <1> QED
    BY <1>1, Invariance, PTL

(* A completed key's activity is in the file, unless its own copy raced    *)
(* with another (committers.py:284).                                       *)
THEOREM CompletionIsLogged == Spec => []CompletedIsLogged
  <1>1. IInv => CompletedIsLogged
    <2> SUFFICES ASSUME IInv, ~ collided, NEW k \in Completed \ raced PROVE k \in file.activities
      BY DEF CompletedIsLogged
    <2>1. k \in Keys /\ k \in StoredIn(file)
      BY DEF IInv, Logged, KeysLogged, Completed
    <2> QED
      BY <2>1, KeysAssumption DEF StoredIn, IInv, TypeOK, Text
  <1> QED
    BY <1>1, Invariance, PTL

(* Contents and audit events of the file agree, but for operations between *)
(* their two writes, interrupted there, or racing (sim_tenant.py:136).     *)
THEOREM EventsAgree == Spec => []EventsMatch
  <1>1. IInv => EventsMatch
    <2> SUFFICES ASSUME IInv, ~ collided
                 PROVE  /\ Stored \ (file.events \union BetweenWrites \union unaudited) \subseteq raced
                        /\ file.events \ Stored \subseteq raced
      BY DEF EventsMatch
    <2>1. FileLogged /\ Stored = StoredIn(file)
      BY DEF IInv, Logged, Stored, StoredIn
    <2>2. \A w \in Workers : Lost(call[w]) \subseteq BetweenWrites
      BY DEF BetweenWrites, Interrupted, Lost
    <2> QED
      BY <2>1, <2>2 DEF FileLogged
  <1> QED
    BY <1>1, Invariance, PTL

(* As long as nothing collided, only renames change the file. *)
LEMMA OnlyRenamesReplace ==
    ASSUME IInv, [Next]_vars, ~ collided, file' # file
    PROVE  \E w \in Workers : Rename(w)
  <1>1. ASSUME NEW w \in Workers, Write(w) \/ WriteFails(w) PROVE file' = file
    <2>1. PICK fails \in BOOLEAN : call[w].pc = "write" /\ Puts(w, fails)
      BY <1>1 DEF Write, WriteFails, At
    <2> QED
      BY <2>1, Putting
  <1> QED
    BY <1>1 DEF Next, vars, Acquire, Advance, Read, Open, OpensTmp, Mark, MarkFailed, Crash,
                ExpireLease

(* While nothing has raced or collided, the file is replaced by what holds *)
(* all it held (sim_tenant.py:121).                                        *)
THEOREM NothingIsTakenBack == Spec => NothingTakenBack
  <1>1. IInv /\ [Next]_vars => [raced' = {} /\ ~ collided' => Grows(file, file')]_vars
    <2> SUFFICES ASSUME IInv, [Next]_vars, raced' = {}, ~ collided' PROVE Grows(file, file')
      OBVIOUS
    <2>1. ~ collided
      BY DEF Next, vars, Acquire, Advance, Read, Open, Write, Rename, Mark, MarkFailed, Crash,
             WriteFails, ExpireLease
    <2>2. CASE file' = file
      BY <2>2 DEF Grows
    <2>3. ASSUME NEW w \in Workers, Rename(w) PROVE Grows(file, file')
      <3>1. /\ call[w].pc = "rename" /\ tmp = <<call[w].next>> /\ file' = tmp[1] /\ raced = {}
            /\ call[w].next \in Text /\ file \in Text
        BY <2>1, <2>3 DEF Rename, At, IInv, OneTmp, TypeOK, Call
      <3>2. Near(call[w], file, {})
        BY <2>1, <3>1 DEF IInv, Logged, CallLogged, Holding
      <3> QED
        BY <3>1, <3>2, KeysAssumption DEF Near, StoredIn, Text, Grows
    <2> QED
      BY <2>1, <2>2, <2>3, OnlyRenamesReplace
  <1> QED
    BY <1>1, Invariance, PTL DEF Spec, NothingTakenBack
=============================================================================

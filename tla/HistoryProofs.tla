----------------------------- MODULE HistoryProofs -----------------------------
(***************************************************************************)
(* Ids mean the same for ever, a polling page skips no row, and the        *)
(* details of a session are of one connection, whatever the size of the    *)
(* answers, the number of exchanges and the set of connections.            *)
(***************************************************************************)
EXTENDS History, FiniteSetTheorems, WellFoundedInduction, TLAPS

-----------------------------------------------------------------------------
(* Sets of ids.                                                            *)

\* Every set of ids that is not empty has a least element.
LEMMA LeastId ==
  ASSUME NEW S \in SUBSET Nat, S # {}
  PROVE  Min(S) \in S /\ \A i \in S : Min(S) <= i
  <1>. DEFINE R == {p \in Nat \X Nat : p[1] < p[2]}
  <1>1. IsWellFoundedOn(R, Nat)
    BY NatLessThanWellFounded DEF OpToRel
  <1>2. \E m \in S : \A i \in S : ~(<<i, m>> \in R)
    BY <1>1, WFMin
  <1>3. PICK m \in S : \A i \in S : ~(<<i, m>> \in R)
    BY <1>2
  <1>4. ASSUME NEW i \in S PROVE m <= i
    <2>1. i \in Nat /\ m \in Nat
      OBVIOUS
    <2>2. <<i, m>> \in Nat \X Nat /\ <<i, m>>[1] = i /\ <<i, m>>[2] = m
      BY <2>1
    <2>3. ~(i < m)
      BY <1>3, <2>2
    <2>. QED
      BY <2>1, <2>3
  <1>. QED
    BY <1>4 DEF Min

\* ... and, if it is bounded, a greatest one.
LEMMA GreatestId ==
  ASSUME NEW n \in Nat, NEW S \in SUBSET (0..n), S # {}
  PROVE  Max(S) \in S /\ \A i \in S : Max(S) >= i
  <1>. DEFINE T == {n - i : i \in S}
  <1>1. T \in SUBSET Nat /\ T # {}
    <2>1. \A i \in S : i \in 0..n
      OBVIOUS
    <2>2. \A i \in S : n - i \in Nat
      BY <2>1
    <2>. QED
      BY <2>2
  <1>2. PICK d \in T : \A e \in T : d <= e
    BY <1>1, LeastId
  <1>3. PICK m \in S : d = n - m
    OBVIOUS
  <1>4. ASSUME NEW i \in S PROVE m >= i
    <2>1. n - m <= n - i
      BY <1>2, <1>3
    <2>2. i \in 0..n /\ m \in 0..n
      OBVIOUS
    <2>. QED
      BY <2>1, <2>2
  <1>. QED
    BY <1>4 DEF Max

-----------------------------------------------------------------------------
(* Sessions.  That a tab gets chunks of one connection follows from what   *)
(* an id says: it is 0, or the one of the row that the connection itself   *)
(* has inserted, and chunks and closing updates are under such ids only.   *)

ConnsAt ==
  \A c \in Conns : conn[c].id # 0 => conn[c].id \in Ids /\ sessions[conn[c].id].of = c

RowsAt ==
  \A i \in Ids : /\ sessions[i] \in [of : Conns, source : Sources, closed : SUBSET Conns]
                 /\ sessions[i].source = Source[sessions[i].of]
                 /\ sessions[i].closed \subseteq {sessions[i].of}

ChunksAt ==
  \A k \in chunks : k.session # 0 => k.session \in Ids /\ sessions[k.session].of = k.of

SessionsInv ==
  /\ conn \in [Conns -> [pc : {"none", "failed", "open", "closed"}, id : Nat]]
  /\ \E n \in Nat : Ids = 1..n
  /\ ConnsAt /\ RowsAt /\ ChunksAt

LEMMA SessionsInitInv == SessionsInit => SessionsInv
  <1>. SUFFICES ASSUME SessionsInit PROVE SessionsInv
    OBVIOUS
  <1>1. Ids = {}
    BY DEF SessionsInit, Ids
  <1>2. Ids = 1..0
    BY <1>1
  <1>. QED
    BY <1>1, <1>2 DEF SessionsInit, SessionsInv, ConnsAt, RowsAt, ChunksAt

\* A new row is after all others, and is of the connection that gets its id.
LEMMA OpenSessionInv ==
  ASSUME SessionsInv, NEW c \in Conns, OpenSession(c)
  PROVE  SessionsInv'
  <1>. DEFINE new == Cardinality(Ids) + 1
  <1>1. PICK n \in Nat : Ids = 1..n
    BY DEF SessionsInv
  <1>2. new = n + 1
    <2>1. Cardinality(1..n) = n
      BY FS_Interval
    <2>. QED
      BY <1>1, <2>1
  <1>0. PICK pc \in {"open", "failed"} :
          \/ /\ sessions' = [i \in Ids \cup {new} |->
                               IF i = new THEN NewRow(c, pc) ELSE sessions[i]]
             /\ conn' = [conn EXCEPT ![c] = [pc |-> pc, id |-> new]]
          \/ /\ UNCHANGED sessions
             /\ conn' = [conn EXCEPT ![c] = [pc |-> pc, id |-> FailedId]]
    BY DEF OpenSession
  <1>3. CASE UNCHANGED sessions /\ conn' = [conn EXCEPT ![c] = [pc |-> pc, id |-> FailedId]]
    BY <1>3 DEF OpenSession, SessionsInv, ConnsAt, RowsAt, ChunksAt, Ids, FailedId
  <1>4. CASE /\ sessions' = [i \in Ids \cup {new} |->
                               IF i = new THEN NewRow(c, pc) ELSE sessions[i]]
             /\ conn' = [conn EXCEPT ![c] = [pc |-> pc, id |-> new]]
    <2>1. Ids' = 1..(n + 1)
      BY <1>1, <1>2, <1>4 DEF Ids
    <2>2. \A i \in Ids : i \in Ids' /\ sessions'[i] = sessions[i]
      BY <1>1, <1>2, <1>4, <2>1
    <2>3. /\ new \in Ids' /\ new # 0
          /\ sessions'[new] = NewRow(c, pc)
      BY <1>2, <1>4, <2>1
    <2>4. \A d \in Conns : d # c => conn'[d] = conn[d]
      BY <1>4 DEF SessionsInv
    <2>5. conn'[c] = [pc |-> pc, id |-> new]
      BY <1>4 DEF SessionsInv
    <2>6. ConnsAt'
      BY <2>2, <2>3, <2>4, <2>5 DEF SessionsInv, ConnsAt, NewRow
    <2>7. RowsAt'
      <3>1. \A i \in Ids' : i \in Ids \/ i = new
        BY <1>1, <1>2, <2>1
      <3>2. sessions'[new] \in [of : Conns, source : Sources, closed : SUBSET Conns]
        BY <2>3, SessionsAssumption DEF Sources, NewRow
      <3>. QED
        BY <2>2, <2>3, <3>1, <3>2 DEF SessionsInv, RowsAt, NewRow
    <2>8. ChunksAt'
      BY <2>2 DEF OpenSession, SessionsInv, ChunksAt
    <2>9. conn' \in [Conns -> [pc : {"none", "failed", "open", "closed"}, id : Nat]]
      BY <1>2, <1>4 DEF SessionsInv
    <2>. QED
      BY <2>1, <2>6, <2>7, <2>8, <2>9 DEF SessionsInv
  <1>. QED
    BY <1>0, <1>3, <1>4

LEMMA SaveChunkInv ==
  ASSUME SessionsInv, NEW c \in Conns, SaveChunk(c)
  PROVE  SessionsInv'
  <1>1. \A k \in chunks' : k \in chunks \/ k = [session |-> conn[c].id, of |-> c]
    BY DEF SaveChunk
  <1>2. ChunksAt'
    BY <1>1 DEF SaveChunk, SessionsInv, ConnsAt, ChunksAt, Ids
  <1>. QED
    BY <1>2 DEF SaveChunk, SessionsInv, ConnsAt, RowsAt, Ids

\* The update finds the connection's own row, or none under the id 0.
LEMMA CloseSessionInv ==
  ASSUME SessionsInv, NEW c \in Conns, CloseSession(c)
  PROVE  SessionsInv'
  <1>1. /\ conn' = [conn EXCEPT ![c].pc = "closed"]
        /\ chunks' = chunks
    BY DEF CloseSession
  <1>2. /\ conn' \in [Conns -> [pc : {"none", "failed", "open", "closed"}, id : Nat]]
        /\ \A d \in Conns : conn'[d].id = conn[d].id
    BY <1>1 DEF SessionsInv
  <1>3. CASE UNCHANGED sessions
    BY <1>1, <1>2, <1>3 DEF SessionsInv, ConnsAt, RowsAt, ChunksAt, Ids
  <1>4. CASE sessions' = [i \in Ids |-> IF i = conn[c].id THEN [sessions[i] EXCEPT !.closed = @ \cup {c}]
                                        ELSE sessions[i]]
    <2>1. Ids' = Ids
      BY <1>4 DEF Ids
    <2>2. \A i \in Ids : i # conn[c].id => sessions'[i] = sessions[i]
      BY <1>4
    <2>3. ASSUME conn[c].id \in Ids
          PROVE  /\ sessions'[conn[c].id] = [sessions[conn[c].id] EXCEPT !.closed = @ \cup {c}]
                 /\ sessions[conn[c].id].of = c
      <3>1. conn[c].id # 0
        BY <2>3 DEF SessionsInv
      <3>. QED
        BY <1>4, <2>3, <3>1 DEF SessionsInv, ConnsAt
    <2>4. ASSUME NEW i \in Ids
          PROVE  /\ sessions'[i] \in [of : Conns, source : Sources, closed : SUBSET Conns]
                 /\ sessions'[i].of = sessions[i].of
                 /\ sessions'[i].source = sessions[i].source
                 /\ sessions'[i].closed \subseteq sessions[i].closed \cup {sessions[i].of}
      <3>1. sessions[i] \in [of : Conns, source : Sources, closed : SUBSET Conns]
        BY DEF SessionsInv, RowsAt
      <3>2. CASE i = conn[c].id
        BY <2>3, <3>1, <3>2
      <3>. QED
        BY <2>2, <3>1, <3>2
    <2>. QED
      BY <1>1, <1>2, <2>1, <2>4 DEF SessionsInv, ConnsAt, RowsAt, ChunksAt
  <1>. QED
    BY <1>3, <1>4 DEF CloseSession

LEMMA SessionsNextInv == SessionsInv /\ [SessionsNext]_sessionVars => SessionsInv'
  <1>1. CASE UNCHANGED sessionVars
    BY <1>1 DEF sessionVars, SessionsInv, ConnsAt, RowsAt, ChunksAt, Ids
  <1>. QED
    BY <1>1, OpenSessionInv, SaveChunkInv, CloseSessionInv DEF SessionsNext

LEMMA SessionsInvIsEnough == SessionsInv => DetailsAreOfOneConnection
  <1>. SUFFICES ASSUME SessionsInv,
                       NEW source \in Sources
                PROVE  /\ \A i \in Listed(source) : Found(source, i)
                       /\ \A i \in 0..Cardinality(Ids) : Found(source, i) =>
                            LET c == sessions[i].of
                            IN /\ Source[c] = source
                               /\ sessions[i].closed \subseteq {c}
                               /\ \A k \in ChunksOf(i) : k.of = c
    BY DEF DetailsAreOfOneConnection
  <1>1. \A i \in Listed(source) : Found(source, i)
    BY DEF Listed, Found
  <1>2. ASSUME NEW i, Found(source, i)
        PROVE  /\ Source[sessions[i].of] = source
               /\ sessions[i].closed \subseteq {sessions[i].of}
               /\ \A k \in ChunksOf(i) : k.of = sessions[i].of
    <2>1. i \in Ids /\ i # 0
      BY <1>2 DEF Found, SessionsInv
    <2>. QED
      BY <1>2, <2>1 DEF Found, ChunksOf, SessionsInv, RowsAt, ChunksAt
  <1>. QED
    BY <1>1, <1>2

\* Whatever connections there are, and whichever of their writes fail, the details a
\* tab gets are of one connection of its own kind (sessionDetail of ui/relay.go over
\* the rows and chunks of store.go).
THEOREM DetailsOfOneConnection == Spec => []DetailsAreOfOneConnection
  <1>1. Init => SessionsInv
    BY SessionsInitInv DEF Init
  <1>2. SessionsInv /\ [Next]_vars => SessionsInv'
    <2>1. [Next]_vars => [SessionsNext]_sessionVars
      BY DEF Next, vars, sessionVars
    <2>. QED
      BY <2>1, SessionsNextInv
  <1>. QED
    BY <1>1, <1>2, SessionsInvIsEnough, PTL DEF Spec

-----------------------------------------------------------------------------
(* Exchanges.  The table, and whatever was copied from it, has every       *)
(* exchange under its own number.                                          *)

Own == {[i \in ids |-> i] : ids \in SUBSET Nat}

LEMMA OwnIs ==
  /\ \A rows \in Own : DOMAIN rows \in SUBSET Nat /\ \A i \in DOMAIN rows : rows[i] = i
  /\ \A ids \in SUBSET Nat : [i \in ids |-> i] \in Own
  /\ None \in Own /\ DOMAIN None = {}
  <1>1. ASSUME NEW rows \in Own
        PROVE  DOMAIN rows \in SUBSET Nat /\ \A i \in DOMAIN rows : rows[i] = i
    <2>1. PICK ids \in SUBSET Nat : rows = [i \in ids |-> i]
      BY DEF Own
    <2>. QED
      BY <2>1
  <1>2. \A ids \in SUBSET Nat : [i \in ids |-> i] \in Own
    BY DEF Own
  <1>3. None = [i \in {} |-> i]
    BY DEF None
  <1>4. {} \in SUBSET Nat
    OBVIOUS
  <1>. QED
    BY <1>1, <1>2, <1>3, <1>4

LEMMA OwnWith ==
  ASSUME NEW rows \in Own, NEW id \in Nat
  PROVE  /\ With(rows, id, id) \in Own
         /\ DOMAIN With(rows, id, id) = DOMAIN rows \cup {id}
  <1>1. DOMAIN rows \cup {id} \in SUBSET Nat
    BY OwnIs
  <1>2. With(rows, id, id) = [i \in DOMAIN rows \cup {id} |-> i]
    BY OwnIs DEF With
  <1>. QED
    BY <1>1, <1>2, OwnIs

TableAt ==
  /\ saved \in Nat
  /\ exchanges \in Own /\ Rows \subseteq 1..saved

\* What a view shows it has seen; an answer is of rows it has not seen yet, unless
\* it has seen none.
PageAt ==
  /\ page \in [lastId : 0..saved, items : Own, poll : {"idle", "asked", "answered"},
               answer : Own, clear : {"idle", "asked", "done"}, first : Nat, wiped : SUBSET Nat]
  /\ page.first = 0 <=> page.lastId = 0
  /\ DOMAIN page.items \subseteq 1..page.lastId
  /\ DOMAIN page.answer \subseteq (page.lastId + 1)..saved

\* An answer has no gap: whatever is in the table between two of its rows, or between
\* what the view has seen and one of its rows, is in it.
AnswerAt ==
  \A i \in Rows, j \in DOMAIN page.answer :
    /\ i > page.lastId /\ i <= j
    /\ page.lastId = 0 => \E k \in DOMAIN page.answer : k <= i
    => i \in DOMAIN page.answer

TabAt ==
  /\ tab \in [source : Nat, of : Nat, kept : BOOLEAN, sending : BOOLEAN, body : Nat, results : Own]
  /\ tab.of = tab.source
  /\ tab.body \in {NotFound, tab.of}

HistoryInv == TableAt /\ PageAt /\ AnswerAt /\ TabAt /\ NoRowSkipped

LEMMA HistoryInitInv == Init => HistoryInv
  <1>. SUFFICES ASSUME Init PROVE HistoryInv
    OBVIOUS
  <1>. USE OwnIs
  <1>1. TableAt
    BY DEF Init, TableAt, Rows
  <1>2. PageAt
    BY DEF Init, PageAt, NewPage
  <1>3. AnswerAt /\ NoRowSkipped
    BY DEF Init, AnswerAt, NoRowSkipped, NewPage, Rows
  <1>4. TabAt
    BY DEF Init, TabAt, NoTab, NotFound
  <1>. QED
    BY <1>1, <1>2, <1>3, <1>4 DEF HistoryInv

\* A new row is beyond all that was seen or answered.
LEMMA InsertInv ==
  ASSUME HistoryInv, Insert
  PROVE  /\ saved' = saved + 1
         /\ TableAt'
         /\ UNCHANGED page => PageAt' /\ AnswerAt' /\ NoRowSkipped'
  <1>1. exchanges' = With(exchanges, saved + 1, saved + 1) /\ saved' = saved + 1
    BY DEF Insert, NextId
  <1>2. /\ saved + 1 \in Nat
        /\ exchanges' \in Own
        /\ Rows' = Rows \cup {saved + 1}
    BY <1>1, OwnWith DEF HistoryInv, TableAt, Rows
  <1>3. TableAt'
    BY <1>1, <1>2 DEF HistoryInv, TableAt
  <1>4. ASSUME UNCHANGED page PROVE PageAt' /\ AnswerAt' /\ NoRowSkipped'
    <2>1. PageAt'
      BY <1>1, <1>4 DEF HistoryInv, TableAt, PageAt
    <2>2. \A j \in DOMAIN page.answer : j <= saved
      BY DEF HistoryInv, TableAt, PageAt
    <2>3. AnswerAt'
      BY <1>2, <1>4, <2>2, OwnIs DEF HistoryInv, TableAt, PageAt, AnswerAt
    <2>4. saved + 1 > page.lastId
      BY DEF HistoryInv, TableAt, PageAt
    <2>5. NoRowSkipped'
      BY <1>2, <1>4, <2>4 DEF HistoryInv, PageAt, TableAt, NoRowSkipped
    <2>. QED
      BY <2>1, <2>3, <2>5
  <1>. QED
    BY <1>1, <1>3, <1>4

\* The lowest and the highest rows of a set leave no gap.
LEMMA OldestHasNoGap ==
  ASSUME NEW n \in Nat, NEW ids \in SUBSET (1..n),
         NEW j \in Oldest(ids), NEW i \in ids, i <= j
  PROVE  i \in Oldest(ids)
  <1>. DEFINE Below(k) == {m \in ids : m < k}
  <1>1. Below(i) \subseteq Below(j) /\ Below(j) \subseteq 1..n
    <2>1. i \in 1..n /\ j \in 1..n /\ \A m \in ids : m \in 1..n
      BY DEF Oldest
    <2>2. ASSUME NEW m \in Below(i) PROVE m \in Below(j)
      <3>1. m \in ids /\ m < i
        OBVIOUS
      <3>2. m < j
        BY <2>1, <3>1
      <3>. QED
        BY <3>1, <3>2
    <2>3. Below(j) \subseteq ids
      OBVIOUS
    <2>. QED
      BY <2>2, <2>3
  <1>2. IsFiniteSet(1..n)
    BY FS_Interval
  <1>3. IsFiniteSet(Below(j)) /\ Cardinality(Below(j)) \in Nat
    BY <1>1, <1>2, FS_Subset, FS_CardinalityType
  <1>4. Cardinality(Below(i)) \in Nat /\ Cardinality(Below(i)) <= Cardinality(Below(j))
    BY <1>1, <1>3, FS_Subset, FS_CardinalityType
  <1>. QED
    BY <1>3, <1>4, HistoryAssumption DEF Oldest

LEMMA NewestHasNoGap ==
  ASSUME NEW n \in Nat, NEW ids \in SUBSET (1..n),
         NEW j \in Newest(ids), NEW i \in ids, j <= i
  PROVE  i \in Newest(ids)
  <1>. DEFINE Above(k) == {m \in ids : m > k}
  <1>1. Above(i) \subseteq Above(j) /\ Above(j) \subseteq 1..n
    <2>1. i \in 1..n /\ j \in 1..n /\ \A m \in ids : m \in 1..n
      BY DEF Newest
    <2>2. ASSUME NEW m \in Above(i) PROVE m \in Above(j)
      <3>1. m \in ids /\ m > i
        OBVIOUS
      <3>2. m > j
        BY <2>1, <3>1
      <3>. QED
        BY <3>1, <3>2
    <2>3. Above(j) \subseteq ids
      OBVIOUS
    <2>. QED
      BY <2>2, <2>3
  <1>2. IsFiniteSet(1..n)
    BY FS_Interval
  <1>3. IsFiniteSet(Above(j)) /\ Cardinality(Above(j)) \in Nat
    BY <1>1, <1>2, FS_Subset, FS_CardinalityType
  <1>4. Cardinality(Above(i)) \in Nat /\ Cardinality(Above(i)) <= Cardinality(Above(j))
    BY <1>1, <1>3, FS_Subset, FS_CardinalityType
  <1>. QED
    BY <1>3, <1>4, HistoryAssumption DEF Newest

\* Steps of the view.
LEMMA PollAnswerInv ==
  ASSUME HistoryInv, PollAnswer
  PROVE  HistoryInv'
  <1>. DEFINE ids == List(page.lastId)
  <1>1. /\ page' = [page EXCEPT !.poll = "answered", !.answer = [i \in ids |-> exchanges[i]]]
        /\ UNCHANGED <<exchanges, saved, tab>>
    BY DEF PollAnswer
  <1>2. ids \subseteq Rows /\ \A i \in ids : i > page.lastId
    BY DEF List, Oldest, Newest, HistoryInv, PageAt, TableAt
  <1>3. ids \in SUBSET Nat /\ [i \in ids |-> exchanges[i]] = [i \in ids |-> i]
    BY <1>2, OwnIs DEF HistoryInv, TableAt, Rows
  <1>4. [i \in ids |-> exchanges[i]] \in Own /\ DOMAIN [i \in ids |-> exchanges[i]] = ids
    BY <1>3, OwnIs
  <1>5. /\ page' \in [lastId : 0..saved, items : Own, poll : {"idle", "asked", "answered"},
                      answer : Own, clear : {"idle", "asked", "done"}, first : Nat, wiped : SUBSET Nat]
        /\ page'.lastId = page.lastId /\ page'.first = page.first
        /\ page'.items = page.items /\ page'.wiped = page.wiped
        /\ DOMAIN page'.answer = ids
    BY <1>1, <1>4 DEF HistoryInv, PageAt
  <1>6. PageAt'
    <2>1. ids \subseteq (page.lastId + 1)..saved
      <3>1. saved \in Nat /\ Rows \subseteq 1..saved /\ page.lastId \in 0..saved
        BY DEF HistoryInv, PageAt, TableAt
      <3>2. ASSUME NEW i \in ids PROVE i \in (page.lastId + 1)..saved
        <4>1. i \in 1..saved /\ i > page.lastId
          BY <1>2, <3>1
        <4>. QED
          BY <3>1, <4>1
      <3>. QED
        BY <3>2
    <2>2. page.first = 0 <=> page.lastId = 0
      BY DEF HistoryInv, PageAt
    <2>3. DOMAIN page.items \subseteq 1..page.lastId
      BY DEF HistoryInv, PageAt
    <2>. QED
      BY <1>1, <1>5, <2>1, <2>2, <2>3 DEF PageAt
  <1>7. ASSUME NEW i \in Rows, NEW j \in ids, i > page.lastId, i <= j,
               page.lastId = 0 => \E k \in ids : k <= i
        PROVE  i \in ids
    <2>1. CASE page.lastId > 0
      BY <1>7, <2>1, OldestHasNoGap DEF List, HistoryInv, TableAt
    <2>2. CASE page.lastId = 0
      <3>1. ids = Newest(Rows) /\ Rows \in SUBSET (1..saved) /\ saved \in Nat
        BY <2>2 DEF List, HistoryInv, TableAt
      <3>2. PICK k \in Newest(Rows) : k <= i
        BY <1>7, <2>2, <3>1
      <3>. QED
        BY <3>1, <3>2, NewestHasNoGap
    <2>. QED
      BY <2>1, <2>2 DEF HistoryInv, PageAt, TableAt
  <1>8. AnswerAt'
    BY <1>1, <1>5, <1>7 DEF AnswerAt, Rows
  <1>. QED
    BY <1>1, <1>5, <1>6, <1>8 DEF HistoryInv, TableAt, TabAt, NoRowSkipped, Rows

LEMMA AddRowsInv ==
  ASSUME HistoryInv, AddRows
  PROVE  HistoryInv'
  <1>. DEFINE ids  == DOMAIN page.answer
              new  == ids \ DOMAIN page.items
              last == Max({page.lastId} \cup new)
              all  == [i \in ids \cup DOMAIN page.items |->
                         IF i \in new THEN page.answer[i] ELSE page.items[i]]
  <1>1. /\ page' = [page EXCEPT !.poll = "idle", !.answer = None, !.items = all, !.lastId = last,
                      !.first = IF page.first = 0 /\ ids # {} THEN Min(ids) ELSE page.first]
        /\ UNCHANGED <<exchanges, saved, tab>>
    BY DEF AddRows
  <1>2. /\ saved \in Nat /\ page.lastId \in 0..saved
        /\ ids \subseteq (page.lastId + 1)..saved /\ DOMAIN page.items \subseteq 1..page.lastId
    BY DEF HistoryInv, TableAt, PageAt
  <1>3. new = ids
    BY <1>2
  <1>4. /\ last \in {page.lastId} \cup ids
        /\ \A i \in {page.lastId} \cup ids : last >= i
    <2>1. {page.lastId} \cup new \in SUBSET (0..saved)
      BY <1>2
    <2>. QED
      BY <1>2, <1>3, <2>1, GreatestId
  <1>5. last \in 0..saved
    BY <1>2, <1>4
  <1>6. ids # {} => Min(ids) \in ids /\ \A i \in ids : Min(ids) <= i
    BY <1>2, LeastId
  <1>7. ids \cup DOMAIN page.items \in SUBSET Nat
    BY <1>2
  <1>8. all = [i \in ids \cup DOMAIN page.items |-> i]
    BY <1>3, OwnIs DEF HistoryInv, PageAt
  <1>9. all \in Own /\ DOMAIN all = ids \cup DOMAIN page.items
    BY <1>7, <1>8, OwnIs
  <1>10. page'.first = IF page.first = 0 /\ ids # {} THEN Min(ids) ELSE page.first
    BY <1>1 DEF HistoryInv, PageAt
  <1>11. page'.first \in Nat
    BY <1>2, <1>6, <1>10 DEF HistoryInv, PageAt
  <1>12. /\ page' \in [lastId : 0..saved, items : Own, poll : {"idle", "asked", "answered"},
                       answer : Own, clear : {"idle", "asked", "done"}, first : Nat, wiped : SUBSET Nat]
         /\ page'.lastId = last /\ page'.items = all /\ page'.wiped = page.wiped
         /\ page'.answer = None
    BY <1>1, <1>5, <1>9, <1>10, <1>11, OwnIs DEF HistoryInv, PageAt
  <1>13. PageAt'
    <2>1. page'.first = 0 <=> last = 0
      BY <1>2, <1>4, <1>6, <1>10 DEF HistoryInv, PageAt
    <2>2. DOMAIN all \subseteq 1..last
      BY <1>2, <1>4, <1>9
    <2>. QED
      BY <1>1, <1>12, <2>1, <2>2, OwnIs DEF PageAt
  <1>14. NoRowSkipped'
    <2>. SUFFICES ASSUME page'.first # 0, NEW i \in Rows, i \in page'.first..last
                  PROVE  i \in ids \cup DOMAIN page.items \cup page.wiped
      BY <1>1, <1>9, <1>12 DEF NoRowSkipped, Rows
    <2>1. CASE i <= page.lastId
      <3>1. page.first # 0
        BY <1>2, <2>1 DEF HistoryInv, PageAt, TableAt
      <3>2. i \in page.first..page.lastId
        BY <1>2, <1>10, <2>1, <3>1 DEF HistoryInv, PageAt
      <3>. QED
        BY <3>1, <3>2 DEF HistoryInv, NoRowSkipped
    <2>2. CASE i > page.lastId
      <3>1. last \in ids /\ i <= last
        BY <1>2, <1>4, <1>5, <2>2, <1>11
      <3>2. page.lastId = 0 => \E k \in ids : k <= i
        BY <1>2, <1>6, <1>10, <1>11, <3>1 DEF HistoryInv, PageAt
      <3>. QED
        BY <2>2, <3>1, <3>2 DEF HistoryInv, AnswerAt
    <2>. QED
      BY <1>2, <2>1, <2>2 DEF HistoryInv, TableAt
  <1>15. AnswerAt'
    BY <1>12, OwnIs DEF AnswerAt
  <1>. QED
    BY <1>1, <1>13, <1>14, <1>15 DEF HistoryInv, TableAt, TabAt, Rows

\* A poll or a clear that is asked, or fails, changes no row and no answer.
LEMMA PageOnlyInv ==
  ASSUME HistoryInv, PollAsk \/ PollFails \/ ClearAsk \/ Reload
  PROVE  HistoryInv'
  <1>1. UNCHANGED <<exchanges, saved, tab>>
    BY DEF PollAsk, PollFails, ClearAsk, Reload
  <1>2. CASE PollAsk \/ ClearAsk
    <2>1. \/ page' = [page EXCEPT !.poll = "asked"]
          \/ page' = [page EXCEPT !.clear = "asked"]
      BY <1>2 DEF PollAsk, ClearAsk
    <2>. QED
      BY <1>1, <2>1 DEF HistoryInv, TableAt, PageAt, AnswerAt, TabAt, NoRowSkipped, Rows
  <1>3. CASE PollFails
    <2>1. page' = [page EXCEPT !.poll = "idle", !.answer = None]
      BY <1>3 DEF PollFails
    <2>. QED
      BY <1>1, <2>1, OwnIs DEF HistoryInv, TableAt, PageAt, AnswerAt, TabAt, NoRowSkipped, Rows
  <1>4. CASE Reload
    <2>1. page' = NewPage
      BY <1>4 DEF Reload
    <2>. QED
      BY <1>1, <2>1, OwnIs
      DEF HistoryInv, TableAt, PageAt, AnswerAt, TabAt, NoRowSkipped, Rows, NewPage
  <1>. QED
    BY <1>2, <1>3, <1>4

LEMMA ClearInv ==
  ASSUME HistoryInv, Clear
  PROVE  HistoryInv'
  <1>1. /\ exchanges' = None /\ UNCHANGED <<saved, tab>>
        /\ page' = page \/ page' = [page EXCEPT !.clear = "done"]
    BY DEF Clear
  <1>2. Rows' = {}
    BY <1>1, OwnIs DEF Rows
  <1>3. TableAt' /\ AnswerAt' /\ NoRowSkipped' /\ TabAt'
    BY <1>1, <1>2, OwnIs DEF HistoryInv, TableAt, AnswerAt, NoRowSkipped, TabAt
  <1>4. PageAt'
    BY <1>1 DEF HistoryInv, PageAt
  <1>. QED
    BY <1>3, <1>4 DEF HistoryInv

LEMMA ClearAnsweredInv ==
  ASSUME HistoryInv, ClearAnswered
  PROVE  HistoryInv'
  <1>1. /\ page' = [page EXCEPT !.clear = "idle", !.items = None,
                      !.wiped = page.wiped \cup DOMAIN page.items]
        /\ UNCHANGED <<exchanges, saved, tab>>
    BY DEF ClearAnswered
  <1>2. DOMAIN page.items \in SUBSET Nat
    BY OwnIs DEF HistoryInv, PageAt
  <1>. QED
    BY <1>1, <1>2, OwnIs DEF HistoryInv, TableAt, PageAt, AnswerAt, TabAt, NoRowSkipped, Rows

\* Steps of a tab: what it names is what it was opened from.
LEMMA TabInv ==
  ASSUME HistoryInv, OpenTab \/ Send
  PROVE  HistoryInv'
  <1>1. UNCHANGED <<exchanges, saved, page>>
    BY DEF OpenTab, Send
  <1>2. CASE OpenTab
    <2>1. PICK i \in DOMAIN page.items, kept \in BOOLEAN :
            tab' = [NoTab EXCEPT !.source = i, !.of = page.items[i], !.kept = kept]
      BY <1>2 DEF OpenTab
    <2>2. i \in Nat /\ page.items[i] = i
      BY OwnIs DEF HistoryInv, PageAt
    <2>3. TabAt'
      BY <2>1, <2>2, OwnIs DEF TabAt, NoTab, NotFound
    <2>. QED
      BY <1>1, <2>3 DEF HistoryInv, TableAt, PageAt, AnswerAt, NoRowSkipped, Rows
  <1>3. CASE Send
    <2>1. tab' = [tab EXCEPT !.sending = TRUE,
                             !.body = IF tab.kept THEN Get(tab.source) ELSE tab.of]
      BY <1>3 DEF Send
    <2>2. Get(tab.source) \in {NotFound, tab.of}
      BY OwnIs DEF HistoryInv, TableAt, TabAt, Get, Rows
    <2>3. tab \in [source : Nat, of : Nat, kept : BOOLEAN, sending : BOOLEAN, body : Nat, results : Own]
      BY DEF HistoryInv, TabAt
    <2>4. /\ tab'.source = tab.source /\ tab'.of = tab.of /\ tab'.body \in {NotFound, tab.of}
          /\ tab' \in [source : Nat, of : Nat, kept : BOOLEAN, sending : BOOLEAN, body : Nat, results : Own]
      <3>. DEFINE b == IF tab.kept THEN Get(tab.source) ELSE tab.of
      <3>2. b \in {NotFound, tab.of} /\ b \in Nat
        BY <2>2, <2>3 DEF NotFound
      <3>3. tab' = [tab EXCEPT !.sending = TRUE, !.body = b]
        BY <2>1
      <3>. HIDE DEF b
      <3>. QED
        BY <2>3, <3>2, <3>3
    <2>5. TabAt'
      BY <2>4 DEF HistoryInv, TabAt
    <2>. QED
      BY <1>1, <2>5 DEF HistoryInv, TableAt, PageAt, AnswerAt, NoRowSkipped, Rows
  <1>. QED
    BY <1>2, <1>3

LEMMA SavedInv ==
  ASSUME HistoryInv, Save \/ Sent
  PROVE  HistoryInv'
  <1>1. /\ saved' = saved + 1
        /\ TableAt' /\ PageAt' /\ AnswerAt' /\ NoRowSkipped'
    BY InsertInv DEF Save, Sent
  <1>2. TabAt'
    <2>1. CASE Save
      BY <2>1 DEF Save, HistoryInv, TabAt
    <2>2. CASE Sent
      <3>1. saved + 1 \in Nat
        BY DEF HistoryInv, TableAt
      <3>2. With(tab.results, saved + 1, saved + 1) \in Own
        BY <3>1, OwnWith DEF HistoryInv, TabAt
      <3>3. \/ tab' = [tab EXCEPT !.sending = FALSE, !.body = 0,
                                  !.results = With(tab.results, saved + 1, saved + 1)]
            \/ tab' = [tab EXCEPT !.sending = FALSE, !.body = 0]
        BY <1>1, <2>2 DEF Sent, NextId
      <3>4. /\ tab \in [source : Nat, of : Nat, kept : BOOLEAN, sending : BOOLEAN, body : Nat, results : Own]
            /\ tab.of = tab.source
        BY DEF HistoryInv, TabAt
      <3>5. PICK r \in Own : tab' = [tab EXCEPT !.sending = FALSE, !.body = 0, !.results = r]
        BY <3>2, <3>3, <3>4
      <3>6. tab'.source = tab.source /\ tab'.of = tab.of /\ tab'.body = 0
        BY <3>4, <3>5
      <3>7. tab' \in [source : Nat, of : Nat, kept : BOOLEAN, sending : BOOLEAN, body : Nat, results : Own]
        BY <3>4, <3>5
      <3>. QED
        BY <3>4, <3>6, <3>7 DEF TabAt, NotFound
    <2>. QED
      BY <2>1, <2>2
  <1>. QED
    BY <1>1, <1>2 DEF HistoryInv

LEMMA HistoryNextInv == HistoryInv /\ [Next]_vars => HistoryInv'
  <1>1. CASE UNCHANGED historyVars
    BY <1>1 DEF historyVars, HistoryInv, TableAt, PageAt, AnswerAt, TabAt, NoRowSkipped, Rows
  <1>. QED
    BY <1>1, PollAnswerInv, AddRowsInv, PageOnlyInv, ClearInv, ClearAnsweredInv, TabInv, SavedInv
    DEF Next, vars, historyVars

\* A page that polls with the last id it saw misses no row, whatever the size of an
\* answer (Store.List and addRows of history.js), but for what its own Clear took off.
THEOREM PollingSkipsNoRow == Spec => []NoRowSkipped
  <1>1. Init => HistoryInv
    BY HistoryInitInv
  <1>2. HistoryInv => NoRowSkipped
    BY DEF HistoryInv
  <1>. QED
    BY <1>1, <1>2, HistoryNextInv, PTL DEF Spec

\* Over any number of saves and clears, an id that a page, a tab or a result list
\* keeps names the exchange it named, or none (AUTOINCREMENT in schemaV1).
THEOREM IdsAreForEver == Spec => []IdsKeepTheirMeaning
  <1>1. Init => HistoryInv
    BY HistoryInitInv
  <1>2. ASSUME HistoryInv PROVE IdsKeepTheirMeaning
    BY <1>2, OwnIs DEF HistoryInv, TableAt, PageAt, TabAt, IdsKeepTheirMeaning, Rows
  <1>. QED
    BY <1>1, <1>2, HistoryNextInv, PTL DEF Spec

=============================================================================

----------------------------- MODULE RelayProofs ------------------------------
(***************************************************************************)
(* The relay, TCP: the order of a session's rows, what its pumps relay,    *)
(* what is stored of it, and its end, for any number of chunks, any sizes  *)
(* and any cap.  UDP, last: where a target's sessions are, for any number  *)
(* of clients, datagrams and sessions.                                     *)
(***************************************************************************)
EXTENDS RelayTCP, FiniteSetTheorems, WellFoundedInduction, TLAPS

Labels == {"dial", "read", "hold", "held", "capture", "save", "write", "closing", "ended"}

\* The places of a pump that has a chunk, and those before it was stored.
Carrying == {"hold", "held", "capture", "save", "write"}
Unstored == {"hold", "held", "capture", "save"}

Waiting == [n : Nat, after : Nat]
Carriage == [n : Nat, after : Nat, size : Nat, edited : BOOLEAN, drop : BOOLEAN, seq : Nat]
Arrival == [n : Nat, size : Nat]

Types ==
  /\ pc \in [Dirs -> Labels]
  /\ chunk \in [Dirs -> SUBSET Carriage]
  /\ seq \in Nat
  /\ sent \in [Dirs -> Nat]
  /\ wire \in [Dirs -> Seq(Waiting)]
  /\ received \in [Dirs -> Seq(Arrival)]
  /\ \A r \in rows : r.dir \in Dirs /\ r.n \in Nat /\ r.after \in Nat /\ r.seq \in Nat

\* How many chunks a pump has read.
Reads(d) == sent[d] - Len(wire[d])

\* Chunks are read in the order in which they were sent, and nobody has seen one
\* that was not written yet.
NumbersAt ==
  \A d \in Dirs :
    /\ Len(wire[d]) <= sent[d]
    /\ \A i \in 1..Len(wire[d]) :
         wire[d][i].n = Reads(d) + i /\ wire[d][i].after <= Seen(Other(d))
    /\ pc[d] \in Carrying =>
         \A c \in chunk[d] : c.n = Reads(d) /\ c.after <= Seen(Other(d))
    /\ Seen(d) <= Reads(d)
    /\ pc[d] \in Carrying => Seen(d) < Reads(d)

\* A chunk gets a number higher than all that were given, after everything that its
\* sender can have seen got one.
OrderAt ==
  /\ \A r \in rows :
       /\ r.seq <= seq
       /\ r.n <= Reads(r.dir) /\ r.after <= Seen(Other(r.dir))
       /\ pc[r.dir] \in Unstored => r.n < Reads(r.dir)
  /\ \A d \in Dirs : pc[d] = "save" =>
       \A c \in chunk[d] :
         /\ c.seq <= seq
         /\ \A r \in rows : r.dir = d \/ r.n <= c.after => r.seq < c.seq

Inv == Types /\ NumbersAt /\ OrderAt /\ RowsAreChronological

\* The other direction of the other one is the first.
LEMMA OtherDir ==
  ASSUME NEW d \in Dirs
  PROVE  /\ Other(d) \in Dirs /\ Other(d) # d /\ Other(Other(d)) = d
         /\ \A e \in Dirs : e = d \/ e = Other(d)
  BY DEF Dirs, Other

LEMMA SeenType == ASSUME Types, NEW d \in Dirs PROVE Seen(d) \in Nat
  <1>1. received[d] \in Seq(Arrival)
    BY DEF Types
  <1>2. received[d] # <<>> => received[d][Len(received[d])] \in Arrival
    BY <1>1
  <1>. QED
    BY <1>2 DEF Seen, Arrival

LEMMA InitInv == Init => Inv
  <1>. SUFFICES ASSUME Init PROVE Inv
    OBVIOUS
  <1>1. \A d \in Dirs : Seen(d) = 0 /\ Reads(d) = 0 /\ wire[d] = <<>>
    BY DEF Init, Seen, Reads
  <1>2. Types
    BY DEF Init, Types, Labels
  <1>3. NumbersAt /\ OrderAt /\ RowsAreChronological
    BY <1>1, OtherDir DEF Init, NumbersAt, OrderAt, RowsAreChronological, Carrying, Unstored
  <1>. QED
    BY <1>2, <1>3 DEF Inv

\* Steps that move pumps to places of which no more is said, and touch neither
\* chunks nor rows.
LEMMA PlaceInv ==
  ASSUME Inv, pc' \in [Dirs -> Labels],
         \A d \in Dirs : \/ pc'[d] = pc[d]
                         \/ pc'[d] \notin Carrying
                         \/ pc[d] \in Unstored /\ pc'[d] \in Carrying \ {"save"},
         UNCHANGED <<chunk, seq, rows, sent, wire, received>>
  PROVE  Inv'
  <1>1. Types'
    BY DEF Inv, Types
  <1>2. \A d \in Dirs : Seen(d)' = Seen(d) /\ Reads(d)' = Reads(d)
    BY DEF Seen, Reads
  <1>3. NumbersAt'
    BY <1>2, OtherDir DEF Inv, NumbersAt, Carrying, Unstored
  <1>4. OrderAt'
    BY <1>2, OtherDir DEF Inv, Types, OrderAt, Carrying, Unstored
  <1>. QED
    BY <1>1, <1>3, <1>4 DEF Inv, RowsAreChronological

LEMMA PeerSendsInv == ASSUME Inv, NEW d \in Dirs, PeerSends(d) PROVE Inv'
  <1>. DEFINE w == [n |-> sent[d] + 1, after |-> Seen(Other(d))]
  <1>1. /\ sent \in [Dirs -> Nat] /\ wire \in [Dirs -> Seq(Waiting)]
        /\ w \in Waiting
    BY SeenType, OtherDir DEF Inv, Types, Waiting
  <1>2. /\ sent'[d] = sent[d] + 1
        /\ sent' = [sent EXCEPT ![d] = @ + 1]
        /\ wire' = [wire EXCEPT ![d] = Append(@, w)]
        /\ UNCHANGED <<pc, chunk, seq, rows, received>>
    BY <1>1 DEF PeerSends, localVars
  <1>3. /\ \A e \in Dirs : e # d => sent'[e] = sent[e] /\ wire'[e] = wire[e]
        /\ wire'[d] = Append(wire[d], w)
        /\ Len(wire'[d]) = Len(wire[d]) + 1 /\ Len(wire[d]) \in Nat
        /\ \A i \in 1..Len(wire[d]) : wire'[d][i] = wire[d][i]
        /\ wire'[d][Len(wire[d]) + 1] = w
    BY <1>1, <1>2
  <1>4. \A e \in Dirs : Seen(e)' = Seen(e) /\ Reads(e)' = Reads(e)
    BY <1>1, <1>2, <1>3 DEF Seen, Reads
  <1>5. Types'
    BY <1>1, <1>2 DEF Inv, Types
  <1>6. NumbersAt'
    <2>1. \A i \in 1..Len(wire'[d]) :
            wire'[d][i].n = Reads(d) + i /\ wire'[d][i].after <= Seen(Other(d))
      <3>. SUFFICES ASSUME NEW i \in 1..Len(wire'[d])
                    PROVE  wire'[d][i].n = Reads(d) + i /\ wire'[d][i].after <= Seen(Other(d))
        OBVIOUS
      <3>1. CASE i \in 1..Len(wire[d])
        BY <1>3, <3>1 DEF Inv, NumbersAt
      <3>2. CASE i = Len(wire[d]) + 1
        <4>1. Seen(Other(d)) \in Nat
          BY OtherDir, SeenType DEF Inv
        <4>. QED
          BY <1>1, <1>3, <3>2, <4>1 DEF Reads
      <3>. QED
        BY <1>3, <3>1, <3>2
    <2>. QED
      BY <1>1, <1>2, <1>3, <1>4, <2>1, OtherDir DEF Inv, NumbersAt
  <1>7. OrderAt'
    BY <1>2, <1>4, OtherDir DEF Inv, Types, OrderAt
  <1>. QED
    BY <1>2, <1>5, <1>6, <1>7 DEF Inv, RowsAreChronological

LEMMA ReadChunkInv ==
  ASSUME Inv, NEW d \in Dirs, ReadChunk(d), Sizes \subseteq Nat PROVE Inv'
  <1>1. /\ pc[d] = "read" /\ wire[d] # <<>>
        /\ wire' = [wire EXCEPT ![d] = Tail(@)] /\ pc' = [pc EXCEPT ![d] = "hold"]
        /\ UNCHANGED <<seq, rows, sent, received>>
    BY DEF ReadChunk, Goto
  <1>2. PICK size \in Sizes :
          chunk' = [chunk EXCEPT ![d] =
                      {[n |-> Head(wire[d]).n, after |-> Head(wire[d]).after, size |-> size,
                        edited |-> FALSE, drop |-> FALSE, seq |-> 0]}]
    BY DEF ReadChunk
  <1>3. /\ wire[d] \in Seq(Waiting) /\ Len(wire[d]) \in Nat /\ Len(wire[d]) >= 1
        /\ Head(wire[d]) = wire[d][1] /\ Head(wire[d]) \in Waiting
        /\ wire'[d] = Tail(wire[d]) /\ Len(wire'[d]) = Len(wire[d]) - 1
        /\ wire'[d] \in Seq(Waiting)
        /\ \A i \in 1..Len(wire'[d]) : wire'[d][i] = wire[d][i + 1]
    BY <1>1 DEF Inv, Types
  <1>. DEFINE c == [n |-> Head(wire[d]).n, after |-> Head(wire[d]).after, size |-> size,
                    edited |-> FALSE, drop |-> FALSE, seq |-> 0]
  <1>4. c \in Carriage /\ c.n = wire[d][1].n /\ c.after = wire[d][1].after
    BY <1>3 DEF Carriage, Waiting
  <1>. HIDE DEF c
  <1>5. chunk' = [chunk EXCEPT ![d] = {c}]
    BY <1>2 DEF c
  <1>6. Types'
    BY <1>1, <1>3, <1>4, <1>5 DEF Inv, Types, Labels
  <1>7. /\ \A e \in Dirs : Seen(e)' = Seen(e)
        /\ \A e \in Dirs : e # d => Reads(e)' = Reads(e)
        /\ Reads(d)' = Reads(d) + 1 /\ Reads(d) \in Nat
    BY <1>1, <1>3 DEF Seen, Reads, Inv, Types, NumbersAt
  <1>8. NumbersAt'
    <2>1. ASSUME NEW e \in Dirs, e # d
          PROVE  /\ wire'[e] = wire[e] /\ chunk'[e] = chunk[e] /\ pc'[e] = pc[e] /\ sent'[e] = sent[e]
      BY <1>1, <1>5, <2>1 DEF Inv, Types
    <2>2. /\ Len(wire'[d]) <= sent'[d]
          /\ \A i \in 1..Len(wire'[d]) :
               wire'[d][i].n = Reads(d)' + i /\ wire'[d][i].after <= Seen(Other(d))
      <3>1. Len(wire'[d]) <= sent'[d]
        BY <1>1, <1>3, <1>7 DEF Inv, Types, NumbersAt
      <3>2. ASSUME NEW i \in 1..Len(wire'[d])
            PROVE  wire'[d][i].n = Reads(d)' + i /\ wire'[d][i].after <= Seen(Other(d))
        <4>1. i \in Nat /\ i + 1 \in 1..Len(wire[d]) /\ wire'[d][i] = wire[d][i + 1]
          BY <1>3
        <4>2. wire[d][i + 1].n = Reads(d) + (i + 1) /\ wire[d][i + 1].after <= Seen(Other(d))
          BY <4>1 DEF Inv, NumbersAt
        <4>. QED
          BY <1>7, <4>1, <4>2
      <3>. QED
        BY <3>1, <3>2
    <2>3. \A k \in chunk'[d] : k.n = Reads(d)' /\ k.after <= Seen(Other(d))
      <3>1. chunk'[d] = {c}
        BY <1>5 DEF Inv, Types
      <3>. QED
        BY <1>3, <1>4, <1>7, <3>1 DEF Inv, NumbersAt
    <2>4. Seen(d) \in Nat /\ Seen(d) <= Reads(d)
      BY SeenType DEF Inv, NumbersAt
    <2>. QED
      BY <1>7, <2>1, <2>2, <2>3, <2>4, OtherDir DEF Inv, NumbersAt
  <1>9. OrderAt'
    <2>1. \A r \in rows : r.dir \in Dirs /\ r.n \in Nat
      BY DEF Inv, Types
    <2>2. pc'[d] = "hold" /\ \A e \in Dirs : e # d => pc'[e] = pc[e] /\ chunk'[e] = chunk[e]
      BY <1>1, <1>5 DEF Inv, Types
    <2>. QED
      BY <1>1, <1>7, <2>1, <2>2, OtherDir DEF Inv, OrderAt
  <1>. QED
    BY <1>1, <1>6, <1>8, <1>9 DEF Inv, RowsAreChronological

\* A pump's chunk is exchanged for others.
LEMMA ChunkOf ==
  ASSUME Types, NEW d \in Dirs, NEW S, S \subseteq Carriage, chunk' = [chunk EXCEPT ![d] = S]
  PROVE  /\ \A e \in Dirs : e # d => chunk'[e] = chunk[e]
         /\ chunk' \in [Dirs -> SUBSET Carriage]
         /\ chunk'[d] = S
  BY DEF Types

LEMMA ResolveInv == ASSUME Inv, NEW d \in Dirs, Resolve(d), Edits \subseteq Nat PROVE Inv'
  <1>1. /\ pc[d] = "held" /\ pc' = [pc EXCEPT ![d] = "capture"]
        /\ UNCHANGED <<seq, rows, sent, wire, received>>
    BY DEF Resolve, Goto, peerVars
  <1>2. /\ \A e \in Dirs : e # d => chunk'[e] = chunk[e]
        /\ chunk' \in [Dirs -> SUBSET Carriage]
        /\ \A c \in chunk'[d] : \E b \in chunk[d] : c.n = b.n /\ c.after = b.after
    <2>1. chunk \in [Dirs -> SUBSET Carriage]
      BY DEF Inv, Types
    <2>2. CASE chunk' = chunk
      <3>1. \A c \in chunk'[d] : \E b \in chunk[d] : c.n = b.n /\ c.after = b.after
        <4>. SUFFICES ASSUME NEW c \in chunk[d]
                      PROVE  \E b \in chunk[d] : c.n = b.n /\ c.after = b.after
          BY <2>2
        <4>. WITNESS c \in chunk[d]
        <4>. QED
          OBVIOUS
      <3>2. \A e \in Dirs : e # d => chunk'[e] = chunk[e]
        BY <2>2
      <3>3. chunk' \in [Dirs -> SUBSET Carriage]
        BY <2>1, <2>2
      <3>. QED
        BY <3>1, <3>2, <3>3
    <2>3. CASE chunk' = [chunk EXCEPT ![d] = {[c EXCEPT !.drop = TRUE] : c \in @}]
      <3>. DEFINE S == {[c EXCEPT !.drop = TRUE] : c \in chunk[d]}
      <3>1. ASSUME NEW c \in Carriage
            PROVE  LET b == [c EXCEPT !.drop = TRUE]
                   IN b \in Carriage /\ b.n = c.n /\ b.after = c.after
        BY DEF Carriage
      <3>2. chunk[d] \subseteq Carriage
        BY <2>1
      <3>3. S \subseteq Carriage /\ \A b \in S : \E c \in chunk[d] : b.n = c.n /\ b.after = c.after
        BY <3>1, <3>2
      <3>. HIDE DEF S
      <3>4. chunk' = [chunk EXCEPT ![d] = S]
        BY <2>3 DEF S
      <3>. QED
        BY <3>3, <3>4, ChunkOf DEF Inv
    <2>4. ASSUME NEW size \in Edits,
                 chunk' = [chunk EXCEPT ![d] = {[c EXCEPT !.size = size, !.edited = TRUE] : c \in @}]
          PROVE  /\ \A e \in Dirs : e # d => chunk'[e] = chunk[e]
                 /\ chunk' \in [Dirs -> SUBSET Carriage]
                 /\ \A c \in chunk'[d] : \E b \in chunk[d] : c.n = b.n /\ c.after = b.after
      <3>. DEFINE S == {[c EXCEPT !.size = size, !.edited = TRUE] : c \in chunk[d]}
      <3>1. ASSUME NEW c \in Carriage
            PROVE  LET b == [c EXCEPT !.size = size, !.edited = TRUE]
                   IN b \in Carriage /\ b.n = c.n /\ b.after = c.after
        BY <2>4 DEF Carriage
      <3>2. chunk[d] \subseteq Carriage
        BY <2>1
      <3>3. S \subseteq Carriage /\ \A b \in S : \E c \in chunk[d] : b.n = c.n /\ b.after = c.after
        BY <3>1, <3>2
      <3>. HIDE DEF S
      <3>4. chunk' = [chunk EXCEPT ![d] = S]
        BY <2>4 DEF S
      <3>. QED
        BY <3>3, <3>4, ChunkOf DEF Inv
    <2>5. \/ chunk' = chunk
          \/ chunk' = [chunk EXCEPT ![d] = {[c EXCEPT !.drop = TRUE] : c \in @}]
          \/ \E size \in Edits :
               chunk' = [chunk EXCEPT ![d] = {[c EXCEPT !.size = size, !.edited = TRUE] : c \in @}]
      BY Zenon DEF Resolve
    <2>6. CASE \E size \in Edits :
                 chunk' = [chunk EXCEPT ![d] = {[c EXCEPT !.size = size, !.edited = TRUE] : c \in @}]
      <3>1. PICK size \in Edits :
              chunk' = [chunk EXCEPT ![d] = {[c EXCEPT !.size = size, !.edited = TRUE] : c \in @}]
        BY <2>6, Zenon
      <3>. QED
        BY <2>4, <3>1, Zenon
    <2>. QED
      BY <2>2, <2>3, <2>5, <2>6, Zenon
  <1>3. /\ pc'[d] = "capture" /\ \A e \in Dirs : e # d => pc'[e] = pc[e]
        /\ pc' \in [Dirs -> Labels]
    BY <1>1 DEF Inv, Types, Labels
  <1>4. \A e \in Dirs : Seen(e)' = Seen(e) /\ Reads(e)' = Reads(e)
    BY <1>1 DEF Seen, Reads
  <1>5. Types'
    BY <1>1, <1>2, <1>3 DEF Inv, Types
  <1>6. NumbersAt'
    <2>1. ASSUME NEW e \in Dirs, pc'[e] \in Carrying, NEW c \in chunk'[e]
          PROVE  c.n = Reads(e) /\ c.after <= Seen(Other(e))
      BY <1>1, <1>2, <1>3, <2>1 DEF Inv, NumbersAt, Carrying
    <2>. QED
      BY <1>1, <1>3, <1>4, <2>1, OtherDir DEF Inv, NumbersAt, Carrying
  <1>7. OrderAt'
    <2>1. \A r \in rows : r.dir \in Dirs
      BY DEF Inv, Types
    <2>. QED
      BY <1>1, <1>2, <1>3, <1>4, <2>1, OtherDir DEF Inv, OrderAt, Unstored
  <1>. QED
    BY <1>1, <1>5, <1>6, <1>7 DEF Inv, RowsAreChronological

LEMMA CaptureInv == ASSUME Inv, NEW d \in Dirs, Capture(d) PROVE Inv'
  <1>1. /\ pc[d] = "capture" /\ pc' = [pc EXCEPT ![d] = "save"] /\ seq' = seq + 1
        /\ chunk' = [chunk EXCEPT ![d] = {[c EXCEPT !.seq = seq + 1] : c \in @}]
        /\ UNCHANGED <<rows, sent, wire, received>>
    BY DEF Capture, Goto, NextSeq, peerVars
  <1>2. chunk \in [Dirs -> SUBSET Carriage] /\ seq \in Nat /\ pc \in [Dirs -> Labels]
    BY DEF Inv, Types
  <1>3. /\ \A e \in Dirs : e # d => chunk'[e] = chunk[e]
        /\ chunk' \in [Dirs -> SUBSET Carriage]
        /\ \A c \in chunk'[d] : c.seq = seq + 1 /\ \E b \in chunk[d] : c.n = b.n /\ c.after = b.after
    <2>. DEFINE S == {[c EXCEPT !.seq = seq + 1] : c \in chunk[d]}
    <2>1. ASSUME NEW c \in Carriage
          PROVE  LET b == [c EXCEPT !.seq = seq + 1]
                 IN b \in Carriage /\ b.n = c.n /\ b.after = c.after /\ b.seq = seq + 1
      BY <1>2 DEF Carriage
    <2>2. chunk[d] \subseteq Carriage
      BY <1>2
    <2>3. /\ S \subseteq Carriage
          /\ \A b \in S : b.seq = seq + 1 /\ \E c \in chunk[d] : b.n = c.n /\ b.after = c.after
      <3>. SUFFICES ASSUME NEW b \in S
                    PROVE  /\ b \in Carriage /\ b.seq = seq + 1
                           /\ \E c \in chunk[d] : b.n = c.n /\ b.after = c.after
        OBVIOUS
      <3>1. PICK c \in chunk[d] : b = [c EXCEPT !.seq = seq + 1]
        OBVIOUS
      <3>. QED
        BY <2>1, <2>2, <3>1
    <2>. HIDE DEF S
    <2>4. chunk' = [chunk EXCEPT ![d] = S]
      BY <1>1 DEF S
    <2>. QED
      BY <2>3, <2>4, ChunkOf DEF Inv
  <1>4. /\ pc'[d] = "save" /\ \A e \in Dirs : e # d => pc'[e] = pc[e]
        /\ pc' \in [Dirs -> Labels]
    BY <1>1, <1>2 DEF Labels
  <1>5. \A e \in Dirs : Seen(e)' = Seen(e) /\ Reads(e)' = Reads(e)
    BY <1>1 DEF Seen, Reads
  <1>6. Types'
    BY <1>1, <1>2, <1>3, <1>4 DEF Inv, Types
  <1>7. NumbersAt'
    <2>1. ASSUME NEW e \in Dirs, pc'[e] \in Carrying, NEW c \in chunk'[e]
          PROVE  c.n = Reads(e) /\ c.after <= Seen(Other(e))
      BY <1>1, <1>3, <1>4, <2>1 DEF Inv, NumbersAt, Carrying
    <2>. QED
      BY <1>1, <1>4, <1>5, <2>1, OtherDir DEF Inv, NumbersAt, Carrying
  <1>8. OrderAt'
    <2>1. ASSUME NEW r \in rows
          PROVE  /\ r.seq \in Nat /\ r.seq <= seq /\ r.seq < seq'
                 /\ r.n <= Reads(r.dir) /\ r.after <= Seen(Other(r.dir))
                 /\ pc'[r.dir] \in Unstored => r.n < Reads(r.dir)
      BY <1>1, <1>2, <1>4, <2>1 DEF Inv, Types, OrderAt, Unstored
    <2>2. ASSUME NEW e \in Dirs, pc'[e] = "save", NEW c \in chunk'[e]
          PROVE  c.seq <= seq' /\ \A r \in rows : r.dir = e \/ r.n <= c.after => r.seq < c.seq
      <3>1. CASE e = d
        BY <1>1, <1>2, <1>3, <2>1, <2>2, <3>1
      <3>2. CASE e # d
        <4>1. /\ c \in Carriage /\ c.seq <= seq
              /\ \A r \in rows : r.dir = e \/ r.n <= c.after => r.seq < c.seq
          BY <1>2, <1>3, <1>4, <2>2, <3>2 DEF Inv, OrderAt
        <4>. QED
          BY <1>1, <1>2, <4>1 DEF Carriage
      <3>. QED
        BY <3>1, <3>2
    <2>3. \A r \in rows : r.dir \in Dirs
      BY DEF Inv, Types
    <2>. QED
      BY <1>1, <1>2, <1>5, <2>1, <2>2, <2>3, OtherDir DEF OrderAt
  <1>. QED
    BY <1>1, <1>6, <1>7, <1>8 DEF Inv, RowsAreChronological

LEMMA SaveChunkInv == ASSUME Inv, NEW d \in Dirs, SaveChunk(d) PROVE Inv'
  <1>1. /\ pc[d] = "save" /\ pc' = [pc EXCEPT ![d] = "write"]
        /\ UNCHANGED <<chunk, seq, sent, wire, received>>
    BY DEF SaveChunk, Goto, peerVars
  <1>2. PICK c \in chunk[d] : rows' = rows \/ rows' = rows \cup {Row(d, c)}
    BY DEF SaveChunk
  <1>3. CASE rows' = rows
    <2>1. /\ pc' \in [Dirs -> Labels]
          /\ \A e \in Dirs : pc'[e] = pc[e] \/ (pc[e] \in Unstored /\ pc'[e] = "write")
      BY <1>1 DEF Inv, Types, Labels, Unstored
    <2>. QED
      BY <1>1, <1>3, <2>1, PlaceInv DEF Carrying
  <1>4. CASE rows' = rows \cup {Row(d, c)}
    <2>. DEFINE t == Row(d, c)
    <2>1. t.dir = d /\ t.n = c.n /\ t.after = c.after /\ t.seq = c.seq
      BY DEF Row
    <2>. HIDE DEF t
    <2>2. c \in Carriage /\ c.n \in Nat /\ c.after \in Nat /\ c.seq \in Nat
      BY DEF Inv, Types, Carriage
    <2>3. /\ c.n = Reads(d) /\ c.after <= Seen(Other(d)) /\ Seen(d) < c.n
          /\ c.seq <= seq
          /\ \A r \in rows : r.dir = d \/ r.n <= c.after => r.seq < c.seq
      BY <1>1 DEF Inv, NumbersAt, OrderAt, Carrying
    <2>4. /\ pc'[d] = "write" /\ \A e \in Dirs : e # d => pc'[e] = pc[e]
          /\ pc' \in [Dirs -> Labels]
      BY <1>1 DEF Inv, Types, Labels
    <2>5. \A e \in Dirs : Seen(e)' = Seen(e) /\ Reads(e)' = Reads(e)
      BY <1>1 DEF Seen, Reads
    <2>6. Types'
      BY <1>1, <1>4, <2>1, <2>2, <2>4 DEF Inv, Types, t
    <2>7. NumbersAt'
      BY <1>1, <2>4, <2>5, OtherDir DEF Inv, NumbersAt, Carrying
    <2>8. ASSUME NEW r \in rows
          PROVE  /\ r.dir \in Dirs /\ r.n \in Nat /\ r.after \in Nat
                 /\ r.dir = d => r.n < c.n
                 /\ r.dir # d => r.after < c.n
      <3>1. /\ r.dir \in Dirs /\ r.n \in Nat /\ r.after \in Nat
            /\ r.after <= Seen(Other(r.dir))
            /\ r.dir = d => r.n < Reads(d)
        BY <1>1 DEF Inv, Types, OrderAt, Unstored
      <3>2. r.dir # d => Other(r.dir) = d
        BY <3>1, OtherDir
      <3>3. Seen(d) \in Nat
        BY SeenType DEF Inv
      <3>. QED
        BY <2>2, <2>3, <3>1, <3>2, <3>3
    <2>9. OrderAt'
      <3>1. ASSUME NEW e \in Dirs, pc'[e] = "save", NEW b \in chunk[e]
            PROVE  b.seq <= seq /\ \A r \in rows' : r.dir = e \/ r.n <= b.after => r.seq < b.seq
        <4>1. e # d /\ pc[e] = "save" /\ e = Other(d)
          BY <2>4, <3>1, OtherDir
        <4>2. /\ b.seq <= seq /\ b.after <= Seen(d) /\ b.after \in Nat
              /\ \A r \in rows : r.dir = e \/ r.n <= b.after => r.seq < b.seq
          BY <3>1, <4>1, OtherDir DEF Inv, Types, NumbersAt, OrderAt, Carrying, Carriage
        <4>3. ~(t.dir = e \/ t.n <= b.after)
          <5>1. Seen(d) \in Nat
            BY SeenType DEF Inv
          <5>. QED
            BY <2>1, <2>2, <2>3, <4>1, <4>2, <5>1
        <4>. QED
          BY <1>4, <4>2, <4>3 DEF t
      <3>2. ASSUME NEW r \in rows'
            PROVE  /\ r.seq <= seq
                   /\ r.n <= Reads(r.dir) /\ r.after <= Seen(Other(r.dir))
                   /\ pc'[r.dir] \in Unstored => r.n < Reads(r.dir)
        <4>1. CASE r \in rows
          BY <2>4, <2>8, <4>1 DEF Inv, OrderAt, Unstored
        <4>2. CASE r = t
          BY <2>1, <2>2, <2>3, <2>4, <4>2 DEF Unstored
        <4>. QED
          BY <1>4, <3>2, <4>1, <4>2 DEF t
      <3>3. \A r \in rows' : r.dir \in Dirs
        BY <2>6 DEF Types
      <3>. QED
        BY <1>1, <2>5, <3>1, <3>2, <3>3, OtherDir DEF OrderAt
    <2>10. RowsAreChronological'
      <3>. SUFFICES ASSUME NEW r \in rows', NEW u \in rows',
                           (r.dir = u.dir /\ r.n < u.n) \/ (r.dir # u.dir /\ r.n <= u.after)
                    PROVE  r.seq < u.seq
        BY DEF RowsAreChronological
      <3>1. CASE r \in rows /\ u \in rows
        BY <3>1 DEF Inv, RowsAreChronological
      <3>2. CASE r \in rows /\ u = t
        BY <2>1, <2>3, <3>2
      <3>3. CASE r = t /\ u \in rows
        BY <2>1, <2>2, <2>8, <3>3
      <3>4. CASE r = t /\ u = t
        BY <2>1, <2>2, <3>4
      <3>. QED
        BY <1>4, <3>1, <3>2, <3>3, <3>4 DEF t
    <2>. QED
      BY <2>6, <2>7, <2>9, <2>10 DEF Inv
  <1>. QED
    BY <1>2, <1>3, <1>4

LEMMA WriteInv == ASSUME Inv, NEW d \in Dirs, Write(d) PROVE Inv'
  <1>1. PICK c \in chunk[d] :
          \/ received' = [received EXCEPT ![d] = Append(@, [n |-> c.n, size |-> c.size])]
          \/ received' = received
    BY DEF Write
  <1>2. PICK l \in {"read", "closing"} : pc' = [pc EXCEPT ![d] = l]
    BY DEF Write, Goto
  <1>3. /\ pc[d] = "write" /\ chunk' = [chunk EXCEPT ![d] = {}]
        /\ UNCHANGED <<seq, rows, sent, wire>>
    BY DEF Write
  <1>4. /\ c \in Carriage /\ c.n = Reads(d) /\ c.n \in Nat /\ c.size \in Nat
        /\ received \in [Dirs -> Seq(Arrival)]
        /\ Seen(d) \in Nat /\ Seen(d) < c.n
    BY <1>3, SeenType DEF Inv, Types, NumbersAt, Carrying, Carriage
  <1>5. /\ received' \in [Dirs -> Seq(Arrival)]
        /\ \A e \in Dirs : e # d => Seen(e)' = Seen(e)
        /\ Seen(d)' \in {Seen(d), c.n}
    <2>1. CASE received' = received
      BY <1>4, <2>1 DEF Seen
    <2>2. CASE received' = [received EXCEPT ![d] = Append(@, [n |-> c.n, size |-> c.size])]
      <3>. DEFINE a == [n |-> c.n, size |-> c.size]
      <3>1. a \in Arrival /\ a.n = c.n
        BY <1>4 DEF Arrival
      <3>. HIDE DEF a
      <3>2. /\ received'[d] = Append(received[d], a) /\ received[d] \in Seq(Arrival)
            /\ \A e \in Dirs : e # d => received'[e] = received[e]
        BY <1>4, <2>2 DEF a
      <3>3. /\ received'[d] # <<>> /\ received'[d][Len(received'[d])] = a
            /\ received'[d] \in Seq(Arrival)
        BY <3>1, <3>2
      <3>. QED
        BY <1>4, <2>2, <3>1, <3>2, <3>3 DEF Seen
    <2>. QED
      BY <1>1, <2>1, <2>2
  <1>6. /\ pc'[d] = l /\ \A e \in Dirs : e # d => pc'[e] = pc[e] /\ chunk'[e] = chunk[e]
        /\ pc' \in [Dirs -> Labels] /\ chunk' \in [Dirs -> SUBSET Carriage] /\ chunk'[d] = {}
    BY <1>2, <1>3 DEF Inv, Types, Labels
  <1>7. \A e \in Dirs : Reads(e)' = Reads(e) /\ Seen(e) \in Nat /\ Seen(e)' \in Nat /\ Seen(e) <= Seen(e)'
    <2>1. \A e \in Dirs : Reads(e)' = Reads(e)
      <3>1. UNCHANGED <<sent, wire>>
        BY <1>3
      <3>. QED
        BY <3>1 DEF Reads
    <2>2. \A e \in Dirs : Seen(e) \in Nat
      BY SeenType DEF Inv
    <2>3. c.n \in Nat /\ Seen(d) < c.n
      BY <1>4
    <2>4. Seen(d)' \in Nat /\ Seen(d) <= Seen(d)'
      BY <1>5, <2>2, <2>3
    <2>5. \A e \in Dirs : e # d => Seen(e)' \in Nat /\ Seen(e) <= Seen(e)'
      BY <1>5, <2>2
    <2>. QED
      BY <2>1, <2>2, <2>4, <2>5
  <1>8. Types'
    BY <1>3, <1>5, <1>6 DEF Inv, Types
  <1>9. NumbersAt'
    <2>1. ASSUME NEW e \in Dirs, NEW x \in Nat, x <= Seen(e)
          PROVE  x <= Seen(e)'
      BY <1>7, <2>1
    <2>2. ASSUME NEW e \in Dirs, NEW i \in 1..Len(wire[e])
          PROVE  wire[e][i].n = Reads(e) + i /\ wire[e][i].after <= Seen(Other(e))'
      <3>1. wire[e][i] \in Waiting
        BY DEF Inv, Types
      <3>. QED
        BY <2>1, <3>1, OtherDir DEF Inv, NumbersAt, Waiting
    <2>3. ASSUME NEW e \in Dirs, pc'[e] \in Carrying, NEW b \in chunk'[e]
          PROVE  b.n = Reads(e) /\ b.after <= Seen(Other(e))'
      <3>1. e # d /\ b \in chunk[e] /\ pc[e] \in Carrying /\ b \in Carriage
        BY <1>6, <2>3 DEF Inv, Types
      <3>. QED
        BY <2>1, <3>1, OtherDir DEF Inv, NumbersAt, Carriage
    <2>4. ASSUME NEW e \in Dirs
          PROVE  Seen(e)' <= Reads(e) /\ (pc'[e] \in Carrying => Seen(e)' < Reads(e))
      <3>1. Seen(e) <= Reads(e) /\ (pc[e] \in Carrying => Seen(e) < Reads(e))
        BY DEF Inv, NumbersAt
      <3>2. CASE e # d
        BY <1>5, <1>6, <3>1, <3>2
      <3>3. CASE e = d
        BY <1>2, <1>4, <1>5, <1>6, <3>1, <3>3 DEF Carrying
      <3>. QED
        BY <3>2, <3>3
    <2>5. \A e \in Dirs : Len(wire[e]) <= sent[e]
      BY DEF Inv, NumbersAt
    <2>. QED
      BY <1>3, <1>7, <2>2, <2>3, <2>4, <2>5 DEF NumbersAt
  <1>10. OrderAt'
    <2>1. ASSUME NEW r \in rows
          PROVE  /\ r.dir \in Dirs /\ r.seq <= seq
                 /\ r.n <= Reads(r.dir) /\ r.after <= Seen(Other(r.dir))'
                 /\ pc'[r.dir] \in Unstored => r.n < Reads(r.dir)
      <3>1. /\ r.dir \in Dirs /\ r.after \in Nat /\ r.seq <= seq
            /\ r.n <= Reads(r.dir) /\ r.after <= Seen(Other(r.dir))
            /\ pc[r.dir] \in Unstored => r.n < Reads(r.dir)
        BY DEF Inv, Types, OrderAt
      <3>. QED
        BY <1>6, <1>7, <3>1, OtherDir DEF Unstored
    <2>. QED
      BY <1>3, <1>6, <1>7, <2>1 DEF Inv, OrderAt
  <1>. QED
    BY <1>3, <1>8, <1>9, <1>10 DEF Inv, RowsAreChronological

LEMMA NextInv == Inv /\ [Next]_vars => Inv'
  <1>. SUFFICES ASSUME Inv, [Next]_vars PROVE Inv'
    OBVIOUS
  <1>1. Sizes \subseteq Nat /\ Edits \subseteq Nat
    BY RelayTCPAssumption
  <1>2. CASE DialFails \/ Dialled \/ CloseSession \/ SetSettings \/ Shutdown \/ UNCHANGED vars
    <2>1. /\ pc' \in [Dirs -> Labels]
          /\ \A d \in Dirs : \/ pc'[d] = pc[d]
                             \/ pc'[d] \notin Carrying
                             \/ pc[d] \in Unstored /\ pc'[d] \in Carrying \ {"save"}
          /\ UNCHANGED <<chunk, seq, rows, sent, wire, received>>
      BY <1>2 DEF DialFails, Dialled, CloseSession, SetSettings, Shutdown, vars, peerVars,
                  Inv, Types, Labels, Carrying, Unstored
    <2>. QED
      BY <2>1, PlaceInv
  <1>3. ASSUME NEW d \in Dirs,
               \/ ReadEnds(d) \/ Hold(d) \/ AutoForward(d) \/ SkipCapture(d) \/ PumpEnds(d)
               \/ PeerCloses(d) \/ PeerResets(d)
        PROVE  Inv'
    <2>1. /\ UNCHANGED <<chunk, seq, rows, sent, wire, received>>
          /\ \/ pc' = pc
             \/ pc' = [pc EXCEPT ![d] = "closing"]
             \/ pc' = [pc EXCEPT ![d] = "ended"]
             \/ \E l \in {"held", "capture", "write"} :
                  pc[d] \in {"hold", "held", "capture"} /\ pc' = [pc EXCEPT ![d] = l]
      BY <1>3 DEF ReadEnds, Hold, AutoForward, SkipCapture, PumpEnds, PeerCloses, PeerResets,
                  Goto, peerVars
    <2>2. /\ pc' \in [Dirs -> Labels]
          /\ \A e \in Dirs : \/ pc'[e] = pc[e]
                             \/ pc'[e] \notin Carrying
                             \/ pc[e] \in Unstored /\ pc'[e] \in Carrying \ {"save"}
      BY <2>1 DEF Inv, Types, Labels, Carrying, Unstored
    <2>. QED
      BY <2>1, <2>2, PlaceInv
  <1>. QED
    BY <1>1, <1>2, <1>3, PeerSendsInv, ReadChunkInv, ResolveInv, CaptureInv, SaveChunkInv, WriteInv
    DEF Next, Pump

\* Rows are in an order in which things can have happened: chunks of one direction in
\* the order of the stream, an answer after what it answers (storeChunk numbers a
\* chunk before it is written).
THEOREM HistoryIsChronological == Spec => []RowsAreChronological
  <1>1. Inv => RowsAreChronological
    BY DEF Inv
  <1>. QED
    BY <1>1, InitInv, NextInv, PTL DEF Spec

-----------------------------------------------------------------------------
(* What was read is written.                                               *)

Forwarded(d) == {received[d][i].n : i \in DOMAIN received[d]}

\* Towards a peer that was not lost: what a pump has read has arrived or was dropped,
\* but for the chunk it is carrying.
RelayAt ==
  /\ dropped \in [Dirs -> SUBSET Nat]
  /\ \A d \in Dirs :
       /\ \A i \in DOMAIN received[d] : received[d][i].n <= Seen(d)
       /\ \A i, j \in DOMAIN received[d] : i < j => received[d][i].n < received[d][j].n
       /\ Dst(d) \notin reset =>
            /\ pc[d] \in {"dial", "read"} => Forwarded(d) \cup dropped[d] = 1..Reads(d)
            /\ pc[d] \in Carrying =>
                 \A c \in chunk[d] :
                   Forwarded(d) \cup dropped[d] =
                     1..(IF c.drop THEN Reads(d) ELSE Reads(d) - 1)

\* Steps that neither read a chunk nor write one, and do not drop one.
LEMMA RelayStays ==
  ASSUME RelayAt, UNCHANGED <<received, dropped>>, reset \subseteq reset',
         \A d \in Dirs : Reads(d)' = Reads(d),
         \A d \in Dirs : \A c \in chunk'[d] : \E b \in chunk[d] : c.drop = b.drop,
         \A d \in Dirs : \/ pc'[d] = pc[d]
                         \/ pc'[d] \in {"closing", "ended"}
                         \/ pc[d] \in Carrying /\ pc'[d] \in Carrying
                         \/ pc[d] = "dial" /\ pc'[d] = "read"
  PROVE  RelayAt'
  <1>1. \A d \in Dirs : Seen(d)' = Seen(d) /\ Forwarded(d)' = Forwarded(d)
    BY DEF Seen, Forwarded
  <1>2. ASSUME NEW d \in Dirs, Dst(d) \notin reset', pc'[d] \in {"dial", "read"}
        PROVE  Forwarded(d) \cup dropped[d] = 1..Reads(d)
    BY <1>2 DEF RelayAt, Carrying
  <1>3. ASSUME NEW d \in Dirs, Dst(d) \notin reset', pc'[d] \in Carrying, NEW c \in chunk'[d]
        PROVE  Forwarded(d) \cup dropped[d] = 1..(IF c.drop THEN Reads(d) ELSE Reads(d) - 1)
    <2>1. PICK b \in chunk[d] : c.drop = b.drop
      OBVIOUS
    <2>2. pc[d] \in Carrying /\ Dst(d) \notin reset
      BY <1>3 DEF Carrying
    <2>. QED
      BY <2>1, <2>2 DEF RelayAt
  <1>. QED
    BY <1>1, <1>2, <1>3 DEF RelayAt

LEMMA ReadChunkRelay ==
  ASSUME Inv, RelayAt, NEW d \in Dirs, ReadChunk(d) PROVE RelayAt'
  <1>1. /\ pc[d] = "read" /\ wire[d] # <<>>
        /\ wire' = [wire EXCEPT ![d] = Tail(@)] /\ pc' = [pc EXCEPT ![d] = "hold"]
        /\ UNCHANGED <<sent, received, dropped, reset>>
    BY DEF ReadChunk, Goto
  <1>2. PICK size \in Sizes :
          chunk' = [chunk EXCEPT ![d] =
                      {[n |-> Head(wire[d]).n, after |-> Head(wire[d]).after, size |-> size,
                        edited |-> FALSE, drop |-> FALSE, seq |-> 0]}]
    BY DEF ReadChunk
  <1>3. /\ \A e \in Dirs : Seen(e)' = Seen(e) /\ Forwarded(e)' = Forwarded(e)
        /\ \A e \in Dirs : e # d => Reads(e)' = Reads(e) /\ pc'[e] = pc[e] /\ chunk'[e] = chunk[e]
        /\ pc'[d] = "hold" /\ \A c \in chunk'[d] : c.drop = FALSE
    BY <1>1, <1>2 DEF Seen, Forwarded, Reads, Inv, Types
  <1>4. Reads(d)' = Reads(d) + 1 /\ Reads(d) \in Nat
    <2>1. wire[d] \in Seq(Waiting) /\ sent[d] \in Nat /\ Len(wire[d]) <= sent[d]
      BY DEF Inv, Types, NumbersAt
    <2>2. wire'[d] = Tail(wire[d])
      BY <1>1 DEF Inv, Types
    <2>3. Len(wire'[d]) = Len(wire[d]) - 1 /\ Len(wire[d]) \in Nat
      <3>. DEFINE w == wire[d]
      <3>1. w \in Seq(Waiting) /\ w # <<>>
        BY <1>1, <2>1
      <3>. HIDE DEF w
      <3>2. Len(Tail(w)) = Len(w) - 1 /\ Len(w) \in Nat
        BY <3>1
      <3>. QED
        BY <2>2, <3>2 DEF w
    <2>. QED
      BY <1>1, <2>1, <2>3 DEF Reads
  <1>5. ASSUME NEW e \in Dirs, Dst(e) \notin reset, pc'[e] \in Carrying, NEW c \in chunk'[e]
        PROVE  Forwarded(e) \cup dropped[e] = 1..(IF c.drop THEN Reads(e)' ELSE Reads(e)' - 1)
    <2>1. CASE e # d
      BY <1>3, <1>5, <2>1 DEF RelayAt
    <2>2. CASE e = d
      <3>1. Reads(d)' - 1 = Reads(d) /\ c.drop = FALSE
        BY <1>3, <1>4, <1>5, <2>2
      <3>. QED
        BY <1>1, <1>5, <2>2, <3>1 DEF RelayAt
    <2>. QED
      BY <2>1, <2>2
  <1>6. ASSUME NEW e \in Dirs, Dst(e) \notin reset, pc'[e] \in {"dial", "read"}
        PROVE  Forwarded(e) \cup dropped[e] = 1..Reads(e)'
    BY <1>3, <1>6 DEF RelayAt
  <1>. QED
    BY <1>1, <1>3, <1>5, <1>6 DEF RelayAt

LEMMA ResolveRelay ==
  ASSUME Inv, RelayAt, NEW d \in Dirs, Resolve(d) PROVE RelayAt'
  <1>1. /\ pc[d] = "held" /\ pc' = [pc EXCEPT ![d] = "capture"]
        /\ UNCHANGED <<sent, wire, received, reset>>
    BY DEF Resolve, Goto, peerVars
  <1>2. /\ pc'[d] = "capture" /\ \A e \in Dirs : e # d => pc'[e] = pc[e]
        /\ \A e \in Dirs : Reads(e)' = Reads(e)
    BY <1>1 DEF Inv, Types, Reads
  <1>3. \A e \in Dirs : Seen(e)' = Seen(e) /\ Forwarded(e)' = Forwarded(e)
    BY <1>1 DEF Seen, Forwarded
  <1>4. chunk \in [Dirs -> SUBSET Carriage]
    BY DEF Inv, Types
  <1>5. CASE dropped' = dropped /\
             \A e \in Dirs : \A c \in chunk'[e] : \E b \in chunk[e] : c.drop = b.drop
    <2>1. \A e \in Dirs : pc'[e] = pc[e] \/ (pc[e] \in Carrying /\ pc'[e] \in Carrying)
      BY <1>1, <1>2 DEF Carrying
    <2>. QED
      BY <1>1, <1>2, <1>5, <2>1, RelayStays
  <1>6. CASE dropped' = dropped /\ chunk' = chunk
    <2>1. \A e \in Dirs : \A c \in chunk'[e] : \E b \in chunk[e] : c.drop = b.drop
      BY <1>6
    <2>. QED
      BY <1>5, <1>6, <2>1
  <1>7. CASE /\ dropped' = dropped
             /\ \E size \in Edits :
                  chunk' = [chunk EXCEPT ![d] = {[c EXCEPT !.size = size, !.edited = TRUE] : c \in @}]
    <2>1. PICK size \in Edits :
            chunk' = [chunk EXCEPT ![d] = {[c EXCEPT !.size = size, !.edited = TRUE] : c \in @}]
      BY <1>7, Zenon
    <2>2. \A c \in Carriage : [c EXCEPT !.size = size, !.edited = TRUE].drop = c.drop
      BY DEF Carriage
    <2>3. \A c \in chunk'[d] : \E b \in chunk[d] : c.drop = b.drop
      <3>1. chunk'[d] = {[c EXCEPT !.size = size, !.edited = TRUE] : c \in chunk[d]}
        BY <1>4, <2>1
      <3>. SUFFICES ASSUME NEW c \in chunk'[d]
                    PROVE  \E b \in chunk[d] : c.drop = b.drop
        OBVIOUS
      <3>2. PICK b \in chunk[d] : c = [b EXCEPT !.size = size, !.edited = TRUE]
        BY <3>1
      <3>. QED
        BY <1>4, <2>2, <3>2
    <2>4. \A e \in Dirs : e # d => chunk'[e] = chunk[e]
      BY <1>4, <2>1
    <2>5. \A e \in Dirs : \A c \in chunk'[e] : \E b \in chunk[e] : c.drop = b.drop
      BY <2>3, <2>4
    <2>. QED
      BY <1>5, <1>7, <2>5
  <1>8. CASE /\ chunk' = [chunk EXCEPT ![d] = {[c EXCEPT !.drop = TRUE] : c \in @}]
             /\ dropped' = [dropped EXCEPT ![d] = @ \cup {c.n : c \in chunk[d]}]
    <2>1. /\ \A e \in Dirs : e # d => dropped'[e] = dropped[e] /\ chunk'[e] = chunk[e]
          /\ dropped'[d] = dropped[d] \cup {c.n : c \in chunk[d]}
          /\ chunk'[d] = {[c EXCEPT !.drop = TRUE] : c \in chunk[d]}
      BY <1>4, <1>8 DEF RelayAt
    <2>2. \A c \in chunk[d] : c \in Carriage /\ c.n = Reads(d) /\ c.n \in Nat
      BY <1>1, <1>4 DEF Inv, NumbersAt, Carrying, Carriage
    <2>3. dropped' \in [Dirs -> SUBSET Nat]
      <3>1. {c.n : c \in chunk[d]} \subseteq Nat
        BY <2>2
      <3>. QED
        BY <1>8, <3>1 DEF RelayAt
    <2>4. ASSUME Dst(d) \notin reset, NEW c \in chunk'[d]
          PROVE  Forwarded(d) \cup dropped'[d] = 1..(IF c.drop THEN Reads(d) ELSE Reads(d) - 1)
      <3>1. PICK b \in chunk[d] : c = [b EXCEPT !.drop = TRUE]
        BY <2>1
      <3>2. c.drop = TRUE
        BY <2>2, <3>1 DEF Carriage
      <3>3. {k.n : k \in chunk[d]} = {Reads(d)} /\ Reads(d) \in Nat
        BY <2>2, <3>1
      <3>4. Forwarded(d) \cup dropped[d] = 1..(IF b.drop THEN Reads(d) ELSE Reads(d) - 1)
        BY <1>1, <2>4 DEF RelayAt, Carrying
      <3>5. Reads(d) \in 1..Reads(d)
        <4>1. Seen(d) \in Nat /\ Seen(d) < Reads(d)
          BY <1>1, SeenType DEF Inv, NumbersAt, Carrying
        <4>. QED
          BY <3>3, <4>1
      <3>. QED
        BY <2>1, <3>2, <3>3, <3>4, <3>5
    <2>5. ASSUME NEW e \in Dirs, Dst(e) \notin reset, pc'[e] \in Carrying, NEW c \in chunk'[e]
          PROVE  Forwarded(e) \cup dropped'[e] = 1..(IF c.drop THEN Reads(e) ELSE Reads(e) - 1)
      BY <1>2, <2>1, <2>4, <2>5 DEF RelayAt
    <2>6. ASSUME NEW e \in Dirs, Dst(e) \notin reset, pc'[e] \in {"dial", "read"}
          PROVE  Forwarded(e) \cup dropped'[e] = 1..Reads(e)
      BY <1>2, <2>1, <2>6 DEF RelayAt
    <2>. QED
      BY <1>1, <1>2, <1>3, <2>3, <2>5, <2>6 DEF RelayAt
  <1>. QED
    BY <1>6, <1>7, <1>8, Zenon DEF Resolve

LEMMA WriteRelay ==
  ASSUME Inv, RelayAt, NEW d \in Dirs, Write(d) PROVE RelayAt'
  <1>1. /\ pc[d] = "write" /\ chunk' = [chunk EXCEPT ![d] = {}]
        /\ UNCHANGED <<sent, wire, reset, dropped>>
    BY DEF Write
  <1>2. PICK c \in chunk[d] :
          \/ /\ c.drop /\ received' = received
             /\ pc' = [pc EXCEPT ![d] = "read"]
          \/ /\ ~c.drop
             /\ received' = [received EXCEPT ![d] = Append(@, [n |-> c.n, size |-> c.size])]
             /\ pc' = [pc EXCEPT ![d] = "read"]
          \/ /\ Dst(d) \in reset /\ received' = received
             /\ \E l \in {"read", "closing"} : pc' = [pc EXCEPT ![d] = l]
    BY DEF Write, Goto
  <1>3. /\ c \in Carriage /\ c.n = Reads(d) /\ c.n \in Nat
        /\ received \in [Dirs -> Seq(Arrival)] /\ pc \in [Dirs -> Labels]
        /\ Seen(d) \in Nat /\ Seen(d) < c.n
    BY <1>1, SeenType DEF Inv, Types, NumbersAt, Carrying, Carriage
  <1>4. \A e \in Dirs : Reads(e)' = Reads(e)
    <2>1. UNCHANGED <<sent, wire>>
      BY <1>1
    <2>. QED
      BY <2>1 DEF Reads
  <1>5. /\ \A e \in Dirs : e # d =>
             /\ received'[e] = received[e] /\ pc'[e] = pc[e] /\ chunk'[e] = chunk[e]
             /\ Seen(e)' = Seen(e) /\ Forwarded(e)' = Forwarded(e)
        /\ chunk'[d] = {} /\ pc'[d] \in {"read", "closing"}
    <2>1. \A e \in Dirs : e # d =>
             received'[e] = received[e] /\ pc'[e] = pc[e] /\ chunk'[e] = chunk[e]
      BY <1>1, <1>2, <1>3 DEF Inv, Types
    <2>2. \A e \in Dirs : e # d => Seen(e)' = Seen(e) /\ Forwarded(e)' = Forwarded(e)
      BY <2>1 DEF Seen, Forwarded
    <2>. QED
      BY <1>1, <1>2, <1>3, <2>1, <2>2 DEF Inv, Types
  <1>6. Dst(d) \notin reset =>
          Forwarded(d) \cup dropped[d] = 1..(IF c.drop THEN Reads(d) ELSE Reads(d) - 1)
    BY <1>1 DEF RelayAt, Carrying
  <1>7. /\ \A i \in DOMAIN received'[d] : received'[d][i].n <= Seen(d)'
        /\ \A i, j \in DOMAIN received'[d] : i < j => received'[d][i].n < received'[d][j].n
        /\ Dst(d) \notin reset => Forwarded(d)' \cup dropped[d] = 1..Reads(d)
    <2>1. CASE received' = received /\ (c.drop \/ Dst(d) \in reset)
      <3>1. Seen(d)' = Seen(d) /\ Forwarded(d)' = Forwarded(d)
        BY <2>1 DEF Seen, Forwarded
      <3>. QED
        BY <1>6, <2>1, <3>1 DEF RelayAt
    <2>2. CASE ~c.drop /\ received' = [received EXCEPT ![d] = Append(@, [n |-> c.n, size |-> c.size])]
      <3>. DEFINE a == [n |-> c.n, size |-> c.size]
      <3>1. a.n = c.n /\ a \in Arrival
        BY <1>3 DEF Arrival, Carriage
      <3>. HIDE DEF a
      <3>2. /\ received'[d] = Append(received[d], a) /\ received[d] \in Seq(Arrival)
        BY <1>3, <2>2 DEF a
      <3>. DEFINE l == Len(received[d])
      <3>3. /\ l \in Nat /\ DOMAIN received[d] = 1..l /\ DOMAIN received'[d] = 1..(l + 1)
            /\ \A i \in 1..l : received'[d][i] = received[d][i]
            /\ received'[d][l + 1] = a
            /\ received'[d] # <<>> /\ Len(received'[d]) = l + 1
            /\ \A i \in 1..l : received[d][i].n \in Nat
        <4>. DEFINE old == received[d]
                    new == received'[d]
        <4>1. old \in Seq(Arrival) /\ new = Append(old, a)
          BY <3>2
        <4>. HIDE DEF old, new
        <4>2. /\ Len(old) \in Nat /\ DOMAIN old = 1..Len(old) /\ DOMAIN new = 1..(Len(old) + 1)
              /\ \A i \in 1..Len(old) : new[i] = old[i]
              /\ new[Len(old) + 1] = a
              /\ new # <<>> /\ Len(new) = Len(old) + 1
          BY <3>1, <4>1
        <4>3. \A i \in 1..Len(old) : old[i] \in Arrival
          BY <4>1
        <4>4. \A i \in 1..Len(old) : old[i].n \in Nat
          BY <4>3 DEF Arrival
        <4>. QED
          BY <4>2, <4>4 DEF old, new
      <3>. HIDE DEF l
      <3>4. Seen(d)' = c.n
        BY <3>1, <3>3 DEF Seen
      <3>5. \A i \in 1..l : received'[d][i].n < c.n
        <4>1. \A i \in 1..l : received[d][i].n <= Seen(d)
          BY <3>3 DEF RelayAt
        <4>2. ASSUME NEW k \in Nat, k <= Seen(d)
              PROVE  k < c.n
          BY <1>3, <4>2
        <4>. QED
          BY <3>3, <4>1, <4>2
      <3>6. \A i \in 1..(l + 1) : i \in 1..l \/ i = l + 1
        BY <3>3
      <3>7. \A i \in DOMAIN received'[d] : received'[d][i].n <= Seen(d)'
        BY <1>3, <3>1, <3>3, <3>4, <3>5, <3>6
      <3>8. ASSUME NEW i \in DOMAIN received'[d], NEW j \in DOMAIN received'[d], i < j
            PROVE  received'[d][i].n < received'[d][j].n
        <4>1. i \in 1..l
          BY <3>3, <3>8
        <4>2. CASE j \in 1..l
          BY <3>3, <3>8, <4>1, <4>2 DEF RelayAt
        <4>3. CASE j = l + 1
          BY <3>1, <3>3, <3>5, <4>1, <4>3
        <4>. QED
          BY <3>3, <3>6, <4>2, <4>3
      <3>9. Forwarded(d)' = Forwarded(d) \cup {c.n}
        <4>1. Forwarded(d)' = {received'[d][i].n : i \in 1..(l + 1)}
          BY <3>3 DEF Forwarded
        <4>2. Forwarded(d) = {received[d][i].n : i \in 1..l}
          BY <3>3 DEF Forwarded
        <4>3. {received'[d][i].n : i \in 1..(l + 1)} \subseteq Forwarded(d) \cup {c.n}
          BY <3>1, <3>3, <3>6, <4>2
        <4>4. l + 1 \in 1..(l + 1) /\ \A i \in 1..l : i \in 1..(l + 1)
          BY <3>3
        <4>5. Forwarded(d) \cup {c.n} \subseteq {received'[d][i].n : i \in 1..(l + 1)}
          BY <3>1, <3>3, <4>2, <4>4
        <4>. QED
          BY <4>1, <4>3, <4>5
      <3>10. Dst(d) \notin reset => Forwarded(d)' \cup dropped[d] = 1..Reads(d)
        <4>1. Dst(d) \notin reset => Forwarded(d) \cup dropped[d] = 1..(Reads(d) - 1)
          BY <1>6, <2>2
        <4>2. c.n = Reads(d) /\ c.n \in Nat /\ c.n > 0
          BY <1>3
        <4>3. 1..(c.n - 1) \cup {c.n} = 1..c.n
          BY <4>2
        <4>. QED
          BY <3>9, <4>1, <4>2, <4>3
      <3>. QED
        BY <3>7, <3>8, <3>10
    <2>. QED
      BY <1>2, <2>1, <2>2
  <1>8. ASSUME NEW e \in Dirs
        PROVE  /\ \A i \in DOMAIN received'[e] : received'[e][i].n <= Seen(e)'
               /\ \A i, j \in DOMAIN received'[e] : i < j => received'[e][i].n < received'[e][j].n
               /\ Dst(e) \notin reset =>
                    /\ pc'[e] \in {"dial", "read"} => Forwarded(e)' \cup dropped[e] = 1..Reads(e)
                    /\ pc'[e] \in Carrying =>
                         \A b \in chunk'[e] :
                           Forwarded(e)' \cup dropped[e] =
                             1..(IF b.drop THEN Reads(e) ELSE Reads(e) - 1)
    <2>1. CASE e = d
      BY <1>5, <1>7, <2>1 DEF Carrying
    <2>2. CASE e # d
      BY <1>5, <2>2 DEF RelayAt
    <2>. QED
      BY <2>1, <2>2
  <1>. QED
    BY <1>1, <1>4, <1>8 DEF RelayAt

LEMMA NextRelay == Inv /\ RelayAt /\ [Next]_vars => RelayAt'
  <1>. SUFFICES ASSUME Inv, RelayAt, [Next]_vars PROVE RelayAt'
    OBVIOUS
  <1>1. CASE DialFails \/ Dialled \/ CloseSession \/ SetSettings \/ Shutdown \/ UNCHANGED vars
    <2>1. /\ UNCHANGED <<received, dropped, sent, wire, chunk, reset>>
          /\ \A d \in Dirs : \/ pc'[d] = pc[d]
                             \/ pc'[d] \in {"closing", "ended"}
                             \/ pc[d] \in Carrying /\ pc'[d] \in Carrying
                             \/ pc[d] = "dial" /\ pc'[d] = "read"
      BY <1>1 DEF DialFails, Dialled, CloseSession, SetSettings, Shutdown, vars, peerVars,
                  Inv, Types, Carrying
    <2>2. /\ \A d \in Dirs : Reads(d)' = Reads(d)
          /\ \A d \in Dirs : \A c \in chunk'[d] : \E b \in chunk[d] : c.drop = b.drop
      BY <2>1 DEF Reads
    <2>. QED
      BY <2>1, <2>2, RelayStays
  <1>2. ASSUME NEW d \in Dirs,
               \/ ReadEnds(d) \/ Hold(d) \/ AutoForward(d) \/ SkipCapture(d) \/ SaveChunk(d)
               \/ PumpEnds(d) \/ PeerCloses(d) \/ PeerResets(d)
        PROVE  RelayAt'
    <2>1. /\ UNCHANGED <<received, dropped, sent, wire, chunk>> /\ reset \subseteq reset'
          /\ \/ pc' = pc
             \/ pc' = [pc EXCEPT ![d] = "closing"]
             \/ pc' = [pc EXCEPT ![d] = "ended"]
             \/ \E l \in Carrying : pc[d] \in Carrying /\ pc' = [pc EXCEPT ![d] = l]
      BY <1>2 DEF ReadEnds, Hold, AutoForward, SkipCapture, SaveChunk, PumpEnds, PeerCloses,
                  PeerResets, Goto, peerVars, Carrying
    <2>2. \A e \in Dirs : \/ pc'[e] = pc[e]
                          \/ pc'[e] \in {"closing", "ended"}
                          \/ pc[e] \in Carrying /\ pc'[e] \in Carrying
      BY <2>1 DEF Inv, Types
    <2>3. /\ \A e \in Dirs : Reads(e)' = Reads(e)
          /\ \A e \in Dirs : \A c \in chunk'[e] : \E b \in chunk[e] : c.drop = b.drop
      BY <2>1 DEF Reads
    <2>. QED
      BY <2>1, <2>2, <2>3, RelayStays
  <1>3. ASSUME NEW d \in Dirs, PeerSends(d)
        PROVE  RelayAt'
    <2>1. /\ UNCHANGED <<received, dropped, chunk, pc, reset>>
          /\ sent' = [sent EXCEPT ![d] = @ + 1]
          /\ \E w \in [n : {sent'[d]}, after : {Seen(Other(d))}] :
               wire' = [wire EXCEPT ![d] = Append(@, w)]
      BY <1>3 DEF PeerSends
    <2>2. \A e \in Dirs : Reads(e)' = Reads(e)
      <3>1. PICK w \in [n : {sent'[d]}, after : {Seen(Other(d))}] :
              wire' = [wire EXCEPT ![d] = Append(@, w)]
        BY <2>1
      <3>2. sent \in [Dirs -> Nat] /\ wire \in [Dirs -> Seq(Waiting)] /\ w \in Waiting
        BY <2>1, <3>1, SeenType, OtherDir DEF Inv, Types, Waiting
      <3>3. Len(wire'[d]) = Len(wire[d]) + 1 /\ Len(wire[d]) \in Nat /\ sent'[d] = sent[d] + 1
        BY <2>1, <3>1, <3>2
      <3>4. ASSUME NEW e \in Dirs, e # d
            PROVE  wire'[e] = wire[e] /\ sent'[e] = sent[e]
        BY <2>1, <3>1, <3>2, <3>4
      <3>5. Reads(d)' = Reads(d)
        <4>1. sent[d] \in Nat
          BY <3>2
        <4>2. (sent[d] + 1) - (Len(wire[d]) + 1) = sent[d] - Len(wire[d])
          BY <3>3, <4>1
        <4>. QED
          BY <3>3, <4>2 DEF Reads
      <3>6. ASSUME NEW e \in Dirs, e # d
            PROVE  Reads(e)' = Reads(e)
        BY <3>4, <3>6 DEF Reads
      <3>. QED
        BY <3>5, <3>6
    <2>3. \A e \in Dirs : \A c \in chunk'[e] : \E b \in chunk[e] : c.drop = b.drop
      BY <2>1
    <2>. QED
      BY <2>1, <2>2, <2>3, RelayStays
  <1>4. ASSUME NEW d \in Dirs, Capture(d)
        PROVE  RelayAt'
    <2>1. /\ UNCHANGED <<received, dropped, sent, wire, reset>>
          /\ pc[d] = "capture" /\ pc' = [pc EXCEPT ![d] = "save"]
          /\ chunk' = [chunk EXCEPT ![d] = {[c EXCEPT !.seq = NextSeq(d)] : c \in @}]
      BY <1>4 DEF Capture, Goto, peerVars
    <2>2. chunk \in [Dirs -> SUBSET Carriage] /\ pc \in [Dirs -> Labels]
      BY DEF Inv, Types
    <2>3. ASSUME NEW c \in chunk'[d]
          PROVE  \E b \in chunk[d] : c.drop = b.drop
      <3>1. chunk'[d] = {[c2 EXCEPT !.seq = NextSeq(d)] : c2 \in chunk[d]}
        BY <2>1, <2>2
      <3>2. PICK b \in chunk[d] : c = [b EXCEPT !.seq = NextSeq(d)]
        BY <3>1
      <3>3. b \in Carriage
        BY <2>2
      <3>. QED
        BY <3>2, <3>3 DEF Carriage
    <2>4. \A e \in Dirs : \A c \in chunk'[e] : \E b \in chunk[e] : c.drop = b.drop
      BY <2>1, <2>2, <2>3
    <2>5. /\ \A e \in Dirs : Reads(e)' = Reads(e)
          /\ \A e \in Dirs : pc'[e] = pc[e] \/ (pc[e] \in Carrying /\ pc'[e] \in Carrying)
      BY <2>1, <2>2 DEF Reads, Carrying
    <2>. QED
      BY <2>1, <2>4, <2>5, RelayStays
  <1>. QED
    BY <1>1, <1>2, <1>3, <1>4, ReadChunkRelay, ResolveRelay, WriteRelay DEF Next, Pump

\* A pump that reads again has forwarded all it read, in the order in which it read it,
\* but for what a user dropped: reaching the cap of the capture loses nothing (the
\* pump keeps relaying when storeChunk stores no more).
THEOREM NothingReadIsLost == Spec => []ReadIsRelayed
  <1>1. Init => RelayAt
    <2>. SUFFICES ASSUME Init PROVE RelayAt
      OBVIOUS
    <2>1. \A d \in Dirs : Reads(d) = 0 /\ received[d] = <<>> /\ dropped[d] = {}
      BY DEF Init, Reads
    <2>2. \A d \in Dirs : Forwarded(d) = {}
      BY <2>1 DEF Forwarded
    <2>. QED
      BY <2>1, <2>2 DEF Init, RelayAt, Carrying
  <1>2. Inv /\ RelayAt => ReadIsRelayed
    BY DEF RelayAt, ReadIsRelayed, Forwarded, Reads
  <1>. QED
    BY <1>1, <1>2, InitInv, NextInv, NextRelay, PTL DEF Spec

-----------------------------------------------------------------------------
(* Sums over finite sets of rows.  What a fold over a set computes takes an *)
(* induction over its subsets, which is: a smallest one for which a claim   *)
(* fails would have a smaller one.                                          *)

\* f is the sum over the subsets of S, as MapThenSumSet defines it.
IsSum(f, S) ==
  f = [s \in SUBSET S |->
         IF s = {} THEN 0
         ELSE LET x == CHOOSE x \in s : TRUE IN x.stored + f[s \ {x}]]

Sum(S) == MapThenSumSet(LAMBDA r : r.stored, S)

\* Among sets of subsets of a finite set there is a smallest one.
LEMMA Smallest ==
  ASSUME NEW S, IsFiniteSet(S), NEW C \in SUBSET SUBSET S, C # {}
  PROVE  \E s \in C : \A t \in C : ~(t \subseteq s /\ t # s)
  <1>1. C \subseteq FiniteSubsetsOf(S)
    BY FS_Subset DEF FiniteSubsetsOf
  <1>2. PICK s \in C : \A t \in C : ~(<<t, s>> \in StrictSubsetOrdering(S))
    BY <1>1, WFMin, FS_StrictSubsetOrderingWellFounded
  <1>. QED
    BY <1>2 DEF StrictSubsetOrdering

LEMMA SumUnique ==
  ASSUME NEW S, IsFiniteSet(S), NEW f, IsSum(f, S),
         NEW T \in SUBSET S, NEW g, IsSum(g, T)
  PROVE  \A s \in SUBSET T : f[s] = g[s]
  <1>. DEFINE C == {s \in SUBSET T : f[s] # g[s]}
  <1>. SUFFICES ASSUME C # {} PROVE FALSE
    OBVIOUS
  <1>1. PICK s \in C : \A t \in C : ~(t \subseteq s /\ t # s)
    <2>1. C \in SUBSET SUBSET S
      OBVIOUS
    <2>. HIDE DEF C
    <2>. QED
      BY <2>1, Smallest
  <1>. DEFINE x == CHOOSE x \in s : TRUE
  <1>2. CASE s = {}
    BY <1>2 DEF IsSum
  <1>3. CASE s # {}
    <2>1. x \in s
      BY <1>3
    <2>2. f[s] = x.stored + f[s \ {x}] /\ g[s] = x.stored + g[s \ {x}]
      BY <1>3 DEF IsSum
    <2>3. f[s \ {x}] = g[s \ {x}]
      BY <1>1, <2>1
    <2>. QED
      BY <2>2, <2>3
  <1>. QED
    BY <1>2, <1>3

LEMMA SumExists == ASSUME NEW S, IsFiniteSet(S) PROVE \E f : IsSum(f, S)
  <1>. DEFINE C == {s \in SUBSET S : ~\E f : IsSum(f, s)}
  <1>. SUFFICES ASSUME C # {} PROVE FALSE
    OBVIOUS
  <1>1. PICK s \in C : \A t \in C : ~(t \subseteq s /\ t # s)
    <2>1. C \in SUBSET SUBSET S
      OBVIOUS
    <2>. HIDE DEF C
    <2>. QED
      BY <2>1, Smallest
  <1>. DEFINE F(t) == CHOOSE f : IsSum(f, t)
              x(t) == CHOOSE x \in t : TRUE
              h == [t \in SUBSET s |->
                      IF t = {} THEN 0 ELSE x(t).stored + F(t \ {x(t)})[t \ {x(t)}]]
  <1>2. \A t \in SUBSET s : t # {} => x(t) \in t
    OBVIOUS
  <1>3. \A t \in SUBSET s : t # s => IsSum(F(t), t)
    BY <1>1
  <1>4. ASSUME NEW t \in SUBSET s, t # s PROVE h[t] = F(t)[t]
    <2>1. CASE t = {}
      <3>1. IsSum(F(t), t)
        BY <1>3, <1>4
      <3>. HIDE DEF F
      <3>2. F(t)[t] = 0
        BY <2>1, <3>1 DEF IsSum
      <3>. QED
        BY <2>1, <3>2
    <2>2. CASE t # {}
      <3>. DEFINE u == t \ {x(t)}
      <3>1. u \in SUBSET t /\ u # s /\ u \in SUBSET s
        BY <1>2, <2>2
      <3>2. IsSum(F(t), t) /\ IsSum(F(u), u)
        BY <1>3, <1>4, <3>1
      <3>3. IsFiniteSet(t)
        BY FS_Subset
      <3>. HIDE DEF F
      <3>4. F(t)[u] = F(u)[u]
        <4>1. \A v \in SUBSET u : F(t)[v] = F(u)[v]
          BY <3>1, <3>2, <3>3, SumUnique
        <4>. QED
          BY <4>1
      <3>5. F(t)[t] = x(t).stored + F(t)[u]
        BY <2>2, <3>2 DEF IsSum
      <3>. QED
        BY <2>2, <3>4, <3>5
    <2>. QED
      BY <2>1, <2>2
  <1>5. h = [t \in SUBSET s |->
               IF t = {} THEN 0 ELSE x(t).stored + h[t \ {x(t)}]]
    <2>. HIDE DEF F
    <2>1. ASSUME NEW t \in SUBSET s, t # {}
          PROVE  h[t \ {x(t)}] = F(t \ {x(t)})[t \ {x(t)}]
      <3>1. t \ {x(t)} \in SUBSET s /\ t \ {x(t)} # s
        BY <1>2, <2>1
      <3>. HIDE DEF h, x
      <3>. QED
        BY <1>4, <3>1
    <2>2. \A t \in SUBSET s : h[t] = IF t = {} THEN 0 ELSE x(t).stored + h[t \ {x(t)}]
      <3>. HIDE DEF x
      <3>. QED
        BY <2>1
    <2>3. h = [t \in SUBSET s |-> h[t]]
      OBVIOUS
    <2>. HIDE DEF h
    <2>. QED
      BY <2>2, <2>3
  <1>6. IsSum(h, s)
    <2>. HIDE DEF h
    <2>. QED
      BY <1>5 DEF IsSum
  <1>. QED
    BY <1>6

\* The sum of a finite set, as a recursion.
LEMMA SumStep ==
  ASSUME NEW S, IsFiniteSet(S)
  PROVE  Sum(S) = IF S = {} THEN 0
                  ELSE LET x == CHOOSE x \in S : TRUE IN x.stored + Sum(S \ {x})
  <1>. DEFINE F(t) == CHOOSE f : IsSum(f, t)
              x == CHOOSE x \in S : TRUE
              T == S \ {x}
  <1>1. Sum(S) = F(S)[S] /\ Sum(T) = F(T)[T]
    BY DEF Sum, MapThenSumSet, MapThenFoldSet, IsSum
  <1>2. IsSum(F(S), S) /\ IsSum(F(T), T)
    BY SumExists, FS_RemoveElement
  <1>. HIDE DEF F
  <1>3. F(S)[T] = F(T)[T]
    <2>1. T \in SUBSET S /\ T \in SUBSET T
      OBVIOUS
    <2>. HIDE DEF T
    <2>. QED
      BY <1>2, <2>1, SumUnique
  <1>4. F(S)[S] = IF S = {} THEN 0 ELSE x.stored + F(S)[T]
    BY <1>2 DEF IsSum
  <1>. QED
    BY <1>1, <1>3, <1>4

LEMMA SumType ==
  ASSUME NEW S, IsFiniteSet(S), \A r \in S : r.stored \in Int
  PROVE  \A s \in SUBSET S : Sum(s) \in Int
  <1>. DEFINE C == {s \in SUBSET S : Sum(s) \notin Int}
  <1>. SUFFICES ASSUME C # {} PROVE FALSE
    OBVIOUS
  <1>1. PICK s \in C : \A t \in C : ~(t \subseteq s /\ t # s)
    <2>1. C \in SUBSET SUBSET S
      OBVIOUS
    <2>. HIDE DEF C
    <2>. QED
      BY <2>1, Smallest
  <1>. DEFINE x == CHOOSE x \in s : TRUE
  <1>2. IsFiniteSet(s)
    BY FS_Subset
  <1>3. CASE s = {}
    <2>1. Sum(s) = 0
      BY <1>2, <1>3, SumStep
    <2>. QED
      BY <2>1
  <1>4. CASE s # {}
    <2>1. x \in s /\ s \ {x} \notin C /\ s \ {x} \in SUBSET S
      BY <1>1, <1>4
    <2>2. Sum(s) = x.stored + Sum(s \ {x})
      BY <1>2, <1>4, SumStep
    <2>. QED
      BY <2>1, <2>2
  <1>. QED
    BY <1>3, <1>4

\* An element more adds its part, whichever the order of summation.
LEMMA SumAdd ==
  ASSUME NEW S, IsFiniteSet(S), \A r \in S : r.stored \in Int
  PROVE  \A s \in SUBSET S : \A y \in S \ s : Sum(s \cup {y}) = y.stored + Sum(s)
  <1>. DEFINE C == {s \in SUBSET S : \E y \in S \ s : Sum(s \cup {y}) # y.stored + Sum(s)}
  <1>. SUFFICES ASSUME C # {} PROVE FALSE
    OBVIOUS
  <1>1. PICK s \in C : \A t \in C : ~(t \subseteq s /\ t # s)
    <2>1. C \in SUBSET SUBSET S
      OBVIOUS
    <2>. HIDE DEF C
    <2>. QED
      BY <2>1, Smallest
  <1>2. PICK y \in S \ s : Sum(s \cup {y}) # y.stored + Sum(s)
    OBVIOUS
  <1>. DEFINE t == s \cup {y}
              x == CHOOSE x \in t : TRUE
              u == s \ {x}
  <1>3. x \in t /\ t \in SUBSET S /\ IsFiniteSet(t)
    BY FS_Subset
  <1>4. Sum(t) = x.stored + Sum(t \ {x})
    BY <1>3, SumStep
  <1>5. CASE x = y
    BY <1>2, <1>4, <1>5
  <1>6. CASE x # y
    <2>1. x \in s /\ u \in SUBSET S /\ u \notin C /\ x \in S \ u /\ y \in S \ u
      BY <1>1, <1>3, <1>6
    <2>2. t \ {x} = u \cup {y} /\ s = u \cup {x}
      BY <1>6, <2>1
    <2>3. Sum(u \cup {y}) = y.stored + Sum(u) /\ Sum(u \cup {x}) = x.stored + Sum(u)
      BY <2>1
    <2>4. Sum(u) \in Int /\ x.stored \in Int /\ y.stored \in Int
      BY <2>1, SumType
    <2>5. Sum(t) = x.stored + (y.stored + Sum(u))
      BY <1>4, <2>2, <2>3
    <2>6. Sum(s) = x.stored + Sum(u)
      BY <2>2, <2>3
    <2>. HIDE DEF x, t, u
    <2>7. Sum(t) = y.stored + Sum(s)
      BY <2>4, <2>5, <2>6
    <2>. QED
      BY <1>2, <2>7 DEF t
  <1>. QED
    BY <1>5, <1>6

-----------------------------------------------------------------------------
(* The cap of the capture.                                                 *)

CapTypes ==
  /\ IsFiniteSet(rows)
  /\ \A r \in rows : r.stored \in Nat /\ r.size \in Nat /\ r.noted \in BOOLEAN
  /\ captured \in [Dirs -> 0..MaxCapture]
  /\ capReached \in [Dirs -> BOOLEAN]

\* The counter of a pump is at least what its rows hold (a row may not have been
\* saved), and a row cut short is the last that its pump asked for.
CapAt ==
  \A d \in Dirs :
    /\ Stored(d) <= captured[d]
    /\ capReached[d] => pc[d] # "save"
    /\ \A r \in RowsOf(d) :
         /\ r.noted <=> r.stored < r.size
         /\ r.noted => capReached[d] /\ \A t \in RowsOf(d) : t.seq <= r.seq

CapInv == CapTypes /\ CapAt

LEMMA StoredIsSum ==
  ASSUME NEW d \in Dirs
  PROVE  Stored(d) = Sum(RowsOf(d)) /\ Stored(d)' = Sum(RowsOf(d)')
  BY DEF Stored, Sum, MapThenSumSet, MapThenFoldSet

\* Steps that store nothing.
LEMMA CapStays ==
  ASSUME CapInv, UNCHANGED <<rows, captured, capReached>>,
         \A d \in Dirs : pc'[d] = "save" => pc[d] = "save" \/ ~capReached[d]
  PROVE  CapInv'
  <1>1. \A d \in Dirs : RowsOf(d)' = RowsOf(d)
    BY DEF RowsOf
  <1>2. \A d \in Dirs : Stored(d)' = Stored(d)
    BY <1>1, StoredIsSum
  <1>. QED
    BY <1>1, <1>2 DEF CapInv, CapTypes, CapAt

LEMMA SaveChunkCap == ASSUME Inv, CapInv, NEW d \in Dirs, SaveChunk(d) PROVE CapInv'
  <1>1. PICK c \in chunk[d] :
          /\ rows' \in {rows \cup {Row(d, c)}, rows}
          /\ captured' = [captured EXCEPT ![d] = @ + Room(d, c.size)]
          /\ capReached' = [capReached EXCEPT ![d] = Row(d, c).noted]
    BY DEF SaveChunk
  <1>2. pc[d] = "save" /\ pc' = [pc EXCEPT ![d] = "write"]
    BY DEF SaveChunk, Goto
  <1>3. c.size \in Nat /\ captured[d] \in 0..MaxCapture /\ MaxCapture \in Nat
    BY RelayTCPAssumption DEF Inv, Types, Carriage, CapInv, CapTypes
  <1>. DEFINE x == Row(d, c)
  <1>n. x.noted \in BOOLEAN
    <2>1. x.noted = (captured[d] + c.size > MaxCapture)
      BY DEF Row
    <2>2. (captured[d] + c.size > MaxCapture) \in BOOLEAN
      OBVIOUS
    <2>. QED
      BY <2>1, <2>2
  <1>4. /\ x.dir = d /\ x.seq = c.seq /\ x.size = c.size /\ x.stored = Room(d, c.size)
        /\ x.noted <=> captured[d] + c.size > MaxCapture
    BY DEF Row
  <1>5. /\ x.stored \in Nat /\ captured[d] + x.stored \in 0..MaxCapture
        /\ x.noted <=> x.stored < x.size
    <2>. DEFINE m == captured[d]
    <2>1. m \in Nat /\ m <= MaxCapture
      BY <1>3
    <2>2. x.stored = IF m + c.size > MaxCapture THEN MaxCapture - m ELSE c.size
      BY <1>4 DEF Room
    <2>. HIDE DEF x, m
    <2>3. /\ x.stored \in Nat /\ m + x.stored \in 0..MaxCapture
          /\ x.stored < c.size <=> m + c.size > MaxCapture
      BY <1>3, <2>1, <2>2
    <2>. QED
      BY <1>4, <2>3 DEF m
  <1>6. \A r \in rows : r.dir = d => r.seq < x.seq
    BY <1>2, <1>4 DEF Inv, OrderAt
  <1>7. ~capReached[d] /\ \A r \in RowsOf(d) : ~r.noted
    BY <1>2 DEF CapInv, CapAt
  <1>8. /\ captured' \in [Dirs -> 0..MaxCapture] /\ captured'[d] = captured[d] + x.stored
        /\ capReached' \in [Dirs -> BOOLEAN] /\ capReached'[d] = x.noted
        /\ \A e \in Dirs : e # d => /\ captured'[e] = captured[e]
                                   /\ capReached'[e] = capReached[e]
    <2>1. captured' = [captured EXCEPT ![d] = @ + x.stored] /\ capReached' = [capReached EXCEPT ![d] = x.noted]
      BY <1>1, <1>4
    <2>. HIDE DEF x
    <2>. QED
      BY <1>5, <1>n, <2>1 DEF CapInv, CapTypes
  <1>10. CapTypes'
    <2>1. IsFiniteSet(rows')
      BY <1>1, FS_AddElement DEF CapInv, CapTypes
    <2>2. \A r \in rows' : r.stored \in Nat /\ r.size \in Nat /\ r.noted \in BOOLEAN
      BY <1>1, <1>3, <1>4, <1>5, <1>n DEF CapInv, CapTypes
    <2>. QED
      BY <1>8, <2>1, <2>2 DEF CapTypes
  <1>. HIDE DEF x
  <1>11. ASSUME NEW e \in Dirs, e # d
         PROVE  RowsOf(e)' = RowsOf(e)
    BY <1>1, <1>4, <1>11 DEF RowsOf, x
  <1>12. RowsOf(d)' = RowsOf(d) \/ RowsOf(d)' = RowsOf(d) \cup {x}
    BY <1>1, <1>4 DEF RowsOf, x
  <1>13. Stored(d)' <= captured'[d]
    <2>1. Stored(d) = Sum(RowsOf(d)) /\ Stored(d)' = Sum(RowsOf(d)')
      BY StoredIsSum
    <2>. DEFINE S == RowsOf(d) \cup {x}
    <2>2. IsFiniteSet(S) /\ \A r \in S : r.stored \in Int
      <3>1. IsFiniteSet(RowsOf(d))
        BY FS_Subset DEF CapInv, CapTypes, RowsOf
      <3>2. IsFiniteSet(S)
        BY <3>1, FS_AddElement
      <3>. QED
        BY <1>5, <3>2 DEF CapInv, CapTypes, RowsOf
    <2>3. x \notin RowsOf(d)
      <3>1. x.seq \in Nat
        BY <1>4 DEF Inv, Types, Carriage
      <3>. QED
        BY <1>6, <3>1 DEF RowsOf
    <2>4. RowsOf(d) \in SUBSET S /\ x \in S \ RowsOf(d)
      BY <2>3
    <2>. HIDE DEF S
    <2>5. Sum(RowsOf(d)) \in Int
      BY <2>2, <2>4, SumType
    <2>6. Sum(RowsOf(d) \cup {x}) = x.stored + Sum(RowsOf(d))
      BY <2>2, <2>4, SumAdd
    <2>7. Sum(RowsOf(d)) <= captured[d]
      BY <2>1 DEF CapInv, CapAt
    <2>. QED
      <3>1. CASE RowsOf(d)' = RowsOf(d)
        BY <1>3, <1>5, <1>8, <2>1, <2>5, <2>7, <3>1
      <3>2. CASE RowsOf(d)' = RowsOf(d) \cup {x}
        <4>1. Stored(d)' = x.stored + Sum(RowsOf(d))
          BY <2>1, <2>6, <3>2
        <4>. QED
          BY <1>3, <1>5, <1>8, <2>5, <2>7, <4>1
      <3>. QED
        BY <1>12, <3>1, <3>2
  <1>14. \A r \in RowsOf(d)' :
           /\ r.noted <=> r.stored < r.size
           /\ r.noted => capReached'[d] /\ \A t \in RowsOf(d)' : t.seq <= r.seq
    <2>1. \A r \in RowsOf(d) : r.noted <=> r.stored < r.size
      BY DEF CapInv, CapAt
    <2>2. x.seq \in Nat /\ \A r \in RowsOf(d) : r.seq \in Nat /\ r.seq < x.seq
      BY <1>4, <1>6 DEF RowsOf, Inv, Types, Carriage
    <2>. QED
      BY <1>5, <1>7, <1>8, <1>12, <2>1, <2>2
  <1>15. ASSUME NEW e \in Dirs, e # d
         PROVE  /\ Stored(e)' <= captured'[e]
                /\ capReached'[e] => pc'[e] # "save"
                /\ \A r \in RowsOf(e)' :
                     /\ r.noted <=> r.stored < r.size
                     /\ r.noted => capReached'[e] /\ \A t \in RowsOf(e)' : t.seq <= r.seq
    <2>1. Stored(e)' = Stored(e)
      BY <1>11, <1>15, StoredIsSum
    <2>2. pc'[e] = pc[e]
      BY <1>2, <1>15 DEF Inv, Types
    <2>. QED
      BY <1>8, <1>11, <1>15, <2>1, <2>2 DEF CapInv, CapAt
  <1>16. pc'[d] # "save"
    BY <1>2 DEF Inv, Types
  <1>. QED
    BY <1>10, <1>13, <1>14, <1>15, <1>16 DEF CapInv, CapAt

LEMMA NextCap == Inv /\ CapInv /\ [Next]_vars => CapInv'
  <1>. SUFFICES ASSUME Inv, CapInv, [Next]_vars PROVE CapInv'
    OBVIOUS
  <1>0. pc \in [Dirs -> Labels]
    BY DEF Inv, Types
  <1>1. CASE DialFails \/ Dialled \/ CloseSession \/ SetSettings \/ Shutdown \/ UNCHANGED vars
    <2>1. UNCHANGED <<rows, captured, capReached>>
      BY <1>1 DEF DialFails, Dialled, CloseSession, SetSettings, Shutdown, vars, localVars
    <2>2. \A d \in Dirs : pc'[d] = "save" => pc[d] = "save"
      BY <1>0, <1>1 DEF DialFails, Dialled, CloseSession, SetSettings, Shutdown, vars
    <2>. QED
      BY <2>1, <2>2, CapStays
  <1>2. ASSUME NEW d \in Dirs, PeerSends(d) \/ PeerCloses(d) \/ PeerResets(d) PROVE CapInv'
    <2>1. UNCHANGED <<rows, captured, capReached, pc>>
      BY <1>2 DEF PeerSends, PeerCloses, PeerResets, localVars
    <2>. QED
      BY <2>1, CapStays
  <1>3. ASSUME NEW d \in Dirs,
               \/ ReadChunk(d) \/ ReadEnds(d) \/ Hold(d) \/ AutoForward(d) \/ Resolve(d)
               \/ Capture(d) \/ SkipCapture(d) \/ Write(d) \/ PumpEnds(d)
        PROVE  CapInv'
    <2>1. /\ UNCHANGED <<rows, captured, capReached>>
          /\ \E l \in Labels : pc' = [pc EXCEPT ![d] = l] /\ (l = "save" => ~capReached[d])
      BY <1>3 DEF ReadChunk, ReadEnds, Hold, AutoForward, Resolve, Capture, SkipCapture, Write,
                  PumpEnds, Goto, Labels, localVars
    <2>2. \A e \in Dirs : pc'[e] = "save" => pc[e] = "save" \/ ~capReached[e]
      BY <1>0, <2>1
    <2>. QED
      BY <2>1, <2>2, CapStays
  <1>. QED
    BY <1>1, <1>2, <1>3, SaveChunkCap DEF Next, Pump

\* However many chunks of whatever sizes there are, and whichever rows could not be
\* saved: no more than the cap is stored of a direction, and the row that was cut
\* short says so and is the last of its direction (storeChunk).
THEOREM CaptureStaysCapped == Spec => []CaptureIsCapped
  <1>1. Init => CapInv
    <2>. SUFFICES ASSUME Init PROVE CapInv
      OBVIOUS
    <2>1. \A d \in Dirs : RowsOf(d) = {}
      BY DEF Init, RowsOf
    <2>2. \A d \in Dirs : Stored(d) = 0
      <3>1. Sum({}) = 0
        BY FS_EmptySet, SumStep
      <3>. QED
        BY <2>1, <3>1 DEF Stored, Sum
    <2>3. CapTypes
      BY FS_EmptySet, RelayTCPAssumption DEF Init, CapTypes
    <2>. QED
      BY <2>1, <2>2, <2>3 DEF Init, CapInv, CapAt
  <1>2. CapInv => CaptureIsCapped
    <2>. SUFFICES ASSUME CapInv, NEW d \in Dirs PROVE Stored(d) <= MaxCapture
      BY DEF CapInv, CapAt, CaptureIsCapped
    <2>1. RowsOf(d) \in SUBSET rows /\ Stored(d) = Sum(RowsOf(d))
      BY StoredIsSum DEF RowsOf
    <2>2. Stored(d) \in Int
      BY <2>1, SumType DEF CapInv, CapTypes
    <2>. QED
      BY <2>2, RelayTCPAssumption DEF CapInv, CapTypes, CapAt
  <1>. QED
    BY <1>1, <1>2, InitInv, NextInv, NextCap, PTL DEF Spec

-----------------------------------------------------------------------------
(* The end of a session.                                                   *)

\* A closed row is the row of a session whose pumps are both done.
ClosedAt == session = "closed" => \A d \in Dirs : pc[d] = "ended"

LEMMA ClosedStays == ClosedAt /\ [Next]_vars =>
    ClosedAt' /\ (session = "closed" => UNCHANGED <<rows, total, received, bytes>>)
  <1>. SUFFICES ASSUME ClosedAt, [Next]_vars
                PROVE  ClosedAt' /\ (session = "closed" => UNCHANGED <<rows, total, received, bytes>>)
    OBVIOUS
  <1>. USE DEF ClosedAt, localVars, peerVars, Goto, Dirs
  <1>1. CASE DialFails \/ Dialled \/ CloseSession \/ SetSettings \/ Shutdown \/ UNCHANGED vars
    BY <1>1 DEF DialFails, Dialled, CloseSession, SetSettings, Shutdown, vars
  <1>2. ASSUME NEW d \in Dirs, Resolve(d) \/ PeerSends(d) \/ PeerCloses(d) \/ PeerResets(d)
        PROVE  ClosedAt' /\ (session = "closed" => UNCHANGED <<rows, total, received, bytes>>)
    BY <1>2 DEF Resolve, PeerSends, PeerCloses, PeerResets
  <1>3. ASSUME NEW d \in Dirs, Pump(d)
        PROVE  ClosedAt' /\ (session = "closed" => UNCHANGED <<rows, total, received, bytes>>)
    <2>1. pc[d] # "ended" /\ session' = session
      BY <1>3 DEF Pump, ReadChunk, ReadEnds, Hold, AutoForward, Capture, SkipCapture, SaveChunk,
                  Write, PumpEnds
    <2>. QED
      BY <2>1
  <1>. QED
    BY <1>1, <1>2, <1>3 DEF Next

\* CloseSession stores totals to which nothing is added later.
THEOREM TotalsAreFinal == Spec => ClosedSessionIsFinal
  <1>1. Init => ClosedAt
    BY DEF Init, ClosedAt
  <1>2. ClosedAt /\ [Next]_vars =>
          [session = "closed" => UNCHANGED <<rows, total, received, bytes>>]_vars
    BY ClosedStays
  <1>. QED
    BY <1>1, <1>2, ClosedStays, PTL DEF Spec, ClosedSessionIsFinal

-----------------------------------------------------------------------------
(* The store.                                                              *)

\* Until the dial is decided there is no row and no pump; a pump that runs has an open
\* row.
RowAt ==
  /\ session \in {"none", "failed", "open", "closed"}
  /\ session = "none" => \A d \in Dirs : pc[d] = "dial"
  /\ session # "none" => \A d \in Dirs : pc[d] # "dial"
  /\ session \in {"failed", "closed"} => \A d \in Dirs : pc[d] = "ended"

LEMMA NextRowAt == RowAt /\ [Next]_vars => RowAt'
  <1>. SUFFICES ASSUME RowAt, [Next]_vars PROVE RowAt'
    OBVIOUS
  <1>. USE DEF RowAt, Goto, Dirs
  <1>1. CASE DialFails \/ Dialled \/ CloseSession \/ Shutdown \/ UNCHANGED vars
    BY <1>1 DEF DialFails, Dialled, CloseSession, Shutdown, vars
  <1>2. CASE SetSettings
    <2>1. session' = session /\ \A d \in Dirs : pc'[d] = pc[d] \/ (pc[d] = "held" /\ pc'[d] = "capture")
      BY <1>2 DEF SetSettings
    <2>. QED
      BY <2>1
  <1>3. ASSUME NEW d \in Dirs, PeerSends(d) \/ PeerCloses(d) \/ PeerResets(d)
        PROVE  RowAt'
    BY <1>3 DEF PeerSends, PeerCloses, PeerResets
  <1>4. ASSUME NEW d \in Dirs, Pump(d) \/ Resolve(d)
        PROVE  RowAt'
    <2>1. /\ pc[d] \notin {"dial", "ended"} /\ session' = session
          /\ \E l \in Labels \ {"dial"} : Goto(d, l)
      BY <1>4 DEF Pump, ReadChunk, ReadEnds, Hold, AutoForward, Capture, SkipCapture, SaveChunk,
                  Write, PumpEnds, Resolve, Labels
    <2>. QED
      BY <2>1
  <1>. QED
    BY <1>1, <1>2, <1>3, <1>4 DEF Next

\* The two tables and the connection, as the instance has them.
ConnSeen == [c \in {1} |-> [pc |-> session, id |-> IF session = "none" THEN 0 ELSE 1]]
RowsSeen == [i \in {k \in {1} : session # "none"} |->
               [of |-> 1, source |-> "relay",
                closed |-> IF session \in {"failed", "closed"} THEN {1} ELSE {}]]
ChunksSeen == {[session |-> 1, of |-> 1] : r \in rows}

LEMMA SeenStays == ASSUME UNCHANGED <<session, rows>> PROVE UNCHANGED Tables!sessionVars
  BY DEF Tables!sessionVars

LEMMA DialSeen ==
  ASSUME RowAt, NEW p \in {"open", "failed"}, session = "none", session' = p, rows' = rows
  PROVE  Tables!OpenSession(1)
  <1>1. Tables!Ids = {}
    BY DEF Tables!Ids
  <1>2. Tables!Cardinality({}) = 0
    <2>1. Tables!Cardinality({}) = Cardinality({})
      BY DEF Tables!Cardinality, Cardinality
    <2>. QED
      BY <2>1, FS_EmptySet
  <1>. DEFINE new == Tables!Cardinality(Tables!Ids) + 1
              Opens(x) == /\ RowsSeen' = [i \in Tables!Ids \cup {new} |->
                               IF i = new THEN Tables!NewRow(1, x) ELSE RowsSeen[i]]
                          /\ ConnSeen' = [ConnSeen EXCEPT ![1] = [pc |-> x, id |-> new]]
  <1>3. new = 1
    BY <1>1, <1>2
  <1>4. Tables!NewRow(1, p) = [of |-> 1, source |-> "relay", closed |-> IF p = "failed" THEN {1} ELSE {}]
    BY DEF Tables!NewRow
  <1>5. Opens(p)
    BY <1>1, <1>3, <1>4 DEF RowsSeen, ConnSeen
  <1>6. ConnSeen[1].pc = "none" /\ ChunksSeen' = ChunksSeen
    BY DEF ConnSeen, ChunksSeen
  <1>. QED
    BY <1>5, <1>6 DEF Tables!OpenSession, ConnSeen, RowsSeen, ChunksSeen

LEMMA CloseSeen ==
  ASSUME session = "open", session' = "closed", rows' = rows
  PROVE  Tables!CloseSession(1)
  <1>1. ConnSeen[1].pc = "open" /\ ConnSeen[1].id = 1
    BY DEF ConnSeen
  <1>2. ConnSeen' = [ConnSeen EXCEPT ![1].pc = "closed"]
    BY DEF ConnSeen
  <1>3. Tables!Ids = {1}
    BY DEF Tables!Ids
  <1>4. RowsSeen' = [i \in {1} |->
                       IF i = 1 THEN [RowsSeen[i] EXCEPT !.closed = @ \cup {1}] ELSE RowsSeen[i]]
    BY DEF RowsSeen
  <1>5. ChunksSeen' = ChunksSeen
    BY DEF ChunksSeen
  <1>. QED
    BY <1>1, <1>2, <1>3, <1>4, <1>5 DEF Tables!CloseSession, ConnSeen, RowsSeen, ChunksSeen

LEMMA ChunkSeen ==
  ASSUME session = "open", session' = session, NEW r, rows' = rows \cup {r}
  PROVE  Tables!SaveChunk(1)
  <1>1. ConnSeen[1].pc \in {"open", "closed"} /\ ConnSeen[1].id = 1
    BY DEF ConnSeen
  <1>2. ChunksSeen' = ChunksSeen \cup {[session |-> 1, of |-> 1]}
    BY DEF ChunksSeen
  <1>3. UNCHANGED <<ConnSeen, RowsSeen>>
    BY DEF ConnSeen, RowsSeen
  <1>. QED
    BY <1>1, <1>2, <1>3 DEF Tables!SaveChunk, ConnSeen, RowsSeen, ChunksSeen

\* A TCP session implements what the store promises the two tabs about: its row is
\* inserted once and before its chunks, and closed once - with its insertion, if
\* nothing could be dialled, and with both pumps' totals otherwise (tcp.go:37, :80).
THEOREM StoreSeesSession == Spec => ImplementsSessions
  <1>1. Init => RowAt /\ Tables!SessionsInit
    <2>. SUFFICES ASSUME Init PROVE RowAt /\ Tables!SessionsInit
      OBVIOUS
    <2>1. RowAt
      BY DEF Init, RowAt
    <2>2. ConnSeen = [c \in {1} |-> [pc |-> "none", id |-> 0]]
      BY DEF Init, ConnSeen
    <2>3. RowsSeen = <<>>
      BY DEF Init, RowsSeen
    <2>4. ChunksSeen = {}
      BY DEF Init, ChunksSeen
    <2>. QED
      BY <2>1, <2>2, <2>3, <2>4 DEF Tables!SessionsInit, ConnSeen, RowsSeen, ChunksSeen
  <1>2. RowAt /\ [Next]_vars => [Tables!SessionsNext]_(Tables!sessionVars)
    <2>. SUFFICES ASSUME RowAt, [Next]_vars PROVE [Tables!SessionsNext]_(Tables!sessionVars)
      OBVIOUS
    <2>1. CASE DialFails \/ Dialled
      <3>1. session = "none" /\ session' \in {"open", "failed"} /\ rows' = rows
        BY <2>1 DEF DialFails, Dialled, RowAt, Dirs
      <3>2. PICK p \in {"open", "failed"} : session' = p
        BY <3>1
      <3>3. Tables!OpenSession(1)
        BY <3>1, <3>2, DialSeen
      <3>. QED
        BY <3>3 DEF Tables!SessionsNext
    <2>2. CASE CloseSession
      <3>1. Tables!CloseSession(1)
        BY <2>2, CloseSeen DEF CloseSession
      <3>. QED
        BY <3>1 DEF Tables!SessionsNext
    <2>3. ASSUME NEW d \in Dirs, SaveChunk(d)
          PROVE  [Tables!SessionsNext]_(Tables!sessionVars)
      <3>1. session = "open" /\ session' = session
        BY <2>3 DEF SaveChunk, RowAt
      <3>2. PICK r : rows' = rows \/ rows' = rows \cup {r}
        BY <2>3 DEF SaveChunk
      <3>3. CASE rows' = rows
        BY <3>1, <3>3, SeenStays
      <3>4. CASE rows' = rows \cup {r}
        <4>1. Tables!SaveChunk(1)
          BY <3>1, <3>4, ChunkSeen
        <4>. QED
          BY <4>1 DEF Tables!SessionsNext
      <3>. QED
        BY <3>2, <3>3, <3>4
    <2>4. CASE SetSettings \/ Shutdown \/ UNCHANGED vars
      <3>1. UNCHANGED <<session, rows>>
        BY <2>4 DEF SetSettings, Shutdown, vars
      <3>. QED
        BY <3>1, SeenStays
    <2>5. ASSUME NEW d \in Dirs,
                 \/ Resolve(d) \/ PeerSends(d) \/ PeerCloses(d) \/ PeerResets(d)
                 \/ ReadChunk(d) \/ ReadEnds(d) \/ Hold(d) \/ AutoForward(d) \/ Capture(d)
                 \/ SkipCapture(d) \/ Write(d) \/ PumpEnds(d)
          PROVE  UNCHANGED Tables!sessionVars
      <3>1. UNCHANGED <<session, rows>>
        BY <2>5 DEF Resolve, PeerSends, PeerCloses, PeerResets, ReadChunk, ReadEnds, Hold,
                    AutoForward, Capture, SkipCapture, Write, PumpEnds
      <3>. QED
        BY <3>1, SeenStays
    <2>. QED
      BY <2>1, <2>2, <2>3, <2>4, <2>5 DEF Next, Pump
  <1>. QED
    BY <1>1, <1>2, NextRowAt, PTL DEF Spec, ImplementsSessions, Tables!SessionsSpec

-----------------------------------------------------------------------------
(* The relay's UDP targets (RelayUDP), whose sessions one goroutine opens. *)

CONSTANTS Clients, NoClient, Datagrams, Answers, MayRefuse

VARIABLES udpSettings, stop, read, udpPc, from, current, opened, client, sessions, stale,
          socket, row, answers, evict, written

UDP == INSTANCE RelayUDP WITH settings <- udpSettings, pc <- udpPc

UDPLabels == {"none", "read", "lookup", "dial", "insert", "touch", "hold", "held", "write",
              "dropped", "ended"}

\* The reader has asked for a session, and has not opened the one it will need.
Asking == udpPc[0] \in {"lookup", "dial"}

Opening == {"lookup", "dial", "insert"}

\* What a session's data can be, as far as places depend on it: a session that was
\* not opened has nothing, and the table and the sweep have only opened ones.
DataAt ==
  /\ Datagrams \in Nat
  /\ opened \in Nat /\ read \in Nat /\ opened <= read /\ read <= Datagrams
  /\ Asking => opened < read
  /\ current \in 0..opened
  /\ from \in Clients \cup {NoClient}
  /\ udpPc \in [UDP!Carriers -> UDPLabels]
  /\ client \in [UDP!Sessions -> Clients \cup {NoClient}]
  /\ socket \in [UDP!Sessions -> {"none", "open", "closed"}]
  /\ sessions \subseteq 1..opened
  /\ evict \subseteq 1..opened

\* The reader's place: there is no session of its client while it opens one, and
\* the one it opened is the last.
ReaderAt ==
  /\ udpPc[0] = "dial" => \A i \in sessions : client[i] # from
  /\ udpPc[0] = "insert" => /\ current = opened /\ current > 0
                            /\ client[current] = from
                            /\ \A i \in sessions : client[i] # from

UDPInv == DataAt /\ ReaderAt /\ UDP!NoSessionIsLost

LEMMA UDPInitInv == Datagrams \in Nat /\ UDP!Init => UDPInv
  BY DEF UDP!Init, UDPInv, DataAt, ReaderAt, UDP!NoSessionIsLost, Asking, UDP!Carriers,
         UDP!Sessions, UDPLabels

\* Steps that move carriers among the places that nothing is said of, and touch
\* neither table nor sockets.
LEMMA ElsewhereInv ==
  ASSUME UDPInv,
         udpPc' \in [UDP!Carriers -> UDPLabels],
         udpPc'[0] = udpPc[0] \/ (udpPc[0] \notin Opening /\ udpPc'[0] \notin Opening),
         UNCHANGED <<read, from, current, UDP!tableVars, socket, evict>>
  PROVE  UDPInv'
  <1>1. DataAt'
    BY DEF UDPInv, DataAt, Asking, Opening, UDP!tableVars
  <1>2. ReaderAt'
    BY DEF UDPInv, ReaderAt, Opening, UDP!tableVars
  <1>3. UDP!NoSessionIsLost'
    <2>1. udpPc[0] = "insert" => udpPc'[0] = "insert"
      BY DEF Opening
    <2>. QED
      BY <2>1 DEF UDPInv, UDP!NoSessionIsLost, UDP!tableVars
  <1>. QED
    BY <1>1, <1>2, <1>3 DEF UDPInv

LEMMA LookupInv == ASSUME UDPInv, UDP!Lookup PROVE UDPInv'
  <1>1. DataAt'
    BY DEF UDPInv, DataAt, UDP!Lookup, UDP!Goto, Asking, UDP!Carriers, UDPLabels,
           UDP!tableVars, UDP!sessionVars
  <1>2. ReaderAt'
    BY DEF UDPInv, DataAt, ReaderAt, UDP!Lookup, UDP!Goto, UDP!Carriers, UDP!tableVars,
           UDP!sessionVars
  <1>3. UDP!NoSessionIsLost'
    BY DEF UDPInv, DataAt, UDP!NoSessionIsLost, UDP!Lookup, UDP!Goto, UDP!Carriers,
           UDP!tableVars, UDP!sessionVars
  <1>. QED
    BY <1>1, <1>2, <1>3 DEF UDPInv

LEMMA DialInv == ASSUME UDPInv, UDP!Dial PROVE UDPInv'
  <1>1. /\ opened' \in UDP!Sessions /\ opened' = opened + 1 /\ opened' \notin 1..opened
        /\ opened' <= read /\ read \in Nat /\ opened' \in Nat
    BY DEF UDPInv, DataAt, UDP!Dial, Asking, UDP!Sessions
  <1>2. \A i \in UDP!Sessions : client'[i] = IF i = opened' THEN from ELSE client[i]
    BY <1>1 DEF UDPInv, DataAt, UDP!Dial
  <1>3. \A i \in UDP!Sessions : i # opened' => socket'[i] = socket[i]
    BY <1>1 DEF UDPInv, DataAt, UDP!Dial
  <1>4. DataAt'
    <2>1. udpPc' \in [UDP!Carriers -> UDPLabels] /\ ~Asking'
      BY DEF UDPInv, DataAt, UDP!Dial, UDP!Goto, Asking, UDP!Carriers, UDPLabels
    <2>2. client' \in [UDP!Sessions -> Clients \cup {NoClient}]
      BY <1>1 DEF UDPInv, DataAt, UDP!Dial
    <2>3. socket' \in [UDP!Sessions -> {"none", "open", "closed"}]
      BY <1>1 DEF UDPInv, DataAt, UDP!Dial
    <2>4. current' \in 0..opened'
      BY <1>1 DEF UDPInv, DataAt, UDP!Dial
    <2>5. sessions' \subseteq 1..opened' /\ evict' \subseteq 1..opened'
      BY <1>1 DEF UDPInv, DataAt, UDP!Dial
    <2>. QED
      BY <1>1, <2>1, <2>2, <2>3, <2>4, <2>5 DEF UDPInv, DataAt, UDP!Dial
  <1>5. ReaderAt'
    BY <1>1, <1>2 DEF UDPInv, DataAt, ReaderAt, UDP!Dial, UDP!Goto, UDP!Carriers, UDP!Sessions
  <1>6. UDP!NoSessionIsLost'
    BY <1>1, <1>2, <1>3
    DEF UDPInv, DataAt, ReaderAt, UDP!NoSessionIsLost, UDP!Dial, UDP!Goto, UDP!Carriers,
        UDP!Sessions
  <1>. QED
    BY <1>4, <1>5, <1>6 DEF UDPInv

LEMMA InsertInv == ASSUME UDPInv, UDP!Insert PROVE UDPInv'
  <1>1. /\ current \in UDP!Sessions /\ current # 0 /\ current = opened
        /\ udpPc' \in [UDP!Carriers -> UDPLabels] /\ udpPc'[0] = "touch"
    BY DEF UDPInv, DataAt, ReaderAt, UDP!Insert, UDP!Sessions, UDP!Carriers, UDPLabels
  <1>2. DataAt' /\ ReaderAt'
    BY <1>1
    DEF UDPInv, DataAt, ReaderAt, UDP!Insert, Asking, UDP!Sessions, UDP!Carriers,
        UDP!sessionVars
  <1>3. UDP!NoSessionIsLost'
    BY <1>1
    DEF UDPInv, DataAt, ReaderAt, UDP!NoSessionIsLost, UDP!Insert, UDP!Sessions, UDP!Carriers,
        UDP!sessionVars
  <1>. QED
    BY <1>2, <1>3 DEF UDPInv

LEMMA SweepInv == ASSUME UDPInv, UDP!Sweep \/ UDP!Evict PROVE UDPInv'
  <1>1. CASE UDP!Sweep
    BY <1>1
    DEF UDPInv, DataAt, ReaderAt, UDP!NoSessionIsLost, UDP!Sweep, Asking, UDP!Sessions,
        UDP!sessionVars
  <1>2. CASE \E i \in UDP!Sessions : UDP!EvictSocket(i)
    BY <1>2
    DEF UDPInv, DataAt, ReaderAt, UDP!NoSessionIsLost, UDP!EvictSocket, Asking, UDP!tableVars
  <1>3. CASE \E i \in UDP!Sessions : UDP!EvictRow(i)
    BY <1>3
    DEF UDPInv, DataAt, ReaderAt, UDP!NoSessionIsLost, UDP!EvictRow, Asking, UDP!tableVars
  <1>. QED
    BY <1>1, <1>2, <1>3 DEF UDP!Evict

LEMMA ShutdownInv == ASSUME UDPInv, UDP!Shutdown PROVE UDPInv'
  <1>1. CASE UDP!Cancel \/ UDP!CloseListener
    BY <1>1, ElsewhereInv DEF UDP!Cancel, UDP!CloseListener, UDPInv, DataAt, UDP!sessionVars
  <1>2. CASE UDP!CloseSockets
    BY <1>2
    DEF UDPInv, DataAt, ReaderAt, UDP!NoSessionIsLost, UDP!CloseSockets, Asking, UDP!Sessions,
        UDP!tableVars
  <1>. QED
    BY <1>1, <1>2 DEF UDP!Shutdown

LEMMA ReaderInv == ASSUME UDPInv, UDP!Reader PROVE UDPInv'
  <1>1. ASSUME NEW c \in Clients, UDP!ReadDatagram(c) PROVE UDPInv'
    BY <1>1
    DEF UDPInv, DataAt, ReaderAt, UDP!NoSessionIsLost, UDP!ReadDatagram, UDP!Goto, Asking,
        UDP!Carriers, UDPLabels, UDP!tableVars, UDP!sessionVars
  <1>2. CASE UDP!ReaderEnds \/ UDP!Touch
    <2>1. /\ udpPc' \in [UDP!Carriers -> UDPLabels]
          /\ udpPc[0] \notin Opening /\ udpPc'[0] \notin Opening
          /\ UNCHANGED <<read, from, current, UDP!tableVars, socket, evict>>
      BY <1>2
      DEF Opening, UDP!ReaderEnds, UDP!Touch, UDP!Goto, UDPInv, DataAt, UDP!Carriers,
          UDPLabels, UDP!sessionVars
    <2>. QED
      BY <2>1, ElsewhereInv
  <1>. QED
    BY <1>1, <1>2, LookupInv, DialInv, InsertInv DEF UDP!Reader

LEMMA CarrierInv ==
  ASSUME UDPInv, NEW k \in UDP!Carriers, UDP!Carrier(k) \/ UDP!Resolve(k)
  PROVE  UDPInv'
  <1>1. PICK l \in {"read", "hold", "held", "write", "dropped", "ended"} :
          /\ udpPc' = [udpPc EXCEPT ![k] = l]
          /\ udpPc[k] \notin Opening
          /\ UNCHANGED <<read, from, current, UDP!tableVars, socket, evict>>
    BY DEF Opening, UDP!Carrier, UDP!Resolve, UDP!ReadAnswer, UDP!AnswersEnd, UDP!Hold,
           UDP!AutoForward, UDP!Write, UDP!Goto, UDP!sessionVars
  <1>2. /\ udpPc' \in [UDP!Carriers -> UDPLabels]
        /\ udpPc'[0] = udpPc[0] \/ (udpPc[0] \notin Opening /\ udpPc'[0] \notin Opening)
    BY <1>1 DEF Opening, UDPInv, DataAt, UDP!Carriers, UDPLabels
  <1>. QED
    BY <1>1, <1>2, ElsewhereInv

LEMMA UDPNextInv == UDPInv /\ [UDP!Next]_(UDP!vars) => UDPInv'
  <1>. SUFFICES ASSUME UDPInv, [UDP!Next]_(UDP!vars) PROVE UDPInv'
    OBVIOUS
  <1>1. CASE UDP!SetSettings
    <2>1. /\ udpPc' \in [UDP!Carriers -> UDPLabels]
          /\ udpPc'[0] = udpPc[0] \/ (udpPc[0] \notin Opening /\ udpPc'[0] \notin Opening)
          /\ UNCHANGED <<read, from, current, UDP!tableVars, socket, evict>>
      BY <1>1
      DEF Opening, UDP!SetSettings, UDPInv, DataAt, UDP!Carriers, UDPLabels, UDP!sessionVars
    <2>. QED
      BY <2>1, ElsewhereInv
  <1>2. CASE (\E i \in UDP!Sessions : UDP!Idle(i)) \/ UNCHANGED UDP!vars
    <2>1. UNCHANGED <<udpPc, read, from, current, UDP!tableVars, socket, evict>>
      BY <1>2 DEF UDP!Idle, UDP!vars, UDP!sessionVars
    <2>. QED
      BY <2>1, ElsewhereInv DEF UDPInv, DataAt
  <1>. QED
    BY <1>1, <1>2, ReaderInv, CarrierInv, SweepInv, ShutdownInv DEF UDP!Next

\* No socket gets out of sight, and a client has one session at a time in the table,
\* for any number of clients and datagrams (udpSessionFor and sweepIdleUDP: the
\* reader is the only one that inserts, and the sweep closes what it removed).
THEOREM NoSocketIsLost == Datagrams \in Nat /\ UDP!Spec => []UDP!NoSessionIsLost
  <1>1. UDPInv => UDP!NoSessionIsLost
    BY DEF UDPInv
  <1>. QED
    BY <1>1, UDPInitInv, UDPNextInv, PTL DEF UDP!Spec

-----------------------------------------------------------------------------
(* What the store sees of a target's sessions.                             *)

\* A session is in one hand at a time, and its row is open until the sweep closes it.
OnceAt ==
  /\ row \in [UDP!Sessions -> {"none", "failed", "open", "closed"}]
  /\ \A i \in sessions \cup evict : row[i] = "open"
  /\ sessions \cap evict = {}
  /\ udpPc[0] = "insert" => row[current] = "open" /\ current \notin sessions \cup evict
  /\ \A i \in UDP!Sessions : row[i] = "none" <=> i > opened

LEMMA UDPOpened ==
  ASSUME UDPInv
  PROVE  /\ opened \in Nat /\ 1..opened \subseteq UDP!Sessions
         /\ sessions \subseteq 1..opened /\ evict \subseteq 1..opened
         /\ udpPc[0] \in {"lookup", "dial"} => opened + 1 \in UDP!Sessions
  BY DEF UDPInv, DataAt, Asking, UDP!Sessions

\* Steps that touch neither the table nor the rows.
LEMMA OnceStays ==
  ASSUME OnceAt, UNCHANGED <<sessions, evict, row, opened>>,
         udpPc'[0] # "insert" \/ (udpPc'[0] = udpPc[0] /\ current' = current)
  PROVE  OnceAt'
  BY DEF OnceAt

LEMMA DialOnce == ASSUME UDPInv, OnceAt, UDP!Dial PROVE OnceAt'
  <1>1. PICK p \in {"open", "failed"} :
          /\ row' = [row EXCEPT ![opened + 1] = p]
          /\ udpPc'[0] = "insert" => p = "open" /\ current' = opened + 1
    BY DEF UDP!Dial, UDP!Goto, UDPInv, DataAt, UDP!Carriers
  <1>2. opened' = opened + 1 /\ UNCHANGED <<sessions, evict>> /\ opened + 1 \in UDP!Sessions
    BY UDPOpened DEF UDP!Dial
  <1>3. row'[opened + 1] = p /\ \A i \in UDP!Sessions : i # opened + 1 => row'[i] = row[i]
    BY <1>1, <1>2 DEF OnceAt
  <1>4. opened + 1 \notin sessions \cup evict /\ sessions \cup evict \subseteq UDP!Sessions
    BY UDPOpened
  <1>5. row' \in [UDP!Sessions -> {"none", "failed", "open", "closed"}]
    BY <1>1 DEF OnceAt
  <1>6. \A i \in UDP!Sessions : i \in Nat
    BY DEF UDP!Sessions, UDPInv, DataAt
  <1>7. \A i \in UDP!Sessions : row'[i] = "none" <=> i > opened'
    BY <1>2, <1>3, <1>6, UDPOpened DEF OnceAt
  <1>8. \A i \in sessions \cup evict : row'[i] = "open"
    BY <1>3, <1>4 DEF OnceAt
  <1>. QED
    BY <1>1, <1>2, <1>3, <1>4, <1>5, <1>7, <1>8 DEF OnceAt

LEMMA EvictRowOnce == ASSUME UDPInv, OnceAt, NEW i \in UDP!Sessions, UDP!EvictRow(i) PROVE OnceAt'
  <1>1. /\ i \in evict /\ evict' = evict \ {i}
        /\ row' = [row EXCEPT ![i] = IF row[i] = "open" THEN "closed" ELSE "closedAgain"]
        /\ UNCHANGED <<udpPc, current, sessions, opened>>
    BY DEF UDP!EvictRow, UDP!tableVars
  <1>2. row[i] = "open" /\ i \notin sessions /\ (udpPc[0] = "insert" => current # i)
    BY <1>1 DEF OnceAt
  <1>3. row'[i] = "closed" /\ \A k \in UDP!Sessions : k # i => row'[k] = row[k]
    BY <1>1, <1>2 DEF OnceAt
  <1>4. sessions \cup evict \subseteq UDP!Sessions
    BY UDPOpened
  <1>5. udpPc[0] = "insert" => current \in UDP!Sessions
    BY UDPOpened DEF UDPInv, ReaderAt
  <1>. QED
    BY <1>1, <1>2, <1>3, <1>4, <1>5 DEF OnceAt

LEMMA UDPNextOnce == ASSUME UDPInv, OnceAt, [UDP!Next]_(UDP!vars) PROVE OnceAt'
  <1>1. ASSUME NEW c \in Clients, UDP!ReadDatagram(c) PROVE OnceAt'
    BY <1>1, OnceStays DEF UDP!ReadDatagram, UDP!Goto, UDPInv, DataAt, UDP!Carriers, UDP!tableVars,
                           UDP!sessionVars
  <1>2. CASE UDP!ReaderEnds \/ UDP!Lookup \/ UDP!Touch
    BY <1>2, OnceStays DEF UDP!ReaderEnds, UDP!Lookup, UDP!Touch, UDP!Goto, UDPInv, DataAt,
                           UDP!Carriers, UDP!tableVars, UDP!sessionVars
  <1>3. CASE UDP!Insert
    <2>1. /\ udpPc[0] = "insert" /\ sessions' = sessions \cup {current}
          /\ UNCHANGED <<current, opened, evict, row>>
      BY <1>3 DEF UDP!Insert, UDP!sessionVars
    <2>2. udpPc'[0] # "insert"
      BY <1>3 DEF UDP!Insert, UDPInv, DataAt, ReaderAt, UDP!Carriers
    <2>. QED
      BY <2>1, <2>2 DEF OnceAt
  <1>4. ASSUME NEW k \in UDP!Carriers, UDP!Carrier(k) \/ UDP!Resolve(k) PROVE OnceAt'
    <2>1. PICK l \in {"read", "hold", "held", "write", "dropped", "ended"} :
            /\ udpPc' = [udpPc EXCEPT ![k] = l]
            /\ UNCHANGED <<current, UDP!tableVars, row, evict>>
      BY <1>4 DEF UDP!Carrier, UDP!Resolve, UDP!ReadAnswer, UDP!AnswersEnd, UDP!Hold,
                  UDP!AutoForward, UDP!Write, UDP!Goto, UDP!sessionVars
    <2>2. udpPc'[0] # "insert" \/ udpPc'[0] = udpPc[0]
      BY <2>1 DEF UDPInv, DataAt, UDP!Carriers
    <2>. QED
      BY <2>1, <2>2, OnceStays DEF UDP!tableVars
  <1>5. CASE UDP!SetSettings
    <2>1. /\ udpPc'[0] # "insert" \/ udpPc'[0] = udpPc[0]
          /\ UNCHANGED <<current, UDP!tableVars, row, evict>>
      BY <1>5 DEF UDP!SetSettings, UDPInv, DataAt, UDP!Carriers, UDP!sessionVars
    <2>. QED
      BY <2>1, OnceStays DEF UDP!tableVars
  <1>6. CASE UDP!Sweep
    <2>1. /\ evict = {} /\ evict' \subseteq sessions /\ sessions' = sessions \ evict'
          /\ UNCHANGED <<udpPc, current, opened, row>>
      BY <1>6 DEF UDP!Sweep, UDP!sessionVars
    <2>. QED
      BY <2>1 DEF OnceAt
  <1>7. CASE \/ UDP!Shutdown \/ (\E i \in UDP!Sessions : UDP!Idle(i) \/ UDP!EvictSocket(i))
             \/ UNCHANGED UDP!vars
    <2>1. UNCHANGED <<udpPc, current, UDP!tableVars, row, evict>>
      BY <1>7 DEF UDP!Shutdown, UDP!Cancel, UDP!CloseListener, UDP!CloseSockets, UDP!Idle,
                  UDP!EvictSocket, UDP!vars, UDP!sessionVars
    <2>. QED
      BY <2>1, OnceStays DEF UDP!tableVars
  <1>. QED
    BY <1>1, <1>2, <1>3, <1>4, <1>5, <1>6, <1>7, DialOnce, EvictRowOnce
    DEF UDP!Next, UDP!Reader, UDP!Evict

\* The two tables and the connections, as the instance has them.
UDPConnSeen ==
  [i \in UDP!Sessions |-> [pc |-> row[i], id |-> IF row[i] = "none" THEN 0 ELSE i]]
UDPRowsSeen ==
  [i \in 1..opened |-> [of |-> i, source |-> "relay",
                        closed |-> IF row[i] \in {"failed", "closed"} THEN {i} ELSE {}]]

LEMMA UDPIdsSeen ==
  ASSUME opened \in Nat
  PROVE  UDP!Tables!Ids = 1..opened /\ UDP!Tables!Cardinality(UDP!Tables!Ids) = opened
  <1>1. UDP!Tables!Ids = 1..opened
    BY DEF UDP!Tables!Ids
  <1>2. Cardinality(1..opened) = opened
    BY FS_Interval
  <1>3. UDP!Tables!Cardinality(1..opened) = Cardinality(1..opened)
    BY DEF UDP!Tables!Cardinality, Cardinality
  <1>. QED
    BY <1>1, <1>2, <1>3

LEMMA UDPDialSeen ==
  ASSUME UDPInv, OnceAt, UDP!Dial, NEW c \in UDP!Sessions, c = opened + 1
  PROVE  UDP!Tables!OpenSession(c)
  <1>1. PICK p \in {"open", "failed"} : row' = [row EXCEPT ![c] = p]
    BY DEF UDP!Dial
  <1>2. /\ opened \in Nat /\ opened' = c /\ 1..opened \subseteq UDP!Sessions /\ row[c] = "none"
        /\ 1..c = 1..opened \cup {c} /\ c \notin 1..opened
    BY UDPOpened DEF UDP!Dial, OnceAt
  <1>3. UDP!Tables!Cardinality(UDP!Tables!Ids) + 1 = c /\ UDP!Tables!Ids = 1..opened
    BY <1>2, UDPIdsSeen
  <1>4. row'[c] = p /\ \A i \in UDP!Sessions : i # c => row'[i] = row[i]
    BY <1>1 DEF OnceAt
  <1>5. UDPConnSeen[c].pc = "none"
    BY <1>2 DEF UDPConnSeen
  <1>6. UDPConnSeen' = [UDPConnSeen EXCEPT ![c] = [pc |-> p, id |-> c]]
    BY <1>4 DEF UDPConnSeen
  <1>7. UDP!Tables!NewRow(c, p) =
          [of |-> c, source |-> "relay", closed |-> IF p = "failed" THEN {c} ELSE {}]
    BY DEF UDP!Tables!NewRow
  <1>8. UDPRowsSeen' = [i \in 1..opened \cup {c} |->
                          IF i = c THEN UDP!Tables!NewRow(c, p) ELSE UDPRowsSeen[i]]
    BY <1>2, <1>4, <1>7 DEF UDPRowsSeen
  <1>. DEFINE new == UDP!Tables!Cardinality(UDP!Tables!Ids) + 1
              Opens(x) == /\ UDPRowsSeen' = [i \in UDP!Tables!Ids \cup {new} |->
                               IF i = new THEN UDP!Tables!NewRow(c, x) ELSE UDPRowsSeen[i]]
                          /\ UDPConnSeen' = [UDPConnSeen EXCEPT ![c] = [pc |-> x, id |-> new]]
  <1>9. Opens(p)
    BY <1>3, <1>6, <1>8
  <1>. QED
    BY <1>5, <1>9 DEF UDP!Tables!OpenSession, UDPConnSeen, UDPRowsSeen

LEMMA UDPCloseSeen ==
  ASSUME UDPInv, OnceAt, NEW i \in UDP!Sessions, UDP!EvictRow(i)
  PROVE  UDP!Tables!CloseSession(i)
  <1>1. /\ row[i] = "open" /\ i \in 1..opened /\ row' = [row EXCEPT ![i] = "closed"]
        /\ opened' = opened /\ 1..opened \subseteq UDP!Sessions
    BY UDPOpened DEF UDP!EvictRow, OnceAt, UDP!tableVars
  <1>2. row'[i] = "closed" /\ \A k \in UDP!Sessions : k # i => row'[k] = row[k]
    BY <1>1 DEF OnceAt
  <1>3. UDPConnSeen[i].pc = "open" /\ UDPConnSeen[i].id = i
    BY <1>1 DEF UDPConnSeen
  <1>4. UDPConnSeen' = [UDPConnSeen EXCEPT ![i].pc = "closed"]
    BY <1>1, <1>2 DEF UDPConnSeen
  <1>5. UDPRowsSeen' = [k \in 1..opened |->
          IF k = i THEN [UDPRowsSeen[k] EXCEPT !.closed = @ \cup {i}] ELSE UDPRowsSeen[k]]
    BY <1>1, <1>2 DEF UDPRowsSeen
  <1>6. UDP!Tables!Ids = 1..opened
    BY DEF UDP!Tables!Ids
  <1>7. UDPRowsSeen' = [k \in UDP!Tables!Ids |->
          IF k = UDPConnSeen[i].id THEN [UDPRowsSeen[k] EXCEPT !.closed = @ \cup {i}]
          ELSE UDPRowsSeen[k]]
    BY <1>3, <1>5, <1>6
  <1>. QED
    BY <1>3, <1>4, <1>7 DEF UDP!Tables!CloseSession, UDPConnSeen, UDPRowsSeen

LEMMA UDPSeenStays ==
  ASSUME UNCHANGED <<row, opened>> PROVE UNCHANGED UDP!Tables!sessionVars
  BY DEF UDP!Tables!sessionVars

LEMMA UDPNextSeen ==
  ASSUME UDPInv, OnceAt, [UDP!Next]_(UDP!vars)
  PROVE  [UDP!Tables!SessionsNext]_(UDP!Tables!sessionVars)
  <1>1. CASE UDP!Dial
    <2>1. PICK c \in UDP!Sessions : c = opened + 1
      BY <1>1, UDPOpened DEF UDP!Dial
    <2>2. UDP!Tables!OpenSession(c)
      BY <1>1, <2>1, UDPDialSeen
    <2>. QED
      BY <2>2 DEF UDP!Tables!SessionsNext
  <1>2. ASSUME NEW i \in UDP!Sessions, UDP!EvictRow(i)
        PROVE  UDP!Tables!SessionsNext
    BY <1>2, UDPCloseSeen DEF UDP!Tables!SessionsNext
  <1>3. CASE \/ (\E c \in Clients : UDP!ReadDatagram(c))
             \/ UDP!ReaderEnds \/ UDP!Lookup \/ UDP!Insert \/ UDP!Touch
    <2>1. UNCHANGED <<row, opened>>
      BY <1>3 DEF UDP!ReadDatagram, UDP!ReaderEnds, UDP!Lookup, UDP!Insert, UDP!Touch,
                  UDP!tableVars, UDP!sessionVars
    <2>. QED
      BY <2>1, UDPSeenStays
  <1>4. CASE \E k \in UDP!Carriers : UDP!Carrier(k) \/ UDP!Resolve(k)
    <2>1. UNCHANGED <<row, opened>>
      BY <1>4 DEF UDP!Carrier, UDP!Resolve, UDP!ReadAnswer, UDP!AnswersEnd, UDP!Hold,
                  UDP!AutoForward, UDP!Write, UDP!tableVars, UDP!sessionVars
    <2>. QED
      BY <2>1, UDPSeenStays
  <1>5. CASE \/ UDP!SetSettings \/ UDP!Sweep \/ UDP!Shutdown
             \/ (\E i \in UDP!Sessions : UDP!Idle(i) \/ UDP!EvictSocket(i)) \/ UNCHANGED UDP!vars
    <2>1. UNCHANGED <<row, opened>>
      BY <1>5 DEF UDP!SetSettings, UDP!Sweep, UDP!Shutdown, UDP!Cancel, UDP!CloseListener,
                  UDP!CloseSockets, UDP!Idle, UDP!EvictSocket, UDP!vars, UDP!tableVars,
                  UDP!sessionVars
    <2>. QED
      BY <2>1, UDPSeenStays
  <1>. QED
    BY <1>1, <1>2, <1>3, <1>4, <1>5 DEF UDP!Next, UDP!Reader, UDP!Evict

\* The sessions of a UDP target implement what the store promises the two tabs about:
\* each has a row, also one whose dial failed, which is closed once, with byte counts
\* that nobody overwrites (udp.go:185: the sweep closes what it took from the table).
THEOREM StoreSeesTarget == Datagrams \in Nat /\ UDP!Spec => UDP!ImplementsSessions
  <1>1. Datagrams \in Nat /\ UDP!Init => OnceAt /\ UDP!Tables!SessionsInit
    <2>. SUFFICES ASSUME Datagrams \in Nat, UDP!Init PROVE OnceAt /\ UDP!Tables!SessionsInit
      OBVIOUS
    <2>1. OnceAt
      BY DEF UDP!Init, OnceAt, UDP!Sessions, UDP!Carriers
    <2>2. UDPConnSeen = [i \in UDP!Sessions |-> [pc |-> "none", id |-> 0]]
      BY DEF UDP!Init, UDPConnSeen
    <2>3. UDPRowsSeen = <<>>
      BY DEF UDP!Init, UDPRowsSeen
    <2>. QED
      BY <2>1, <2>2, <2>3 DEF UDP!Tables!SessionsInit, UDPConnSeen, UDPRowsSeen
  <1>. QED
    BY <1>1, UDPInitInv, UDPNextInv, UDPNextOnce, UDPNextSeen, PTL
    DEF UDP!Spec, UDP!ImplementsSessions, UDP!Tables!SessionsSpec

=============================================================================

------------------------------ MODULE ViewsProofs ------------------------------
(*****************************************************************************)
(* Proofs about what a client sees: the events of a run, and the answers to its  *)
(* requests, for any number of lines, streams, threads and runs.                *)
(*****************************************************************************)
EXTENDS MCViews, SequenceTheorems, FiniteSetTheorems, TLAPS

-----------------------------------------------------------------------------
(*****************************************************************************)
(* The inductive invariant.                                                  *)
(*****************************************************************************)
Ascending(events) == \A i, j \in DOMAIN events : i < j => events[i].id < events[j].id

(* The events of one thread are in the order in which it published them.        *)
InOrder(events) ==
  \A i, j \in DOMAIN events :
    i < j /\ events[i].by = events[j].by => events[i].id < events[j].id

Holds(p) == publisher[p].at = "put"

(* An id names one event, and the next one is fresh.                           *)
IdsOK ==
  /\ \A e \in Range(bus) \cup Range(rows) \cup received : e.id <= issued
  /\ \A e, f \in Range(bus) \cup Range(rows) : e.id = f.id => e = f

(* The bus has what this process published, in that order; an event is on the   *)
(* bus before it is a row, and its thread publishes no other one until then.    *)
BusOK == Ascending(bus)

RowsOK ==
  /\ InOrder(rows)
  /\ \A i, j \in DOMAIN rows : rows[i].id = rows[j].id => i = j

HandOK(p) ==
  Holds(p) =>
    /\ publisher[p].event \in Range(bus) /\ publisher[p].event.by = p
    /\ publisher[p].event \notin Range(rows)
    /\ \A e \in Range(bus) \cup Range(rows) : e.by = p => e.id <= publisher[p].event.id

StoredOK ==
  \A e \in Range(bus) :
    e \in Range(rows) \/ \E p \in Publishers : Holds(p) /\ publisher[p].event = e

(* The part of a request before and after it has subscribed.                    *)
Subscribed(s) == stream[s].at \in {"list", "each", "loop", "wait"}

(* What a subscribed stream will find in its queue some day.                    *)
Due(s, e) ==
  \/ e \in Range(stream[s].queue)
  \/ \E p \in Publishers : s \in publisher[p].to /\ e = publisher[p].event

SubscribersOK ==
  /\ \A s \in Streams : Subscribed(s) <=> s \in subscribers
  /\ \A p \in Publishers : publisher[p].to # {} => Holds(p)
  /\ \A s \in Streams : stream[s].at \in {"idle", "read"} =>
       stream[s].queue = <<>> /\ \A p \in Publishers : s \notin publisher[p].to

(* The history is a piece of the rows; k of them come before it.                *)
IsPiece(history, k) ==
  /\ k + Len(history) <= Len(rows)
  /\ \A i \in DOMAIN history : history[i] = rows[k + i]

HistoryOK(s) == \E k \in 0..Len(rows) : IsPiece(stream[s].history, k)

WrittenOK(s) ==
  /\ Range(stream[s].written) = stream[s].seen
  /\ stream[s].seen \subseteq received \cap (Range(bus) \cup Range(rows))
  /\ \A i, j \in DOMAIN stream[s].written :
       stream[s].written[i].id = stream[s].written[j].id => i = j
  /\ stream[s].at \in {"idle", "read", "list"} => stream[s].written = stream[s].history
  /\ Range(stream[s].history) \subseteq stream[s].seen

(* What the second loop has yet to look at.                                    *)
ListedOK(s) ==
  /\ stream[s].at \in {"idle", "read", "list", "loop", "wait"} => stream[s].listed = <<>>
  /\ stream[s].at = "each" => stream[s].listed # <<>>
  /\ Range(stream[s].listed) \subseteq Range(bus) /\ Ascending(stream[s].listed)
  /\ stream[s].at = "each" =>
       \A e \in Range(stream[s].listed) :
         \/ e \in stream[s].seen \cup Earlier(s)
         \/ \A w \in stream[s].seen : w.by = e.by => w.id < e.id

(* What comes by the queue is later than what the list has, or is in it.        *)
QueueOK(s) ==
  /\ Range(stream[s].queue) \subseteq Range(bus) /\ InOrder(stream[s].queue)
  /\ \A p \in Publishers : s \in publisher[p].to =>
       \A e \in Range(stream[s].queue) : e.by = p => e.id < publisher[p].event.id
  /\ Subscribed(s) => \A e \in Event : Due(s, e) =>
       /\ \A h \in Range(stream[s].history) : h.id < e.id
       /\ \/ e \in stream[s].seen \cup Range(stream[s].listed)
          \/ \A w \in stream[s].seen \cup Range(stream[s].listed) : w.by = e.by => w.id < e.id

(* AuthorsInOrder, of one request.                                             *)
AuthorsOK(s) ==
  \A i, j \in DOMAIN stream[s].written :
    /\ i < j /\ stream[s].written[i].by = stream[s].written[j].by
    /\ stream[s].written[j] \notin Earlier(s)
    => stream[s].written[i].id < stream[s].written[j].id

(* Once the bus has been read, nothing on it is missed.                        *)
CaughtUpOK(s) ==
  stream[s].at \in {"each", "loop", "wait"} =>
    LET from == LastOf(stream[s].history) IN
    from = None \/ Position(bus, from) > 0 =>
      \A i \in (Position(bus, from) + 1)..Len(bus) :
        bus[i] \in Accounted(s) \cup Range(stream[s].listed)

StreamOK(s) ==
  HistoryOK(s) /\ WrittenOK(s) /\ ListedOK(s) /\ QueueOK(s) /\ AuthorsOK(s) /\ CaughtUpOK(s)

LInv ==
  /\ TypeOK /\ IdsOK /\ BusOK /\ RowsOK /\ StoredOK /\ SubscribersOK
  /\ \A p \in Publishers : HandOK(p)
  /\ \A s \in Streams : StreamOK(s)
-----------------------------------------------------------------------------
(*****************************************************************************)
(* Lemmas about sequences of events.                                          *)
(*****************************************************************************)
(* Position finds an event that is there, or returns 0.                         *)
LEMMA PositionRange ==
  ASSUME NEW events \in Seq(Event), NEW e
  PROVE  /\ Position(events, e) \in 0..Len(events)
         /\ Position(events, e) > 0 => events[Position(events, e)].id = e.id
         /\ Position(events, e) = 0 => \A i \in DOMAIN events : events[i].id # e.id
<1>1. DOMAIN events = 1..Len(events) BY LenProperties
<1>2. CASE \E i \in DOMAIN events : events[i].id = e.id
  <2>1. Position(events, e) = CHOOSE i \in DOMAIN events : events[i].id = e.id
    BY <1>2 DEF Position
  <2>2. Position(events, e) \in DOMAIN events /\ events[Position(events, e)].id = e.id
    BY <1>2, <2>1
  <2> QED BY <1>1, <2>2
<1>3. CASE ~\E i \in DOMAIN events : events[i].id = e.id
  BY <1>3, LenProperties DEF Position
<1> QED BY <1>2, <1>3

(* It is the place of the event if no two have the same id.                     *)
LEMMA PositionIs ==
  ASSUME NEW events \in Seq(Event), NEW e, NEW k \in DOMAIN events, events[k].id = e.id,
         \A i, j \in DOMAIN events : events[i].id = events[j].id => i = j
  PROVE  Position(events, e) = k
<1>1. Position(events, e) > 0 => Position(events, e) \in DOMAIN events
  BY PositionRange, LenProperties
<1> QED BY <1>1, PositionRange

(* A new event leaves the places of the others alone.                           *)
LEMMA PositionAppend ==
  ASSUME NEW events \in Seq(Event), NEW new \in Event, NEW e, e.id # new.id,
         \A i, j \in DOMAIN events : events[i].id = events[j].id => i = j,
         \A i \in DOMAIN events : events[i].id # new.id
  PROVE  Position(Append(events, new), e) = Position(events, e)
<1> DEFINE more == Append(events, new)
<1>1. /\ more \in Seq(Event) /\ Len(more) = Len(events) + 1
      /\ DOMAIN events = 1..Len(events) /\ DOMAIN more = 1..(Len(events) + 1)
      /\ \A i \in 1..Len(events) : more[i] = events[i]
      /\ more[Len(events) + 1] = new
  BY AppendProperties, LenProperties
<1>2. \A i, j \in DOMAIN more : more[i].id = more[j].id => i = j BY <1>1
<1>3. CASE Position(events, e) = 0
  <2>1. \A i \in DOMAIN more : more[i].id # e.id BY <1>1, <1>3, PositionRange
  <2> QED BY <1>3, <2>1 DEF Position
<1>4. CASE Position(events, e) > 0
  <2>1. Position(events, e) \in DOMAIN more /\ more[Position(events, e)].id = e.id
    BY <1>1, <1>4, PositionRange
  <2> HIDE DEF more
  <2> QED BY <1>1, <1>2, <2>1, PositionIs DEF more
<1> QED BY <1>3, <1>4, PositionRange

(* What a sequence has after one of its places.                                 *)
LEMMA AfterIs ==
  ASSUME NEW events \in Seq(Event), NEW k \in 0..Len(events)
  PROVE  /\ After(events, k) \in Seq(Event) /\ Len(After(events, k)) = Len(events) - k
         /\ \A i \in DOMAIN After(events, k) :
              /\ i \in 1..(Len(events) - k) /\ k + i \in DOMAIN events
              /\ After(events, k)[i] = events[k + i]
         /\ \A i \in (k + 1)..Len(events) : events[i] \in Range(After(events, k))
<1>1. k + 1 \in 1..(Len(events) + 1) /\ Len(events) \in Nat BY LenProperties
<1>2. /\ After(events, k) \in Seq(Event) /\ Len(After(events, k)) = Len(events) - k
      /\ \A i \in 1..(Len(events) - k) : After(events, k)[i] = events[k + i]
  BY <1>1, SubSeqProperties DEF After
<1>3. DOMAIN After(events, k) = 1..(Len(events) - k) /\ DOMAIN events = 1..Len(events)
  BY <1>2, LenProperties
<1>4. ASSUME NEW i \in (k + 1)..Len(events) PROVE events[i] \in Range(After(events, k))
  <2>1. i - k \in 1..(Len(events) - k) /\ k + (i - k) = i BY <1>1
  <2> QED BY <1>2, <1>3, <2>1 DEF Range
<1> QED BY <1>1, <1>2, <1>3, <1>4

(* What a longer sequence holds.                                               *)
LEMMA AppendIs ==
  ASSUME NEW events \in Seq(Event), NEW e \in Event
  PROVE  /\ Append(events, e) \in Seq(Event) /\ Len(Append(events, e)) = Len(events) + 1
         /\ Range(Append(events, e)) = Range(events) \cup {e}
         /\ DOMAIN events = 1..Len(events) /\ DOMAIN Append(events, e) = 1..(Len(events) + 1)
         /\ \A i \in 1..Len(events) : Append(events, e)[i] = events[i]
         /\ Append(events, e)[Len(events) + 1] = e
<1>1. /\ Append(events, e) \in Seq(Event) /\ Len(Append(events, e)) = Len(events) + 1
      /\ DOMAIN events = 1..Len(events) /\ DOMAIN Append(events, e) = 1..(Len(events) + 1)
      /\ \A i \in 1..Len(events) : Append(events, e)[i] = events[i]
      /\ Append(events, e)[Len(events) + 1] = e
  BY AppendProperties, LenProperties
<1>2. Range(Append(events, e)) = Range(events) \cup {e} BY <1>1 DEF Range
<1> QED BY <1>1, <1>2

(* What is left of a sequence without its first event.                          *)
LEMMA TailIs ==
  ASSUME NEW events \in Seq(Event), events # <<>>
  PROVE  /\ Head(events) \in Range(events) /\ Head(events) \in Event
         /\ Tail(events) \in Seq(Event)
         /\ Range(events) = Range(Tail(events)) \cup {Head(events)}
         /\ InOrder(events) =>
              /\ InOrder(Tail(events))
              /\ \A e \in Range(Tail(events)) : e.by = Head(events).by => Head(events).id < e.id
         /\ Ascending(events) =>
              /\ Ascending(Tail(events))
              /\ \A e \in Range(Tail(events)) : Head(events).id < e.id
<1>1. /\ Len(events) \in Nat \ {0} /\ DOMAIN events = 1..Len(events)
      /\ Head(events) = events[1]
      /\ Tail(events) \in Seq(Event) /\ Len(Tail(events)) = Len(events) - 1
      /\ \A i \in 1..(Len(events) - 1) : Tail(events)[i] = events[i + 1]
  BY HeadTailProperties, LenProperties, EmptySeq
<1>2. DOMAIN Tail(events) = 1..(Len(events) - 1) BY <1>1, LenProperties
<1>3. \A i \in DOMAIN Tail(events) :
        /\ i + 1 \in DOMAIN events /\ 1 \in DOMAIN events /\ 1 < i + 1
        /\ Tail(events)[i] = events[i + 1]
  BY <1>1, <1>2
<1>4. Head(events) \in Range(events) /\ Head(events) \in Event BY <1>1 DEF Range
<1>5. Range(events) = Range(Tail(events)) \cup {Head(events)}
  <2>1. \A i \in DOMAIN events :
          \/ i = 1
          \/ i - 1 \in DOMAIN Tail(events) /\ events[i] = Tail(events)[i - 1]
    BY <1>1, <1>2
  <2>2. Range(events) \subseteq Range(Tail(events)) \cup {Head(events)} BY <1>1, <2>1 DEF Range
  <2>3. Range(Tail(events)) \subseteq Range(events) BY <1>3 DEF Range
  <2> QED BY <1>4, <2>2, <2>3
<1>6. InOrder(events) => InOrder(Tail(events))
  BY <1>1, <1>2, <1>3 DEF InOrder
<1>7. Ascending(events) => Ascending(Tail(events))
  BY <1>1, <1>2, <1>3 DEF Ascending
<1>8. InOrder(events) =>
        \A e \in Range(Tail(events)) : e.by = Head(events).by => Head(events).id < e.id
  BY <1>1, <1>3 DEF InOrder, Range
<1>9. Ascending(events) => \A e \in Range(Tail(events)) : Head(events).id < e.id
  BY <1>1, <1>3 DEF Ascending, Range
<1> QED BY <1>1, <1>4, <1>5, <1>6, <1>7, <1>8, <1>9

-----------------------------------------------------------------------------
(*****************************************************************************)
(* A step of a request changes that request alone.                            *)
(*****************************************************************************)
StreamRecs ==
  [at : {"idle", "read", "list", "each", "loop", "wait", "done"},
   history : Seq(Event), listed : Seq(Event), queue : Seq(Event),
   seen : SUBSET Event, written : Seq(Event)]

(* The invariant of the other requests, the bus and the rows is kept.           *)
LEMMA OneStream ==
  ASSUME LInv, NEW s \in Streams, NEW now \in StreamRecs,
         stream' = [stream EXCEPT ![s] = now],
         subscribers' = IF now.at \in {"list", "each", "loop", "wait"}
                          THEN subscribers \cup {s} ELSE subscribers \ {s},
         received' = received \cup now.seen,
         now.seen \subseteq Range(bus) \cup Range(rows),
         now.at \in {"idle", "read"} =>
           now.queue = <<>> /\ \A p \in Publishers : s \notin publisher[p].to,
         UNCHANGED <<bus, rows, issued, publisher, closed, restarts>>,
         StreamOK(s)'
  PROVE  LInv'
<1>1. TypeOK'
  <2>1. Range(bus) \cup Range(rows) \subseteq Event
    BY RangeOfSeq DEF LInv, TypeOK
  <2> QED BY <2>1 DEF LInv, TypeOK, StreamRecs
<1>2. IdsOK' /\ BusOK' /\ RowsOK' /\ StoredOK' /\ \A p \in Publishers : HandOK(p)'
  BY DEF LInv, IdsOK, BusOK, RowsOK, StoredOK, HandOK, Holds
<1>3. stream'[s] = now /\ \A t \in Streams \ {s} : stream'[t] = stream[t]
  BY DEF LInv, TypeOK
<1>4. SubscribersOK'
  BY <1>3 DEF LInv, SubscribersOK, Subscribed, Holds
<1>5. ASSUME NEW t \in Streams \ {s} PROVE StreamOK(t)'
  <2>1. stream'[t] = stream[t] /\ received \subseteq received' BY <1>3
  <2>2. HistoryOK(t)' BY <2>1 DEF LInv, StreamOK, HistoryOK, IsPiece
  <2>3. WrittenOK(t)' BY <2>1 DEF LInv, StreamOK, WrittenOK
  <2>4. ListedOK(t)' BY <2>1 DEF LInv, StreamOK, ListedOK, Earlier
  <2>5. QueueOK(t)' BY <2>1 DEF LInv, StreamOK, QueueOK, Due, Subscribed
  <2>5a. Earlier(t)' = Earlier(t) BY <2>1 DEF Earlier
  <2>6. AuthorsOK(t)' BY <2>1, <2>5a DEF LInv, StreamOK, AuthorsOK
  <2>7. CaughtUpOK(t)' BY <2>1 DEF LInv, StreamOK, CaughtUpOK, Accounted
  <2> QED BY <2>2, <2>3, <2>4, <2>5, <2>6, <2>7 DEF StreamOK
<1> QED BY <1>1, <1>2, <1>4, <1>5 DEF LInv

(* What a request can rely on.                                                 *)
LEMMA Granted ==
  ASSUME LInv, NEW s \in Streams
  PROVE  /\ stream[s] \in StreamRecs /\ bus \in Seq(Event) /\ rows \in Seq(Event)
         /\ stream \in [Streams -> StreamRecs]
         /\ Range(bus) \subseteq Event /\ Range(rows) \subseteq Event
         /\ Subscribed(s) <=> s \in subscribers
         /\ stream[s].at \in {"idle", "read"} =>
              stream[s].queue = <<>> /\ \A p \in Publishers : s \notin publisher[p].to
         /\ \A i, j \in DOMAIN rows : rows[i].id = rows[j].id => i = j
         /\ \A i, j \in DOMAIN bus : bus[i].id = bus[j].id => i = j
         /\ subscribers \subseteq Streams
<1>1. \A i, j \in DOMAIN bus : bus[i].id = bus[j].id => i = j
  <2>1. bus \in Seq(Event) BY DEF LInv, TypeOK
  <2>2. DOMAIN bus = 1..Len(bus) /\ Len(bus) \in Nat BY <2>1, LenProperties
  <2>3. \A i \in DOMAIN bus : bus[i] \in Event BY <2>1, <2>2, ElementOfSeq
  <2>4. \A i \in DOMAIN bus : bus[i].id \in Nat BY <2>3, BoundsAssumption DEF Event
  <2> QED BY <2>2, <2>4 DEF LInv, BusOK, Ascending
<1>2. Range(bus) \subseteq Event /\ Range(rows) \subseteq Event
  BY RangeOfSeq DEF LInv, TypeOK
<1> QED BY <1>1, <1>2 DEF LInv, TypeOK, StreamRecs, SubscribersOK, RowsOK

(* The first loop gives a piece of the rows.                                    *)
LEMMA OpenStep ==
  ASSUME LInv, NEW s \in Streams, Open(s)
  PROVE  LInv'
<1> USE Granted
<1>1. /\ stream[s].at \in {"idle", "done"} /\ \A p \in Publishers : s \notin publisher[p].to
      /\ UNCHANGED <<bus, rows, issued, publisher, subscribers, closed, restarts>>
  BY DEF Open
<1>2. subscribers \ {s} = subscribers BY <1>1 DEF Subscribed
<1>0. rows \in Seq(Event) /\ Len(rows) \in Nat BY LenProperties
<1> DEFINE Begins(place, history, k) ==
             /\ stream' = [stream EXCEPT ![s] = Begun(place, history)]
             /\ received' = received \cup Range(history)
             /\ IsPiece(history, k)
<1>e. IsPiece(<<>>, 0) /\ <<>> \in Seq(Event) /\ Range(<<>>) = {}
  BY <1>0 DEF IsPiece, Range
<1>3. \E history \in Seq(Event), k \in 0..Len(rows), place \in {"read", "done"} :
        Begins(place, history, k)
  <2>1. CASE /\ restarts > 0 /\ rows = <<>>
             /\ stream' = [stream EXCEPT ![s] = Begun("done", <<>>)]
             /\ UNCHANGED received
    <3>2. Begins("done", <<>>, 0) BY <1>e, <2>1
    <3>3. 0 \in 0..Len(rows) BY <1>0
    <3> HIDE DEF Begins
    <3> QED BY <1>e, <3>2, <3>3
  <2>2. CASE \E from \in received \cup {None}, include_history \in BOOLEAN :
               LET history == IF include_history THEN RowsAfter(from) ELSE <<>> IN
               /\ stream' = [stream EXCEPT ![s] =
                     Begun(IF LastOf(history).final THEN "done" ELSE "read", history)]
               /\ received' = received \cup Range(history)
    <3>1. PICK from \in received \cup {None}, include_history \in BOOLEAN :
            LET history == IF include_history THEN RowsAfter(from) ELSE <<>> IN
            /\ stream' = [stream EXCEPT ![s] =
                  Begun(IF LastOf(history).final THEN "done" ELSE "read", history)]
            /\ received' = received \cup Range(history)
      BY <2>2
    <3> DEFINE history == IF include_history THEN RowsAfter(from) ELSE <<>>
               place   == IF LastOf(history).final THEN "done" ELSE "read"
    <3>2. /\ stream' = [stream EXCEPT ![s] = Begun(place, history)]
          /\ received' = received \cup Range(history)
      BY <3>1
    <3>3. place \in {"read", "done"} OBVIOUS
    <3>4. history = <<>> \/ history = After(rows, Position(rows, from)) BY DEF RowsAfter
    <3> HIDE DEF history, place
    <3>5. \E k \in 0..Len(rows) : history \in Seq(Event) /\ IsPiece(history, k)
      <4>1. CASE history = <<>>
        <5>1. 0 \in 0..Len(rows) BY <1>0
        <5> QED BY <1>e, <4>1, <5>1
      <4>2. CASE history = After(rows, Position(rows, from))
        <5>1. Position(rows, from) \in 0..Len(rows) BY <1>0, PositionRange
        <5>2. /\ history \in Seq(Event) /\ Len(history) = Len(rows) - Position(rows, from)
              /\ \A i \in DOMAIN history : history[i] = rows[Position(rows, from) + i]
          BY <1>0, <4>2, <5>1, AfterIs
        <5>3. IsPiece(history, Position(rows, from)) BY <1>0, <5>1, <5>2 DEF IsPiece
        <5> QED BY <5>1, <5>2, <5>3
      <4> QED BY <3>4, <4>1, <4>2
    <3> QED BY <3>2, <3>3, <3>5
  <2> HIDE DEF Begins
  <2> QED BY <2>1, <2>2 DEF Open
<1>4. PICK history \in Seq(Event), k \in 0..Len(rows), place \in {"read", "done"} :
        Begins(place, history, k)
  BY <1>3
<1> DEFINE now == Begun(place, history)
<1>5. /\ stream' = [stream EXCEPT ![s] = now] /\ stream'[s] = now
      /\ received' = received \cup Range(history)
      /\ IsPiece(history, k)
  BY <1>4
<1>6. /\ now.at = place /\ now.history = history /\ now.written = history
      /\ now.seen = Range(history) /\ now.listed = <<>> /\ now.queue = <<>>
  BY DEF Begun
<1>7. Range(history) \subseteq Event BY RangeOfSeq
<1>8. now \in StreamRecs BY <1>e, <1>4, <1>7 DEF Begun, StreamRecs
<1>9. /\ DOMAIN history = 1..Len(history) /\ DOMAIN rows = 1..Len(rows)
      /\ Len(history) \in Nat /\ Len(rows) \in Nat
      /\ \A i \in DOMAIN history : k + i \in DOMAIN rows /\ history[i] = rows[k + i]
  <2>1. /\ DOMAIN history = 1..Len(history) /\ DOMAIN rows = 1..Len(rows)
        /\ Len(history) \in Nat /\ Len(rows) \in Nat
    BY <1>0, <1>4, LenProperties
  <2> QED BY <1>4, <1>5, <2>1 DEF IsPiece
<1>10. Range(history) \subseteq Range(rows) BY <1>9 DEF Range
<1> HIDE DEF now
<1>11. HistoryOK(s)'
  <2>1. IsPiece(history, k)' BY <1>1, <1>5 DEF IsPiece
  <2> QED BY <1>1, <1>4, <1>5, <1>6, <2>1 DEF HistoryOK
<1>12. WrittenOK(s)'
  <2>1. \A i, j \in DOMAIN history : history[i].id = history[j].id => i = j
    BY <1>9
  <2> QED BY <1>1, <1>4, <1>5, <1>6, <1>10, <2>1 DEF WrittenOK
<1>13. ListedOK(s)' BY <1>4, <1>5, <1>6 DEF ListedOK, Ascending, Range
<1>14. QueueOK(s)'  BY <1>1, <1>4, <1>5, <1>6 DEF QueueOK, Subscribed, InOrder, Range
<1>15. AuthorsOK(s)'
  <2>1. InOrder(rows) BY DEF LInv, RowsOK
  <2>2. \A i, j \in DOMAIN history :
          i < j /\ history[i].by = history[j].by => history[i].id < history[j].id
    <3> TAKE i, j \in DOMAIN history
    <3> HAVE i < j /\ history[i].by = history[j].by
    <3>1. /\ k + i \in DOMAIN rows /\ k + j \in DOMAIN rows
          /\ history[i] = rows[k + i] /\ history[j] = rows[k + j]
      BY <1>9
    <3>2. k + i < k + j BY <1>9
    <3> QED BY <2>1, <3>1, <3>2 DEF InOrder
  <2> QED BY SMTT(30), <1>5, <1>6, <2>2 DEF AuthorsOK
<1>16. CaughtUpOK(s)' BY <1>4, <1>5, <1>6 DEF CaughtUpOK
<1>17. StreamOK(s)' BY <1>11, <1>12, <1>13, <1>14, <1>15, <1>16 DEF StreamOK
<1> QED BY <1>1, <1>2, <1>5, <1>4, <1>6, <1>8, <1>10, <1>17, OneStream

(* From now on the request is handed what is published.                         *)
LEMMA SubscribeStep ==
  ASSUME LInv, NEW s \in Streams, Subscribe(s)
  PROVE  LInv'
<1> USE Granted
<1> DEFINE now == [stream[s] EXCEPT !.at = "list"]
<1>1. /\ stream[s].at = "read" /\ stream' = [stream EXCEPT ![s] = now]
      /\ subscribers' = subscribers \cup {s}
      /\ UNCHANGED <<bus, rows, issued, publisher, closed, received, restarts>>
  BY DEF Subscribe
<1>2. /\ now \in StreamRecs /\ now.at = "list" /\ now.history = stream[s].history
      /\ now.written = stream[s].written /\ now.seen = stream[s].seen
      /\ now.listed = stream[s].listed /\ now.queue = stream[s].queue
      /\ stream'[s] = now
  BY <1>1 DEF StreamRecs
<1> HIDE DEF now
<1>3. StreamOK(s) BY DEF LInv
<1>4. HistoryOK(s)' BY <1>1, <1>2, <1>3 DEF StreamOK, HistoryOK, IsPiece
<1>5. WrittenOK(s)' BY <1>1, <1>2, <1>3 DEF StreamOK, WrittenOK
<1>6. ListedOK(s)' BY <1>1, <1>2, <1>3 DEF StreamOK, ListedOK
<1>7. QueueOK(s)'
  <2>1. stream[s].queue = <<>> /\ \A p \in Publishers : s \notin publisher[p].to BY <1>1
  <2> QED BY <1>1, <1>2, <1>3, <2>1 DEF StreamOK, QueueOK, Due, Range
<1>8. AuthorsOK(s)'
  <2>1. Earlier(s)' = Earlier(s) BY <1>1, <1>2 DEF Earlier
  <2> QED BY <1>2, <1>3, <2>1 DEF StreamOK, AuthorsOK
<1>9. CaughtUpOK(s)' BY <1>2 DEF CaughtUpOK
<1>10. StreamOK(s)' BY <1>4, <1>5, <1>6, <1>7, <1>8, <1>9 DEF StreamOK
<1>11. received' = received \cup now.seen /\ now.seen \subseteq Range(bus) \cup Range(rows)
  BY <1>1, <1>2, <1>3 DEF StreamOK, WrittenOK
<1> QED BY <1>1, <1>2, <1>10, <1>11, OneStream

(* The bus holds nothing that precedes what the stream has been given, but for    *)
(* events that were rows before its history.                                   *)
LEMMA ListStep ==
  ASSUME LInv, NEW s \in Streams, List(s)
  PROVE  LInv'
<1> USE Granted
<1> DEFINE from   == LastOf(stream[s].history)
           listed == EventsAfter(from)
           now    == [stream[s] EXCEPT !.at = IF listed = <<>> THEN "loop" ELSE "each",
                                       !.listed = listed]
<1>1. /\ stream[s].at = "list" /\ stream' = [stream EXCEPT ![s] = now]
      /\ UNCHANGED <<bus, rows, issued, publisher, subscribers, closed, received, restarts>>
  <2>1. /\ stream[s].at = "list"
        /\ stream' = [stream EXCEPT ![s].at = IF listed = <<>> THEN "loop" ELSE "each",
                                    ![s].listed = listed]
        /\ UNCHANGED <<bus, rows, issued, publisher, subscribers, closed, received, restarts>>
    BY DEF List
  <2> HIDE DEF listed
  <2> QED BY <2>1
<1>2. StreamOK(s) BY DEF LInv
<1>3. stream[s].history \in Seq(Event) /\ stream[s].written = stream[s].history
  BY <1>1, <1>2 DEF StreamRecs, StreamOK, WrittenOK
<1>4. /\ listed \in Seq(Event) /\ Range(listed) \subseteq Range(bus)
      /\ Ascending(listed)
      /\ listed # <<>> => from = None \/ Position(bus, from) > 0
      /\ from = None \/ Position(bus, from) > 0 =>
           \A i \in (Position(bus, from) + 1)..Len(bus) : bus[i] \in Range(listed)
      /\ from # None => \A e \in Range(listed) : from.id < e.id
  <2>0. Ascending(bus) BY DEF LInv, BusOK
  <2>1. CASE from = None
    <3>1. listed = bus BY <2>1 DEF EventsAfter
    <3>2. Position(bus, None) \in 0..Len(bus) BY PositionRange
    <3>3. DOMAIN bus = 1..Len(bus) /\ Len(bus) \in Nat BY LenProperties
    <3>4. \A i \in (Position(bus, from) + 1)..Len(bus) : i \in DOMAIN bus BY <2>1, <3>2, <3>3
    <3>5. <<>> \in Seq(Event) /\ bus \in Seq(Event) OBVIOUS
    <3> HIDE DEF listed, from
    <3> QED BY <2>0, <2>1, <3>1, <3>4 DEF Range
  <2>2. CASE from # None /\ Position(bus, from) = 0
    <3>1. listed = <<>> BY <2>2 DEF EventsAfter
    <3> HIDE DEF listed, from
    <3> QED BY <2>2, <3>1 DEF Ascending, Range
  <2>3. CASE from # None /\ Position(bus, from) > 0
    <3> DEFINE k == Position(bus, from)
    <3>1. listed = After(bus, k) BY <2>3 DEF EventsAfter
    <3>2. k \in 1..Len(bus) /\ bus[k].id = from.id BY <2>3, PositionRange
    <3>3. /\ DOMAIN bus = 1..Len(bus) /\ Len(bus) \in Nat BY LenProperties
    <3> HIDE DEF listed, from, k
    <3>4. k \in 0..Len(bus) BY <3>2, <3>3
    <3>5. /\ listed \in Seq(Event)
          /\ \A i \in DOMAIN listed :
               i \in 1..(Len(bus) - k) /\ k + i \in DOMAIN bus /\ listed[i] = bus[k + i]
          /\ \A i \in (k + 1)..Len(bus) : bus[i] \in Range(listed)
      BY <3>1, <3>4, AfterIs
    <3>6. Range(listed) \subseteq Range(bus) BY <3>5 DEF Range
    <3>7. Ascending(listed)
      <4> SUFFICES ASSUME NEW i \in DOMAIN listed, NEW j \in DOMAIN listed, i < j
                   PROVE  listed[i].id < listed[j].id
        BY DEF Ascending
      <4>1. /\ k + i \in DOMAIN bus /\ k + j \in DOMAIN bus
            /\ listed[i] = bus[k + i] /\ listed[j] = bus[k + j]
        BY <3>5
      <4>2. k + i < k + j BY <3>2, <3>3, <3>5
      <4> QED BY <2>0, <4>1, <4>2 DEF Ascending
    <3>8. ASSUME NEW e \in Range(listed) PROVE from.id < e.id
      <4>1. PICK i \in DOMAIN listed : e = listed[i] BY DEF Range
      <4>2. k \in DOMAIN bus /\ k + i \in DOMAIN bus /\ k < k + i /\ e = bus[k + i]
        BY <3>2, <3>3, <3>5, <4>1
      <4> QED BY <2>0, <3>2, <4>2 DEF Ascending
    <3> QED BY <2>3, <3>5, <3>6, <3>7, <3>8 DEF k
  <2> HIDE DEF listed, from
  <2>4. Position(bus, from) \in 0..Len(bus) /\ Len(bus) \in Nat BY PositionRange, LenProperties
  <2> QED BY <2>1, <2>2, <2>3, <2>4
<1>5. ASSUME NEW e \in Range(listed), NEW w \in stream[s].seen, w.by = e.by, ~(w.id < e.id),
             e \notin stream[s].seen
      PROVE  e \in Earlier(s)
  <2> HIDE DEF listed
  <2>1. /\ w \in Range(stream[s].history) /\ e \notin Range(stream[s].history)
    BY <1>2, <1>3, <1>5 DEF StreamOK, WrittenOK
  <2>2. PICK k \in 0..Len(rows) : IsPiece(stream[s].history, k)
    BY <1>2 DEF StreamOK, HistoryOK
  <2> DEFINE history == stream[s].history
  <2>3. /\ DOMAIN history = 1..Len(history) /\ Len(history) \in Nat
        /\ DOMAIN rows = 1..Len(rows) /\ Len(rows) \in Nat
    BY <1>3, LenProperties
  <2>4. PICK m \in DOMAIN history : w = history[m] BY <2>1 DEF Range
  <2>5. k + m \in DOMAIN rows /\ w = rows[k + m] BY <2>2, <2>3, <2>4 DEF IsPiece
  <2>6. e \in Range(bus) /\ w \in Range(rows) /\ e \in Event /\ w \in Event
    BY <1>4, <2>5 DEF Range
  <2>7. e.id \in Nat /\ w.id \in Nat BY <2>6, BoundsAssumption DEF Event
  <2>8. e # w BY <2>1
  <2>9. e.id < w.id BY <1>5, <2>6, <2>7, <2>8 DEF LInv, IdsOK
  <2>10. e \in Range(rows)
    <3> SUFFICES ASSUME e \notin Range(rows) PROVE FALSE
      OBVIOUS
    <3>1. PICK p \in Publishers : Holds(p) /\ publisher[p].event = e
      BY <2>6 DEF LInv, StoredOK
    <3>2. HandOK(p) BY DEF LInv
    <3>3. w.id <= e.id BY <1>5, <2>6, <3>1, <3>2 DEF HandOK
    <3> QED BY <2>7, <2>9, <3>3
  <2>11. PICK i \in DOMAIN rows : e = rows[i] BY <2>10 DEF Range
  <2>12. i < k + m
    <3>1. k + m < i => w.id < e.id BY <1>5, <2>5, <2>11 DEF LInv, RowsOK, InOrder
    <3>2. i # k + m BY <2>5, <2>8, <2>11
    <3> QED BY <2>3, <2>5, <2>7, <2>9, <2>11, <3>1, <3>2
  <2>13. i <= k
    <3> SUFFICES ASSUME i > k PROVE FALSE
      BY <2>3, <2>11
    <3>1. i - k \in DOMAIN history /\ k + (i - k) = i BY <2>3, <2>4, <2>11, <2>12
    <3>2. history[i - k] = rows[i] BY <2>2, <3>1 DEF IsPiece
    <3> QED BY <2>1, <2>11, <3>1, <3>2 DEF Range
  <2>14. 1 \in DOMAIN history /\ Head(history) = history[1] /\ history # <<>>
    <3>1. history # <<>> BY <2>3, <2>4, EmptySeq
    <3> QED BY <1>3, <2>3, <2>4, <3>1, HeadTailProperties
  <2>15. k + 1 \in DOMAIN rows /\ history[1] = rows[k + 1]
    BY SMTT(30), <2>2, <2>3, <2>14 DEF IsPiece
  <2>16. Position(rows, Head(history)) = k + 1
    <3> HIDE DEF history
    <3> QED BY <2>14, <2>15, PositionIs
  <2>17. i \in 1..(Position(rows, Head(history)) - 1) BY <2>3, <2>11, <2>13, <2>16
  <2> QED BY <2>11, <2>14, <2>17 DEF Earlier
<1>6. /\ now \in StreamRecs /\ now.at \in {"loop", "each"} /\ now.history = stream[s].history
      /\ now.written = stream[s].written /\ now.seen = stream[s].seen
      /\ now.listed = listed /\ now.queue = stream[s].queue
      /\ (now.at = "each" <=> listed # <<>>)
      /\ stream'[s] = now
  <2> HIDE DEF listed
  <2> QED BY <1>1, <1>4 DEF StreamRecs
<1> HIDE DEF now
<1>7. Subscribed(s) /\ Subscribed(s)' /\ \A e : Due(s, e)' <=> Due(s, e)
  BY <1>1, <1>6 DEF Subscribed, Due
<1>8. Earlier(s)' = Earlier(s) BY <1>1, <1>6 DEF Earlier
<1>9. HistoryOK(s)' BY <1>1, <1>2, <1>6 DEF StreamOK, HistoryOK, IsPiece
<1>10. WrittenOK(s)' BY <1>1, <1>2, <1>6 DEF StreamOK, WrittenOK
<1>11. ListedOK(s)'
  <2>1. \A e \in Range(listed) :
          \/ e \in stream[s].seen \cup Earlier(s)
          \/ \A w \in stream[s].seen : w.by = e.by => w.id < e.id
    <3> HIDE DEF listed
    <3> QED BY <1>5
  <2> HIDE DEF listed, from
  <2> QED BY <1>1, <1>4, <1>6, <1>8, <2>1 DEF ListedOK
<1>12. QueueOK(s)'
  <2>1. ASSUME NEW e \in Event, Due(s, e), e \notin stream[s].seen \cup Range(listed),
               NEW w \in stream[s].seen \cup Range(listed), w.by = e.by
        PROVE  w.id < e.id
    <3>1. stream[s].listed = <<>> BY <1>1, <1>2 DEF StreamOK, ListedOK
    <3>2. Range(stream[s].listed) = {} BY <3>1 DEF Range
    <3>3. CASE w \in stream[s].seen
      BY <1>2, <1>7, <2>1, <3>2, <3>3 DEF StreamOK, QueueOK
    <3>4. CASE w \in Range(listed)
      <4>1. e \in Range(bus)
        <5>1. \A p \in Publishers : s \in publisher[p].to => publisher[p].event \in Range(bus)
          BY DEF LInv, SubscribersOK, HandOK
        <5> QED BY <1>2, <2>1, <5>1 DEF Due, StreamOK, QueueOK
      <4>2. from = None \/ Position(bus, from) > 0
        <5> HIDE DEF listed
        <5>1. listed # <<>> BY <3>4 DEF Range
        <5> QED BY <1>4, <5>1
      <4>3. \A h \in Range(stream[s].history) : h.id < e.id
        BY <1>2, <1>7, <2>1 DEF StreamOK, QueueOK
      <4>4. DOMAIN bus = 1..Len(bus) /\ Len(bus) \in Nat BY LenProperties
      <4>5. PICK i \in DOMAIN bus : bus[i] = e BY <4>1 DEF Range
      <4>6. Position(bus, from) \in 0..Len(bus)
            /\ (Position(bus, from) > 0 => bus[Position(bus, from)].id = from.id)
        <5> HIDE DEF from
        <5> QED BY PositionRange
      <4>7. Position(bus, from) < i
        <5>1. CASE from = None
          <6>1. Position(bus, from) = 0
            <7>1. \A j \in DOMAIN bus : bus[j] \in Event BY <4>4, ElementOfSeq
            <7>2. \A j \in DOMAIN bus : bus[j].id # 0 BY <7>1, BoundsAssumption DEF Event
            <7>3. from.id = 0 BY <5>1 DEF None
            <7> HIDE DEF from
            <7> QED BY <4>4, <4>6, <7>2, <7>3
          <6> QED BY <4>4, <4>5, <6>1
        <5>2. CASE from # None
          <6>1. from \in Range(stream[s].history)
            <7>1. stream[s].history # <<>> BY <5>2 DEF LastOf
            <7>2. from = stream[s].history[Len(stream[s].history)] BY <7>1 DEF LastOf
            <7>3. Len(stream[s].history) \in DOMAIN stream[s].history
              BY <1>3, <7>1, LenProperties, EmptySeq
            <7> QED BY <7>2, <7>3 DEF Range
          <6>2. from.id < e.id BY <4>3, <6>1
          <6>3. Position(bus, from) \in DOMAIN bus /\ bus[Position(bus, from)].id = from.id
            BY <4>2, <4>4, <4>6, <5>2
          <6>4. Position(bus, from) # i BY <4>5, <6>2, <6>3, <2>1, BoundsAssumption DEF Event
          <6>5. ~(i < Position(bus, from))
            <7> SUFFICES ASSUME i < Position(bus, from) PROVE FALSE
              OBVIOUS
            <7>1. bus[i].id < bus[Position(bus, from)].id
              BY <4>5, <6>3 DEF LInv, BusOK, Ascending
            <7>2. bus[Position(bus, from)] \in Event BY <4>4, <6>3, ElementOfSeq
            <7> QED BY <2>1, <4>5, <6>2, <6>3, <7>1, <7>2, BoundsAssumption DEF Event
          <6> QED BY <4>4, <4>5, <4>6, <6>4, <6>5
        <5> QED BY <5>1, <5>2
      <4>8. i \in (Position(bus, from) + 1)..Len(bus) BY <4>4, <4>5, <4>6, <4>7
      <4>9. e \in Range(listed)
        <5> HIDE DEF from, listed
        <5> QED BY <1>4, <4>2, <4>5, <4>8
      <4> QED BY <2>1, <4>9
    <3> QED BY <2>1, <3>3, <3>4
  <2> HIDE DEF listed, from
  <2> QED BY <1>1, <1>2, <1>6, <1>7, <2>1 DEF StreamOK, QueueOK
<1>13. AuthorsOK(s)' BY <1>2, <1>6, <1>8 DEF StreamOK, AuthorsOK
<1>14. CaughtUpOK(s)'
  <2>1. LastOf(stream[s].history)' = from BY <1>6 DEF LastOf
  <2>2. (bus' = bus) /\ Position(bus, from)' = Position(bus, from) BY <1>1, <2>1 DEF Position
  <2> HIDE DEF listed, from
  <2> QED BY <1>1, <1>4, <1>6, <2>1, <2>2 DEF CaughtUpOK
<1>15. StreamOK(s)' BY <1>9, <1>10, <1>11, <1>12, <1>13, <1>14 DEF StreamOK
<1>16. received' = received \cup now.seen /\ now.seen \subseteq Range(bus) \cup Range(rows)
  BY <1>1, <1>2, <1>6 DEF StreamOK, WrittenOK
<1>17. subscribers' = subscribers \cup {s} BY <1>1, <1>7
<1> HIDE DEF listed
<1> QED BY <1>1, <1>6, <1>15, <1>16, <1>17, OneStream

(* One of the loops deals with event e of the bus, which it takes off its list or   *)
(* its queue.                                                                 *)
LEMMA TakenStep ==
  ASSUME LInv, NEW s \in Streams, stream[s].at \in {"each", "wait"},
         NEW e \in Range(bus), NEW base \in StreamRecs,
         base.at \in {"loop", "each"}, base.at = "each" <=> base.listed # <<>>,
         base.history = stream[s].history, base.seen = stream[s].seen,
         base.written = stream[s].written,
         Becomes(s, Taken(base, e)),
         UNCHANGED <<bus, rows, issued, publisher, closed, restarts>>,
         base.listed # <<>> => stream[s].at = "each",
         Range(base.listed) \subseteq Range(stream[s].listed), Ascending(base.listed),
         Range(stream[s].listed) \subseteq Range(base.listed) \cup {e},
         Range(base.queue) \subseteq Range(stream[s].queue), InOrder(base.queue),
         Range(stream[s].queue) \subseteq Range(base.queue) \cup {e},
         \/ e \in stream[s].seen \cup Earlier(s)
         \/ \A w \in stream[s].seen : w.by = e.by => w.id < e.id,
         \A f \in Range(base.listed) : e.id < f.id,
         \A f \in Event :
           \/ f \in Range(base.queue)
           \/ \E p \in Publishers : s \in publisher[p].to /\ f = publisher[p].event
           => f \in stream[s].seen \cup Range(base.listed) \cup {e} \/ (f.by = e.by => e.id < f.id)
  PROVE  LInv'
<1> USE Granted
<1> DEFINE now == Taken(base, e)
<1>1. StreamOK(s) /\ e \in Event /\ Subscribed(s) BY DEF LInv, Subscribed
<1>2. /\ now \in StreamRecs /\ now.at \in {"loop", "each", "done"}
      /\ now.history = stream[s].history
      /\ now.listed = base.listed /\ now.queue = base.queue
      /\ now.seen = stream[s].seen \cup {e}
      /\ now.at # "done" => now.at = base.at
  <2>1. Append(base.written, e) \in Seq(Event) /\ base.seen \cup {e} \subseteq Event
    BY <1>1, AppendIs DEF StreamRecs
  <2>2. CASE e \in base.seen BY <1>1, <2>2 DEF Taken
  <2>3. CASE e \notin base.seen BY <1>1, <2>1, <2>3 DEF Taken, StreamRecs
  <2> QED BY <2>2, <2>3
<1>3. \/ e \in stream[s].seen /\ now.written = stream[s].written
      \/ e \notin stream[s].seen /\ now.written = Append(stream[s].written, e)
  BY <1>1 DEF Taken, StreamRecs
<1>4. /\ stream' = [stream EXCEPT ![s] = now] /\ stream'[s] = now
      /\ subscribers' = IF now.at = "done" THEN subscribers \ {s} ELSE subscribers
      /\ received' = received \cup now.seen
  BY DEF Becomes, Unsubscribed
<1> HIDE DEF now
<1>5. Earlier(s)' = Earlier(s) BY ZenonT(60), <1>2, <1>4 DEF Earlier
<1>6. \A f \in Event : Due(s, f)' =>
        \/ f \in Range(base.queue)
        \/ \E p \in Publishers : s \in publisher[p].to /\ f = publisher[p].event
  BY <1>2, <1>4 DEF Due
<1>7. \A f \in Event : Due(s, f)' => Due(s, f) BY <1>6 DEF Due
<1>8. HistoryOK(s)' BY <1>1, <1>2, <1>4 DEF StreamOK, HistoryOK, IsPiece
<1>9. stream[s].written \in Seq(Event) /\ Range(stream[s].written) = stream[s].seen
  BY <1>1 DEF StreamRecs, StreamOK, WrittenOK
<1>a. Range(now.written) = now.seen
  <2>1. Range(Append(stream[s].written, e)) = Range(stream[s].written) \cup {e}
    BY <1>1, <1>9, AppendIs
  <2> QED BY <1>2, <1>3, <1>9, <2>1
<1>10. WrittenOK(s)'
  <2>1. Range(now.written) = now.seen BY <1>a
  <2>2. \A i, j \in DOMAIN now.written : now.written[i].id = now.written[j].id => i = j
    <3>1. \A i, j \in DOMAIN stream[s].written :
            stream[s].written[i].id = stream[s].written[j].id => i = j
      BY <1>1 DEF StreamOK, WrittenOK
    <3>2. CASE now.written = stream[s].written BY <3>1, <3>2
    <3>3. CASE e \notin stream[s].seen /\ now.written = Append(stream[s].written, e)
      <4>1. \A i \in DOMAIN stream[s].written :
              stream[s].written[i] \in stream[s].seen
        BY <1>9 DEF Range
      <4>2. stream[s].seen \subseteq Range(bus) \cup Range(rows)
        BY <1>1 DEF StreamOK, WrittenOK
      <4>3. \A i \in DOMAIN stream[s].written : stream[s].written[i].id # e.id
        BY <3>3, <4>1, <4>2 DEF LInv, IdsOK
      <4> QED BY <1>1, <1>9, <3>1, <3>3, <4>3, AppendIs
    <3> QED BY <1>3, <3>2, <3>3
  <2> QED BY <1>1, <1>2, <1>4, <2>1, <2>2 DEF StreamOK, WrittenOK
<1>11. ListedOK(s)'
  <2>1. /\ stream[s].at = "each" =>
            \A f \in Range(stream[s].listed) :
              \/ f \in stream[s].seen \cup Earlier(s)
              \/ \A w \in stream[s].seen : w.by = f.by => w.id < f.id
        /\ Range(stream[s].listed) \subseteq Range(bus)
    BY <1>1 DEF StreamOK, ListedOK
  <2>2. now.at = "each" =>
          \A f \in Range(now.listed) :
            \/ f \in now.seen \cup Earlier(s)
            \/ \A w \in now.seen : w.by = f.by => w.id < f.id
    BY <1>2, <2>1
  <2>3. /\ now.at \in {"idle", "read", "list", "loop", "wait"} => now.listed = <<>>
        /\ now.at = "each" => now.listed # <<>>
        /\ Range(now.listed) \subseteq Range(bus) /\ Ascending(now.listed)
    BY <1>2, <2>1
  <2> QED BY <1>4, <1>5, <2>2, <2>3 DEF ListedOK
<1>12. QueueOK(s)'
  <2>1. QueueOK(s) BY <1>1 DEF StreamOK
  <2>2. Range(now.queue) \subseteq Range(bus) /\ InOrder(now.queue)
    BY <1>2, <2>1 DEF QueueOK
  <2>3. \A p \in Publishers : s \in publisher[p].to =>
          \A f \in Range(now.queue) : f.by = p => f.id < publisher[p].event.id
    BY <1>2, <2>1 DEF QueueOK
  <2>4. ASSUME NEW f \in Event, Due(s, f)'
        PROVE  /\ \A h \in Range(now.history) : h.id < f.id
               /\ \/ f \in now.seen \cup Range(now.listed)
                  \/ \A w \in now.seen \cup Range(now.listed) : w.by = f.by => w.id < f.id
    <3>1. Due(s, f) BY <1>7, <2>4
    <3>2. \A h \in Range(now.history) : h.id < f.id BY <1>1, <1>2, <2>1, <3>1 DEF QueueOK
    <3>3. \/ f \in stream[s].seen \cup Range(stream[s].listed)
          \/ \A w \in stream[s].seen \cup Range(stream[s].listed) : w.by = f.by => w.id < f.id
      BY <1>1, <2>1, <3>1 DEF QueueOK
    <3>4. f \in stream[s].seen \cup Range(base.listed) \cup {e} \/ (f.by = e.by => e.id < f.id)
      BY <1>6, <2>4
    <3> QED BY <1>2, <3>2, <3>3, <3>4
  <2> QED BY <1>4, <2>2, <2>3, <2>4 DEF QueueOK
<1>13. AuthorsOK(s)'
  <2>1. CASE now.written = stream[s].written
    BY SMTT(30), <1>1, <1>4, <1>5, <2>1 DEF StreamOK, AuthorsOK
  <2>2. CASE e \notin stream[s].seen /\ now.written = Append(stream[s].written, e)
    <3>1. /\ DOMAIN stream[s].written = 1..Len(stream[s].written)
          /\ Len(stream[s].written) \in Nat
          /\ DOMAIN now.written = 1..(Len(stream[s].written) + 1)
          /\ \A i \in 1..Len(stream[s].written) :
               now.written[i] = stream[s].written[i] /\ now.written[i] \in stream[s].seen
          /\ now.written[Len(stream[s].written) + 1] = e
      <4>1. Len(stream[s].written) \in Nat BY <1>9, LenProperties
      <4> QED BY <1>1, <1>9, <2>2, <4>1, AppendIs DEF Range
    <3>2. ASSUME NEW i \in DOMAIN now.written, NEW j \in DOMAIN now.written,
                 i < j, now.written[i].by = now.written[j].by, now.written[j] \notin Earlier(s)
          PROVE  now.written[i].id < now.written[j].id
      <4>1. CASE j \in 1..Len(stream[s].written)
        <5>1. i \in 1..Len(stream[s].written) BY <3>1, <3>2, <4>1
        <5> QED BY <1>1, <3>1, <3>2, <4>1, <5>1 DEF StreamOK, AuthorsOK
      <4>2. CASE j = Len(stream[s].written) + 1
        <5>1. i \in 1..Len(stream[s].written) BY <3>1, <3>2, <4>2
        <5> QED BY <2>2, <3>1, <3>2, <4>2, <5>1
      <4> QED BY <3>1, <3>2, <4>1, <4>2
    <3> QED BY <1>4, <1>5, <3>2 DEF AuthorsOK
  <2> QED BY <1>3, <2>1, <2>2
<1>14. CaughtUpOK(s)'
  <2>1. Accounted(s) \cup Range(stream[s].listed)
          \subseteq Accounted(s)' \cup Range(now.listed)
    <3>1. Range(now.written) = stream[s].seen \cup {e} BY <1>2, <1>a
    <3> QED BY <1>2, <1>4, <1>9, <3>1 DEF Accounted
  <2>2. CaughtUpOK(s) BY <1>1 DEF StreamOK
  <2>3. bus' = bus /\ LastOf(stream'[s].history) = LastOf(stream[s].history) BY <1>2, <1>4
  <2> QED BY <1>2, <1>4, <2>1, <2>2, <2>3 DEF CaughtUpOK
<1>15. StreamOK(s)' BY <1>8, <1>10, <1>11, <1>12, <1>13, <1>14 DEF StreamOK
<1>16. now.seen \subseteq Range(bus) \cup Range(rows)
  BY <1>1, <1>2 DEF StreamOK, WrittenOK
<1>17. subscribers' = IF now.at \in {"list", "each", "loop", "wait"}
                        THEN subscribers \cup {s} ELSE subscribers \ {s}
  BY <1>2, <1>4 DEF Subscribed
<1> QED BY <1>2, <1>4, <1>15, <1>16, <1>17, OneStream

(* A round of the second loop.                                                 *)
LEMMA EachStep ==
  ASSUME LInv, NEW s \in Streams, Each(s)
  PROVE  LInv'
<1> USE Granted
<1> DEFINE e    == Head(stream[s].listed)
           rest == Tail(stream[s].listed)
           base == [stream[s] EXCEPT !.at = IF rest = <<>> THEN "loop" ELSE "each",
                                     !.listed = rest]
<1>1. stream[s].at = "each" /\ Becomes(s, Taken(base, e))
      /\ UNCHANGED <<bus, rows, issued, publisher, closed, restarts>>
  BY DEF Each
<1>2. StreamOK(s) BY DEF LInv
<1>3. /\ stream[s].listed \in Seq(Event) /\ stream[s].listed # <<>>
      /\ Range(stream[s].listed) \subseteq Range(bus) /\ Ascending(stream[s].listed)
  BY <1>1, <1>2 DEF StreamRecs, StreamOK, ListedOK
<1>4. /\ e \in Range(stream[s].listed) /\ e \in Range(bus) /\ rest \in Seq(Event)
      /\ Range(stream[s].listed) = Range(rest) \cup {e}
      /\ Ascending(rest) /\ \A f \in Range(rest) : e.id < f.id
  BY <1>3, TailIs
<1> HIDE DEF e, rest
<1>5. /\ base \in StreamRecs /\ base.at \in {"loop", "each"} /\ (base.at = "each" <=> rest # <<>>)
      /\ base.history = stream[s].history /\ base.seen = stream[s].seen
      /\ base.written = stream[s].written /\ base.listed = rest /\ base.queue = stream[s].queue
  BY <1>4 DEF StreamRecs
<1> HIDE DEF base
<1>6. \/ e \in stream[s].seen \cup Earlier(s)
      \/ \A w \in stream[s].seen : w.by = e.by => w.id < e.id
  BY <1>1, <1>2, <1>4 DEF StreamOK, ListedOK
<1>7. InOrder(base.queue) BY <1>2, <1>5 DEF StreamOK, QueueOK
<1>8. ASSUME NEW f \in Event,
             \/ f \in Range(base.queue)
             \/ \E p \in Publishers : s \in publisher[p].to /\ f = publisher[p].event
      PROVE  f \in stream[s].seen \cup Range(base.listed) \cup {e} \/ (f.by = e.by => e.id < f.id)
  <2>1. Due(s, f) /\ Subscribed(s) BY <1>1, <1>5, <1>8 DEF Due, Subscribed
  <2> QED BY <1>2, <1>4, <1>5, <2>1 DEF StreamOK, QueueOK
<1> QED BY <1>1, <1>4, <1>5, <1>6, <1>7, <1>8, TakenStep

(* subscription.get returns an event.                                          *)
LEMMA GetStep ==
  ASSUME LInv, NEW s \in Streams, Get(s)
  PROVE  LInv'
<1> USE Granted
<1> DEFINE e    == Head(stream[s].queue)
           rest == Tail(stream[s].queue)
           base == [stream[s] EXCEPT !.at = "loop", !.queue = rest]
<1>1. /\ stream[s].at = "wait" /\ stream[s].queue # <<>> /\ Becomes(s, Taken(base, e))
      /\ UNCHANGED <<bus, rows, issued, publisher, closed, restarts>>
  <2>1. [stream[s] EXCEPT !.at = "loop", !.queue = Tail(@)] = base BY DEF StreamRecs
  <2> HIDE DEF base
  <2> QED BY <2>1 DEF Get
<1>2. StreamOK(s) /\ Subscribed(s) BY <1>1 DEF LInv, Subscribed
<1>3. /\ stream[s].queue \in Seq(Event) /\ Range(stream[s].queue) \subseteq Range(bus)
      /\ InOrder(stream[s].queue) /\ stream[s].listed = <<>>
  BY <1>1, <1>2 DEF StreamRecs, StreamOK, ListedOK, QueueOK
<1>4. /\ e \in Range(stream[s].queue) /\ e \in Range(bus) /\ e \in Event /\ rest \in Seq(Event)
      /\ Range(stream[s].queue) = Range(rest) \cup {e}
      /\ InOrder(rest) /\ \A f \in Range(rest) : f.by = e.by => e.id < f.id
  BY <1>1, <1>3, TailIs
<1>5. Range(stream[s].listed) = {} /\ Ascending(<<>>) BY <1>3 DEF Range, Ascending
<1> HIDE DEF e, rest
<1>6. /\ base \in StreamRecs /\ base.at = "loop"
      /\ base.history = stream[s].history /\ base.seen = stream[s].seen
      /\ base.written = stream[s].written /\ base.listed = <<>> /\ base.queue = rest
  BY <1>3, <1>4 DEF StreamRecs
<1> HIDE DEF base
<1>7. \/ e \in stream[s].seen \cup Earlier(s)
      \/ \A w \in stream[s].seen : w.by = e.by => w.id < e.id
  <2>1. Due(s, e) BY <1>4 DEF Due
  <2> QED BY <1>2, <1>4, <1>5, <2>1 DEF StreamOK, QueueOK
<1>8. ASSUME NEW f \in Event,
             \/ f \in Range(base.queue)
             \/ \E p \in Publishers : s \in publisher[p].to /\ f = publisher[p].event
      PROVE  f \in stream[s].seen \cup Range(base.listed) \cup {e} \/ (f.by = e.by => e.id < f.id)
  <2>1. CASE f \in Range(base.queue) BY <1>4, <1>6, <2>1
  <2>2. ASSUME NEW p \in Publishers, s \in publisher[p].to, f = publisher[p].event
        PROVE  f.by = e.by => e.id < f.id
    <3>1. f.by = p BY <2>2 DEF LInv, SubscribersOK, HandOK
    <3> QED BY <1>2, <1>4, <2>2, <3>1 DEF StreamOK, QueueOK
  <2> QED BY <1>8, <2>1, <2>2
<1>9. Range(base.listed) = {} /\ Ascending(base.listed) /\ base.listed = <<>>
  BY <1>3, <1>5, <1>6
<1>10. /\ Range(base.queue) \subseteq Range(stream[s].queue) /\ InOrder(base.queue)
       /\ Range(stream[s].queue) \subseteq Range(base.queue) \cup {e}
  BY <1>4, <1>6
<1>11. e \in Range(bus) /\ base.at # "each" /\ base.at \in {"loop", "each"} BY <1>4, <1>6
<1> QED BY <1>1, <1>5, <1>6, <1>7, <1>8, <1>9, <1>10, <1>11, TakenStep

(* The stream goes round, gives up waiting or ends.                             *)
LEMMA RoundStep ==
  ASSUME LInv, NEW s \in Streams, Loop(s) \/ TimeOut(s)
  PROVE  LInv'
<1> USE Granted
<1>1. PICK place \in {"loop", "wait", "done"} :
        /\ stream[s].at \in {"loop", "wait"} /\ stream' = [stream EXCEPT ![s].at = place]
        /\ subscribers' = IF place = "done" THEN subscribers \ {s} ELSE subscribers
        /\ received' = received \/ received' = received \cup stream[s].seen
        /\ UNCHANGED <<bus, rows, issued, publisher, closed, restarts>>
  <2>1. CASE Loop(s) /\ closed BY <2>1 DEF Loop, Becomes, Unsubscribed, StreamRecs
  <2>2. CASE Loop(s) /\ ~closed BY <2>2 DEF Loop, Becomes, Unsubscribed, StreamRecs
  <2>3. CASE TimeOut(s) BY <2>3 DEF TimeOut
  <2> QED BY <2>1, <2>2, <2>3
<1> DEFINE now == [stream[s] EXCEPT !.at = place]
<1>2. stream' = [stream EXCEPT ![s] = now] BY <1>1
<1>3. /\ now \in StreamRecs /\ now.at = place /\ now.history = stream[s].history
      /\ now.written = stream[s].written /\ now.seen = stream[s].seen
      /\ now.listed = stream[s].listed /\ now.queue = stream[s].queue
      /\ stream'[s] = now
  BY <1>1, <1>2 DEF StreamRecs
<1> HIDE DEF now
<1>4. StreamOK(s) BY DEF LInv
<1>5. Subscribed(s) /\ Earlier(s)' = Earlier(s) BY <1>1, <1>3 DEF Subscribed, Earlier
<1>6. HistoryOK(s)' BY <1>1, <1>3, <1>4 DEF StreamOK, HistoryOK, IsPiece
<1>7. stream[s].seen \subseteq received BY <1>4 DEF StreamOK, WrittenOK
<1>8. WrittenOK(s)' BY <1>1, <1>3, <1>4, <1>7 DEF StreamOK, WrittenOK
<1>9. ListedOK(s)' BY <1>1, <1>3, <1>4 DEF StreamOK, ListedOK
<1>10. QueueOK(s)' BY <1>1, <1>3, <1>4, <1>5 DEF StreamOK, QueueOK, Due
<1>11. AuthorsOK(s)' BY <1>3, <1>4, <1>5 DEF StreamOK, AuthorsOK
<1>12. CaughtUpOK(s)'
  <2>1. Accounted(s)' = Accounted(s) BY <1>1, <1>3 DEF Accounted
  <2> QED BY <1>1, <1>3, <1>4, <2>1 DEF StreamOK, CaughtUpOK
<1>13. StreamOK(s)' BY <1>6, <1>8, <1>9, <1>10, <1>11, <1>12 DEF StreamOK
<1>14. received' = received \cup now.seen /\ now.seen \subseteq Range(bus) \cup Range(rows)
  BY <1>1, <1>3, <1>4, <1>7 DEF StreamOK, WrittenOK
<1>15. subscribers' = IF now.at \in {"list", "each", "loop", "wait"}
                        THEN subscribers \cup {s} ELSE subscribers \ {s}
  BY <1>1, <1>3, <1>5
<1> QED BY <1>1, <1>2, <1>3, <1>13, <1>14, <1>15, OneStream

-----------------------------------------------------------------------------
(*****************************************************************************)
(* The steps of the publishers.                                              *)
(*****************************************************************************)
(* What publishers and requests can rely on, of ids.                            *)
LEMMA KnownIds ==
  ASSUME LInv
  PROVE  /\ bus \in Seq(Event) /\ rows \in Seq(Event) /\ issued \in Nat /\ issued <= MaxEvents
         /\ DOMAIN bus = 1..Len(bus) /\ Len(bus) \in Nat
         /\ DOMAIN rows = 1..Len(rows) /\ Len(rows) \in Nat
         /\ \A i \in DOMAIN bus : bus[i] \in Event /\ bus[i] \in Range(bus) /\ bus[i].id <= issued
         /\ \A i \in DOMAIN rows : rows[i] \in Event /\ rows[i] \in Range(rows) /\ rows[i].id <= issued
         /\ \A e \in Event : e.id \in Nat \ {0}
<1>1. bus \in Seq(Event) /\ rows \in Seq(Event) /\ issued \in Nat /\ issued <= MaxEvents
  BY BoundsAssumption DEF LInv, TypeOK
<1>2. /\ DOMAIN bus = 1..Len(bus) /\ Len(bus) \in Nat
      /\ DOMAIN rows = 1..Len(rows) /\ Len(rows) \in Nat
  BY <1>1, LenProperties
<1>3. /\ \A i \in DOMAIN bus : bus[i] \in Event /\ bus[i] \in Range(bus)
      /\ \A i \in DOMAIN rows : rows[i] \in Event /\ rows[i] \in Range(rows)
  BY <1>1, <1>2, ElementOfSeq DEF Range
<1>4. \A e \in Event : e.id \in Nat \ {0} BY BoundsAssumption DEF Event
<1> QED BY <1>1, <1>2, <1>3, <1>4 DEF LInv, IdsOK

(* The new event is later than every other one, and every subscriber of the run    *)
(* is going to be handed it.                                                   *)
LEMMA PublishStep ==
  ASSUME LInv, NEW p \in Publishers, NEW final \in BOOLEAN, Publish(p, final)
  PROVE  LInv'
<1> DEFINE e == [id |-> issued + 1, by |-> p, final |-> final]
<1>0. /\ publisher \in [Publishers -> [at : {"idle", "put"}, event : Event \cup {None},
                                       to : SUBSET Streams]]
      /\ subscribers \in SUBSET Streams
  BY DEF LInv, TypeOK
<1>1. /\ publisher[p].at = "idle" /\ issued < MaxEvents /\ issued' = issued + 1
      /\ bus' = Append(bus, e)
      /\ publisher' = [publisher EXCEPT ![p] = [at |-> "put", event |-> e, to |-> subscribers]]
      /\ UNCHANGED <<rows, subscribers, stream, closed, received, restarts>>
  BY DEF Publish
<1>2. /\ e \in Event /\ e.id = issued + 1 /\ e.by = p
  BY <1>1, KnownIds, BoundsAssumption DEF Event
<1> HIDE DEF e
<1>3. /\ publisher'[p] = [at |-> "put", event |-> e, to |-> subscribers]
      /\ \A q \in Publishers \ {p} : publisher'[q] = publisher[q]
  BY <1>0, <1>1
<1>4. publisher[p].to = {} BY <1>1 DEF LInv, SubscribersOK, Holds
<1>5. /\ bus' \in Seq(Event) /\ Len(bus') = Len(bus) + 1 /\ Range(bus') = Range(bus) \cup {e}
      /\ DOMAIN bus' = 1..(Len(bus) + 1) /\ DOMAIN bus = 1..Len(bus)
      /\ \A i \in 1..Len(bus) : bus'[i] = bus[i]
      /\ bus'[Len(bus) + 1] = e
  BY <1>1, <1>2, KnownIds, AppendIs
<1>6. \A f \in Range(bus) \cup Range(rows) \cup received : f.id <= issued
  BY DEF LInv, IdsOK
<1>7. /\ Range(bus) \cup Range(rows) \cup received \subseteq Event
      /\ \A f \in Range(bus) \cup Range(rows) \cup received : f.id < e.id /\ f # e
  <2>1. Range(bus) \cup Range(rows) \cup received \subseteq Event
    BY RangeOfSeq DEF LInv, TypeOK
  <2> QED BY <1>2, <1>6, <2>1, KnownIds
<1>8. TypeOK'
  <2>1. publisher' \in [Publishers -> [at : {"idle", "put"}, event : Event \cup {None},
                                       to : SUBSET Streams]]
    BY <1>0, <1>1, <1>2
  <2>2. issued' \in 0..MaxEvents BY <1>1, KnownIds, BoundsAssumption
  <2> QED BY <1>1, <1>5, <2>1, <2>2 DEF LInv, TypeOK
<1>9. IdsOK'
  <2>1. \A f \in Range(bus') \cup Range(rows) \cup received : f.id <= issued'
    BY <1>1, <1>2, <1>5, <1>6, <1>7, KnownIds
  <2>2. \A f, g \in Range(bus') \cup Range(rows) : f.id = g.id => f = g
    BY <1>2, <1>5, <1>7, KnownIds DEF LInv, IdsOK
  <2> QED BY <1>1, <2>1, <2>2 DEF IdsOK
<1>10. BusOK'
  <2>1. \A i \in 1..Len(bus) : bus[i].id < e.id BY <1>7, KnownIds
  <2>2. Ascending(bus')
    BY <1>5, <2>1, KnownIds DEF LInv, BusOK, Ascending
  <2> QED BY <2>2 DEF BusOK
<1>11. RowsOK' BY <1>1 DEF LInv, RowsOK
<1>12. StoredOK'
  <2>1. Holds(p)' /\ publisher'[p].event = e BY <1>3 DEF Holds
  <2>2. \A q \in Publishers : Holds(q) => Holds(q)' /\ publisher'[q].event = publisher[q].event
    BY <1>1, <1>3 DEF Holds
  <2> QED BY <1>1, <1>5, <2>1, <2>2 DEF LInv, StoredOK
<1>13. SubscribersOK'
  <2>1. \A s \in Streams : stream[s].at \in {"idle", "read"} => s \notin subscribers
    BY DEF LInv, SubscribersOK, Subscribed
  <2> QED BY <1>1, <1>3, <2>1 DEF LInv, SubscribersOK, Subscribed, Holds
<1>14. ASSUME NEW q \in Publishers PROVE HandOK(q)'
  <2>1. CASE q = p
    <3>1. \A f \in Range(bus') \cup Range(rows') : f.id <= e.id
      BY <1>1, <1>2, <1>5, <1>7, KnownIds
    <3> QED BY <1>1, <1>2, <1>3, <1>5, <1>7, <2>1, <3>1 DEF HandOK
  <2>2. CASE q # p
    <3>1. HandOK(q) /\ publisher'[q] = publisher[q] BY <1>3, <2>2 DEF LInv
    <3> QED BY <1>1, <1>2, <1>5, <2>2, <3>1 DEF HandOK, Holds
  <2> QED BY <2>1, <2>2
<1>15. ASSUME NEW s \in Streams PROVE StreamOK(s)'
  <2>1. StreamOK(s) /\ (Subscribed(s) <=> s \in subscribers)
    BY DEF LInv, SubscribersOK
  <2>2. Earlier(s)' = Earlier(s) BY <1>1 DEF Earlier
  <2>3. HistoryOK(s)' BY <1>1, <2>1 DEF StreamOK, HistoryOK, IsPiece
  <2>4. WrittenOK(s)' BY <1>1, <1>5, <2>1 DEF StreamOK, WrittenOK
  <2>5. ListedOK(s)' BY <1>1, <1>5, <2>1, <2>2 DEF StreamOK, ListedOK
  <2>6. \A f \in Event : Due(s, f)' => Due(s, f) \/ f = e BY <1>1, <1>3 DEF Due
  <2>7. /\ Range(stream[s].history) \cup Range(stream[s].queue)
             \subseteq Range(bus) \cup Range(rows)
        /\ stream[s].seen \cup Range(stream[s].listed) \subseteq Range(bus) \cup Range(rows)
    BY <2>1 DEF StreamOK, WrittenOK, QueueOK, ListedOK
  <2>8. QueueOK(s)'
    <3>1. \A q \in Publishers : s \in publisher'[q].to =>
            \A f \in Range(stream[s].queue) : f.by = q => f.id < publisher'[q].event.id
      BY <1>3, <1>7, <2>1, <2>7 DEF StreamOK, QueueOK
    <3>2. \A f \in Event : Subscribed(s) /\ (Due(s, f) \/ f = e) =>
            /\ \A h \in Range(stream[s].history) : h.id < f.id
            /\ \/ f \in stream[s].seen \cup Range(stream[s].listed)
               \/ \A w \in stream[s].seen \cup Range(stream[s].listed) : w.by = f.by => w.id < f.id
      BY <1>7, <2>1, <2>7 DEF StreamOK, QueueOK
    <3>3. (Subscribed(s)' <=> Subscribed(s)) BY <1>1 DEF Subscribed
    <3>4. Range(stream[s].queue) \subseteq Range(bus') /\ InOrder(stream[s].queue)
      BY <1>5, <2>1 DEF StreamOK, QueueOK
    <3> QED BY <1>1, <2>6, <3>1, <3>2, <3>3, <3>4 DEF QueueOK
  <2>9. AuthorsOK(s)' BY <1>1, <2>1, <2>2 DEF StreamOK, AuthorsOK
  <2>10. CaughtUpOK(s)'
    <3> DEFINE from == LastOf(stream[s].history)
    <3>1. from.id # e.id
      <4>1. CASE stream[s].history = <<>>
        BY <1>2, <4>1, KnownIds DEF LastOf, None
      <4>2. CASE stream[s].history # <<>>
        <5>1. stream[s].history \in Seq(Event) BY DEF LInv, TypeOK
        <5>2. Len(stream[s].history) \in DOMAIN stream[s].history
          BY <4>2, <5>1, LenProperties, EmptySeq
        <5>3. from \in Range(stream[s].history) BY <4>2, <5>2 DEF LastOf, Range
        <5> QED BY <1>2, <1>7, <2>7, <5>3, KnownIds
      <4> QED BY <4>1, <4>2
    <3> HIDE DEF from
    <3>2. Position(bus', from) = Position(bus, from)
      <4>1. \A i, j \in DOMAIN bus : bus[i].id = bus[j].id => i = j
        BY KnownIds DEF LInv, BusOK, Ascending
      <4>2. \A i \in DOMAIN bus : bus[i].id # e.id BY <1>2, KnownIds
      <4> QED BY <1>1, <1>2, <3>1, <4>1, <4>2, KnownIds, PositionAppend
    <3>3. Accounted(s) \subseteq Accounted(s)'
      BY <1>1, <1>3, <1>4 DEF Accounted
    <3>4. Subscribed(s) => e \in Accounted(s)' BY <1>1, <1>3, <2>1 DEF Accounted
    <3>5. CaughtUpOK(s) BY <2>1 DEF StreamOK
    <3>6. Position(bus, from) \in Nat BY KnownIds, PositionRange
    <3>7. ASSUME stream[s].at \in {"each", "loop", "wait"},
                 from = None \/ Position(bus, from) > 0,
                 NEW i \in (Position(bus, from) + 1)..Len(bus')
          PROVE  bus'[i] \in Accounted(s)' \cup Range(stream[s].listed)
      <4>1. Subscribed(s) BY <3>7 DEF Subscribed
      <4>2. CASE i = Len(bus) + 1 BY <1>5, <3>4, <4>1, <4>2
      <4>3. CASE i \in (Position(bus, from) + 1)..Len(bus)
        <5>1. i \in 1..Len(bus) BY <3>6, <4>3, KnownIds
        <5>2. bus[i] \in Accounted(s) \cup Range(stream[s].listed)
          BY <3>5, <3>7, <4>3 DEF CaughtUpOK, from
        <5> QED BY <1>5, <3>3, <5>1, <5>2
      <4> QED BY <1>5, <3>6, <3>7, <4>2, <4>3, KnownIds
    <3> QED BY <1>1, <3>2, <3>7 DEF CaughtUpOK, from
  <2> QED BY <2>3, <2>4, <2>5, <2>8, <2>9, <2>10 DEF StreamOK
<1> QED BY <1>8, <1>9, <1>10, <1>11, <1>12, <1>13, <1>14, <1>15 DEF LInv

(* An event goes into a queue.                                                 *)
LEMMA PutStep ==
  ASSUME LInv, NEW p \in Publishers, Put(p)
  PROVE  LInv'
<1>0. /\ publisher \in [Publishers -> [at : {"idle", "put"}, event : Event \cup {None},
                                       to : SUBSET Streams]]
      /\ stream \in [Streams -> StreamRecs]
  BY DEF LInv, TypeOK, StreamRecs
<1> DEFINE e == publisher[p].event
<1>1. PICK s \in Streams :
        /\ s \in publisher[p].to
        /\ publisher' = [publisher EXCEPT ![p].to = @ \ {s}]
        /\ stream' = [stream EXCEPT ![s].queue = Append(@, e)]
        /\ UNCHANGED <<bus, rows, issued, subscribers, closed, received, restarts>>
  BY <1>0 DEF Put
<1>2. Holds(p) /\ e \in Range(bus) /\ e.by = p /\ e \in Event
  <2>1. Holds(p) BY <1>1 DEF LInv, SubscribersOK
  <2>2. Range(bus) \subseteq Event BY RangeOfSeq DEF LInv, TypeOK
  <2> QED BY <2>1, <2>2 DEF LInv, HandOK
<1>3. /\ publisher' \in [Publishers -> [at : {"idle", "put"}, event : Event \cup {None},
                                        to : SUBSET Streams]]
      /\ publisher'[p].to = publisher[p].to \ {s}
      /\ \A q \in Publishers \ {p} : publisher'[q] = publisher[q]
      /\ \A q \in Publishers :
           /\ publisher'[q].at = publisher[q].at /\ publisher'[q].event = publisher[q].event
           /\ publisher'[q].to \subseteq publisher[q].to
           /\ \A t \in publisher[q].to : t \in publisher'[q].to \/ (t = s /\ q = p)
  BY <1>0, <1>1
<1>4. /\ stream[s].queue \in Seq(Event) /\ stream'[s].queue = Append(stream[s].queue, e)
      /\ \A t \in Streams \ {s} : stream'[t] = stream[t]
      /\ \A t \in Streams :
           /\ stream'[t].at = stream[t].at /\ stream'[t].history = stream[t].history
           /\ stream'[t].listed = stream[t].listed /\ stream'[t].seen = stream[t].seen
           /\ stream'[t].written = stream[t].written
  BY <1>0, <1>1 DEF StreamRecs
<1> HIDE DEF e
<1>5. /\ stream'[s].queue \in Seq(Event) /\ Len(stream'[s].queue) = Len(stream[s].queue) + 1
      /\ Range(stream'[s].queue) = Range(stream[s].queue) \cup {e}
      /\ DOMAIN stream[s].queue = 1..Len(stream[s].queue)
      /\ DOMAIN stream'[s].queue = 1..(Len(stream[s].queue) + 1)
      /\ \A i \in 1..Len(stream[s].queue) : stream'[s].queue[i] = stream[s].queue[i]
      /\ stream'[s].queue[Len(stream[s].queue) + 1] = e
      /\ Len(stream[s].queue) \in Nat
  BY <1>2, <1>4, AppendIs, LenProperties
<1>6. TypeOK'
  <2>1. stream' \in [Streams -> StreamRecs] BY ZenonT(60), <1>0, <1>1, <1>4, <1>5 DEF StreamRecs
  <2> QED BY <1>1, <1>3, <2>1 DEF LInv, TypeOK, StreamRecs
<1>7. IdsOK' /\ BusOK' /\ RowsOK' BY <1>1 DEF LInv, IdsOK, BusOK, RowsOK
<1>8. StoredOK' BY <1>1, <1>3 DEF LInv, StoredOK, Holds
<1>9. \A q \in Publishers : HandOK(q)' BY <1>1, <1>3 DEF LInv, HandOK, Holds
<1>10. SubscribersOK'
  <2>1. stream[s].at \notin {"idle", "read"} BY <1>1 DEF LInv, SubscribersOK
  <2>2. \A t \in Streams : Subscribed(t)' <=> t \in subscribers'
    BY <1>1, <1>4 DEF LInv, SubscribersOK, Subscribed
  <2>3. \A q \in Publishers : publisher'[q].to # {} => Holds(q)'
    BY <1>3 DEF LInv, SubscribersOK, Holds
  <2>4. \A t \in Streams : stream'[t].at \in {"idle", "read"} =>
          stream'[t].queue = <<>> /\ \A q \in Publishers : t \notin publisher'[q].to
    <3> SUFFICES ASSUME NEW t \in Streams, stream'[t].at \in {"idle", "read"}
                 PROVE  stream'[t].queue = <<>> /\ \A q \in Publishers : t \notin publisher'[q].to
      OBVIOUS
    <3>1. t # s /\ stream[t].at \in {"idle", "read"} BY <1>4, <2>1
    <3>2. stream[t].queue = <<>> /\ \A q \in Publishers : t \notin publisher[q].to
      BY <3>1 DEF LInv, SubscribersOK
    <3> QED BY <1>3, <1>4, <3>1, <3>2
  <2> QED BY <2>2, <2>3, <2>4 DEF SubscribersOK
<1>11. ASSUME NEW t \in Streams PROVE StreamOK(t)'
  <2>1. StreamOK(t) BY DEF LInv
  <2>2. Earlier(t)' = Earlier(t) BY ZenonT(60), <1>1, <1>4 DEF Earlier
  <2>3. HistoryOK(t)' BY <1>1, <1>4, <2>1 DEF StreamOK, HistoryOK, IsPiece
  <2>4. WrittenOK(t)' BY <1>1, <1>4, <2>1 DEF StreamOK, WrittenOK
  <2>5. ListedOK(t)' BY <1>1, <1>4, <2>1, <2>2 DEF StreamOK, ListedOK
  <2>6. AuthorsOK(t)' BY <1>4, <2>1, <2>2 DEF StreamOK, AuthorsOK
  <2>7. \A f \in Event : Due(t, f)' => Due(t, f)
    <3>1. t = s => \A f \in Range(stream'[t].queue) : f \in Range(stream[t].queue) \/ f = e
      BY <1>5
    <3>2. t # s => stream'[t].queue = stream[t].queue BY <1>4
    <3> QED BY <1>1, <1>3, <3>1, <3>2 DEF Due, e
  <2>8. QueueOK(t)'
    <3>1. QueueOK(t) BY <2>1 DEF StreamOK
    <3>2. \A f \in Event : Subscribed(t)' /\ Due(t, f)' =>
            /\ \A h \in Range(stream[t].history) : h.id < f.id
            /\ \/ f \in stream[t].seen \cup Range(stream[t].listed)
               \/ \A w \in stream[t].seen \cup Range(stream[t].listed) :
                    w.by = f.by => w.id < f.id
      BY <1>4, <2>7, <3>1 DEF QueueOK, Subscribed
    <3>3. Range(stream'[t].queue) \subseteq Range(bus) BY <1>2, <1>4, <1>5, <3>1 DEF QueueOK
    <3>4. InOrder(stream'[t].queue)
      <4>1. CASE t = s
        <5>1. \A f \in Range(stream[s].queue) : f.by = p => f.id < e.id
          BY <1>1, <3>1, <4>1 DEF QueueOK, e
        <5>2. \A i \in 1..Len(stream[s].queue) :
                stream[s].queue[i].by = p => stream[s].queue[i].id < e.id
          BY <1>5, <5>1 DEF Range
        <5>3. InOrder(stream[s].queue) BY <3>1, <4>1 DEF QueueOK
        <5> SUFFICES ASSUME NEW i \in DOMAIN stream'[s].queue, NEW j \in DOMAIN stream'[s].queue,
                            i < j, stream'[s].queue[i].by = stream'[s].queue[j].by
                     PROVE  stream'[s].queue[i].id < stream'[s].queue[j].id
          BY <4>1 DEF InOrder
        <5>4. i \in 1..Len(stream[s].queue) BY <1>5
        <5>5. CASE j \in 1..Len(stream[s].queue) BY <1>5, <5>3, <5>4, <5>5 DEF InOrder
        <5>6. CASE j = Len(stream[s].queue) + 1 BY <1>2, <1>5, <5>2, <5>4, <5>6
        <5> QED BY SMTT(30), <1>5, <5>5, <5>6
      <4>2. CASE t # s BY <1>4, <3>1, <4>2 DEF QueueOK
      <4> QED BY <4>1, <4>2
    <3>5. ASSUME NEW q \in Publishers, t \in publisher'[q].to,
                 NEW f \in Range(stream'[t].queue), f.by = q
          PROVE  f.id < publisher'[q].event.id
      <4>1. t \in publisher[q].to /\ publisher'[q].event = publisher[q].event
        BY <1>3, <3>5
      <4>2. f \in Range(stream[t].queue)
        <5>1. CASE t = s
          <6>1. q # p BY <1>3, <3>5, <5>1
          <6>2. f # e BY <1>2, <3>5, <6>1
          <6> QED BY <1>5, <3>5, <5>1, <6>2
        <5>2. CASE t # s BY <1>4, <3>5, <5>2
        <5> QED BY <5>1, <5>2
      <4> QED BY <3>1, <3>5, <4>1, <4>2 DEF QueueOK
    <3> QED BY <1>1, <1>4, <3>2, <3>3, <3>4, <3>5 DEF QueueOK
  <2>9. CaughtUpOK(t)'
    <3>1. Accounted(t) \subseteq Accounted(t)'
      <4>1. Range(stream[t].queue) \subseteq Range(stream'[t].queue)
        BY <1>4, <1>5
      <4>2. t = s => e \in Range(stream'[t].queue) BY <1>5
      <4>3. ASSUME NEW q \in Publishers, t \in publisher[q].to
            PROVE  publisher[q].event \in Accounted(t)'
        <5>1. CASE t \in publisher'[q].to BY <1>1, <1>3, <5>1 DEF Accounted
        <5>2. CASE t = s /\ q = p BY <4>2, <5>2 DEF Accounted, e
        <5> QED BY <1>3, <4>3, <5>1, <5>2
      <4> QED BY <1>4, <4>1, <4>3 DEF Accounted
    <3>2. CaughtUpOK(t) BY <2>1 DEF StreamOK
    <3> QED BY <1>1, <1>4, <3>1, <3>2 DEF CaughtUpOK
  <2> QED BY <2>3, <2>4, <2>5, <2>6, <2>8, <2>9 DEF StreamOK
<1> QED BY <1>6, <1>7, <1>8, <1>9, <1>10, <1>11 DEF LInv

(* The event becomes durable, after all earlier ones of its thread.             *)
LEMMA StoreStep ==
  ASSUME LInv, NEW p \in Publishers, Store(p)
  PROVE  LInv'
<1>0. /\ publisher \in [Publishers -> [at : {"idle", "put"}, event : Event \cup {None},
                                       to : SUBSET Streams]]
      /\ stream \in [Streams -> StreamRecs]
  BY DEF LInv, TypeOK, StreamRecs
<1> DEFINE e == publisher[p].event
<1>1. /\ publisher[p].at = "put" /\ publisher[p].to = {} /\ rows' = Append(rows, e)
      /\ publisher' = [publisher EXCEPT ![p] = Resting]
      /\ UNCHANGED <<bus, issued, subscribers, stream, closed, received, restarts>>
  BY DEF Store
<1>2. HandOK(p) /\ Holds(p) BY <1>1 DEF LInv, Holds
<1>3. /\ e \in Range(bus) /\ e.by = p /\ e \in Event /\ e \notin Range(rows)
      /\ \A f \in Range(bus) \cup Range(rows) : f.by = p => f.id <= e.id
      /\ Range(bus) \cup Range(rows) \subseteq Event
  <2>1. Range(bus) \cup Range(rows) \subseteq Event BY RangeOfSeq DEF LInv, TypeOK
  <2> QED BY <1>2, <2>1 DEF HandOK
<1>4. /\ publisher' \in [Publishers -> [at : {"idle", "put"}, event : Event \cup {None},
                                        to : SUBSET Streams]]
      /\ publisher'[p] = Resting /\ \A q \in Publishers \ {p} : publisher'[q] = publisher[q]
  BY <1>0, <1>1 DEF Resting
<1> HIDE DEF e
<1>5. /\ rows' \in Seq(Event) /\ Len(rows') = Len(rows) + 1 /\ Range(rows') = Range(rows) \cup {e}
      /\ DOMAIN rows' = 1..(Len(rows) + 1) /\ DOMAIN rows = 1..Len(rows)
      /\ \A i \in 1..Len(rows) : rows'[i] = rows[i] /\ rows[i] \in Range(rows)
      /\ rows'[Len(rows) + 1] = e
  <2>1. rows \in Seq(Event) /\ \A i \in DOMAIN rows : rows[i] \in Range(rows) BY KnownIds
  <2> QED BY <1>1, <1>3, <2>1, AppendIs
<1>6. TypeOK' BY <1>1, <1>4, <1>5 DEF LInv, TypeOK
<1>7. IdsOK' BY <1>1, <1>3, <1>5 DEF LInv, IdsOK
<1>8. BusOK' BY <1>1 DEF LInv, BusOK
<1>9. \A i \in 1..Len(rows) : rows[i].id # e.id /\ (rows[i].by = e.by => rows[i].id < e.id)
  <2> SUFFICES ASSUME NEW i \in 1..Len(rows)
               PROVE  rows[i].id # e.id /\ (rows[i].by = e.by => rows[i].id < e.id)
    OBVIOUS
  <2>1. rows[i] \in Range(rows) /\ rows[i] # e BY <1>3, <1>5
  <2>2. rows[i].id # e.id BY <1>3, <2>1 DEF LInv, IdsOK
  <2>3. rows[i].id \in Nat /\ e.id \in Nat BY <1>3, <2>1, KnownIds
  <2> QED BY <1>3, <2>1, <2>2, <2>3
<1>10. RowsOK'
  <2>1. InOrder(rows')
    <3> SUFFICES ASSUME NEW i \in DOMAIN rows', NEW j \in DOMAIN rows', i < j,
                        rows'[i].by = rows'[j].by
                 PROVE  rows'[i].id < rows'[j].id
      BY DEF InOrder
    <3>1. i \in 1..Len(rows) BY <1>5, KnownIds
    <3>2. CASE j \in 1..Len(rows)
      BY <1>5, <3>1, <3>2 DEF LInv, RowsOK, InOrder
    <3>3. CASE j = Len(rows) + 1 BY <1>5, <1>9, <3>1, <3>3
    <3> QED BY <1>5, <3>2, <3>3, KnownIds
  <2>2. \A i, j \in DOMAIN rows' : rows'[i].id = rows'[j].id => i = j
    BY <1>5, <1>9, KnownIds DEF LInv, RowsOK
  <2> QED BY <2>1, <2>2 DEF RowsOK
<1>11. StoredOK'
  <2>1. \A q \in Publishers \ {p} :
          Holds(q) => Holds(q)' /\ publisher'[q].event = publisher[q].event
    BY <1>4 DEF Holds
  <2> QED BY <1>1, <1>5, <2>1 DEF LInv, StoredOK, e
<1>12. SubscribersOK' BY <1>1, <1>4 DEF LInv, SubscribersOK, Subscribed, Holds, Resting
<1>13. ASSUME NEW q \in Publishers PROVE HandOK(q)'
  <2>1. CASE q = p BY <1>4, <2>1 DEF HandOK, Holds, Resting
  <2>2. CASE q # p
    <3>1. HandOK(q) /\ publisher'[q] = publisher[q] BY <1>4, <2>2 DEF LInv
    <3> QED BY <1>1, <1>3, <1>5, <2>2, <3>1 DEF HandOK, Holds
  <2> QED BY <2>1, <2>2
<1>14. ASSUME NEW s \in Streams PROVE StreamOK(s)'
  <2>1. StreamOK(s) BY DEF LInv
  <2>2. Earlier(s)' = Earlier(s)
    <3>1. CASE stream[s].history = <<>> BY <1>1, <3>1 DEF Earlier
    <3>2. CASE stream[s].history # <<>>
      <4> DEFINE h == Head(stream[s].history)
      <4>1. stream[s].history \in Seq(Event) BY <1>0 DEF StreamRecs
      <4>2. h = stream[s].history[1] /\ 1 \in DOMAIN stream[s].history
            /\ Len(stream[s].history) \in Nat /\ Len(stream[s].history) >= 1
            /\ DOMAIN stream[s].history = 1..Len(stream[s].history)
        BY <3>2, <4>1, HeadTailProperties, LenProperties, EmptySeq
      <4>3. PICK k \in 0..Len(rows) : IsPiece(stream[s].history, k)
        BY <2>1 DEF StreamOK, HistoryOK
      <4>4. k + 1 \in 1..Len(rows) /\ h = rows[k + 1] BY SMTT(30), <4>2, <4>3, KnownIds DEF IsPiece
      <4>5. h.id # e.id BY <1>9, <4>4
      <4> HIDE DEF h
      <4>6. Position(Append(rows, e), h) = Position(rows, h)
        <5>1. \A i, j \in DOMAIN rows : rows[i].id = rows[j].id => i = j BY DEF LInv, RowsOK
        <5>2. \A i \in DOMAIN rows : rows[i].id # e.id BY <1>5, <1>9
        <5> QED BY <1>3, <4>5, <5>1, <5>2, KnownIds, PositionAppend
      <4>7. Position(rows, h) \in 0..Len(rows) BY KnownIds, PositionRange
      <4>8. \A i \in 1..(Position(rows, h) - 1) : rows'[i] = rows[i]
        BY <1>5, <4>7, KnownIds
      <4>9. Position(rows', h) = Position(rows, h) BY <1>1, <4>6
      <4>10. Earlier(s) = {rows[i] : i \in 1..(Position(rows, h) - 1)}
        BY <3>2 DEF Earlier, h
      <4>11. Earlier(s)' = {rows'[i] : i \in 1..(Position(rows', h) - 1)}
        BY <1>1, <3>2 DEF Earlier, h
      <4> QED BY <4>8, <4>9, <4>10, <4>11
    <3> QED BY <3>1, <3>2
  <2>3. HistoryOK(s)'
    <3>1. PICK k \in 0..Len(rows) : IsPiece(stream[s].history, k)
      BY <2>1 DEF StreamOK, HistoryOK
    <3>2. stream[s].history \in Seq(Event) BY <1>0 DEF StreamRecs
    <3>3. DOMAIN stream[s].history = 1..Len(stream[s].history) /\ Len(stream[s].history) \in Nat
      BY <3>2, LenProperties
    <3>4. k + Len(stream[s].history) <= Len(rows') /\ k \in 0..Len(rows')
      BY <1>5, <3>1, <3>3, KnownIds DEF IsPiece
    <3>5. \A i \in DOMAIN stream[s].history : k + i \in 1..Len(rows)
      BY <3>1, <3>3, KnownIds DEF IsPiece
    <3>6. \A i \in DOMAIN stream[s].history : stream[s].history[i] = rows'[k + i]
      BY <1>5, <3>1, <3>5 DEF IsPiece
    <3> QED BY <1>1, <3>4, <3>6 DEF HistoryOK, IsPiece
  <2>4. WrittenOK(s)' BY <1>1, <1>5, <2>1 DEF StreamOK, WrittenOK
  <2>5. ListedOK(s)' BY <1>1, <2>1, <2>2 DEF StreamOK, ListedOK
  <2>6. \A q \in Publishers :
          /\ publisher'[q].to = publisher[q].to
          /\ s \in publisher[q].to => publisher'[q].event = publisher[q].event
    BY <1>1, <1>4 DEF Resting
  <2>7. \A f \in Event : Due(s, f)' => Due(s, f) BY <1>1, <2>6 DEF Due
  <2>8. QueueOK(s)'
    <3>1. QueueOK(s) /\ (Subscribed(s)' <=> Subscribed(s)) BY <1>1, <2>1 DEF StreamOK, Subscribed
    <3> QED BY <1>1, <2>6, <2>7, <3>1 DEF QueueOK
  <2>9. AuthorsOK(s)' BY <1>1, <2>1, <2>2 DEF StreamOK, AuthorsOK
  <2>10. CaughtUpOK(s)'
    <3>1. Accounted(s)' = Accounted(s) BY <1>1, <2>6 DEF Accounted
    <3> QED BY <1>1, <2>1, <3>1 DEF StreamOK, CaughtUpOK
  <2> QED BY <2>3, <2>4, <2>5, <2>8, <2>9, <2>10 DEF StreamOK
<1> QED BY <1>6, <1>7, <1>8, <1>10, <1>11, <1>12, <1>13, <1>14 DEF LInv

-----------------------------------------------------------------------------
(*****************************************************************************)
(* The end of the input, another process, and the theorems.                    *)
(*****************************************************************************)
(* A request that has not been made.                                          *)
LEMMA NotAskedOK ==
  ASSUME rows \in Seq(Event), NEW s \in Streams, stream[s] = NotAsked,
         \A p \in Publishers : publisher[p].to = {}
  PROVE  StreamOK(s)
<1>1. /\ stream[s].at = "idle" /\ stream[s].history = <<>> /\ stream[s].listed = <<>>
      /\ stream[s].queue = <<>> /\ stream[s].written = <<>> /\ stream[s].seen = {}
  BY DEF NotAsked, Begun, Range
<1>2. 0 \in 0..Len(rows) /\ 0 + Len(<<>>) <= Len(rows) /\ Range(<<>>) = {} /\ DOMAIN <<>> = {}
  BY LenProperties DEF Range
<1>3. HistoryOK(s) BY <1>1, <1>2 DEF HistoryOK, IsPiece
<1>4. WrittenOK(s) BY <1>1, <1>2 DEF WrittenOK
<1>5. ListedOK(s) BY <1>1, <1>2 DEF ListedOK, Ascending
<1>6. QueueOK(s) BY <1>1, <1>2 DEF QueueOK, InOrder, Subscribed
<1>7. AuthorsOK(s) BY <1>1, <1>2 DEF AuthorsOK
<1>8. CaughtUpOK(s) BY <1>1 DEF CaughtUpOK
<1> QED BY <1>3, <1>4, <1>5, <1>6, <1>7, <1>8 DEF StreamOK

(* Another process knows the rows, and ids that no event has had.                *)
LEMMA RestartStep ==
  ASSUME LInv, Restart
  PROVE  LInv'
<1>1. /\ restarts < MaxRestarts /\ restarts' = restarts + 1
      /\ bus' = <<>> /\ subscribers' = {} /\ closed' = FALSE /\ received' = received
      /\ publisher' = [p \in Publishers |-> Resting] /\ stream' = [s \in Streams |-> NotAsked]
  BY DEF Restart
<1>2. Range(bus') = {} /\ bus' \in Seq(Event) BY <1>1 DEF Range
<1>3. ASSUME NEW e \in Event, e = [id |-> issued + 1, by |-> Recovery, final |-> FALSE],
             rows' = Append(rows, e), issued' = issued + 1, issued < MaxEvents
      PROVE  /\ rows' \in Seq(Event) /\ issued' \in 0..MaxEvents
             /\ \A f \in Range(rows') \cup received : f.id <= issued'
             /\ \A f, g \in Range(rows') : f.id = g.id => f = g
             /\ RowsOK'
  <2>1. /\ rows' \in Seq(Event) /\ Len(rows') = Len(rows) + 1 /\ Range(rows') = Range(rows) \cup {e}
        /\ DOMAIN rows' = 1..(Len(rows) + 1) /\ DOMAIN rows = 1..Len(rows)
        /\ \A i \in 1..Len(rows) : rows'[i] = rows[i]
        /\ rows'[Len(rows) + 1] = e
    <3>1. rows \in Seq(Event) BY KnownIds
    <3> QED BY <1>3, <3>1, AppendIs
  <2>2. Range(rows) \cup received \subseteq Event
    BY RangeOfSeq DEF LInv, TypeOK
  <2>3. \A f \in Range(rows) \cup received : f.id < e.id
    <3>1. \A f \in Range(rows) \cup received : f.id <= issued BY DEF LInv, IdsOK
    <3> QED BY <1>3, <2>2, <3>1, KnownIds
  <2>4. \A f \in Range(rows') \cup received : f.id <= issued'
    <3>1. e.id = issued + 1 /\ issued' = issued + 1 /\ issued \in Nat BY <1>3, KnownIds
    <3>2. \A f \in Range(rows) \cup received : f.id <= issued BY DEF LInv, IdsOK
    <3>3. \A f \in Range(rows) \cup received : f.id \in Nat BY <2>2, BoundsAssumption DEF Event
    <3>4. \A f \in Range(rows) \cup received : f.id <= issued'
      BY <3>1, <3>2, <3>3
    <3>5. e.id <= issued' BY <3>1
    <3> QED BY <2>1, <3>4, <3>5
  <2>5. \A f, g \in Range(rows') : f.id = g.id => f = g
    <3>1. \A f, g \in Range(rows) : f.id = g.id => f = g BY DEF LInv, IdsOK
    <3>2. \A f \in Range(rows) : f.id \in Nat /\ e.id \in Nat
      BY <1>3, <2>2, BoundsAssumption DEF Event
    <3>3. \A f \in Range(rows) : f.id # e.id BY <2>3, <3>2
    <3> QED BY <2>1, <3>1, <3>3
  <2>6. \A i \in 1..Len(rows) : rows[i].id < e.id
    BY <2>1, <2>3, KnownIds
  <2>7. InOrder(rows')
    <3> SUFFICES ASSUME NEW i \in DOMAIN rows', NEW j \in DOMAIN rows', i < j,
                        rows'[i].by = rows'[j].by
                 PROVE  rows'[i].id < rows'[j].id
      BY DEF InOrder
    <3>1. i \in 1..Len(rows) BY <2>1, KnownIds
    <3>2. CASE j \in 1..Len(rows) BY <2>1, <3>1, <3>2 DEF LInv, RowsOK, InOrder
    <3>3. CASE j = Len(rows) + 1 BY <2>1, <2>6, <3>1, <3>3
    <3> QED BY <2>1, <3>2, <3>3, KnownIds
  <2>8. \A i, j \in DOMAIN rows' : rows'[i].id = rows'[j].id => i = j
    <3>1. \A i \in 1..Len(rows) : rows[i].id # e.id
      BY <1>3, <2>1, <2>6, KnownIds
    <3> QED BY SMTT(30), <2>1, <3>1, KnownIds DEF LInv, RowsOK
  <2>9. issued' \in 0..MaxEvents BY <1>3, KnownIds, BoundsAssumption
  <2> QED BY <2>1, <2>4, <2>5, <2>7, <2>8, <2>9 DEF RowsOK
<1>4. /\ rows' \in Seq(Event) /\ issued' \in 0..MaxEvents
      /\ \A f \in Range(rows') \cup received : f.id <= issued'
      /\ \A f, g \in Range(rows') : f.id = g.id => f = g
      /\ RowsOK'
  <2>1. CASE UNCHANGED <<rows, issued>> BY <2>1 DEF LInv, TypeOK, IdsOK, RowsOK
  <2>2. CASE /\ issued < MaxEvents /\ issued' = issued + 1
             /\ rows' = Append(rows, [id |-> issued + 1, by |-> Recovery, final |-> FALSE])
    <3>1. [id |-> issued + 1, by |-> Recovery, final |-> FALSE] \in Event
      BY <2>2, KnownIds, BoundsAssumption DEF Event
    <3> QED BY <1>3, <2>2, <3>1
  <2> QED BY <2>1, <2>2 DEF Restart
<1>5. TypeOK'
  <2>1. restarts' \in 0..MaxRestarts BY <1>1, BoundsAssumption DEF LInv, TypeOK
  <2>2. publisher' \in [Publishers -> [at : {"idle", "put"}, event : Event \cup {None},
                                       to : SUBSET Streams]]
    BY <1>1 DEF Resting
  <2>3. <<>> \in Seq(Event) /\ Range(<<>>) = {} BY DEF Range
  <2>4. NotAsked \in StreamRecs BY <2>3 DEF NotAsked, Begun, StreamRecs
  <2>5. stream' \in [Streams -> StreamRecs] BY <1>1, <2>4
  <2> QED BY <1>1, <1>2, <1>4, <2>1, <2>2, <2>5 DEF LInv, TypeOK, StreamRecs
<1>6. IdsOK' BY <1>1, <1>2, <1>4 DEF IdsOK
<1>7. BusOK' BY <1>1 DEF BusOK, Ascending
<1>8. StoredOK' BY <1>2 DEF StoredOK
<1>9. \A p \in Publishers : publisher'[p].to = {} /\ publisher'[p].at = "idle"
  BY <1>1 DEF Resting
<1>10. SubscribersOK' BY <1>1, <1>9 DEF SubscribersOK, Subscribed, NotAsked, Begun
<1>11. \A p \in Publishers : HandOK(p)' BY <1>9 DEF HandOK, Holds
<1>12. \A s \in Streams : StreamOK(s)'
  <2> SUFFICES ASSUME NEW s \in Streams PROVE StreamOK(s)'
    OBVIOUS
  <2>1. stream'[s] = NotAsked BY <1>1
  <2>2. /\ stream'[s].at = "idle" /\ stream'[s].history = <<>> /\ stream'[s].listed = <<>>
        /\ stream'[s].queue = <<>> /\ stream'[s].written = <<>> /\ stream'[s].seen = {}
    BY <2>1 DEF NotAsked, Begun, Range
  <2>3. 0 \in 0..Len(rows') /\ 0 + Len(<<>>) <= Len(rows') /\ Range(<<>>) = {} /\ DOMAIN <<>> = {}
    BY <1>4, LenProperties DEF Range
  <2>4. HistoryOK(s)' BY <2>2, <2>3 DEF HistoryOK, IsPiece
  <2>5. WrittenOK(s)' BY <2>2, <2>3 DEF WrittenOK
  <2>6. ListedOK(s)' BY <2>2, <2>3 DEF ListedOK, Ascending
  <2>7. QueueOK(s)' BY <1>9, <2>2, <2>3 DEF QueueOK, InOrder, Subscribed
  <2>8. AuthorsOK(s)' BY <2>2, <2>3 DEF AuthorsOK
  <2>9. CaughtUpOK(s)' BY <2>2 DEF CaughtUpOK
  <2> QED BY <2>4, <2>5, <2>6, <2>7, <2>8, <2>9 DEF StreamOK
<1> QED BY <1>4, <1>5, <1>6, <1>7, <1>8, <1>10, <1>11, <1>12 DEF LInv

(* Only the variables matter that the invariant is about.                       *)
LEMMA LStutter ==
  ASSUME LInv, UNCHANGED <<bus, rows, issued, publisher, subscribers, stream, received, restarts>>,
         closed' \in BOOLEAN
  PROVE  LInv'
<1>1. TypeOK' BY DEF LInv, TypeOK
<1>2. IdsOK' /\ BusOK' /\ RowsOK' /\ StoredOK' /\ SubscribersOK' /\ \A p \in Publishers : HandOK(p)'
  BY DEF LInv, IdsOK, BusOK, RowsOK, StoredOK, SubscribersOK, Subscribed, HandOK, Holds
<1>3. ASSUME NEW s \in Streams PROVE StreamOK(s)'
  <2>1. StreamOK(s) BY DEF LInv
  <2>2. Earlier(s)' = Earlier(s) /\ Accounted(s)' = Accounted(s) BY DEF Earlier, Accounted
  <2>3. HistoryOK(s)' /\ WrittenOK(s)' BY <2>1 DEF StreamOK, HistoryOK, IsPiece, WrittenOK
  <2>4. ListedOK(s)' BY <2>1, <2>2 DEF StreamOK, ListedOK
  <2>5. QueueOK(s)' BY <2>1 DEF StreamOK, QueueOK, Due, Subscribed
  <2>6. AuthorsOK(s)' BY <2>1, <2>2 DEF StreamOK, AuthorsOK
  <2>7. CaughtUpOK(s)' BY <2>1, <2>2 DEF StreamOK, CaughtUpOK
  <2> QED BY <2>1, <2>3, <2>4, <2>5, <2>6, <2>7 DEF StreamOK
<1> QED BY <1>1, <1>2, <1>3 DEF LInv

(* The invariant is inductive.                                                 *)
LEMMA InitLInv == Init => LInv
<1> SUFFICES ASSUME Init PROVE LInv
  OBVIOUS
<1>1. /\ bus = <<>> /\ rows = <<>> /\ issued = 0 /\ subscribers = {} /\ received = {}
      /\ publisher = [p \in Publishers |-> Resting] /\ stream = [s \in Streams |-> NotAsked]
      /\ closed = FALSE /\ restarts = 0
  BY DEF Init
<1>2. <<>> \in Seq(Event) /\ Range(<<>>) = {} /\ DOMAIN <<>> = {} BY DEF Range
<1>3. TypeOK
  <2>1. NotAsked \in StreamRecs BY <1>2 DEF NotAsked, Begun, StreamRecs
  <2>2. publisher \in [Publishers -> [at : {"idle", "put"}, event : Event \cup {None},
                                      to : SUBSET Streams]]
    BY <1>1 DEF Resting
  <2>3. stream \in [Streams -> StreamRecs] BY <1>1, <2>1
  <2>4. 0 \in 0..MaxEvents /\ 0 \in 0..MaxRestarts BY BoundsAssumption
  <2>5. bus \in Seq(Event) /\ rows \in Seq(Event) /\ received \in SUBSET Event
        /\ subscribers \in SUBSET Streams /\ closed \in BOOLEAN
    BY <1>1, <1>2
  <2>6. issued \in 0..MaxEvents /\ restarts \in 0..MaxRestarts BY <1>1, <2>4
  <2> QED BY <2>2, <2>3, <2>5, <2>6 DEF TypeOK, StreamRecs
<1>4. \A p \in Publishers : publisher[p].to = {} /\ publisher[p].at = "idle"
  BY <1>1 DEF Resting
<1>5. IdsOK /\ BusOK /\ RowsOK /\ StoredOK
  BY <1>1, <1>2 DEF IdsOK, BusOK, Ascending, RowsOK, InOrder, StoredOK
<1>6. SubscribersOK BY <1>1, <1>4 DEF SubscribersOK, Subscribed, NotAsked, Begun
<1>7. \A p \in Publishers : HandOK(p) BY <1>4 DEF HandOK, Holds
<1>8. \A s \in Streams : StreamOK(s) BY <1>1, <1>2, <1>4, NotAskedOK
<1> QED BY <1>3, <1>5, <1>6, <1>7, <1>8 DEF LInv

(* Every action keeps it.                                                      *)
LEMMA NextLInv == LInv /\ [Next]_vars => LInv'
<1> SUFFICES ASSUME LInv, [Next]_vars PROVE LInv'
  OBVIOUS
<1>1. CASE UNCHANGED vars
  <2>1. closed' \in BOOLEAN BY <1>1 DEF vars, LInv, TypeOK
  <2> QED BY <1>1, <2>1, LStutter DEF vars
<1>2. ASSUME NEW p \in Publishers, PublisherStep(p) PROVE LInv'
  BY <1>2, PutStep, StoreStep, PublishStep DEF PublisherStep
<1>3. ASSUME NEW s \in Streams, Open(s) \/ StreamStep(s) PROVE LInv'
  BY <1>3, OpenStep, SubscribeStep, ListStep, EachStep, GetStep, RoundStep DEF StreamStep
<1>4. CASE EndOfInput
  BY <1>4, LStutter DEF EndOfInput
<1>5. CASE Restart BY <1>5, RestartStep
<1> QED BY <1>1, <1>2, <1>3, <1>4, <1>5 DEF Next

(* It holds in every reachable state, of any number of publishers and requests.  *)
LEMMA AlwaysLInv == Spec => []LInv
BY InitLInv, NextLInv, PTL DEF Spec

(* The variables have their types.                                             *)
THEOREM StreamTypes == Spec => []TypeOK
<1>1. LInv => TypeOK BY DEF LInv
<1> QED BY <1>1, AlwaysLInv, PTL

(* However many threads publish and however many requests read, no request is sent  *)
(* an event twice, nor the events of one thread out of the order in which it       *)
(* published them, but for events that the client resumes after.                *)
THEOREM StreamsAreFaithful == Spec => []StreamFaithful
<1>1. LInv => StreamFaithful
  <2> SUFFICES ASSUME LInv PROVE StreamFaithful
    OBVIOUS
  <2>1. AuthorsInOrder BY DEF LInv, StreamOK, AuthorsOK, AuthorsInOrder
  <2>2. ASSUME NEW s \in Streams PROVE IsInjective(Ids(stream[s].written))
    <3>1. \A i, j \in DOMAIN stream[s].written :
            stream[s].written[i].id = stream[s].written[j].id => i = j
      BY DEF LInv, StreamOK, WrittenOK
    <3> QED BY <3>1 DEF IsInjective, Ids
  <2> QED BY <2>1, <2>2 DEF StreamFaithful, WrittenOnce
<1> QED BY <1>1, AlwaysLInv, PTL

(* A stream that follows its queue misses nothing that was published after the      *)
(* point of its history, if the bus knows that point.                           *)
THEOREM StreamsCatchUp == Spec => []CaughtUp
<1>1. LInv => CaughtUp
  <2> SUFFICES ASSUME LInv, NEW s \in Streams, Tailing(s)
               PROVE  LET from == LastOf(stream[s].history) IN
                      from = None \/ Position(bus, from) > 0 =>
                        \A i \in (Position(bus, from) + 1)..Len(bus) : bus[i] \in Accounted(s)
    BY DEF CaughtUp
  <2>1. stream[s].at \in {"loop", "wait"} BY DEF Tailing
  <2>2. ListedOK(s) /\ CaughtUpOK(s) BY DEF LInv, StreamOK
  <2>3. stream[s].listed = <<>> BY <2>1, <2>2 DEF ListedOK
  <2>4. Range(stream[s].listed) = {} BY <2>3 DEF Range
  <2> QED BY <2>1, <2>2, <2>4 DEF CaughtUpOK
<1> QED BY <1>1, AlwaysLInv, PTL

-----------------------------------------------------------------------------
(*****************************************************************************)
(* The answers of a session.                                                 *)
(*****************************************************************************)
(* What a thread can have found so far; "" before its request is handled.          *)
Outcomes == {"", "result", "-32602", "-32004", "-32000", "-32601", "-32700"}
Lines   == [kind : S!Kinds, run : RunIds]
Threads == [at : {"handle", "start", "write", "follow", "ended"}, code : Outcomes, worker : Nat]
Answers == [to : Nat, code : Outcomes]
RunThreads == [run : RunIds, at : {"new", "running", "leaving", "ended"}]

-----------------------------------------------------------------------------
(*****************************************************************************)
(* The inductive invariant.                                                  *)
(*****************************************************************************)
SessionTyped ==
  /\ line \in Seq(Lines) /\ thread \in Seq(Threads) /\ Len(thread) = Len(line)
  /\ answers \in Seq(Answers) /\ worker \in Seq(RunThreads)

(* No two answers are to the same request, but for those without an id.          *)
NoneTwice ==
  /\ \A n \in DOMAIN answers : answers[n].to \in 0..Len(line)
  /\ \A m, n \in DOMAIN answers :
       answers[m].to = answers[n].to /\ answers[m].to # 0 => m = n

(* Where a thread is shows whether its request has been answered.                *)
PlaceOK(i) ==
  /\ thread[i].at \in {"handle", "start", "write"} \/ line[i].kind = "garbage" =>
       S!AnswersTo(i) = {}
  /\ thread[i].at \in {"follow", "ended"} /\ line[i].kind \notin {"garbage", "scalar"} =>
       S!AnswersTo(i) # {}
  /\ thread[i].at = "follow" => line[i].kind = "stream"
  /\ line[i].kind = "scalar" => thread[i].at \in {"handle", "ended"}

(* The lines that could not be read and whose thread has ended.                 *)
Rejected == {i \in S!Requests : line[i].kind = "garbage" /\ thread[i].at = "ended"}

SessionInv ==
  /\ SessionTyped /\ NoneTwice
  /\ \A i \in S!Requests : PlaceOK(i)
  /\ Cardinality(S!AnswersTo(0)) = Cardinality(Rejected)
  /\ main = "ended" => \A i \in S!Requests : thread[i].at = "ended"

(* What everybody needs of the types.                                          *)
LEMMA SessionTypes ==
  ASSUME SessionTyped
  PROVE  /\ Len(line) \in Nat /\ S!Requests = 1..Len(line)
         /\ DOMAIN line = S!Requests /\ DOMAIN thread = S!Requests
         /\ \A i \in S!Requests : line[i] \in Lines /\ thread[i] \in Threads
         /\ Len(answers) \in Nat /\ DOMAIN answers = 1..Len(answers)
         /\ IsFiniteSet(S!AnswersTo(0)) /\ IsFiniteSet(Rejected)
<1>1. /\ Len(line) \in Nat /\ S!Requests = 1..Len(line)
      /\ DOMAIN line = S!Requests /\ DOMAIN thread = S!Requests
      /\ Len(answers) \in Nat /\ DOMAIN answers = 1..Len(answers)
  BY LenProperties DEF SessionTyped, S!Requests
<1>2. \A i \in S!Requests : line[i] \in Lines /\ thread[i] \in Threads
  BY <1>1, ElementOfSeq DEF SessionTyped
<1>3. IsFiniteSet(1..Len(answers)) /\ IsFiniteSet(1..Len(line)) BY <1>1, FS_Interval
<1>4. S!AnswersTo(0) \in SUBSET (1..Len(answers)) /\ Rejected \in SUBSET (1..Len(line))
  BY <1>1 DEF S!AnswersTo, Rejected
<1> QED BY <1>1, <1>2, <1>3, <1>4, FS_Subset

-----------------------------------------------------------------------------
(*****************************************************************************)
(* The steps of the session.                                                  *)
(*****************************************************************************)
(* A thread goes on without writing.  What it has read could be read, unless it   *)
(* goes on to write that it could not.                                         *)
LEMMA GoesOn ==
  ASSUME SessionInv, UNCHANGED <<line, answers>>, NEW i \in S!Requests,
         NEW rec \in Threads, thread' = [thread EXCEPT ![i] = rec], worker' \in Seq(RunThreads),
         main' = "ended" => main = "ended",
         \/ /\ thread[i].at \in {"handle", "start"} /\ rec.at \in {"start", "write"}
            /\ line[i].kind # "scalar"
         \/ line[i].kind = "scalar" /\ rec.at = "ended"
         \/ thread[i].at = "follow" /\ rec.at = "ended"
  PROVE  SessionInv'
<1>0. /\ SessionTyped /\ DOMAIN thread = S!Requests /\ S!Requests = 1..Len(line)
      /\ thread \in Seq(Threads) /\ Len(thread) = Len(line)
  BY SessionTypes DEF SessionInv, SessionTyped
<1>1. /\ thread' \in Seq(Threads) /\ Len(thread') = Len(thread)
      /\ \A j \in S!Requests : thread'[j] = IF j = i THEN rec ELSE thread[j]
  BY <1>0, ExceptSeq
<1>2. /\ S!Requests' = S!Requests
      /\ \A j : S!AnswersTo(j)' = S!AnswersTo(j)
  BY DEF S!Requests, S!AnswersTo
<1>3. SessionTyped' BY <1>0, <1>1 DEF SessionTyped
<1>4. NoneTwice' BY DEF SessionInv, NoneTwice
<1>5. ASSUME NEW j \in S!Requests PROVE PlaceOK(j)'
  <2>1. PlaceOK(j) BY DEF SessionInv
  <2> QED BY <1>1, <1>2, <2>1 DEF PlaceOK
<1>6. Rejected' = Rejected
  <2>1. PlaceOK(i) BY DEF SessionInv
  <2> QED BY <1>1, <1>2, <2>1 DEF Rejected, PlaceOK
<1>7. main' = "ended" => \A j \in S!Requests' : thread'[j].at = "ended"
  <2>1. main = "ended" => thread[i].at = "ended" BY DEF SessionInv
  <2>2. PlaceOK(i) BY DEF SessionInv
  <2> QED BY <1>1, <1>2, <2>1, <2>2 DEF SessionInv, PlaceOK
<1> QED BY <1>2, <1>3, <1>4, <1>5, <1>6, <1>7 DEF SessionInv

(* Another line is read.                                                       *)
LEMMA ReadStep ==
  ASSUME SessionInv, NEW kind \in S!Kinds, NEW r \in RunIds, S!Read(kind, r)
  PROVE  SessionInv'
<1> DEFINE new == [kind |-> kind, run |-> r]
           begun == [at |-> "handle", code |-> "", worker |-> 0]
           id == Len(line) + 1
<1>0. /\ SessionTyped /\ DOMAIN thread = S!Requests /\ S!Requests = 1..Len(line)
      /\ Len(line) \in Nat /\ DOMAIN answers = 1..Len(answers)
      /\ line \in Seq(Lines) /\ thread \in Seq(Threads) /\ Len(thread) = Len(line)
  BY SessionTypes DEF SessionInv, SessionTyped
<1>1. /\ main = "read" /\ line' = Append(line, new) /\ thread' = Append(thread, begun)
      /\ UNCHANGED <<answers, worker, main>>
  BY DEF S!Read
<1>2. new \in Lines /\ begun \in Threads /\ new.kind = kind /\ begun.at = "handle"
  BY DEF Lines, Threads, Outcomes
<1> HIDE DEF new, begun
<1>3. /\ line' \in Seq(Lines) /\ Len(line') = id /\ line'[id] = new
      /\ thread' \in Seq(Threads) /\ Len(thread') = id /\ thread'[id] = begun
      /\ \A i \in S!Requests : line'[i] = line[i] /\ thread'[i] = thread[i]
  BY <1>0, <1>1, <1>2, AppendProperties
<1>4. S!Requests' = S!Requests \cup {id} /\ id \notin S!Requests /\ id \in Nat
  BY <1>0, <1>3 DEF S!Requests
<1>5. \A i : S!AnswersTo(i)' = S!AnswersTo(i) BY <1>1 DEF S!AnswersTo
<1>6. SessionTyped' BY <1>0, <1>1, <1>3 DEF SessionTyped
<1>7. \A n \in DOMAIN answers : answers[n].to \in 0..Len(line) BY DEF SessionInv, NoneTwice
<1>8. NoneTwice'
  <2>1. 0..Len(line) \subseteq 0..Len(line') BY <1>0, <1>3
  <2> QED BY <1>1, <1>7, <2>1 DEF SessionInv, NoneTwice
<1>9. ASSUME NEW i \in S!Requests' PROVE PlaceOK(i)'
  <2>1. CASE i \in S!Requests
    <3>1. PlaceOK(i) BY <2>1 DEF SessionInv
    <3> QED BY <1>3, <1>5, <2>1, <3>1 DEF PlaceOK
  <2>2. CASE i = id
    <3>1. S!AnswersTo(id) = {} BY <1>0, <1>7 DEF S!AnswersTo
    <3> QED BY <1>2, <1>3, <1>5, <2>2, <3>1 DEF PlaceOK
  <2> QED BY <1>4, <2>1, <2>2
<1>10. Rejected' = Rejected BY <1>2, <1>3, <1>4 DEF Rejected
<1> QED BY <1>1, <1>5, <1>6, <1>8, <1>9, <1>10 DEF SessionInv

(* An answer is written, with the id of its request or without one.              *)
LEMMA WriteStep ==
  ASSUME SessionInv, NEW i \in S!Requests, S!Write(i)
  PROVE  SessionInv'
<1> DEFINE answer == [to |-> S!IdOf(i), code |-> thread[i].code]
           after == IF line[i].kind = "stream" /\ thread[i].code = "result"
                    THEN "follow" ELSE "ended"
           rec == [thread[i] EXCEPT !.at = after, !.code = thread[i].code]
           last == Len(answers) + 1
<1>0. /\ SessionTyped /\ DOMAIN thread = S!Requests /\ S!Requests = 1..Len(line)
      /\ Len(line) \in Nat /\ Len(answers) \in Nat /\ DOMAIN answers = 1..Len(answers)
      /\ line[i] \in Lines /\ thread[i] \in Threads
      /\ thread \in Seq(Threads) /\ Len(thread) = Len(line) /\ answers \in Seq(Answers)
      /\ IsFiniteSet(S!AnswersTo(0)) /\ IsFiniteSet(Rejected)
  BY SessionTypes DEF SessionInv, SessionTyped
<1>1. /\ thread[i].at = "write" /\ answers' = Append(answers, answer)
      /\ thread' = [thread EXCEPT ![i] = rec]
      /\ UNCHANGED <<line, worker, main>>
  BY DEF S!Write, S!To
<1>2. /\ rec \in Threads /\ rec.at = after /\ after \in {"follow", "ended"}
      /\ after = "follow" => line[i].kind = "stream"
  BY <1>0 DEF Threads
<1>3. answer \in Answers /\ answer.to = S!IdOf(i) BY <1>0 DEF Answers, Threads, S!IdOf
<1>4. S!IdOf(i) = IF line[i].kind = "garbage" THEN 0 ELSE i BY DEF S!IdOf
<1> HIDE DEF answer, rec, after
<1>5. /\ thread' \in Seq(Threads) /\ Len(thread') = Len(thread)
      /\ \A j \in S!Requests : thread'[j] = IF j = i THEN rec ELSE thread[j]
  BY <1>0, <1>1, <1>2, ExceptSeq
<1>6. /\ answers' \in Seq(Answers) /\ Len(answers') = last /\ answers'[last] = answer
      /\ \A n \in DOMAIN answers : answers'[n] = answers[n]
  BY <1>0, <1>1, <1>3, AppendProperties
<1>7. DOMAIN answers' = DOMAIN answers \cup {last} /\ last \notin DOMAIN answers
  BY <1>0, <1>6, LenProperties
<1>8. S!Requests' = S!Requests BY <1>1 DEF S!Requests
<1>9. \A j : S!AnswersTo(j)' = IF j = S!IdOf(i) THEN S!AnswersTo(j) \cup {last} ELSE S!AnswersTo(j)
  BY <1>3, <1>6, <1>7 DEF S!AnswersTo
<1>10. PlaceOK(i) BY DEF SessionInv
<1>11. SessionTyped' BY <1>0, <1>1, <1>5, <1>6 DEF SessionTyped
<1>12. NoneTwice'
  <2>1. NoneTwice BY DEF SessionInv
  <2>2. S!IdOf(i) \in 0..Len(line) BY <1>0, <1>4
  <2>3. S!IdOf(i) # 0 => \A n \in DOMAIN answers : answers[n].to # S!IdOf(i)
    BY <1>1, <1>4, <1>10 DEF PlaceOK, S!AnswersTo
  <2> QED BY <1>1, <1>3, <1>6, <1>7, <2>1, <2>2, <2>3 DEF NoneTwice
<1>13. ASSUME NEW j \in S!Requests' PROVE PlaceOK(j)'
  <2>1. PlaceOK(j) /\ j \in S!Requests /\ j # 0 BY <1>0, <1>8 DEF SessionInv
  <2>2. CASE j = i
    <3>1. line[i].kind # "garbage" => S!AnswersTo(i)' # {} BY <1>4, <1>9
    <3>2. line[i].kind = "garbage" => S!AnswersTo(i)' = S!AnswersTo(i) BY <1>4, <1>9, <2>1, <2>2
    <3>3. thread'[i] = rec /\ line'[i] = line[i] BY <1>1, <1>5
    <3> QED BY <1>1, <1>2, <1>10, <2>2, <3>1, <3>2, <3>3 DEF PlaceOK
  <2>3. CASE j # i
    <3>1. S!AnswersTo(j)' = S!AnswersTo(j) BY <1>4, <1>9, <2>1, <2>3
    <3>2. thread'[j] = thread[j] /\ line'[j] = line[j] BY <1>1, <1>5, <2>1, <2>3
    <3> QED BY <2>1, <3>1, <3>2 DEF PlaceOK
  <2> QED BY <2>2, <2>3
<1>14. Cardinality(S!AnswersTo(0)') = Cardinality(Rejected')
  <2>1. Cardinality(S!AnswersTo(0)) = Cardinality(Rejected) BY DEF SessionInv
  <2>2. CASE line[i].kind = "garbage"
    <3>1. S!AnswersTo(0)' = S!AnswersTo(0) \cup {last} /\ last \notin S!AnswersTo(0)
      BY <1>4, <1>7, <1>9, <2>2 DEF S!AnswersTo
    <3>2. after = "ended" BY <1>2, <2>2
    <3>3. Rejected' = Rejected \cup {i} BY <1>1, <1>2, <1>5, <1>8, <2>2, <3>2 DEF Rejected
    <3>4. i \notin Rejected BY <1>1 DEF Rejected
    <3>5. Cardinality(S!AnswersTo(0) \cup {last}) = Cardinality(S!AnswersTo(0)) + 1
      BY <1>0, <3>1, FS_AddElement
    <3>6. Cardinality(Rejected \cup {i}) = Cardinality(Rejected) + 1
      BY <1>0, <3>4, FS_AddElement
    <3> QED BY <2>1, <3>1, <3>3, <3>5, <3>6
  <2>3. CASE line[i].kind # "garbage"
    <3>1. S!AnswersTo(0)' = S!AnswersTo(0) BY <1>0, <1>4, <1>9, <2>3
    <3>2. Rejected' = Rejected BY <1>1, <1>5, <1>8, <2>3 DEF Rejected
    <3> QED BY <2>1, <3>1, <3>2
  <2> QED BY <2>2, <2>3
<1>15. main' = "ended" => \A j \in S!Requests' : thread'[j].at = "ended"
  BY <1>1 DEF SessionInv
<1> QED BY <1>11, <1>12, <1>13, <1>14, <1>15 DEF SessionInv

(* The run threads and serve do not touch the answers.                          *)
LEMMA OthersStep ==
  ASSUME SessionInv, UNCHANGED <<line, thread, answers>>, worker' \in Seq(RunThreads),
         main' = "ended" => main = "ended" \/ \A i \in S!Requests : thread[i].at = "ended"
  PROVE  SessionInv'
<1>1. S!Requests' = S!Requests BY DEF S!Requests
<1>2. \A i : S!AnswersTo(i)' = S!AnswersTo(i) BY DEF S!AnswersTo
<1>3. Rejected' = Rejected BY <1>1 DEF Rejected
<1>4. SessionTyped' /\ NoneTwice' BY DEF SessionInv, SessionTyped, NoneTwice
<1>5. \A i \in S!Requests : PlaceOK(i)' BY <1>2 DEF SessionInv, PlaceOK
<1>6. main' = "ended" => \A i \in S!Requests' : thread'[i].at = "ended"
  BY <1>1 DEF SessionInv
<1> QED BY <1>1, <1>2, <1>3, <1>4, <1>5, <1>6 DEF SessionInv

(* Another place of a run thread.                                             *)
LEMMA Placed ==
  ASSUME worker \in Seq(RunThreads), NEW w, NEW at \in {"running", "leaving", "ended"},
         worker' = [worker EXCEPT ![w].at = at]
  PROVE  worker' \in Seq(RunThreads)
<1>1. CASE w \in DOMAIN worker
  <2> DEFINE rec == [worker[w] EXCEPT !.at = at]
  <2>1. w \in 1..Len(worker) /\ worker[w] \in RunThreads BY <1>1, LenProperties, ElementOfSeq
  <2>2. rec \in RunThreads BY <2>1 DEF RunThreads
  <2>3. worker' = [worker EXCEPT ![w] = rec] OBVIOUS
  <2> HIDE DEF rec
  <2> QED BY <2>1, <2>2, <2>3, ExceptSeq
<1>2. CASE w \notin DOMAIN worker
  <2>1. worker = [n \in DOMAIN worker |-> worker[n]] BY LenProperties
  <2>2. DOMAIN worker' = DOMAIN worker /\ \A n \in DOMAIN worker : worker'[n] = worker[n]
    BY <1>2
  <2>3. worker' = [n \in DOMAIN worker' |-> worker'[n]] OBVIOUS
  <2>4. worker' = worker BY <2>1, <2>2, <2>3
  <2> QED BY <2>4
<1> QED BY <1>1, <1>2

(* A request is handled, and a run thread is registered and started.             *)
LEMMA HandleStep ==
  ASSUME SessionInv, NEW i \in S!Requests,
         S!Handle(i) \/ S!Die(i) \/ S!Register(i) \/ S!StartWorker(i) \/ S!StopFollowing(i)
  PROVE  SessionInv'
<1>0. /\ SessionTyped /\ line[i] \in Lines /\ thread[i] \in Threads
      /\ worker \in Seq(RunThreads) /\ Len(worker) \in Nat /\ PlaceOK(i)
  BY SessionTypes, LenProperties DEF SessionInv, SessionTyped
<1>1. ASSUME NEW at \in {"handle", "start", "write", "follow", "ended"}, NEW code \in Outcomes,
             S!To(i, at, code)
      PROVE  \E rec \in Threads : rec.at = at /\ thread' = [thread EXCEPT ![i] = rec]
  <2> DEFINE rec == [thread[i] EXCEPT !.at = at, !.code = code]
  <2>1. rec \in Threads /\ rec.at = at BY <1>0 DEF Threads
  <2>2. thread' = [thread EXCEPT ![i] = rec] BY <1>1 DEF S!To
  <2> QED BY <2>1, <2>2
<1>2. CASE S!Handle(i)
  <2>1. /\ thread[i].at = "handle" /\ line[i].kind # "scalar"
        /\ UNCHANGED <<line, answers, worker, main>>
    BY <1>2 DEF S!Handle
  <2>2. PICK code \in S!Codes(line[i].kind) : S!To(i, "write", code) BY <1>2 DEF S!Handle
  <2>3. code \in Outcomes
    <3>1. line[i].kind \in S!Kinds \ {"scalar"} BY <1>0, <2>1 DEF Lines
    <3>2. S!Codes(line[i].kind) \subseteq Outcomes
      BY <3>1 DEF S!Codes, S!Refusals, S!Kinds, Outcomes
    <3> QED BY <2>2, <3>2
  <2>4. PICK rec \in Threads : rec.at = "write" /\ thread' = [thread EXCEPT ![i] = rec]
    BY <1>1, <2>2, <2>3
  <2> QED BY <1>0, <2>1, <2>4, GoesOn
<1>3. CASE S!Die(i)
  <2>1. line[i].kind = "scalar" /\ UNCHANGED <<line, answers, worker, main>> /\ S!To(i, "ended", "")
    BY <1>3 DEF S!Die
  <2>2. "ended" \in {"handle", "start", "write", "follow", "ended"} /\ "" \in Outcomes
    BY DEF Outcomes
  <2>3. PICK rec \in Threads : rec.at = "ended" /\ thread' = [thread EXCEPT ![i] = rec]
    BY <1>1, <2>1, <2>2
  <2> QED BY <1>0, <2>1, <2>3, GoesOn
<1>4. CASE S!Register(i)
  <2> DEFINE rec == [thread[i] EXCEPT !.at = "start", !.worker = Len(worker) + 1]
             new == [run |-> line[i].run, at |-> "new"]
  <2>1. /\ thread[i].at = "handle" /\ line[i].kind # "scalar" /\ UNCHANGED <<line, answers, main>>
        /\ thread' = [thread EXCEPT ![i] = rec] /\ worker' = Append(worker, new)
    BY <1>4 DEF S!Register
  <2>2. rec \in Threads /\ rec.at = "start"
    <3>1. Len(worker) + 1 \in Nat BY <1>0
    <3> QED BY <1>0, <3>1 DEF Threads
  <2>3. new \in RunThreads BY <1>0 DEF RunThreads, Lines
  <2> HIDE DEF rec, new
  <2>4. worker' \in Seq(RunThreads) BY <1>0, <2>1, <2>3, AppendProperties
  <2> QED BY <1>0, <2>1, <2>2, <2>4, GoesOn
<1>5. CASE S!StartWorker(i)
  <2>1. /\ thread[i].at = "start" /\ UNCHANGED <<line, answers, main>> /\ S!To(i, "write", "result")
        /\ worker' = [worker EXCEPT ![thread[i].worker].at = "running"]
    BY <1>5 DEF S!StartWorker
  <2>2. PICK rec \in Threads : rec.at = "write" /\ thread' = [thread EXCEPT ![i] = rec]
    <3>1. "write" \in {"handle", "start", "write", "follow", "ended"} /\ "result" \in Outcomes
      BY DEF Outcomes
    <3> QED BY <1>1, <2>1, <3>1
  <2>3. worker' \in Seq(RunThreads) BY <1>0, <2>1, Placed
  <2>4. line[i].kind # "scalar" BY <1>0, <2>1 DEF PlaceOK
  <2> QED BY <2>1, <2>2, <2>3, <2>4, GoesOn
<1>6. CASE S!StopFollowing(i)
  <2>1. /\ thread[i].at = "follow" /\ UNCHANGED <<line, answers, worker, main>>
        /\ S!To(i, "ended", thread[i].code) /\ thread[i].code \in Outcomes
    BY <1>0, <1>6 DEF S!StopFollowing, Threads
  <2>2. PICK rec \in Threads : rec.at = "ended" /\ thread' = [thread EXCEPT ![i] = rec]
    BY <1>1, <2>1
  <2> QED BY <1>0, <2>1, <2>2, GoesOn
<1> QED BY <1>2, <1>3, <1>4, <1>5, <1>6

-----------------------------------------------------------------------------
(*****************************************************************************)
(* The theorem.                                                              *)
(*****************************************************************************)
LEMMA InitSession == S!Init => SessionInv
<1> SUFFICES ASSUME S!Init PROVE SessionInv
  OBVIOUS
<1>1. line = <<>> /\ thread = <<>> /\ answers = <<>> /\ worker = <<>> /\ main = "read"
  BY DEF S!Init
<1>2. /\ <<>> \in Seq(Lines) /\ <<>> \in Seq(Threads) /\ <<>> \in Seq(Answers)
      /\ <<>> \in Seq(RunThreads) /\ DOMAIN <<>> = {} /\ 1..Len(<<>>) = {}
  OBVIOUS
<1>3. S!Requests = {} BY <1>1, <1>2 DEF S!Requests
<1>4. S!AnswersTo(0) = {} /\ Rejected = {} BY <1>1, <1>2, <1>3 DEF S!AnswersTo, Rejected
<1> QED BY <1>1, <1>2, <1>3, <1>4 DEF SessionInv, SessionTyped, NoneTwice

(* Every step of the two components keeps it.                                  *)
LEMMA NextSession == SessionInv /\ [ViewsNext]_<<part, vars, svars>> => SessionInv'
<1> SUFFICES ASSUME SessionInv, [ViewsNext]_<<part, vars, svars>> PROVE SessionInv'
  OBVIOUS
<1>0. worker \in Seq(RunThreads) BY DEF SessionInv, SessionTyped
<1>1. CASE UNCHANGED svars BY <1>0, <1>1, OthersStep DEF svars
<1>2. CASE S!Next
  <2>1. ASSUME NEW kind \in S!Kinds, NEW r \in RunIds, S!Read(kind, r) PROVE SessionInv'
    BY <2>1, ReadStep
  <2>2. ASSUME NEW i \in S!Requests, S!RequestStep(i) \/ S!StopFollowing(i) PROVE SessionInv'
    BY <2>2, HandleStep, WriteStep DEF S!RequestStep
  <2>3. ASSUME NEW w \in S!Workers, S!WorkerStep(w) PROVE SessionInv'
    <3>1. UNCHANGED <<line, thread, answers, main>> BY <2>3 DEF S!WorkerStep, S!Leave, S!Pop
    <3>2. PICK at \in {"running", "leaving", "ended"} : worker' = [worker EXCEPT ![w].at = at]
      BY <2>3 DEF S!WorkerStep, S!Leave, S!Pop
    <3>3. worker' \in Seq(RunThreads) BY <1>0, <3>2, Placed
    <3> QED BY <3>1, <3>3, OthersStep
  <2>4. CASE S!EndOfInput \/ S!ServerStep
    <3>1. UNCHANGED <<line, thread, answers, worker>>
      BY <2>4 DEF S!EndOfInput, S!ServerStep, S!Snapshot, S!Join, S!JoinRequests
    <3>2. main' = "ended" => main = "ended" \/ \A i \in S!Requests : thread[i].at = "ended"
      BY <2>4 DEF S!EndOfInput, S!ServerStep, S!Snapshot, S!Join, S!JoinRequests
    <3> QED BY <1>0, <3>1, <3>2, OthersStep
  <2> QED BY <1>2, <2>1, <2>2, <2>3, <2>4 DEF S!Next
<1> QED BY <1>1, <1>2 DEF ViewsNext

(* However many requests are served at once: none is answered twice, and when        *)
(* serve returns each has been answered, those that could not be read without an     *)
(* id; but JSON that is no object has not.                                     *)
THEOREM AnsweredExactlyOnce == ViewsSpec => []AnsweredOnce
<1>1. SessionInv => AnsweredOnce
  <2> SUFFICES ASSUME SessionInv PROVE S!AnsweredOnce
    BY DEF AnsweredOnce
  <2>0. SessionTyped /\ S!Requests = 1..Len(line) BY SessionTypes DEF SessionInv
  <2>1. ASSUME NEW i \in S!Requests PROVE Cardinality(S!AnswersTo(i)) <= 1
    <3>1. \A m, n \in S!AnswersTo(i) : m = n
      BY <2>0 DEF SessionInv, NoneTwice, S!AnswersTo
    <3>2. CASE S!AnswersTo(i) = {} BY <3>2, FS_EmptySet
    <3>3. CASE S!AnswersTo(i) # {}
      <4>1. PICK n : S!AnswersTo(i) = {n} BY <3>1, <3>3
      <4>2. Cardinality({n}) = 1 BY FS_Singleton
      <4> QED BY <4>1, <4>2
    <3> QED BY <3>2, <3>3
  <2>2. ASSUME main = "ended"
        PROVE  /\ \A i \in S!Requests \ (S!OfKind("garbage") \cup S!OfKind("scalar")) :
                    S!AnswersTo(i) # {}
               /\ Cardinality(S!AnswersTo(0)) = Cardinality(S!OfKind("garbage"))
    <3>1. \A i \in S!Requests : thread[i].at = "ended" BY <2>2 DEF SessionInv
    <3>2. Rejected = S!OfKind("garbage") BY <3>1 DEF Rejected, S!OfKind
    <3>3. \A i \in S!Requests \ (S!OfKind("garbage") \cup S!OfKind("scalar")) :
            S!AnswersTo(i) # {}
      BY <3>1 DEF SessionInv, PlaceOK, S!OfKind
    <3> QED BY <3>2, <3>3 DEF SessionInv
  <2>3. main = "ended" =>
          /\ \A i \in S!Requests \ (S!OfKind("garbage") \cup S!OfKind("scalar")) :
               S!AnswersTo(i) # {}
          /\ Cardinality(S!AnswersTo(0)) = Cardinality(S!OfKind("garbage"))
    BY <2>2
  <2>4. \A i \in S!Requests : Cardinality(S!AnswersTo(i)) <= 1 BY <2>1
  <2>5. \A T : S!Cardinality(T) = Cardinality(T) BY DEF S!Cardinality, Cardinality
  <2> QED BY <2>3, <2>4, <2>5 DEF S!AnsweredOnce
<1> QED BY <1>1, InitSession, NextSession, PTL DEF ViewsSpec, ViewsInit

-----------------------------------------------------------------------------
(*****************************************************************************)
(* The types of the session: who is named is there.                            *)
(*****************************************************************************)
(* A request's thread, the table and the list of serve name run threads that exist. *)
NamesOK ==
  /\ Len(line) <= MaxRequests
  /\ \A i \in S!Requests : thread[i].worker \in 0..Len(worker)
  /\ table \in [RunIds -> 0..Len(worker)] /\ eof \in BOOLEAN
  /\ main \in {"read", "runs", "requests", "ended", "raised"}
  /\ waiting \in Seq(1..Len(worker))

(* The types that the steps look at.                                          *)
LEMMA NamesTypes ==
  ASSUME SessionInv
  PROVE  /\ line \in Seq(Lines) /\ thread \in Seq(Threads) /\ Len(thread) = Len(line)
         /\ worker \in Seq(RunThreads) /\ Len(worker) \in Nat /\ Len(line) \in Nat
         /\ S!Requests = 1..Len(line) /\ S!Workers = 1..Len(worker)
         /\ \A i \in S!Requests : line[i] \in Lines /\ thread[i] \in Threads
         /\ \A w \in S!Workers : worker[w] \in RunThreads
BY SessionTypes, LenProperties, ElementOfSeq DEF SessionInv, SessionTyped, S!Workers

(* The thread of a request goes on with the same run thread.                     *)
LEMMA NamesTo ==
  ASSUME SessionInv, NamesOK, UNCHANGED <<line, table, eof, main, waiting>>,
         NEW i \in S!Requests, NEW at, NEW code, S!To(i, at, code), Len(worker') = Len(worker)
  PROVE  NamesOK'
<1>1. \A j \in S!Requests : thread'[j].worker = thread[j].worker
  <2>1. DOMAIN thread = S!Requests BY SessionTypes DEF SessionInv
  <2>2. DOMAIN thread[i] = {"at", "code", "worker"} BY NamesTypes DEF Threads
  <2> QED BY <2>1, <2>2 DEF S!To
<1> QED BY <1>1 DEF NamesOK, S!Requests

(* A run thread gets on.                                                       *)
LEMMA NamesPlaced ==
  ASSUME worker \in Seq(RunThreads), NEW w, NEW at \in {"running", "leaving", "ended"},
         worker' = [worker EXCEPT ![w].at = at]
  PROVE  Len(worker') = Len(worker)
<1>1. worker' \in Seq(RunThreads) BY Placed
<1>2. DOMAIN worker' = DOMAIN worker OBVIOUS
<1> QED BY <1>1, <1>2, LenProperties

(* A run thread is registered: its number is one that the table may hold.      *)
LEMMA NamesRegister ==
  ASSUME SessionInv, NamesOK, NEW i \in S!Requests, S!Register(i)
  PROVE  NamesOK'
<1> DEFINE new == [run |-> line[i].run, at |-> "new"]
           n == Len(worker) + 1
<1>0. /\ Len(worker) \in Nat /\ worker \in Seq(RunThreads) /\ line[i] \in Lines
      /\ DOMAIN thread = S!Requests /\ \A j \in S!Requests : thread[j] \in Threads
  BY NamesTypes, SessionTypes DEF SessionInv
<1>1. /\ worker' = Append(worker, new) /\ UNCHANGED <<line, eof, main, waiting>>
      /\ table' = [table EXCEPT ![line[i].run] = n]
      /\ thread' = [thread EXCEPT ![i].at = "start", ![i].worker = n]
  BY DEF S!Register
<1>2. new \in RunThreads BY <1>0 DEF RunThreads, Lines
<1>3. Len(worker') = n BY <1>0, <1>1, <1>2, AppendProperties
<1>4. 0..Len(worker) \subseteq 0..n /\ n \in 0..n /\ 1..Len(worker) \subseteq 1..n BY <1>0
<1>5. table' \in [RunIds -> 0..n] BY <1>0, <1>1, <1>4 DEF NamesOK, Lines
<1>6. waiting' \in Seq(1..n)
  <2>1. waiting \in Seq(1..Len(worker)) BY DEF NamesOK
  <2> QED BY <1>1, <1>4, <2>1, SeqDef
<1>7. \A j \in S!Requests : thread'[j].worker \in 0..n
  <2>1. \A j \in S!Requests : j # i => thread'[j] = thread[j] BY <1>0, <1>1
  <2>2. thread'[i].worker = n
    <3>1. DOMAIN thread[i] = {"at", "code", "worker"} BY <1>0 DEF Threads
    <3> QED BY <1>0, <1>1, <3>1
  <2> QED BY <1>4, <2>1, <2>2 DEF NamesOK
<1>8. S!Requests' = S!Requests BY <1>1 DEF S!Requests
<1> HIDE DEF n, new
<1> QED BY <1>1, <1>3, <1>5, <1>6, <1>7, <1>8 DEF NamesOK

(* A new request has no run thread yet.                                       *)
LEMMA NamesRead ==
  ASSUME SessionInv, NamesOK, NEW kind \in S!Kinds, NEW r \in RunIds, S!Read(kind, r)
  PROVE  NamesOK'
<1> DEFINE begun == [at |-> "handle", code |-> "", worker |-> 0]
           new == [kind |-> kind, run |-> r]
<1>0. /\ line \in Seq(Lines) /\ thread \in Seq(Threads) /\ Len(thread) = Len(line) /\ Len(line) \in Nat
      /\ S!Requests = 1..Len(line) /\ Len(worker) \in Nat
  BY NamesTypes
<1>1. /\ line' = Append(line, new) /\ thread' = Append(thread, begun) /\ Len(line) < MaxRequests
      /\ UNCHANGED <<worker, table, eof, main, waiting>>
  BY DEF S!Read
<1>2. new \in Lines /\ begun \in Threads /\ begun.worker = 0 BY DEF Lines, Threads, Outcomes
<1> HIDE DEF new, begun
<1>3. /\ Len(line') = Len(line) + 1 /\ thread'[Len(line) + 1] = begun
      /\ \A i \in S!Requests : thread'[i] = thread[i]
  BY <1>0, <1>1, <1>2, AppendProperties
<1>4. \A i \in S!Requests' : thread'[i].worker \in 0..Len(worker)
  BY <1>0, <1>2, <1>3 DEF S!Requests, NamesOK
<1>5. Len(line') <= MaxRequests BY <1>0, <1>1, <1>3, RequestsAssumption
<1>6. /\ table' \in [RunIds -> 0..Len(worker')] /\ eof' \in BOOLEAN /\ worker' = worker
      /\ main' \in {"read", "runs", "requests", "ended", "raised"} /\ waiting' \in Seq(1..Len(worker'))
  BY <1>1 DEF NamesOK
<1> QED BY <1>4, <1>5, <1>6 DEF NamesOK

(* serve takes its list from the table: those that it waits for have been there.    *)
LEMMA NamesSnapshot ==
  ASSUME SessionInv, NamesOK, S!Snapshot
  PROVE  NamesOK'
<1> DEFINE named == {table[r] : r \in RunIds} \ {0}
<1>1. /\ waiting' \in S!SetToSeqs(named) /\ main' \in {"runs", "requests"}
      /\ UNCHANGED <<line, thread, worker, table, eof>>
  BY DEF S!Snapshot
<1>2. Len(worker) \in Nat BY NamesTypes
<1>3. named \in SUBSET (1..Len(worker)) BY <1>2 DEF NamesOK
<1>4. Cardinality(named) \in Nat
  <2>1. IsFiniteSet(1..Len(worker)) BY <1>2, FS_Interval
  <2>2. IsFiniteSet(named) BY <1>3, <2>1, FS_Subset
  <2> QED BY <2>2, FS_CardinalityType
<1> HIDE DEF named
<1>5. waiting' \in [1..Cardinality(named) -> named]
  <2>1. \A f \in S!SetToSeqs(named) : f \in [1..S!Cardinality(named) -> named] BY DEF S!SetToSeqs
  <2>2. S!Cardinality(named) = Cardinality(named) BY DEF S!Cardinality, Cardinality
  <2> QED BY <1>1, <2>1, <2>2
<1>6. waiting' \in Seq(named) BY <1>4, <1>5, SeqDef
<1>7. waiting' \in Seq(1..Len(worker))
  <2>1. Len(waiting') \in Nat /\ waiting' = [i \in 1..Len(waiting') |-> waiting'[i]]
    BY <1>4, <1>5, <1>6, LenProperties
  <2>2. \A i \in 1..Len(waiting') : waiting'[i] \in 1..Len(worker) BY <1>3, <1>6, ElementOfSeq
  <2>3. waiting' \in [1..Len(waiting') -> 1..Len(worker)] BY <2>1, <2>2
  <2> QED BY <2>1, <2>3, SeqDef
<1> QED BY <1>1, <1>7 DEF NamesOK, S!Requests

(* serve has waited for one thread, or gives up.                              *)
LEMMA NamesJoin ==
  ASSUME SessionInv, NamesOK, S!Join
  PROVE  NamesOK'
<1>1. UNCHANGED <<line, thread, worker, table, eof>> /\ waiting # <<>> /\ main = "runs" BY DEF S!Join
<1>2. waiting \in Seq(1..Len(worker)) BY DEF NamesOK
<1>3. waiting' \in Seq(1..Len(worker)) /\ main' \in {"runs", "raised"}
  <2>1. CASE waiting' = Tail(waiting) /\ UNCHANGED main BY <1>1, <1>2, <2>1, HeadTailProperties
  <2>2. CASE main' = "raised" /\ waiting' = <<>> BY <2>2
  <2> QED BY <2>1, <2>2 DEF S!Join
<1> QED BY <1>1, <1>3 DEF NamesOK, S!Requests

(* Nothing has been read and nothing runs.                                    *)
LEMMA NamesInit == S!Init => NamesOK
<1> SUFFICES ASSUME S!Init PROVE NamesOK
  OBVIOUS
<1>1. /\ line = <<>> /\ worker = <<>> /\ table = [r \in RunIds |-> 0] /\ eof = FALSE
      /\ main = "read" /\ waiting = <<>>
  BY DEF S!Init
<1>2. Len(line) = 0 /\ Len(worker) = 0 /\ waiting \in Seq(1..Len(worker)) BY <1>1
<1>3. S!Requests = {} BY <1>2 DEF S!Requests
<1>4. table \in [RunIds -> 0..Len(worker)] /\ eof \in BOOLEAN
  <2>1. 0 \in 0..Len(worker) BY <1>2
  <2>2. eof \in BOOLEAN BY <1>1, Zenon
  <2> QED BY <1>1, <2>1, <2>2
<1>5. Len(line) <= MaxRequests BY <1>2, RequestsAssumption
<1> QED BY <1>1, <1>2, <1>3, <1>4, <1>5 DEF NamesOK

(* Every step keeps it.                                                       *)
LEMMA NamesNext == SessionInv /\ NamesOK /\ [ViewsNext]_<<part, vars, svars>> => NamesOK'
<1> SUFFICES ASSUME SessionInv, NamesOK, [ViewsNext]_<<part, vars, svars>> PROVE NamesOK'
  OBVIOUS
<1>0. worker \in Seq(RunThreads) BY NamesTypes
<1>1. CASE UNCHANGED svars
  <2>1. eof' \in BOOLEAN BY <1>1 DEF svars, NamesOK
  <2> QED BY <1>1, <2>1 DEF svars, NamesOK, S!Requests
<1>2. CASE S!Next
  <2>1. ASSUME NEW kind \in S!Kinds, NEW r \in RunIds, S!Read(kind, r) PROVE NamesOK'
    BY <2>1, NamesRead
  <2>2. CASE S!EndOfInput BY <2>2 DEF S!EndOfInput, NamesOK, S!Requests
  <2>3. ASSUME NEW i \in S!Requests, S!RequestStep(i) \/ S!StopFollowing(i) PROVE NamesOK'
    <3>1. CASE S!Handle(i)
      <4>1. UNCHANGED <<line, worker, table, eof, main, waiting>> BY <3>1 DEF S!Handle
      <4>2. PICK code : S!To(i, "write", code) BY <3>1 DEF S!Handle
      <4> QED BY <4>1, <4>2, NamesTo
    <3>2. CASE S!Die(i) BY <3>2, NamesTo DEF S!Die
    <3>3. CASE S!Register(i) BY <3>3, NamesRegister
    <3>4. CASE S!StartWorker(i)
      <4>1. /\ UNCHANGED <<line, table, eof, main, waiting>> /\ S!To(i, "write", "result")
            /\ worker' = [worker EXCEPT ![thread[i].worker].at = "running"]
        BY <3>4 DEF S!StartWorker
      <4>2. Len(worker') = Len(worker) BY <1>0, <4>1, NamesPlaced
      <4> QED BY <4>1, <4>2, NamesTo
    <3>5. CASE S!Write(i)
      <4>1. UNCHANGED <<line, worker, table, eof, main, waiting>> BY <3>5 DEF S!Write
      <4>2. PICK place : S!To(i, place, thread[i].code) BY <3>5 DEF S!Write
      <4> QED BY <4>1, <4>2, NamesTo
    <3>6. CASE S!StopFollowing(i) BY <3>6, NamesTo DEF S!StopFollowing
    <3> QED BY <2>3, <3>1, <3>2, <3>3, <3>4, <3>5, <3>6 DEF S!RequestStep
  <2>4. ASSUME NEW w \in S!Workers, S!WorkerStep(w) PROVE NamesOK'
    <3>1. /\ UNCHANGED <<line, thread, eof, main, waiting>>
          /\ table' = table \/ table' = [table EXCEPT ![worker[w].run] = 0]
      BY <2>4 DEF S!WorkerStep, S!Leave, S!Pop
    <3>2. PICK at \in {"running", "leaving", "ended"} : worker' = [worker EXCEPT ![w].at = at]
      BY <2>4 DEF S!WorkerStep, S!Leave, S!Pop
    <3>3. Len(worker') = Len(worker) /\ Len(worker) \in Nat BY <1>0, <3>2, NamesPlaced, NamesTypes
    <3>4. table' \in [RunIds -> 0..Len(worker)] BY <3>1, <3>3 DEF NamesOK
    <3> QED BY <3>1, <3>3, <3>4 DEF NamesOK, S!Requests
  <2>5. CASE S!ServerStep
    <3>1. CASE S!JoinRequests BY <3>1 DEF S!JoinRequests, NamesOK, S!Requests
    <3> QED BY <2>5, <3>1, NamesSnapshot, NamesJoin DEF S!ServerStep
  <2> QED BY <1>2, <2>1, <2>2, <2>3, <2>4, <2>5 DEF S!Next
<1> QED BY <1>1, <1>2 DEF ViewsNext

(* A step of the two components is one of the streams, or leaves them alone.  *)
LEMMA StreamsInViews == [ViewsNext]_<<part, vars, svars>> => [Next]_vars
BY DEF ViewsNext

(* However many lines, runs and streams there are, every variable has its type: the   *)
(* requests, the table of TaskRunner and the list that serve joins name run threads    *)
(* that exist, and the answers name requests that were read.                    *)
THEOREM ViewsTyped == ViewsSpec => []ViewsTypeOK
<1> DEFINE I == LInv /\ SessionInv /\ NamesOK
<1>1. ViewsInit => I BY InitLInv, InitSession, NamesInit DEF ViewsInit
<1>2. I /\ [ViewsNext]_<<part, vars, svars>> => I'
  BY StreamsInViews, NextLInv, NextSession, NamesNext
<1>3. I => ViewsTypeOK
  <2> SUFFICES ASSUME I PROVE ViewsTypeOK
    OBVIOUS
  <2>1. TypeOK BY DEF LInv
  <2>2. line \in Seq([kind : S!Kinds, run : RunIds]) /\ Len(thread) = Len(line)
    BY NamesTypes DEF Lines
  <2>3. \A i \in S!Requests : thread[i].at \in {"handle", "start", "write", "follow", "ended"}
    BY NamesTypes DEF Threads
  <2>4. \A w \in S!Workers : worker[w].at \in {"new", "running", "leaving", "ended"}
    BY NamesTypes DEF RunThreads
  <2>5. S!TypeOK
    BY <2>2, <2>3, <2>4 DEF S!TypeOK, NamesOK, SessionInv, NoneTwice, S!Workers
  <2> QED BY <2>1, <2>5 DEF ViewsTypeOK, SessionTypeOK
<1> QED BY <1>1, <1>2, <1>3, PTL DEF ViewsSpec
=============================================================================

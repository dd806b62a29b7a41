---------------------------- MODULE OutboxProofs ----------------------------
(***************************************************************************)
(* Proofs about the event publisher, for any set of streams, any batch     *)
(* limit and any number of events, crashes and late requests: CoreSpec of  *)
(* module Outbox delivers every stream in order and exactly once, and      *)
(* implements the safety part of EventLog; under Spec, whose server may    *)
(* forget the producer and whose database may be put back from a backup,   *)
(* the queues stay ordered and, without a restore, no event is lost.       *)
(***************************************************************************)
EXTENDS Outbox, FiniteSetTheorems, TLAPS

(* The tables agree: the k-th event of a stream has sequence k-1. *)
QueueInv ==
    \A s \in Streams :
        /\ producers[s].next = accepted[s]
        /\ accepted[s] = 0 => producers[s] = NoRow
        /\ accepted[s] > 0 => producers[s].epoch > 0
        /\ \A r \in outbox[s] : r.ev = r.seq + 1 /\ r.ev <= accepted[s]

(* The server has a prefix of the accepted events; what it misses is       *)
(* queued, and of what it has only the last event may still be queued.     *)
ServerInv ==
    \A s \in Streams :
        /\ server[s].expected = Len(log[s])
        /\ Len(log[s]) = 0 => server[s].epoch = 0
        /\ Len(log[s]) > 0 => server[s].epoch = producers[s].epoch
        /\ Len(log[s]) <= accepted[s]
        /\ \A i \in 1..Len(log[s]) : log[s][i] = i
        /\ \A e \in 1..accepted[s] :
               e > Len(log[s]) => \E r \in outbox[s] : r.ev = e
        /\ \A r \in outbox[s] : r.ev >= Len(log[s])

(* A request asks for an event that has no queued predecessor. *)
GoodRequest(q) ==
    /\ q \in Request
    /\ q.ev = q.seq + 1 /\ q.ev <= accepted[q.stream]
    /\ q.epoch = producers[q.stream].epoch
    /\ \A r \in outbox[q.stream] : r.ev >= q.ev

LateInv == \A q \in late : GoodRequest(q)

(* The batch is the front of the queue, and only an event the server has   *)
(* is about to be deleted.                                                 *)
FlushInv ==
    /\ fpc \in {"send", "delete"} =>
           /\ batch # {} => fepoch = producers[cur].epoch
           /\ batch \subseteq outbox[cur]
           /\ \A b \in batch : \A r \in outbox[cur] : r.ev < b.ev => r \in batch
    /\ fpc = "delete" => /\ IsFirst(item, batch)
                         /\ item.ev <= Len(log[cur])
    /\ fpc # "renumber"

IInv == TypeOK /\ QueueInv /\ ServerInv /\ LateInv /\ FlushInv

-----------------------------------------------------------------------------
(* What a step leaves alone keeps its type. *)
LEMMA TypeFrame ==
    ASSUME TypeOK
    PROVE  /\ UNCHANGED dbVars => DatabaseType'
           /\ UNCHANGED procVars => FlusherType'
           /\ UNCHANGED <<srvVars, late>> => NetworkType'
           /\ UNCHANGED <<clock, histVars>> => HistoryType'
BY DEF TypeOK, DatabaseType, FlusherType, NetworkType, HistoryType,
       dbVars, procVars, srvVars, histVars

(* enqueue keeps the tables' types and counts the event. *)
LEMMA EnqueueType ==
    ASSUME TypeOK, NEW s \in Streams, Enqueue(s), UNCHANGED <<digest, clock, floor>>
    PROVE  DatabaseType' /\ HistoryType'
<1> USE DEF TypeOK, DatabaseType, HistoryType, Row
<1> DEFINE new == [ev |-> accepted[s] + 1, seq |-> producers[s].next]
<1>1. new \in Row /\ outbox' = [outbox EXCEPT ![s] = @ \cup {new}]
  BY DEF Enqueue
<1>2. IsFiniteSet(outbox[s] \cup {new})
  BY FS_AddElement
<1> HIDE DEF new
<1>3. outbox' \in [Streams -> SUBSET Row]
  BY <1>1
<1>4. \A t \in Streams : IsFiniteSet(outbox'[t])
  BY <1>1, <1>2
<1>5. producers' \in [Streams -> [epoch : Nat, next : Nat]]
  BY DEF Enqueue
<1>6. accepted' \in [Streams -> Nat]
  BY DEF Enqueue
<1> QED BY <1>3, <1>4, <1>5, <1>6

(* The server's reply to a well-formed request keeps the network's types. *)
LEMMA ServeType ==
    ASSUME TypeOK, NEW q \in Request, Serve(q), late' \subseteq Request
    PROVE  NetworkType'
<1> USE DEF TypeOK, NetworkType, srvVars, Request
<1>1. CASE Verdict(server[q.stream], q.epoch, q.seq) = "append"
  <2>1. server' = [server EXCEPT ![q.stream] =
                       [epoch |-> q.epoch, expected |-> q.seq + 1]]
    BY <1>1 DEF Serve
  <2>2. log' = [log EXCEPT ![q.stream] = Append(@, q.ev)]
    BY <1>1 DEF Serve
  <2>3. Append(log[q.stream], q.ev) \in Seq(Nat)
    OBVIOUS
  <2> QED BY <2>1, <2>2, <2>3
<1>2. CASE Verdict(server[q.stream], q.epoch, q.seq) # "append"
  BY <1>2 DEF Serve
<1> QED BY <1>1, <1>2

(* A flushStream that gives up leaves the flusher between two streams. *)
LEMMA AbandonType ==
    ASSUME TypeOK, Abandon
    PROVE  FlusherType'
BY DEF TypeOK, FlusherType, Abandon, FlusherPC, Row, NoItem

(* What flushStream sends is well formed. *)
LEMMA AppendOfType ==
    ASSUME TypeOK, cur \in Streams, NEW r \in batch
    PROVE  AppendOf(r) \in Request
BY DEF TypeOK, FlusherType, AppendOf, Request, Row

(* Renumbering keeps the tables' types. *)
LEMMA RenumberType ==
    ASSUME TypeOK, Renumber
    PROVE  DatabaseType'
<1> USE DEF TypeOK, DatabaseType, FlusherType
<1> DEFINE rows == outbox[cur]
           new(r) == [ev |-> r.ev, seq |-> Rank(r, rows)]
           renumbered == {new(r) : r \in rows}
<1>1. cur \in Streams /\ IsFiniteSet(rows) /\ rows \subseteq Row
  BY DEF Renumber
<1>2. ASSUME NEW r \in rows PROVE Rank(r, rows) \in Nat
  <2>1. IsFiniteSet({q \in rows : q.seq < r.seq})
    BY <1>1, FS_Subset
  <2> QED BY <2>1, FS_CardinalityType DEF Rank
<1>3. renumbered \subseteq Row
  BY <1>1, <1>2 DEF Row
<1>4. IsFiniteSet(renumbered)
  <2> DEFINE f == [r \in rows |-> new(r)]
  <2>1. f \in Surjection(rows, renumbered)
    BY DEF Surjection
  <2> QED BY <1>1, <2>1, FS_Surjection
<1>5. Cardinality(rows) \in Nat
  BY <1>1, FS_CardinalityType
<1>6. outbox' = [outbox EXCEPT ![cur] = renumbered]
  BY DEF Renumber
<1> HIDE DEF renumbered
<1>7. producers' \in [Streams -> [epoch : Nat, next : Nat]]
  BY <1>1, <1>5 DEF Renumber, HistoryType
<1>8. \A t \in Streams : IsFiniteSet(outbox'[t])
  BY <1>1, <1>4, <1>6
<1>9. outbox' \in [Streams -> SUBSET Row]
  BY <1>1, <1>3, <1>6
<1> QED BY <1>7, <1>8, <1>9 DEF Renumber

(* Every step keeps the types. *)
LEMMA TypeStep == TypeOK /\ [CoreNext]_vars => TypeOK'
<1> SUFFICES ASSUME TypeOK, [CoreNext]_vars PROVE TypeOK'
  OBVIOUS
<1> USE ConstantsAssumption
<1> USE DEF envVars
<1>1. ASSUME NEW s \in Streams, Emit(s) PROVE TypeOK'
  BY <1>1, TypeFrame, EnqueueType DEF Emit, TypeOK
<1>2. CASE QueueDefinition
  <2>1. FlusherType'
    BY <1>2 DEF QueueDefinition, TypeOK, FlusherType
  <2> QED BY <1>2, <2>1, TypeFrame, EnqueueType DEF QueueDefinition, TypeOK
<1>3. CASE StoreDigest
  <2>1. FlusherType'
    BY <1>3 DEF StoreDigest, TypeOK, FlusherType, FlusherPC
  <2>2. DatabaseType'
    BY <1>3 DEF StoreDigest, TypeOK, DatabaseType
  <2> QED BY <1>3, <2>1, <2>2, TypeFrame DEF StoreDigest, TypeOK
<1>4. CASE DefinitionsUnchanged
  <2>1. FlusherType'
    BY <1>4 DEF DefinitionsUnchanged, TypeOK, FlusherType, FlusherPC
  <2> QED BY <1>4, <2>1, TypeFrame DEF DefinitionsUnchanged, TypeOK
<1>5. CASE FlushStart
  <2>1. FlusherType'
    BY <1>5 DEF FlushStart, TypeOK, FlusherType, FlusherPC
  <2> QED BY <1>5, <2>1, TypeFrame DEF FlushStart, TypeOK
<1>6. CASE FlushEnd
  <2>1. FlusherType'
    BY <1>6 DEF FlushEnd, TypeOK, FlusherType, FlusherPC
  <2> QED BY <1>6, <2>1, TypeFrame DEF FlushEnd, TypeOK
<1>7. CASE PickStream
  <2>1. FlusherType'
    BY <1>7 DEF PickStream, TypeOK, FlusherType, FlusherPC
  <2> QED BY <1>7, <2>1, TypeFrame DEF PickStream, TypeOK
<1>8. CASE CreateStream
  <2>1. FlusherType'
    BY <1>8 DEF CreateStream, TypeOK, FlusherType, FlusherPC
  <2> QED BY <1>8, <2>1, TypeFrame DEF CreateStream, TypeOK
<1>9. CASE PrepareFails
  BY <1>9, TypeFrame, AbandonType DEF PrepareFails, TypeOK
<1>10. CASE ReadBatch
  <2>1. cur \in Streams /\ Batch(outbox[cur]) \subseteq Row /\ producers[cur].epoch \in Nat
    BY <1>10 DEF ReadBatch, Batch, TypeOK, DatabaseType, FlusherType
  <2>2. FlusherType'
    BY <1>10, <2>1 DEF ReadBatch, TypeOK, FlusherType, FlusherPC
  <2> QED BY <1>10, <2>2, TypeFrame DEF ReadBatch, TypeOK
<1>11. CASE SendAnswered
  <2>1. cur \in Streams
    BY <1>11 DEF SendAnswered, TypeOK, FlusherType
  <2>2. PICK r \in batch : Serve(AppendOf(r)) /\ item' = r
    BY <1>11 DEF SendAnswered
  <2>3. FlusherType'
    BY <1>11, <2>1, <2>2 DEF SendAnswered, TypeOK, FlusherType, FlusherPC
  <2>4. late' \subseteq Request
    BY <1>11 DEF SendAnswered, TypeOK, NetworkType
  <2>5. NetworkType'
    BY <2>1, <2>2, <2>4, AppendOfType, ServeType
  <2> QED BY <1>11, <2>3, <2>5, TypeFrame DEF SendAnswered, TypeOK
<1>12. CASE SendFails
  <2>1. PICK r \in batch : late' = late \cup {AppendOf(r)}
    BY <1>12 DEF SendFails
  <2>2. AppendOf(r) \in Request
    BY <1>12, AppendOfType DEF SendFails, TypeOK, FlusherType
  <2>3. NetworkType'
    BY <1>12, <2>1, <2>2 DEF SendFails, TypeOK, NetworkType, srvVars
  <2> QED BY <1>12, <2>3, TypeFrame, AbandonType DEF SendFails, TypeOK
<1>13. CASE DeleteRow
  <2>1. cur \in Streams /\ outbox[cur] \subseteq Row /\ IsFiniteSet(outbox[cur])
    BY <1>13 DEF DeleteRow, TypeOK, FlusherType, DatabaseType
  <2>2. IsFiniteSet({r \in outbox[cur] : r.ev # item.ev})
    BY <2>1, FS_Subset
  <2>3. DatabaseType'
    BY <1>13, <2>1, <2>2 DEF DeleteRow, TypeOK, DatabaseType
  <2>4. FlusherType'
    <3>1. CASE Abandon
      BY <3>1, AbandonType
    <3>2. CASE ~Abandon
      BY <1>13, <2>1, <3>2 DEF DeleteRow, TypeOK, FlusherType, FlusherPC, Row, NoItem
    <3> QED BY <3>1, <3>2
  <2> QED BY <1>13, <2>3, <2>4, TypeFrame DEF DeleteRow, TypeOK
<1>14. CASE DeleteFails
  BY <1>14, TypeFrame, AbandonType DEF DeleteFails, TypeOK
<1>15. CASE Renumber
  BY <1>15, TypeFrame, AbandonType, RenumberType DEF Renumber, TypeOK
<1>16. CASE RenumberFails
  BY <1>16, TypeFrame, AbandonType DEF RenumberFails, TypeOK
<1>17. CASE LateArrival
  <2>1. PICK r \in late : Serve(r)
    BY <1>17 DEF LateArrival
  <2>2. r \in Request /\ late' \subseteq Request
    BY <1>17 DEF LateArrival, TypeOK, NetworkType
  <2>3. NetworkType'
    BY <2>1, <2>2, ServeType
  <2> QED BY <1>17, <2>3, TypeFrame DEF LateArrival, TypeOK
<1>18. CASE Tick
  <2>1. HistoryType'
    BY <1>18 DEF Tick, TypeOK, HistoryType, histVars
  <2> QED BY <1>18, <2>1, TypeFrame DEF Tick, TypeOK
<1>19. CASE Crash
  <2>1. FlusherType'
    BY <1>19 DEF Crash, Restart, TypeOK, FlusherType, FlusherPC, Row, NoItem
  <2> QED BY <1>19, <2>1, TypeFrame DEF Crash, TypeOK
<1>20. CASE UNCHANGED vars
  BY <1>20, TypeFrame DEF vars, TypeOK
<1> QED BY <1>1, <1>2, <1>3, <1>4, <1>5, <1>6, <1>7, <1>8, <1>9, <1>10,
           <1>11, <1>12, <1>13, <1>14, <1>15, <1>16, <1>17, <1>18, <1>19,
           <1>20 DEF CoreNext

(* The types hold of an empty database and server. *)
LEMMA TypeInit == Init => TypeOK
<1> SUFFICES ASSUME Init PROVE TypeOK
  OBVIOUS
<1>1. DatabaseType
  BY FS_EmptySet DEF Init, DatabaseType, NoRow
<1>2. FlusherType
  BY ConstantsAssumption DEF Init, FlusherType, FlusherPC, NoItem, Row
<1>3. NetworkType
  BY DEF Init, NetworkType, Unknown
<1>4. HistoryType
  BY DEF Init, HistoryType
<1> QED BY <1>1, <1>2, <1>3, <1>4 DEF TypeOK

(* Every variable of the publisher keeps its type, and flushStream never   *)
(* goes on without its stream.                                             *)
THEOREM TypeCorrect == CoreSpec => []TypeOK
BY TypeInit, TypeStep, PTL DEF CoreSpec
-----------------------------------------------------------------------------
(* The server answers the head of a queue by appending it or by saying it  *)
(* holds it; either way the stream afterwards ends with the requested      *)
(* event or goes beyond it, and nothing is skipped.                        *)
LEMMA ServeKeeps ==
    ASSUME TypeOK, QueueInv, ServerInv, NEW q, GoodRequest(q), Serve(q),
           UNCHANGED <<producers, outbox, accepted>>
    PROVE  /\ ServerInv'
           /\ (\E r \in outbox[q.stream] : r.ev = q.ev) =>
                  /\ Acked(Verdict(server[q.stream], q.epoch, q.seq))
                  /\ q.ev <= Len(log'[q.stream])
<1> DEFINE s == q.stream
           k == Len(log[s])
<1>1. /\ s \in Streams /\ q.ev \in Nat /\ q.seq \in Nat /\ q.epoch \in Nat
      /\ q.ev = q.seq + 1 /\ q.ev <= accepted[s]
      /\ q.epoch = producers[s].epoch
      /\ \A r \in outbox[s] : r.ev >= q.ev
  BY DEF GoodRequest, Request
<1>2. /\ accepted[s] \in Nat /\ k \in Nat /\ log[s] \in Seq(Nat)
      /\ server[s].epoch \in Nat /\ server[s].expected \in Nat
      /\ outbox[s] \subseteq Row
  BY <1>1 DEF TypeOK, HistoryType, NetworkType, DatabaseType
<1>3. q.epoch > 0
  BY <1>1, <1>2 DEF QueueInv
<1>4. q.ev <= k + 1
  <2> SUFFICES ASSUME q.ev > k + 1 PROVE FALSE
    BY <1>1, <1>2
  <2>1. k + 1 \in 1..accepted[s] /\ k + 1 > k
    BY <1>1, <1>2
  <2>2. PICK r \in outbox[s] : r.ev = k + 1
    BY <2>1, <1>1 DEF ServerInv
  <2>3. r.ev >= q.ev
    BY <1>1
  <2> QED BY <2>2, <2>3, <1>1, <1>2
<1>5. Expected(server[s], q.epoch) = k /\ ~(q.epoch < server[s].epoch)
  BY <1>1, <1>2, <1>3 DEF ServerInv, Expected
<1>6. CASE q.seq = k
  <2>1. Verdict(server[s], q.epoch, q.seq) = "append"
    BY <1>1, <1>2, <1>5, <1>6 DEF Verdict
  <2>2. /\ server' = [server EXCEPT ![s] = [epoch |-> q.epoch, expected |-> k + 1]]
        /\ log' = [log EXCEPT ![s] = Append(@, k + 1)]
    BY <2>1, <1>1, <1>6 DEF Serve
  <2>3. /\ server'[s] = [epoch |-> q.epoch, expected |-> k + 1]
        /\ log'[s] = Append(log[s], k + 1)
        /\ \A t \in Streams \ {s} : server'[t] = server[t] /\ log'[t] = log[t]
    BY <2>2, <1>1 DEF TypeOK, NetworkType
  <2>4. /\ Len(log'[s]) = k + 1
        /\ \A i \in 1..(k + 1) : log'[s][i] = i
    BY <2>3, <1>1, <1>2 DEF ServerInv
  <2>5. ASSUME NEW t \in Streams
        PROVE  /\ server'[t].expected = Len(log'[t])
               /\ Len(log'[t]) = 0 => server'[t].epoch = 0
               /\ Len(log'[t]) > 0 => server'[t].epoch = producers'[t].epoch
               /\ Len(log'[t]) <= accepted'[t]
               /\ \A i \in 1..Len(log'[t]) : log'[t][i] = i
               /\ \A e \in 1..accepted'[t] :
                      e > Len(log'[t]) => \E r \in outbox'[t] : r.ev = e
               /\ \A r \in outbox'[t] : r.ev >= Len(log'[t])
    <3>1. CASE t = s
      BY <3>1, <2>3, <2>4, <1>1, <1>2, <1>6 DEF ServerInv
    <3>2. CASE t # s
      BY <3>2, <2>3 DEF ServerInv
    <3> QED BY <3>1, <3>2
  <2> QED BY <2>1, <2>4, <2>5, <1>1, <1>6 DEF ServerInv, Acked
<1>7. CASE q.seq # k
  <2>1. Verdict(server[s], q.epoch, q.seq) # "append"
    BY <1>5, <1>7 DEF Verdict
  <2>2. UNCHANGED <<server, log>>
    BY <2>1 DEF Serve, srvVars
  <2>3. ServerInv'
    BY <2>2 DEF ServerInv
  <2>4. ASSUME NEW r \in outbox[s], r.ev = q.ev
        PROVE  q.seq + 1 = k
    BY <2>4, <1>1, <1>2, <1>4, <1>7 DEF ServerInv
  <2>5. q.seq + 1 = k => Verdict(server[s], q.epoch, q.seq) = "held"
    BY <1>5 DEF Verdict
  <2> QED BY <2>2, <2>3, <2>4, <2>5, <1>1, <1>2 DEF Acked
<1> QED BY <1>6, <1>7

(* The first row of the batch is the first row of the queue, so what       *)
(* flushStream sends has no queued predecessor.                            *)
LEMMA HeadRequest ==
    ASSUME TypeOK, QueueInv, FlushInv, fpc = "send",
           NEW r \in batch, IsFirst(r, batch)
    PROVE  /\ GoodRequest(AppendOf(r))
           /\ \E x \in outbox[cur] : x.ev = AppendOf(r).ev
<1>1. /\ cur \in Streams /\ r \in outbox[cur] /\ outbox[cur] \subseteq Row
      /\ fepoch = producers[cur].epoch
  BY DEF TypeOK, FlusherType, DatabaseType, FlushInv
<1>2. r.ev = r.seq + 1 /\ r.ev <= accepted[cur]
  BY <1>1 DEF QueueInv
<1>3. \A x \in outbox[cur] : x.ev >= r.ev
  <2> SUFFICES ASSUME NEW x \in outbox[cur], x.ev < r.ev PROVE FALSE
    BY <1>1 DEF Row
  <2>1. x \in batch
    BY DEF FlushInv
  <2>2. r.seq <= x.seq
    BY <2>1 DEF IsFirst
  <2>3. x.ev = x.seq + 1
    BY <1>1 DEF QueueInv
  <2> QED BY <2>2, <2>3, <1>1, <1>2 DEF Row
<1>4. AppendOf(r) \in Request
  BY <1>1, AppendOfType
<1> QED BY <1>1, <1>2, <1>3, <1>4 DEF AppendOf, GoodRequest

(* Accepting an event keeps the invariant: the new row is behind every     *)
(* queued row, and a stream that has rows keeps its epoch.                 *)
LEMMA EnqueueKeeps ==
    ASSUME IInv, NEW s \in Streams, Enqueue(s),
           UNCHANGED <<fpc, cur, fepoch, batch, item, srvVars, late>>
    PROVE  QueueInv' /\ ServerInv' /\ LateInv' /\ FlushInv'
<1> DEFINE new == [ev |-> accepted[s] + 1, seq |-> producers[s].next]
<1>1. /\ accepted' = [accepted EXCEPT ![s] = accepted[s] + 1]
      /\ outbox' = [outbox EXCEPT ![s] = outbox[s] \cup {new}]
      /\ producers' = [producers EXCEPT ![s] =
             [epoch |-> IF producers[s] = NoRow THEN clock ELSE producers[s].epoch,
              next |-> producers[s].next + 1]]
  BY DEF Enqueue
<1>2. /\ producers \in [Streams -> [epoch : Nat, next : Nat]]
      /\ outbox \in [Streams -> SUBSET Row]
      /\ accepted \in [Streams -> Nat]
      /\ log \in [Streams -> Seq(Nat)]
      /\ clock \in Nat /\ clock > 0
  BY DEF IInv, TypeOK, DatabaseType, HistoryType, NetworkType
<1>3. new.ev = new.seq + 1 /\ new.ev = accepted[s] + 1
  BY DEF IInv, QueueInv
<1>4. accepted[s] > 0 => producers'[s].epoch = producers[s].epoch
  BY <1>1, <1>2 DEF IInv, QueueInv, NoRow
<1>5. producers'[s].epoch > 0
  BY <1>1, <1>2, <1>4 DEF IInv, QueueInv, NoRow
<1>6. /\ accepted'[s] = accepted[s] + 1
      /\ outbox'[s] = outbox[s] \cup {new}
      /\ producers'[s].next = producers[s].next + 1
      /\ \A t \in Streams \ {s} : /\ accepted'[t] = accepted[t]
                                  /\ outbox'[t] = outbox[t]
                                  /\ producers'[t] = producers[t]
  BY <1>1, <1>2
<1>7. UNCHANGED <<server, log, late>>
  BY DEF srvVars
<1> HIDE DEF new
<1>8. QueueInv'
  <2> SUFFICES ASSUME NEW t \in Streams
               PROVE  /\ producers'[t].next = accepted'[t]
                      /\ accepted'[t] = 0 => producers'[t] = NoRow
                      /\ accepted'[t] > 0 => producers'[t].epoch > 0
                      /\ \A r \in outbox'[t] : r.ev = r.seq + 1 /\ r.ev <= accepted'[t]
    BY DEF QueueInv
  <2>1. CASE t = s
    BY <2>1, <1>2, <1>3, <1>5, <1>6 DEF IInv, QueueInv, Row
  <2>2. CASE t # s
    BY <2>2, <1>6 DEF IInv, QueueInv
  <2> QED BY <2>1, <2>2
<1>9. ServerInv'
  <2> SUFFICES ASSUME NEW t \in Streams
               PROVE  /\ server'[t].expected = Len(log'[t])
                      /\ Len(log'[t]) = 0 => server'[t].epoch = 0
                      /\ Len(log'[t]) > 0 => server'[t].epoch = producers'[t].epoch
                      /\ Len(log'[t]) <= accepted'[t]
                      /\ \A i \in 1..Len(log'[t]) : log'[t][i] = i
                      /\ \A e \in 1..accepted'[t] :
                             e > Len(log'[t]) => \E r \in outbox'[t] : r.ev = e
                      /\ \A r \in outbox'[t] : r.ev >= Len(log'[t])
    BY DEF ServerInv
  <2>1. CASE t = s
    <3>1. Len(log[s]) \in Nat /\ Len(log[s]) <= accepted[s] /\ accepted[s] \in Nat
      BY <1>2 DEF IInv, ServerInv
    <3>2. Len(log[s]) > 0 => server[s].epoch = producers'[s].epoch
      BY <3>1, <1>4 DEF IInv, ServerInv
    <3>3. \A e \in 1..accepted'[s] : e > Len(log[s]) => \E r \in outbox'[s] : r.ev = e
      BY <3>1, <1>3, <1>6 DEF IInv, ServerInv
    <3>4. \A r \in outbox'[s] : r.ev >= Len(log[s])
      BY <3>1, <1>3, <1>6 DEF IInv, ServerInv
    <3> QED BY <2>1, <3>1, <3>2, <3>3, <3>4, <1>6, <1>7 DEF IInv, ServerInv
  <2>2. CASE t # s
    BY <2>2, <1>6, <1>7 DEF IInv, ServerInv
  <2> QED BY <2>1, <2>2
<1>10. LateInv'
  <2> SUFFICES ASSUME NEW q \in late PROVE GoodRequest(q)'
    BY <1>7 DEF LateInv
  <2>1. GoodRequest(q)
    BY DEF IInv, LateInv
  <2>2. CASE q.stream = s
    <3>1. accepted[s] > 0 /\ q.ev <= accepted[s] /\ q.ev \in Nat
      BY <2>1, <2>2, <1>2 DEF GoodRequest, Request
    <3>2. \A r \in outbox'[s] : r.ev >= q.ev
      BY <2>1, <2>2, <3>1, <1>2, <1>3, <1>6 DEF GoodRequest
    <3> QED BY <2>1, <2>2, <3>1, <3>2, <1>2, <1>4, <1>6 DEF GoodRequest
  <2>3. CASE q.stream # s
    BY <2>1, <2>3, <1>6 DEF GoodRequest, Request
  <2> QED BY <2>2, <2>3
<1>11. FlushInv'
  <2>1. CASE fpc \in {"send", "delete"} /\ cur = s
    <3>1. /\ batch \subseteq outbox[s]
          /\ \A b \in batch : \A r \in outbox[s] : r.ev < b.ev => r \in batch
          /\ batch # {} => fepoch = producers[s].epoch
      BY <2>1 DEF IInv, FlushInv
    <3>2. batch # {} => accepted[s] > 0
      BY <3>1, <1>2 DEF IInv, QueueInv, Row
    <3>3. \A b \in batch : b.ev <= accepted[s] /\ b.ev \in Nat
      BY <3>1, <1>2 DEF IInv, QueueInv, Row
    <3>4. \A b \in batch : \A r \in outbox'[s] : r.ev < b.ev => r \in batch
      BY <3>1, <3>3, <1>2, <1>3, <1>6
    <3> QED BY <2>1, <3>1, <3>2, <3>4, <1>4, <1>6, <1>7 DEF IInv, FlushInv, IsFirst
  <2>2. CASE fpc \in {"send", "delete"} /\ cur # s
    <3>1. cur \in Streams \ {s}
      BY <2>2 DEF IInv, TypeOK, FlusherType
    <3> QED BY <2>2, <3>1, <1>6, <1>7 DEF IInv, FlushInv, IsFirst
  <2>3. CASE fpc \notin {"send", "delete"}
    BY <2>3 DEF IInv, FlushInv
  <2> QED BY <2>1, <2>2, <2>3
<1> QED BY <1>8, <1>9, <1>10, <1>11

(* Deleting a row the server holds keeps the invariant. *)
LEMMA DeleteKeeps ==
    ASSUME IInv, DeleteRow
    PROVE  QueueInv' /\ ServerInv' /\ LateInv' /\ FlushInv'
<1> DEFINE rest == {r \in outbox[cur] : r.ev # item.ev}
<1>1. /\ fpc = "delete" /\ cur \in Streams
      /\ outbox' = [outbox EXCEPT ![cur] = rest]
      /\ UNCHANGED <<producers, accepted, server, log, late>>
  BY DEF DeleteRow, IInv, TypeOK, FlusherType, srvVars, histVars
<1>2. /\ outbox'[cur] = rest
      /\ \A t \in Streams \ {cur} : outbox'[t] = outbox[t]
      /\ outbox[cur] \subseteq Row
  BY <1>1 DEF IInv, TypeOK, DatabaseType
<1>3. item.ev <= Len(log[cur]) /\ item \in batch /\ batch \subseteq outbox[cur]
  BY <1>1 DEF IInv, FlushInv, IsFirst
<1>4. QueueInv'
  BY <1>1, <1>2 DEF IInv, QueueInv
<1>5. ServerInv'
  <2> SUFFICES ASSUME NEW t \in Streams
               PROVE  /\ server[t].expected = Len(log[t])
                      /\ Len(log[t]) = 0 => server[t].epoch = 0
                      /\ Len(log[t]) > 0 => server[t].epoch = producers[t].epoch
                      /\ Len(log[t]) <= accepted[t]
                      /\ \A i \in 1..Len(log[t]) : log[t][i] = i
                      /\ \A e \in 1..accepted[t] :
                             e > Len(log[t]) => \E r \in outbox'[t] : r.ev = e
                      /\ \A r \in outbox'[t] : r.ev >= Len(log[t])
    BY <1>1 DEF ServerInv
  <2>1. CASE t = cur
    <3>1. Len(log[cur]) \in Nat /\ item.ev \in Nat
      BY <1>1, <1>2, <1>3 DEF IInv, TypeOK, NetworkType, Row
    <3>2. \A e \in 1..accepted[cur] :
              e > Len(log[cur]) => \E r \in outbox'[cur] : r.ev = e
      BY <3>1, <1>1, <1>2, <1>3 DEF IInv, ServerInv
    <3> QED BY <2>1, <3>2, <1>1, <1>2 DEF IInv, ServerInv
  <2>2. CASE t # cur
    BY <2>2, <1>2 DEF IInv, ServerInv
  <2> QED BY <2>1, <2>2
<1>6. LateInv'
  BY <1>1, <1>2 DEF IInv, LateInv, GoodRequest, Request
<1>7. FlushInv'
  <2>1. CASE batch = {item}
    BY <2>1, <1>1 DEF DeleteRow, Abandon, FlushInv
  <2>2. CASE batch # {item}
    <3>1. /\ batch' = batch \ {item} /\ fpc' = "send" /\ cur' = cur /\ fepoch' = fepoch
      BY <2>2 DEF DeleteRow
    <3>2. \A b \in batch : b.ev = b.seq + 1 /\ b \in Row
      BY <1>1, <1>2, <1>3 DEF IInv, QueueInv
    <3>3. \A b \in batch : b.ev = item.ev => b = item
      BY <3>2, <1>3 DEF Row
    <3>4. batch' \subseteq outbox'[cur]
      BY <3>1, <3>3, <1>2, <1>3
    <3>5. \A b \in batch' : \A r \in outbox'[cur] : r.ev < b.ev => r \in batch'
      BY <3>1, <1>1, <1>2 DEF IInv, FlushInv
    <3>6. batch' # {} => fepoch' = producers'[cur].epoch
      BY <3>1, <1>1, <1>3 DEF IInv, FlushInv
    <3> QED BY <3>1, <3>4, <3>5, <3>6 DEF FlushInv
  <2> QED BY <2>1, <2>2
<1> QED BY <1>4, <1>5, <1>6, <1>7

(* A batch is a front part of the queue. *)
LEMMA BatchIsFront ==
    ASSUME NEW rows \in SUBSET Row, IsFiniteSet(rows),
           NEW b \in Batch(rows), NEW r \in rows, r.seq < b.seq
    PROVE  r \in Batch(rows)
<1> DEFINE below(x) == {q \in rows : q.seq < x.seq}
<1>1. below(r) \subseteq below(b) /\ b \in rows
  BY DEF Batch, Row
<1>2. IsFiniteSet(below(b))
  BY FS_Subset
<1>3. IsFiniteSet(below(r)) /\ Cardinality(below(r)) <= Cardinality(below(b))
  BY <1>1, <1>2, FS_Subset
<1>4. Cardinality(below(r)) \in Nat /\ Cardinality(below(b)) \in Nat
  BY <1>2, <1>3, FS_CardinalityType
<1>5. Cardinality(below(b)) < BatchLimit /\ BatchLimit \in Nat
  BY ConstantsAssumption DEF Batch
<1>6. Cardinality(below(r)) < BatchLimit
  BY <1>3, <1>4, <1>5
<1> QED BY <1>6 DEF Batch

(* A step that leaves the tables, the server and the requests alone keeps  *)
(* what the invariant says of them.                                        *)
LEMMA DatabaseFrame ==
    ASSUME IInv, UNCHANGED <<producers, outbox, accepted, server, log, late>>
    PROVE  QueueInv' /\ ServerInv' /\ LateInv'
BY DEF IInv, QueueInv, ServerInv, LateInv, GoodRequest

(* Every step keeps the inductive invariant. *)
LEMMA InvStep == IInv /\ [CoreNext]_vars => IInv'
<1> SUFFICES ASSUME IInv, [CoreNext]_vars
             PROVE  QueueInv' /\ ServerInv' /\ LateInv' /\ FlushInv'
  BY TypeStep DEF IInv
<1> USE DEF dbVars
<1>1. ASSUME NEW s \in Streams, Emit(s)
      PROVE  QueueInv' /\ ServerInv' /\ LateInv' /\ FlushInv'
  BY <1>1, EnqueueKeeps DEF Emit, procVars
<1>2. CASE QueueDefinition
  BY <1>2, EnqueueKeeps, ConstantsAssumption DEF QueueDefinition
<1>3. CASE StoreDigest
  BY <1>3, DatabaseFrame DEF StoreDigest, srvVars, histVars, FlushInv
<1>4. CASE DefinitionsUnchanged
  BY <1>4, DatabaseFrame DEF DefinitionsUnchanged, srvVars, histVars, FlushInv
<1>5. CASE FlushStart
  BY <1>5, DatabaseFrame DEF FlushStart, srvVars, histVars, FlushInv
<1>6. CASE FlushEnd
  BY <1>6, DatabaseFrame DEF FlushEnd, srvVars, histVars, FlushInv
<1>7. CASE PickStream
  BY <1>7, DatabaseFrame DEF PickStream, srvVars, histVars, FlushInv
<1>8. CASE CreateStream
  BY <1>8, DatabaseFrame DEF CreateStream, srvVars, histVars, FlushInv
<1>9. CASE PrepareFails
  BY <1>9, DatabaseFrame DEF PrepareFails, Abandon, srvVars, histVars, FlushInv
<1>10. CASE ReadBatch
  <2>1. /\ cur \in Streams /\ outbox[cur] \in SUBSET Row /\ IsFiniteSet(outbox[cur])
    BY <1>10 DEF ReadBatch, IInv, TypeOK, FlusherType, DatabaseType
  <2>2. /\ fpc' = "send" /\ cur' = cur /\ fepoch' = producers'[cur].epoch
        /\ batch' = Batch(outbox[cur]) /\ outbox' = outbox
    BY <1>10 DEF ReadBatch
  <2>3. batch' \subseteq outbox[cur]
    BY <2>2 DEF Batch
  <2>4. \A b \in batch' : \A r \in outbox[cur] : r.ev < b.ev => r \in batch'
    <3> SUFFICES ASSUME NEW b \in Batch(outbox[cur]), NEW r \in outbox[cur],
                        r.ev < b.ev
                 PROVE  r \in Batch(outbox[cur])
      BY <2>2
    <3>1. b.ev = b.seq + 1 /\ r.ev = r.seq + 1 /\ b \in Row /\ r \in Row
      BY <2>1 DEF IInv, QueueInv, Batch
    <3>2. r.seq < b.seq
      BY <3>1 DEF Row
    <3> QED BY <3>2, <2>1, BatchIsFront
  <2>5. FlushInv'
    BY <2>2, <2>3, <2>4 DEF FlushInv
  <2> QED BY <1>10, <2>5, DatabaseFrame DEF ReadBatch, srvVars, histVars
<1>11. CASE SendAnswered
  <2>1. PICK r \in batch :
           /\ IsFirst(r, batch) /\ item' = r /\ Serve(AppendOf(r))
           /\ fpc' = IF Acked(Verdict(server[cur], fepoch, r.seq))
                     THEN "delete" ELSE "renumber"
    BY <1>11 DEF SendAnswered
  <2>2. /\ fpc = "send"
        /\ UNCHANGED <<producers, outbox, accepted, late, cur, fepoch, batch>>
    BY <1>11 DEF SendAnswered, histVars
  <2>3. /\ GoodRequest(AppendOf(r))
        /\ \E x \in outbox[cur] : x.ev = AppendOf(r).ev
    BY <2>1, <2>2, HeadRequest DEF IInv
  <2>4. /\ AppendOf(r).stream = cur /\ AppendOf(r).epoch = fepoch
        /\ AppendOf(r).seq = r.seq /\ AppendOf(r).ev = r.ev
    BY DEF AppendOf
  <2>5. /\ ServerInv'
        /\ Acked(Verdict(server[cur], fepoch, r.seq))
        /\ r.ev <= Len(log'[cur])
    BY <2>1, <2>2, <2>3, <2>4, ServeKeeps DEF IInv
  <2>6. QueueInv' /\ LateInv'
    BY <2>2 DEF IInv, QueueInv, LateInv, GoodRequest
  <2>7. FlushInv'
    BY <2>1, <2>2, <2>5 DEF IInv, FlushInv, IsFirst
  <2> QED BY <2>5, <2>6, <2>7
<1>12. CASE SendFails
  <2>1. PICK r \in batch : IsFirst(r, batch) /\ late' = late \cup {AppendOf(r)}
    BY <1>12 DEF SendFails
  <2>2. /\ fpc = "send" /\ Abandon
        /\ UNCHANGED <<producers, outbox, accepted, server, log>>
    BY <1>12 DEF SendFails, srvVars, histVars
  <2>3. GoodRequest(AppendOf(r))
    BY <2>1, <2>2, HeadRequest DEF IInv
  <2>4. LateInv'
    BY <2>1, <2>2, <2>3 DEF IInv, LateInv, GoodRequest
  <2>5. QueueInv' /\ ServerInv'
    BY <2>2 DEF IInv, QueueInv, ServerInv
  <2> QED BY <2>2, <2>4, <2>5 DEF Abandon, FlushInv
<1>13. CASE DeleteRow
  BY <1>13, DeleteKeeps
<1>14. CASE DeleteFails
  BY <1>14, DatabaseFrame DEF DeleteFails, Abandon, srvVars, histVars, FlushInv
<1>15. CASE Renumber
  BY <1>15 DEF Renumber, IInv, FlushInv
<1>16. CASE RenumberFails
  BY <1>16 DEF RenumberFails, IInv, FlushInv
<1>17. CASE LateArrival
  <2>1. PICK q \in late : Serve(q)
    BY <1>17 DEF LateArrival
  <2>2. UNCHANGED <<producers, outbox, accepted, late, fpc, cur, fepoch, batch, item>>
    BY <1>17 DEF LateArrival, procVars, histVars
  <2>3. GoodRequest(q)
    BY DEF IInv, LateInv
  <2>4. ServerInv'
    BY <2>1, <2>2, <2>3, ServeKeeps DEF IInv
  <2>5. QueueInv' /\ LateInv'
    BY <2>2 DEF IInv, QueueInv, LateInv, GoodRequest
  <2>6. \A s \in Streams : Len(log[s]) <= Len(log'[s])
    <3>1. log' = log \/ log' = [log EXCEPT ![q.stream] = Append(@, q.ev)]
      BY <2>1 DEF Serve, srvVars
    <3>2. q.stream \in Streams /\ q.ev \in Nat /\ log \in [Streams -> Seq(Nat)]
      BY <2>3 DEF GoodRequest, Request, IInv, TypeOK, NetworkType
    <3>3. \A s \in Streams : /\ Len(log[s]) \in Nat
                             /\ Len(Append(log[s], q.ev)) = Len(log[s]) + 1
      BY <3>2
    <3> SUFFICES ASSUME NEW s \in Streams PROVE Len(log[s]) <= Len(log'[s])
      OBVIOUS
    <3>4. log'[s] = log[s] \/ log'[s] = Append(log[s], q.ev)
      BY <3>1, <3>2
    <3> QED BY <3>3, <3>4
  <2>7. fpc = "delete" => item.ev <= Len(log'[cur])
    <3> SUFFICES ASSUME fpc = "delete" PROVE item.ev <= Len(log'[cur])
      OBVIOUS
    <3>1. cur \in Streams /\ item.ev \in Nat /\ item.ev <= Len(log[cur])
      BY DEF IInv, TypeOK, FlusherType, FlushInv, Row
    <3>2. Len(log[cur]) \in Nat /\ Len(log'[cur]) \in Nat
      BY <3>1, TypeStep DEF IInv, TypeOK, NetworkType
    <3> QED BY <3>1, <3>2, <2>6
  <2>8. FlushInv'
    BY <2>2, <2>7 DEF IInv, FlushInv, IsFirst
  <2> QED BY <2>4, <2>5, <2>8
<1>18. CASE Tick
  BY <1>18, DatabaseFrame DEF Tick, procVars, srvVars, histVars, IInv, FlushInv, IsFirst
<1>19. CASE Crash
  BY <1>19, DatabaseFrame DEF Crash, Restart, srvVars, histVars, FlushInv
<1>20. CASE UNCHANGED vars
  BY <1>20, DatabaseFrame
     DEF vars, procVars, srvVars, histVars, IInv, FlushInv, IsFirst
<1> QED BY <1>1, <1>2, <1>3, <1>4, <1>5, <1>6, <1>7, <1>8, <1>9, <1>10,
           <1>11, <1>12, <1>13, <1>14, <1>15, <1>16, <1>17, <1>18, <1>19,
           <1>20 DEF CoreNext

(* The inductive invariant holds of an empty database and server. *)
LEMMA InvInit == Init => IInv
<1> SUFFICES ASSUME Init PROVE IInv
  OBVIOUS
<1>1. TypeOK
  BY TypeInit
<1>2. QueueInv
  BY DEF Init, QueueInv, NoRow
<1>3. ServerInv
  BY DEF Init, ServerInv, Unknown
<1>4. LateInv /\ FlushInv
  BY DEF Init, LateInv, FlushInv
<1> QED BY <1>1, <1>2, <1>3, <1>4 DEF IInv

(* The inductive invariant holds for every number of streams, events,      *)
(* crashes and late requests.                                              *)
THEOREM Invariance == CoreSpec => []IInv
BY InvInit, InvStep, PTL DEF CoreSpec

(* Exactly-once, in-order delivery (src/events/events.go:5-9). *)
THEOREM Delivery == CoreSpec => []PublishedInOrder
<1>1. IInv => PublishedInOrder
  BY DEF IInv, ServerInv, PublishedInOrder
<1> QED BY <1>1, Invariance, PTL
-----------------------------------------------------------------------------
(* What a run of queueDefinitions has queued so far was accepted. *)
DefsInv ==
    /\ defs <= accepted[Registry]
    /\ digest => accepted[Registry] >= NDefs

(* A step keeps the count of definitions honest: only an accepted record   *)
(* is counted, nothing is ever un-accepted, and the digest waits for the   *)
(* last record.                                                            *)
LEMMA DefsStep ==
    ASSUME TypeOK, DefsInv, [CoreNext]_vars
    PROVE  DefsInv'
<1>1. /\ Registry \in Streams /\ NDefs \in Nat
      /\ accepted \in [Streams -> Nat] /\ defs \in Nat
  BY ConstantsAssumption DEF TypeOK, HistoryType, FlusherType
<1>2. ASSUME NEW s \in Streams, Emit(s) PROVE DefsInv'
  BY <1>1, <1>2 DEF Emit, Enqueue, procVars, DefsInv
<1>3. CASE QueueDefinition
  BY <1>1, <1>3 DEF QueueDefinition, Enqueue, DefsInv
<1>4. CASE StoreDigest
  BY <1>1, <1>4 DEF StoreDigest, histVars, DefsInv
<1>5. ASSUME UNCHANGED <<digest, accepted>>, UNCHANGED defs \/ defs' = 0
      PROVE  DefsInv'
  BY <1>1, <1>5 DEF DefsInv
<1>6. CASE DefinitionsUnchanged \/ FlushStart \/ FlushEnd \/ PickStream
           \/ CreateStream \/ ReadBatch \/ SendAnswered
  BY <1>5, <1>6 DEF DefinitionsUnchanged, FlushStart, FlushEnd, PickStream,
     CreateStream, ReadBatch, SendAnswered, dbVars, histVars
<1>7. CASE PrepareFails \/ SendFails \/ DeleteRow \/ DeleteFails \/ Renumber
           \/ RenumberFails
  BY <1>5, <1>7 DEF PrepareFails, SendFails, DeleteRow, DeleteFails, Renumber,
     RenumberFails, Abandon, dbVars, histVars
<1>8. CASE LateArrival \/ Tick \/ Crash \/ UNCHANGED vars
  BY <1>5, <1>8 DEF LateArrival, Tick, Crash, Restart, vars, dbVars, procVars,
     histVars
<1> QED BY <1>2, <1>3, <1>4, <1>6, <1>7, <1>8 DEF CoreNext

(* The stored digest vouches for the definitions: a crash anywhere in      *)
(* queueDefinitions makes the next start queue them again                  *)
(* (src/events/events.go:367-407).                                         *)
THEOREM Registration == CoreSpec => []DefinitionsQueued
<1>1. Init => DefsInv
  BY ConstantsAssumption DEF Init, DefsInv
<1>2. DefsInv => DefinitionsQueued
  BY DEF DefsInv, DefinitionsQueued
<1> QED BY <1>1, <1>2, DefsStep, TypeCorrect, PTL DEF CoreSpec
-----------------------------------------------------------------------------
(* Accepting an event is the promise's Accept. *)
LEMMA EnqueueAccepts ==
    ASSUME NEW s \in Streams, Enqueue(s), UNCHANGED log
    PROVE  Promise!Next
BY DEF Enqueue, Promise!Next, Promise!Accept

(* Whatever the server does with a request it may still receive is the     *)
(* promise's Publish or nothing a consumer can see.                        *)
LEMMA ServePublishes ==
    ASSUME IInv, NEW q, GoodRequest(q), Serve(q), UNCHANGED accepted
    PROVE  [Promise!Next]_(Promise!vars)
<1> DEFINE s == q.stream
<1>1. /\ s \in Streams /\ q.ev \in Nat /\ q.seq \in Nat /\ q.epoch \in Nat
      /\ q.ev = q.seq + 1 /\ q.ev <= accepted[s]
      /\ q.epoch = producers[s].epoch
  BY DEF GoodRequest, Request
<1>2. /\ accepted[s] \in Nat /\ Len(log[s]) \in Nat
      /\ server[s].epoch \in Nat /\ server[s].expected \in Nat
  BY <1>1 DEF IInv, TypeOK, HistoryType, NetworkType
<1>3. CASE Verdict(server[s], q.epoch, q.seq) = "append"
  <2>1. q.epoch > 0
    BY <1>1, <1>2 DEF IInv, QueueInv
  <2>2. Expected(server[s], q.epoch) = Len(log[s])
    BY <1>1, <1>2, <2>1 DEF IInv, ServerInv, Expected
  <2>3. q.seq = Len(log[s])
    BY <1>1, <1>2, <1>3, <2>2 DEF Verdict
  <2>4. log' = [log EXCEPT ![s] = Append(@, Len(@) + 1)]
    BY <1>1, <1>3, <2>3 DEF Serve
  <2>5. Len(log[s]) < accepted[s]
    BY <1>1, <1>2, <2>3
  <2>6. Promise!Publish(s)
    BY <2>4, <2>5 DEF Promise!Publish
  <2> QED BY <1>1, <2>6 DEF Promise!Next
<1>4. CASE Verdict(server[s], q.epoch, q.seq) # "append"
  BY <1>4 DEF Serve, srvVars, Promise!vars
<1> QED BY <1>3, <1>4

(* Every step of the publisher is a step of the promise or invisible. *)
LEMMA StepRefines ==
    ASSUME IInv, [CoreNext]_vars
    PROVE  [Promise!Next]_(Promise!vars)
<1>1. ASSUME NEW s \in Streams, Emit(s) PROVE Promise!Next
  BY <1>1, EnqueueAccepts DEF Emit, srvVars
<1>2. CASE QueueDefinition
  BY <1>2, EnqueueAccepts, ConstantsAssumption DEF QueueDefinition, srvVars
<1>3. CASE SendAnswered
  <2>1. PICK r \in batch : IsFirst(r, batch) /\ Serve(AppendOf(r))
    BY <1>3 DEF SendAnswered
  <2>2. GoodRequest(AppendOf(r))
    BY <1>3, <2>1, HeadRequest DEF SendAnswered, IInv
  <2> QED BY <1>3, <2>1, <2>2, ServePublishes DEF SendAnswered, histVars
<1>4. CASE LateArrival
  <2>1. PICK q \in late : Serve(q)
    BY <1>4 DEF LateArrival
  <2> QED BY <1>4, <2>1, ServePublishes DEF LateArrival, IInv, LateInv, histVars
<1>5. CASE StoreDigest \/ DefinitionsUnchanged \/ FlushStart \/ FlushEnd
           \/ PickStream \/ CreateStream \/ PrepareFails \/ ReadBatch
  BY <1>5 DEF StoreDigest, DefinitionsUnchanged, FlushStart, FlushEnd,
     PickStream, CreateStream, PrepareFails, ReadBatch, srvVars, histVars,
     Promise!vars
<1>6. CASE SendFails \/ DeleteRow \/ DeleteFails \/ Renumber \/ RenumberFails
           \/ Tick \/ Crash \/ UNCHANGED vars
  BY <1>6 DEF SendFails, DeleteRow, DeleteFails, Renumber, RenumberFails, Tick,
     Crash, vars, srvVars, histVars, Promise!vars
<1> QED BY <1>1, <1>2, <1>3, <1>4, <1>5, <1>6 DEF CoreNext

(* The publisher implements the safety part of the ordered exactly-once    *)
(* log: a consumer sees nothing an EventLog could not show.                *)
THEOREM Refinement == CoreSpec => Promise!Spec
<1>1. Init => Promise!Init
  BY DEF Init, Promise!Init
<1> QED BY <1>1, StepRefines, Invariance, PTL DEF CoreSpec, Promise!Spec
-----------------------------------------------------------------------------
(* The same publisher under the faults of Spec: the server may forget the  *)
(* producer and the database may be replaced by an older backup, so that   *)
(* renumber is reached and an event's number is no longer its sequence.    *)

(* A backup is a database, and a restore is counted. *)
BackupType ==
    /\ restores \in Nat
    /\ backup.producers \in [Streams -> [epoch : Nat, next : Nat]]
    /\ backup.outbox \in [Streams -> SUBSET Row]
    /\ \A s \in Streams : IsFiniteSet(backup.outbox[s])
    /\ backup.digest \in BOOLEAN

(* A queue of a stream that has accepted n events and whose next sequence  *)
(* is next: no event twice, and sequences in the order of acceptance.      *)
Ordered(rows, next, n) ==
    \A r \in rows :
        /\ r.seq < next /\ r.ev <= n
        /\ \A q \in rows : /\ r.ev < q.ev => r.seq < q.seq
                           /\ r.ev = q.ev => r = q

(* That holds of the tables and of the backup that may replace them. *)
TablesInv ==
    \A s \in Streams :
        /\ Ordered(outbox[s], producers[s].next, accepted[s])
        /\ Ordered(backup.outbox[s], backup.producers[s].next, accepted[s])

(* What the flusher has in hand is still queued, under the epoch it read. *)
InHandInv ==
    /\ fpc \in {"send", "delete"} =>
           /\ batch # {} => fepoch = producers[cur].epoch
           /\ batch \subseteq outbox[cur]
    /\ fpc = "delete" => item \in batch

Delivered(s, e) == \E i \in 1..Len(log[s]) : log[s][i] = e

(* A request is of an older epoch, or its sequence still means its event. *)
Numbered(q) ==
    /\ q.epoch <= producers[q.stream].epoch
    /\ q.epoch = producers[q.stream].epoch =>
           /\ q.seq < producers[q.stream].next
           /\ \A r \in outbox[q.stream] : r.seq = q.seq => r.ev = q.ev

(* The server knows an older epoch, or it has the queued events below the  *)
(* sequence it expects.                                                    *)
Held(s) ==
    /\ server[s].epoch <= producers[s].epoch
    /\ server[s].epoch = producers[s].epoch =>
           /\ server[s].expected <= producers[s].next
           /\ \A r \in outbox[s] :
                  r.seq < server[s].expected => Delivered(s, r.ev)

(* Until a restore, an acknowledgement tells that the event is delivered,  *)
(* whatever the server has forgotten.                                      *)
HeldInv ==
    restores = 0 =>
        /\ \A s \in Streams : Held(s)
        /\ \A q \in late : Numbered(q)
        /\ fpc = "delete" => Delivered(cur, item.ev)
        /\ NoEventLost

FaultInv == TypeOK /\ BackupType /\ TablesInv /\ InHandInv /\ HeldInv

(* Enqueueing, deleting and reading leave a queue in order. *)
LEMMA OrderedAppend ==
    ASSUME NEW rows \in SUBSET Row, NEW next \in Nat, NEW n \in Nat,
           Ordered(rows, next, n)
    PROVE  Ordered(rows \cup {[ev |-> n + 1, seq |-> next]}, next + 1, n + 1)
<1> DEFINE new == [ev |-> n + 1, seq |-> next]
<1>1. new \in Row /\ new.ev = n + 1 /\ new.seq = next
  BY DEF Row
<1>2. \A r \in rows : r.ev \in Nat /\ r.seq \in Nat
  BY DEF Row
<1> HIDE DEF new
<1>3. Ordered(rows \cup {new}, next + 1, n + 1)
  BY <1>1, <1>2 DEF Ordered
<1> QED BY <1>3 DEF new

LEMMA OrderedSubset ==
    ASSUME NEW rows \in SUBSET Row, NEW next \in Nat, NEW n \in Nat, NEW m \in Nat,
           Ordered(rows, next, n), n <= m,
           NEW fewer \in SUBSET rows
    PROVE  Ordered(fewer, next, m)
<1>1. \A r \in rows : r.ev \in Nat
  BY DEF Row
<1> QED BY <1>1 DEF Ordered

(* Renumbering by rank keeps the order and leaves the queue below its      *)
(* length: a row that is accepted later has more rows before it.           *)
LEMMA OrderedRenumber ==
    ASSUME NEW rows \in SUBSET Row, IsFiniteSet(rows), NEW next \in Nat,
           NEW n \in Nat, Ordered(rows, next, n)
    PROVE  Ordered({[ev |-> r.ev, seq |-> Rank(r, rows)] : r \in rows},
                   Cardinality(rows), n)
<1> DEFINE before(r) == {q \in rows : q.seq < r.seq}
           new(r) == [ev |-> r.ev, seq |-> Rank(r, rows)]
<1>1. \A r \in rows : r.ev \in Nat /\ r.seq \in Nat
  BY DEF Row
<1>2. Cardinality(rows) \in Nat
  BY FS_CardinalityType
<1>3. ASSUME NEW r \in rows
      PROVE  /\ IsFiniteSet(before(r)) /\ Rank(r, rows) \in Nat
             /\ Rank(r, rows) = Cardinality(before(r))
             /\ Rank(r, rows) < Cardinality(rows)
  <2>1. IsFiniteSet(before(r))
    BY FS_Subset
  <2>2. Cardinality(before(r)) \in Nat
    BY <2>1, FS_CardinalityType
  <2>3. Rank(r, rows) = Cardinality(before(r))
    BY DEF Rank
  <2>4. before(r) \subseteq rows /\ before(r) # rows
    BY <1>1
  <2>5. Cardinality(before(r)) < Cardinality(rows)
    BY <2>4, FS_Subset, <1>2, <2>2
  <2> QED BY <2>1, <2>2, <2>3, <2>5
<1>4. ASSUME NEW r \in rows, NEW q \in rows, r.ev < q.ev
      PROVE  Rank(r, rows) < Rank(q, rows)
  <2>1. r.seq < q.seq
    BY <1>4 DEF Ordered
  <2>2. before(r) \subseteq before(q) /\ before(r) # before(q)
    BY <1>1, <2>1
  <2>3. IsFiniteSet(before(q)) /\ Cardinality(before(q)) \in Nat
        /\ Cardinality(before(r)) \in Nat
    BY <1>3
  <2> HIDE DEF before
  <2>4. Cardinality(before(r)) < Cardinality(before(q))
    BY <2>2, <2>3, FS_Subset
  <2> QED BY <2>4, <1>3
<1>5. ASSUME NEW x \in {new(r) : r \in rows}
      PROVE  /\ x.seq < Cardinality(rows) /\ x.ev <= n
             /\ \A y \in {new(r) : r \in rows} :
                    /\ x.ev < y.ev => x.seq < y.seq
                    /\ x.ev = y.ev => x = y
  <2>1. PICK r \in rows : x = new(r)
    OBVIOUS
  <2>2. x.ev = r.ev /\ x.seq = Rank(r, rows)
    BY <2>1
  <2>3. x.seq < Cardinality(rows) /\ x.ev <= n
    BY <2>2, <1>3 DEF Ordered
  <2>4. ASSUME NEW y \in {new(q) : q \in rows}
        PROVE  /\ x.ev < y.ev => x.seq < y.seq
               /\ x.ev = y.ev => x = y
    <3>1. PICK q \in rows : y = new(q)
      OBVIOUS
    <3>2. y.ev = q.ev /\ y.seq = Rank(q, rows)
      BY <3>1
    <3>3. x.ev < y.ev => x.seq < y.seq
      BY <2>2, <3>2, <1>4
    <3>4. x.ev = y.ev => r = q
      BY <2>2, <3>2 DEF Ordered
    <3> QED BY <3>3, <3>4, <2>1, <3>1
  <2> QED BY <2>3, <2>4
<1> QED BY <1>5 DEF Ordered

(* No step of the publisher touches a backup. *)
LEMMA CoreKeepsBackup ==
    ASSUME [CoreNext]_vars
    PROVE  UNCHANGED <<backup, restores>>
<1> USE DEF envVars
<1>1. CASE \E s \in Streams : Emit(s)
  BY <1>1 DEF Emit
<1>2. CASE QueueDefinition \/ StoreDigest \/ DefinitionsUnchanged \/ FlushStart
           \/ FlushEnd \/ PickStream \/ CreateStream
  BY <1>2 DEF QueueDefinition, StoreDigest, DefinitionsUnchanged, FlushStart,
     FlushEnd, PickStream, CreateStream
<1>3. CASE PrepareFails \/ ReadBatch \/ SendAnswered \/ SendFails \/ DeleteRow
           \/ DeleteFails
  BY <1>3 DEF PrepareFails, ReadBatch, SendAnswered, SendFails, DeleteRow, DeleteFails
<1>4. CASE Renumber \/ RenumberFails \/ LateArrival \/ Tick \/ Crash \/ UNCHANGED vars
  BY <1>4 DEF Renumber, RenumberFails, LateArrival, Tick, Crash, vars
<1> QED BY <1>1, <1>2, <1>3, <1>4 DEF CoreNext

(* The faults keep the types, too. *)
LEMMA FaultTypeStep ==
    ASSUME TypeOK, BackupType, [Next]_vars
    PROVE  TypeOK' /\ BackupType'
<1>1. CASE [CoreNext]_vars
  <2>1. UNCHANGED <<backup, restores>>
    BY <1>1, CoreKeepsBackup
  <2> QED BY <1>1, <2>1, TypeStep DEF BackupType
<1>2. ASSUME NEW s \in Streams, Forget(s) PROVE TypeOK' /\ BackupType'
  <2>1. NetworkType'
    BY <1>2 DEF Forget, TypeOK, NetworkType, Unknown
  <2>2. BackupType'
    BY <1>2 DEF Forget, BackupType
  <2> QED BY <1>2, <2>1, <2>2, TypeFrame DEF Forget, TypeOK
<1>3. CASE TakeBackup
  <2>1. BackupType'
    BY <1>3 DEF TakeBackup, BackupType, TypeOK, DatabaseType
  <2> QED BY <1>3, <2>1, TypeFrame DEF TakeBackup, TypeOK
<1>4. CASE RestoreDatabase
  <2>1. BackupType'
    BY <1>4, FS_EmptySet DEF RestoreDatabase, BackupType, NoBackup, NoRow
  <2>2. FlusherType'
    BY <1>4, ConstantsAssumption
    DEF RestoreDatabase, Restart, TypeOK, FlusherType, FlusherPC, Row, NoItem
  <2>3. DatabaseType'
    BY <1>4 DEF RestoreDatabase, DatabaseType, BackupType
  <2>4. HistoryType'
    BY <1>4 DEF RestoreDatabase, TypeOK, HistoryType
  <2> QED BY <1>4, <2>1, <2>2, <2>3, <2>4, TypeFrame DEF RestoreDatabase, TypeOK
<1> QED BY <1>1, <1>2, <1>3, <1>4 DEF Next
-----------------------------------------------------------------------------
(* enqueue numbers the event above everything the server or a request in   *)
(* flight knows of the epoch.                                              *)
LEMMA EnqueueUnderFaults ==
    ASSUME FaultInv, NEW s \in Streams, Enqueue(s),
           UNCHANGED <<fpc, cur, fepoch, batch, item, server, log, late,
                       backup, restores, floor>>
    PROVE  TablesInv' /\ InHandInv' /\ HeldInv'
<1> DEFINE new == [ev |-> accepted[s] + 1, seq |-> producers[s].next]
           row == [epoch |-> IF producers[s] = NoRow THEN clock
                             ELSE producers[s].epoch,
                   next |-> producers[s].next + 1]
<1>1. /\ producers[s].next \in Nat /\ producers[s].epoch \in Nat
      /\ clock \in Nat /\ clock > 0
      /\ accepted[s] \in Nat /\ outbox[s] \subseteq Row
      /\ producers[s] = [epoch |-> producers[s].epoch, next |-> producers[s].next]
  BY DEF FaultInv, TypeOK, DatabaseType, HistoryType
<1>2. /\ producers' = [producers EXCEPT ![s] = row]
      /\ outbox' = [outbox EXCEPT ![s] = @ \cup {new}]
      /\ accepted' = [accepted EXCEPT ![s] = @ + 1]
  BY DEF Enqueue
<1>3. /\ new.ev = accepted[s] + 1 /\ new.seq = producers[s].next /\ new \in Row
      /\ row.next = producers[s].next + 1
      /\ row.epoch >= producers[s].epoch /\ row.epoch \in Nat
      /\ producers[s] = NoRow => row.epoch > 0 /\ producers[s].epoch = 0
                                 /\ producers[s].next = 0
      /\ producers[s] # NoRow => row.epoch = producers[s].epoch
  BY <1>1 DEF Row, NoRow
<1> HIDE DEF new, row
<1>4. /\ producers'[s] = row /\ outbox'[s] = outbox[s] \cup {new}
      /\ accepted'[s] = accepted[s] + 1
      /\ \A t \in Streams \ {s} : /\ producers'[t] = producers[t]
                                  /\ outbox'[t] = outbox[t]
                                  /\ accepted'[t] = accepted[t]
  BY <1>2 DEF FaultInv, TypeOK, DatabaseType, HistoryType
<1>5. TablesInv'
  <2> SUFFICES ASSUME NEW t \in Streams
               PROVE  /\ Ordered(outbox'[t], producers'[t].next, accepted'[t])
                      /\ Ordered(backup.outbox[t], backup.producers[t].next,
                                 accepted'[t])
    BY DEF TablesInv
  <2>1. /\ Ordered(outbox[t], producers[t].next, accepted[t])
        /\ Ordered(backup.outbox[t], backup.producers[t].next, accepted[t])
    BY DEF FaultInv, TablesInv
  <2>2. CASE t # s
    BY <2>1, <2>2, <1>4
  <2>3. CASE t = s
    <3>1. Ordered(outbox[s] \cup {new}, producers[s].next + 1, accepted[s] + 1)
      BY <2>1, <2>3, <1>1, OrderedAppend DEF new
    <3>2. Ordered(backup.outbox[s], backup.producers[s].next, accepted[s] + 1)
      <4>1. backup.outbox[s] \in SUBSET Row /\ backup.producers[s].next \in Nat
        BY DEF FaultInv, BackupType
      <4> QED BY <2>1, <2>3, <1>1, <4>1, OrderedSubset
    <3> QED BY <2>3, <3>1, <3>2, <1>3, <1>4
  <2> QED BY <2>2, <2>3
<1>6. InHandInv'
  <2>1. fpc \in {"send", "delete"} => cur \in Streams
    BY DEF FaultInv, TypeOK, FlusherType
  <2>2. \A r \in outbox[s] : r.seq \in Nat /\ r.seq < producers[s].next
    BY <1>1 DEF FaultInv, TablesInv, Ordered, Row
  <2>3. outbox[s] # {} => producers[s] # NoRow
    BY <2>2, <1>1 DEF NoRow
  <2> QED BY <2>1, <2>3, <1>3, <1>4 DEF FaultInv, InHandInv
<1>7. HeldInv'
  <2> SUFFICES ASSUME restores = 0
               PROVE  /\ \A t \in Streams : Held(t)'
                      /\ \A q \in late : Numbered(q)'
                      /\ fpc = "delete" => Delivered(cur, item.ev)'
                      /\ NoEventLost'
    BY DEF HeldInv
  <2>1. /\ \A t \in Streams : Held(t)
        /\ \A q \in late : Numbered(q)
        /\ fpc = "delete" => Delivered(cur, item.ev)
        /\ NoEventLost
    BY DEF FaultInv, HeldInv
  <2>2. \A t \in Streams : \A e : Delivered(t, e)' <=> Delivered(t, e)
    BY DEF Delivered
  <2>3. ASSUME NEW t \in Streams PROVE Held(t)'
    <3>1. CASE t # s
      BY <3>1, <2>1, <2>2, <1>4 DEF Held
    <3>2. CASE t = s
      <4>1. server[s].epoch \in Nat /\ server[s].expected \in Nat
        BY DEF FaultInv, TypeOK, NetworkType
      <4> QED BY <3>2, <4>1, <2>1, <2>2, <1>1, <1>3, <1>4 DEF Held
    <3> QED BY <3>1, <3>2
  <2>4. ASSUME NEW q \in late PROVE Numbered(q)'
    <3>1. q.stream \in Streams /\ q.epoch \in Nat /\ q.seq \in Nat /\ q.ev \in Nat
      BY DEF FaultInv, TypeOK, NetworkType, Request
    <3>2. CASE q.stream # s
      BY <3>1, <3>2, <2>1, <1>4 DEF Numbered
    <3>3. CASE q.stream = s
      BY <3>1, <3>3, <2>1, <1>1, <1>3, <1>4 DEF Numbered
    <3> QED BY <3>2, <3>3
  <2>5. NoEventLost'
    <3> SUFFICES ASSUME NEW t \in Streams, NEW e \in (floor[t] + 1)..accepted'[t]
                 PROVE  (\E r \in outbox'[t] : r.ev = e) \/ Delivered(t, e)
      BY <2>2 DEF NoEventLost, Delivered
    <3>1. floor[t] \in Nat /\ accepted[t] \in Nat
      BY DEF FaultInv, TypeOK, HistoryType
    <3>2. e \in (floor[t] + 1)..accepted[t] =>
              (\E r \in outbox[t] : r.ev = e) \/ Delivered(t, e)
      BY <2>1 DEF NoEventLost, Delivered
    <3>3. e \in (floor[t] + 1)..accepted[t] \/ (t = s /\ e = new.ev)
      BY <3>1, <1>3, <1>4
    <3> QED BY <3>2, <3>3, <1>4
  <2>6. fpc = "delete" => Delivered(cur, item.ev)'
    BY <2>1 DEF Delivered
  <2> QED BY <2>3, <2>4, <2>5, <2>6
<1> QED BY <1>5, <1>6, <1>7

(* A request whose sequence means its event is answered truthfully: if it  *)
(* is acknowledged the stream has the event, and what the server says it   *)
(* holds it does hold.                                                     *)
LEMMA ServeUnderFaults ==
    ASSUME FaultInv, restores = 0, NEW q \in Request, Numbered(q), Serve(q),
           UNCHANGED <<producers, outbox, accepted, floor>>
    PROVE  /\ \A s \in Streams : Held(s)'
           /\ \A s \in Streams : \A e : Delivered(s, e) => Delivered(s, e)'
           /\ NoEventLost'
           /\ (/\ Acked(Verdict(server[q.stream], q.epoch, q.seq))
               /\ q.epoch = producers[q.stream].epoch
               /\ \E r \in outbox[q.stream] : r.seq = q.seq /\ r.ev = q.ev)
              => Delivered(q.stream, q.ev)'
<1> DEFINE s == q.stream
<1>1. /\ s \in Streams /\ q.epoch \in Nat /\ q.seq \in Nat /\ q.ev \in Nat
      /\ server[s].epoch \in Nat /\ server[s].expected \in Nat
      /\ producers[s].epoch \in Nat /\ producers[s].next \in Nat
      /\ outbox[s] \subseteq Row
      /\ \A t \in Streams : log[t] \in Seq(Nat)
      /\ \A t \in Streams : floor[t] \in Nat /\ accepted[t] \in Nat
  BY DEF FaultInv, TypeOK, DatabaseType, NetworkType, HistoryType, Request
<1>2. /\ \A t \in Streams : Held(t)
      /\ NoEventLost
  BY DEF FaultInv, HeldInv
<1>3. CASE Verdict(server[s], q.epoch, q.seq) = "append"
  <2>1. q.seq = Expected(server[s], q.epoch) /\ q.epoch >= server[s].epoch
    BY <1>1, <1>3 DEF Verdict
  <2>2. /\ server' = [server EXCEPT ![s] = [epoch |-> q.epoch, expected |-> q.seq + 1]]
        /\ log' = [log EXCEPT ![s] = Append(@, q.ev)]
    BY <1>3 DEF Serve
  <2>3. /\ server'[s].epoch = q.epoch /\ server'[s].expected = q.seq + 1
        /\ log'[s] = Append(log[s], q.ev)
        /\ \A t \in Streams \ {s} : server'[t] = server[t] /\ log'[t] = log[t]
    BY <2>2, <1>1 DEF FaultInv, TypeOK, NetworkType
  <2>4. Delivered(s, q.ev)'
    <3>1. /\ Len(log'[s]) = Len(log[s]) + 1 /\ Len(log[s]) \in Nat
          /\ log'[s][Len(log[s]) + 1] = q.ev
      BY <2>3, <1>1
    <3>2. Len(log[s]) + 1 \in 1..Len(log'[s])
      BY <3>1
    <3> QED BY <3>1, <3>2 DEF Delivered
  <2>5. ASSUME NEW t \in Streams, NEW e, Delivered(t, e) PROVE Delivered(t, e)'
    <3>1. CASE t # s
      BY <3>1, <2>3, <2>5 DEF Delivered
    <3>2. CASE t = s
      <4>1. PICK i \in 1..Len(log[s]) : log[s][i] = e
        BY <3>2, <2>5 DEF Delivered
      <4>2. i \in 1..Len(log'[s]) /\ log'[s][i] = e
        BY <4>1, <2>3, <1>1
      <4> QED BY <3>2, <4>2 DEF Delivered
    <3> QED BY <3>1, <3>2
  <2>6. ASSUME NEW t \in Streams PROVE Held(t)'
    <3>1. CASE t # s
      BY <3>1, <2>3, <2>5, <1>2 DEF Held
    <3>2. CASE t = s
      <4>1. server'[s].epoch <= producers[s].epoch
        BY <2>3 DEF Numbered
      <4>2. ASSUME q.epoch = producers[s].epoch
            PROVE  /\ q.seq + 1 <= producers[s].next
                   /\ \A r \in outbox[s] : r.seq < q.seq + 1 => Delivered(s, r.ev)'
        <5>1. q.seq + 1 <= producers[s].next
          BY <4>2, <1>1 DEF Numbered
        <5>2. ASSUME NEW r \in outbox[s], r.seq < q.seq + 1 PROVE Delivered(s, r.ev)'
          <6>1. r.seq \in Nat
            BY <1>1 DEF Row
          <6>2. CASE r.seq = q.seq
            BY <6>2, <4>2, <2>4 DEF Numbered
          <6>3. CASE r.seq < q.seq
            <7>1. q.epoch = server[s].epoch /\ q.seq = server[s].expected
              BY <6>1, <6>3, <2>1, <1>1 DEF Expected
            <7>2. Delivered(s, r.ev)
              BY <7>1, <6>3, <4>2, <1>1, <1>2 DEF Held
            <7> QED BY <7>2, <2>5, <1>1
          <6> QED BY <5>2, <6>1, <6>2, <6>3, <1>1
        <5> QED BY <5>1, <5>2
      <4> QED BY <3>2, <4>1, <4>2, <2>3 DEF Held
    <3> QED BY <3>1, <3>2
  <2>7. NoEventLost'
    BY <1>2, <2>5 DEF NoEventLost, Delivered
  <2> QED BY <2>4, <2>5, <2>6, <2>7
<1>4. CASE Verdict(server[s], q.epoch, q.seq) # "append"
  <2>1. UNCHANGED <<server, log>>
    BY <1>4 DEF Serve, srvVars
  <2>2. \A t \in Streams : \A e : Delivered(t, e)' <=> Delivered(t, e)
    BY <2>1 DEF Delivered
  <2>3. ASSUME Acked(Verdict(server[s], q.epoch, q.seq)),
               q.epoch = producers[s].epoch,
               NEW r \in outbox[s], r.seq = q.seq, r.ev = q.ev
        PROVE  Delivered(s, q.ev)'
    <3>1. q.seq < Expected(server[s], q.epoch)
      BY <1>1, <1>4, <2>3 DEF Acked, Verdict, Expected
    <3>2. q.epoch = server[s].epoch /\ q.seq < server[s].expected
      BY <3>1, <1>1 DEF Expected
    <3> QED BY <3>2, <2>3, <2>2, <1>1, <1>2 DEF Held
  <2>4. \A t \in Streams : Held(t)'
    BY <2>1, <2>2, <1>2 DEF Held
  <2>5. NoEventLost'
    BY <2>1, <1>2 DEF NoEventLost
  <2> QED BY <2>2, <2>3, <2>4, <2>5
<1> QED BY <1>3, <1>4

(* What flushStream sends is numbered in the epoch of the tables. *)
LEMMA HeadIsNumbered ==
    ASSUME FaultInv, fpc = "send", NEW r \in batch
    PROVE  /\ cur \in Streams /\ AppendOf(r) \in Request
           /\ Numbered(AppendOf(r))
           /\ r \in outbox[cur] /\ fepoch = producers[cur].epoch
<1>1. cur \in Streams /\ r \in outbox[cur] /\ fepoch = producers[cur].epoch
  BY DEF FaultInv, TypeOK, FlusherType, InHandInv
<1>2. AppendOf(r) \in Request
  BY <1>1, AppendOfType DEF FaultInv
<1>3. Ordered(outbox[cur], producers[cur].next, accepted[cur])
  BY <1>1 DEF FaultInv, TablesInv
<1>4. /\ producers[cur].epoch \in Nat
      /\ \A x \in outbox[cur] : x.seq \in Nat /\ x.ev \in Nat
  BY <1>1 DEF FaultInv, TypeOK, DatabaseType, Row
<1>5. ASSUME NEW x \in outbox[cur], x.seq = r.seq PROVE x.ev = r.ev
  BY <1>1, <1>3, <1>4, <1>5 DEF Ordered
<1>6. r.seq < producers[cur].next
  BY <1>1, <1>3 DEF Ordered
<1> QED BY <1>1, <1>2, <1>4, <1>5, <1>6 DEF Numbered, AppendOf

(* The acknowledged row is deleted: what the server holds of the rest is   *)
(* unchanged, and the event that leaves the queue is in the stream.        *)
LEMMA DeleteUnderFaults ==
    ASSUME FaultInv, DeleteRow
    PROVE  TablesInv' /\ InHandInv' /\ HeldInv'
<1> DEFINE rest == {r \in outbox[cur] : r.ev # item.ev}
<1>1. /\ cur \in Streams /\ fpc = "delete"
      /\ UNCHANGED <<producers, digest, server, log, late, backup, restores,
                     accepted, floor>>
      /\ outbox' = [outbox EXCEPT ![cur] = rest]
  BY DEF DeleteRow, FaultInv, TypeOK, FlusherType, srvVars, envVars, histVars
<1> HIDE DEF rest
<1>2. /\ outbox'[cur] = rest
      /\ \A t \in Streams \ {cur} : outbox'[t] = outbox[t]
      /\ \A t \in Streams : outbox'[t] \subseteq outbox[t]
  BY <1>1 DEF FaultInv, TypeOK, DatabaseType, rest
<1>3. /\ item \in batch /\ batch \subseteq outbox[cur]
      /\ batch # {} => fepoch = producers[cur].epoch
  BY <1>1 DEF FaultInv, InHandInv
<1>4. TablesInv'
  <2> SUFFICES ASSUME NEW t \in Streams
               PROVE  Ordered(outbox'[t], producers[t].next, accepted[t])
    BY <1>1 DEF FaultInv, TablesInv
  <2>1. /\ outbox[t] \in SUBSET Row /\ producers[t].next \in Nat /\ accepted[t] \in Nat
        /\ Ordered(outbox[t], producers[t].next, accepted[t])
        /\ outbox'[t] \in SUBSET outbox[t]
    BY <1>2 DEF FaultInv, TablesInv, TypeOK, DatabaseType, HistoryType
  <2> QED BY <2>1, OrderedSubset
<1>5. InHandInv'
  <2>1. CASE batch = {item}
    BY <2>1 DEF DeleteRow, Abandon, InHandInv
  <2>2. CASE batch # {item}
    <3>1. /\ fpc' = "send" /\ batch' = batch \ {item}
          /\ cur' = cur /\ fepoch' = fepoch
      BY <2>2 DEF DeleteRow
    <3>2. ASSUME NEW b \in batch, b # item PROVE b \in rest
      BY <1>1, <1>3, <3>2 DEF FaultInv, TablesInv, Ordered, rest
    <3> QED BY <1>1, <1>2, <1>3, <3>1, <3>2 DEF InHandInv
  <2> QED BY <2>1, <2>2
<1>6. HeldInv'
  <2> SUFFICES ASSUME restores = 0
               PROVE  /\ \A t \in Streams : Held(t)'
                      /\ \A q \in late : Numbered(q)'
                      /\ NoEventLost'
    <3>1. fpc' # "delete"
      BY DEF DeleteRow, Abandon
    <3> QED BY <1>1, <3>1 DEF HeldInv
  <2>1. /\ \A t \in Streams : Held(t)
        /\ \A q \in late : Numbered(q)
        /\ Delivered(cur, item.ev)
        /\ NoEventLost
    BY <1>1 DEF FaultInv, HeldInv
  <2>2. \A t \in Streams : \A e : Delivered(t, e)' <=> Delivered(t, e)
    BY <1>1 DEF Delivered
  <2>3. \A t \in Streams : Held(t)'
    BY <1>1, <1>2, <2>1, <2>2 DEF Held
  <2>4. ASSUME NEW q \in late PROVE Numbered(q)'
    <3>1. q.stream \in Streams
      BY DEF FaultInv, TypeOK, NetworkType, Request
    <3> QED BY <1>1, <1>2, <2>1, <3>1 DEF Numbered
  <2>5. NoEventLost'
    <3> SUFFICES ASSUME NEW t \in Streams, NEW e \in (floor[t] + 1)..accepted[t]
                 PROVE  (\E r \in outbox'[t] : r.ev = e) \/ Delivered(t, e)
      BY <1>1 DEF NoEventLost, Delivered
    <3>1. (\E r \in outbox[t] : r.ev = e) \/ Delivered(t, e)
      BY <2>1 DEF NoEventLost, Delivered
    <3> QED BY <3>1, <2>1, <1>2 DEF rest
  <2> QED BY <2>3, <2>4, <2>5
<1> QED BY <1>4, <1>5, <1>6

(* renumber starts an epoch that neither the server nor a request in       *)
(* flight has seen.                                                        *)
LEMMA RenumberUnderFaults ==
    ASSUME FaultInv, Renumber
    PROVE  TablesInv' /\ InHandInv' /\ HeldInv'
<1> DEFINE rows == outbox[cur]
           renumbered == {[ev |-> r.ev, seq |-> Rank(r, rows)] : r \in rows}
           old == producers[cur].epoch
           row == [epoch |-> IF clock <= old THEN old + 1 ELSE clock,
                   next |-> Cardinality(rows)]
<1>1. /\ cur \in Streams /\ fpc' = "pick"
      /\ UNCHANGED <<server, log, late, backup, restores, accepted, floor>>
      /\ outbox' = [outbox EXCEPT ![cur] = renumbered]
      /\ producers' = [producers EXCEPT ![cur] = row]
  BY DEF Renumber, Abandon, FaultInv, TypeOK, FlusherType, srvVars, envVars, histVars
<1>2. /\ rows \in SUBSET Row /\ IsFiniteSet(rows) /\ old \in Nat /\ clock \in Nat
      /\ producers[cur].next \in Nat /\ accepted[cur] \in Nat
      /\ Ordered(rows, producers[cur].next, accepted[cur])
  BY <1>1 DEF FaultInv, TablesInv, TypeOK, DatabaseType, HistoryType
<1>3. row.epoch > old /\ row.epoch \in Nat /\ row.next = Cardinality(rows)
  BY <1>2
<1>4. Ordered(renumbered, Cardinality(rows), accepted[cur])
  BY <1>2, OrderedRenumber
<1>5. ASSUME NEW r \in rows PROVE \E x \in renumbered : x.ev = r.ev
  <2>1. [ev |-> r.ev, seq |-> Rank(r, rows)] \in renumbered
    OBVIOUS
  <2> QED BY <2>1
<1> HIDE DEF row, renumbered
<1>6. /\ outbox'[cur] = renumbered /\ producers'[cur] = row
      /\ \A t \in Streams \ {cur} : outbox'[t] = outbox[t] /\ producers'[t] = producers[t]
  BY <1>1 DEF FaultInv, TypeOK, DatabaseType
<1>7. TablesInv'
  <2> SUFFICES ASSUME NEW t \in Streams
               PROVE  Ordered(outbox'[t], producers'[t].next, accepted[t])
    BY <1>1 DEF FaultInv, TablesInv
  <2>1. CASE t = cur
    BY <2>1, <1>3, <1>4, <1>6
  <2>2. CASE t # cur
    BY <2>2, <1>6 DEF FaultInv, TablesInv
  <2> QED BY <2>1, <2>2
<1>8. InHandInv'
  BY <1>1 DEF InHandInv
<1>9. HeldInv'
  <2> SUFFICES ASSUME restores = 0
               PROVE  /\ \A t \in Streams : Held(t)'
                      /\ \A q \in late : Numbered(q)'
                      /\ NoEventLost'
    BY <1>1 DEF HeldInv
  <2>1. /\ \A t \in Streams : Held(t)
        /\ \A q \in late : Numbered(q)
        /\ NoEventLost
    BY DEF FaultInv, HeldInv
  <2>2. \A t \in Streams : \A e : Delivered(t, e)' <=> Delivered(t, e)
    BY <1>1 DEF Delivered
  <2>3. ASSUME NEW t \in Streams PROVE Held(t)'
    <3>1. CASE t # cur
      BY <3>1, <1>1, <1>6, <2>1, <2>2 DEF Held
    <3>2. CASE t = cur
      <4>1. server[cur].epoch \in Nat
        BY <1>1 DEF FaultInv, TypeOK, NetworkType
      <4>2. server[cur].epoch <= old
        BY <1>1, <2>1 DEF Held
      <4> QED BY <3>2, <4>1, <4>2, <1>1, <1>2, <1>3, <1>6 DEF Held
    <3> QED BY <3>1, <3>2
  <2>4. ASSUME NEW q \in late PROVE Numbered(q)'
    <3>1. q.stream \in Streams /\ q.epoch \in Nat
      BY DEF FaultInv, TypeOK, NetworkType, Request
    <3>2. CASE q.stream # cur
      BY <3>1, <3>2, <1>6, <2>1 DEF Numbered
    <3>3. CASE q.stream = cur
      <4>1. q.epoch <= old
        BY <3>3, <2>1 DEF Numbered
      <4> QED BY <3>1, <3>3, <4>1, <1>2, <1>3, <1>6 DEF Numbered
    <3> QED BY <3>2, <3>3
  <2>5. NoEventLost'
    <3> SUFFICES ASSUME NEW t \in Streams, NEW e \in (floor[t] + 1)..accepted[t]
                 PROVE  (\E r \in outbox'[t] : r.ev = e) \/ Delivered(t, e)
      BY <1>1 DEF NoEventLost, Delivered
    <3>1. (\E r \in outbox[t] : r.ev = e) \/ Delivered(t, e)
      BY <2>1 DEF NoEventLost, Delivered
    <3> QED BY <3>1, <1>5, <1>6
  <2> QED BY <2>3, <2>4, <2>5
<1> QED BY <1>7, <1>8, <1>9

(* Steps that touch neither the tables nor the stream in hand. *)
LEMMA FaultFrame ==
    ASSUME FaultInv,
           UNCHANGED <<producers, outbox, server, log, late, backup, restores,
                       accepted, floor>>
    PROVE  /\ TablesInv'
           /\ fpc' \notin {"send", "delete"} => InHandInv' /\ HeldInv'
           /\ UNCHANGED <<fpc, cur, fepoch, batch, item>> => InHandInv' /\ HeldInv'
           /\ fpc' # "delete" => HeldInv'
<1>1. TablesInv'
  BY DEF FaultInv, TablesInv
<1>2. \A t \in Streams : Held(t)' <=> Held(t)
  BY DEF Held, Delivered
<1>3. \A q : Numbered(q)' <=> Numbered(q)
  BY DEF Numbered
<1>4. \A t, e : Delivered(t, e)' <=> Delivered(t, e)
  BY DEF Delivered
<1>5. NoEventLost' <=> NoEventLost
  BY DEF NoEventLost
<1>6. fpc' # "delete" => HeldInv'
  BY <1>2, <1>3, <1>5 DEF FaultInv, HeldInv
<1>7. UNCHANGED <<fpc, cur, item>> => HeldInv'
  BY <1>2, <1>3, <1>4, <1>5 DEF FaultInv, HeldInv, Delivered
<1>8. fpc' \notin {"send", "delete"} => InHandInv'
  BY DEF InHandInv
<1>9. UNCHANGED <<fpc, cur, fepoch, batch, item>> => InHandInv'
  BY DEF FaultInv, InHandInv
<1> QED BY <1>1, <1>6, <1>7, <1>8, <1>9

(* Every step of the publisher and every fault keeps the invariant. *)
LEMMA FaultStep == FaultInv /\ [Next]_vars => FaultInv'
<1> SUFFICES ASSUME FaultInv, [Next]_vars PROVE FaultInv'
  OBVIOUS
<1> TypeOK' /\ BackupType'
  BY FaultTypeStep DEF FaultInv
<1> SUFFICES TablesInv' /\ InHandInv' /\ HeldInv'
  BY DEF FaultInv
<1> USE DEF dbVars, procVars, srvVars, envVars, histVars
<1>1. ASSUME NEW s \in Streams, Emit(s) PROVE TablesInv' /\ InHandInv' /\ HeldInv'
  BY <1>1, EnqueueUnderFaults DEF Emit
<1>2. CASE QueueDefinition
  BY <1>2, EnqueueUnderFaults, ConstantsAssumption DEF QueueDefinition
<1>3. CASE StoreDigest \/ DefinitionsUnchanged \/ FlushStart \/ FlushEnd
  BY <1>3, FaultFrame DEF StoreDigest, DefinitionsUnchanged, FlushStart, FlushEnd
<1>4. CASE PickStream \/ CreateStream
  BY <1>4, FaultFrame DEF PickStream, CreateStream
<1>5. CASE PrepareFails \/ DeleteFails \/ RenumberFails
  BY <1>5, FaultFrame DEF PrepareFails, DeleteFails, RenumberFails, Abandon
<1>6. CASE ReadBatch
  <2>1. InHandInv'
    BY <1>6 DEF ReadBatch, Batch, InHandInv
  <2> QED BY <1>6, <2>1, FaultFrame DEF ReadBatch
<1>7. CASE SendAnswered
  <2>1. /\ fpc = "send"
        /\ UNCHANGED <<producers, outbox, cur, fepoch, batch, late, backup,
                       restores, accepted, floor>>
    BY <1>7 DEF SendAnswered
  <2>2. PICK r \in batch :
            /\ item' = r /\ Serve(AppendOf(r))
            /\ fpc' = IF Acked(Verdict(server[cur], fepoch, r.seq))
                      THEN "delete" ELSE "renumber"
    BY <1>7 DEF SendAnswered
  <2>3. /\ cur \in Streams /\ AppendOf(r) \in Request /\ Numbered(AppendOf(r))
        /\ r \in outbox[cur] /\ fepoch = producers[cur].epoch
    BY <2>1, HeadIsNumbered
  <2>4. /\ AppendOf(r).stream = cur /\ AppendOf(r).epoch = fepoch
        /\ AppendOf(r).seq = r.seq /\ AppendOf(r).ev = r.ev
    BY DEF AppendOf
  <2>5. TablesInv' /\ InHandInv'
    BY <2>1, <2>2 DEF FaultInv, TablesInv, InHandInv
  <2>6. HeldInv'
    <3> SUFFICES ASSUME restores = 0
                 PROVE  /\ \A s \in Streams : Held(s)'
                        /\ \A q \in late : Numbered(q)'
                        /\ fpc' = "delete" => Delivered(cur, r.ev)'
                        /\ NoEventLost'
      BY <2>1, <2>2 DEF HeldInv, Delivered
    <3>1. /\ \A s \in Streams : Held(s)'
          /\ NoEventLost'
          /\ Acked(Verdict(server[cur], fepoch, r.seq)) => Delivered(cur, r.ev)'
      BY <2>1, <2>2, <2>3, <2>4, ServeUnderFaults
    <3>2. \A q \in late : Numbered(q)'
      BY <2>1 DEF FaultInv, HeldInv, Numbered
    <3> QED BY <2>2, <3>1, <3>2
  <2> QED BY <2>5, <2>6
<1>8. CASE SendFails
  <2>1. PICK r \in batch : late' = late \cup {AppendOf(r)}
    BY <1>8 DEF SendFails
  <2>2. /\ fpc' = "pick"
        /\ UNCHANGED <<producers, outbox, server, log, backup, restores,
                       accepted, floor>>
    BY <1>8 DEF SendFails, Abandon
  <2>3. Numbered(AppendOf(r))
    BY <1>8, HeadIsNumbered DEF SendFails
  <2>4. TablesInv' /\ InHandInv'
    BY <2>2 DEF FaultInv, TablesInv, InHandInv
  <2>5. /\ \A s \in Streams : Held(s)' <=> Held(s)
        /\ \A q : Numbered(q)' <=> Numbered(q)
        /\ NoEventLost' <=> NoEventLost
    BY <2>2 DEF Held, Delivered, Numbered, NoEventLost
  <2>6. HeldInv'
    BY <2>1, <2>2, <2>3, <2>5 DEF FaultInv, HeldInv
  <2> QED BY <2>4, <2>6
<1>9. CASE DeleteRow
  BY <1>9, DeleteUnderFaults
<1>10. CASE Renumber
  BY <1>10, RenumberUnderFaults
<1>11. CASE LateArrival
  <2>1. PICK q \in late : Serve(q)
    BY <1>11 DEF LateArrival
  <2>2. UNCHANGED <<producers, outbox, fpc, cur, fepoch, batch, item, late,
                    backup, restores, accepted, floor>>
    BY <1>11 DEF LateArrival
  <2>3. TablesInv' /\ InHandInv'
    BY <2>2 DEF FaultInv, TablesInv, InHandInv
  <2>4. HeldInv'
    <3> SUFFICES ASSUME restores = 0
                 PROVE  /\ \A s \in Streams : Held(s)'
                        /\ \A x \in late : Numbered(x)'
                        /\ fpc = "delete" => Delivered(cur, item.ev)'
                        /\ NoEventLost'
      BY <2>2 DEF HeldInv, Delivered
    <3>1. q \in Request /\ Numbered(q)
      BY DEF FaultInv, TypeOK, NetworkType, HeldInv
    <3>2. /\ \A s \in Streams : Held(s)'
          /\ \A s \in Streams : \A e : Delivered(s, e) => Delivered(s, e)'
          /\ NoEventLost'
      BY <2>1, <2>2, <3>1, ServeUnderFaults
    <3>3. \A x \in late : Numbered(x)'
      BY <2>2 DEF FaultInv, HeldInv, Numbered
    <3>4. fpc = "delete" => Delivered(cur, item.ev)'
      <4>1. fpc = "delete" => cur \in Streams /\ Delivered(cur, item.ev)
        BY DEF FaultInv, HeldInv, TypeOK, FlusherType
      <4>2. (cur \in Streams /\ Delivered(cur, item.ev)) =>
                \E i \in 1..Len(log'[cur]) : log'[cur][i] = item.ev
        BY <3>2, <2>2 DEF Delivered
      <4> QED BY <4>1, <4>2, <2>2 DEF Delivered
    <3> QED BY <3>2, <3>3, <3>4
  <2> QED BY <2>3, <2>4
<1>12. CASE Tick
  BY <1>12, FaultFrame DEF Tick
<1>13. CASE Crash
  BY <1>13, FaultFrame DEF Crash, Restart
<1>14. CASE UNCHANGED vars
  BY <1>14, FaultFrame DEF vars
<1>15. ASSUME NEW s \in Streams, Forget(s) PROVE TablesInv' /\ InHandInv' /\ HeldInv'
  <2>1. /\ UNCHANGED <<producers, outbox, fpc, cur, fepoch, batch, item, log, late,
                       backup, restores, accepted, floor>>
        /\ server' = [server EXCEPT ![s] = Unknown]
    BY <1>15 DEF Forget
  <2>2. TablesInv' /\ InHandInv'
    BY <2>1 DEF FaultInv, TablesInv, InHandInv
  <2>3. /\ \A q : Numbered(q)' <=> Numbered(q)
        /\ \A t, e : Delivered(t, e)' <=> Delivered(t, e)
        /\ NoEventLost' <=> NoEventLost
    BY <2>1 DEF Delivered, Numbered, NoEventLost
  <2>4. ASSUME NEW t \in Streams, Held(t) PROVE Held(t)'
    <3>1. CASE t # s
      <4>1. server'[t] = server[t]
        BY <2>1, <3>1 DEF FaultInv, TypeOK, NetworkType
      <4> QED BY <4>1, <2>1, <2>3, <2>4 DEF Held
    <3>2. CASE t = s
      <4>1. server'[t].epoch = 0 /\ server'[t].expected = 0
        BY <2>1, <3>2 DEF FaultInv, TypeOK, NetworkType, Unknown
      <4>2. /\ producers[t].epoch \in Nat /\ producers[t].next \in Nat
            /\ \A r \in outbox[t] : r.seq \in Nat
        BY DEF FaultInv, TypeOK, DatabaseType, Row
      <4> QED BY <4>1, <4>2, <2>1 DEF Held
    <3> QED BY <3>1, <3>2
  <2>5. HeldInv'
    BY <2>1, <2>3, <2>4 DEF FaultInv, HeldInv, Delivered
  <2> QED BY <2>2, <2>5
<1>16. CASE TakeBackup
  <2>1. /\ UNCHANGED <<producers, outbox, fpc, cur, fepoch, batch, item, server,
                       log, late, restores, accepted, floor>>
        /\ backup'.producers = producers /\ backup'.outbox = outbox
    BY <1>16 DEF TakeBackup
  <2>2. TablesInv'
    BY <2>1 DEF FaultInv, TablesInv
  <2>3. InHandInv'
    BY <2>1 DEF FaultInv, InHandInv
  <2>4. HeldInv'
    <3>1. /\ \A s \in Streams : Held(s)' <=> Held(s)
          /\ \A q : Numbered(q)' <=> Numbered(q)
          /\ NoEventLost' <=> NoEventLost
      BY <2>1 DEF Held, Delivered, Numbered, NoEventLost
    <3> QED BY <2>1, <3>1 DEF FaultInv, HeldInv, Delivered
  <2> QED BY <2>2, <2>3, <2>4
<1>17. CASE RestoreDatabase
  <2>1. /\ producers' = backup.producers /\ outbox' = backup.outbox
        /\ backup' = NoBackup /\ accepted' = accepted
        /\ restores' = restores + 1 /\ restores \in Nat /\ fpc' = "boot"
    BY <1>17 DEF RestoreDatabase, Restart, FaultInv, BackupType
  <2>2. \A s \in Streams : NoBackup.outbox[s] = {}
    BY DEF NoBackup
  <2>3. TablesInv'
    BY <2>1, <2>2 DEF FaultInv, TablesInv, Ordered
  <2> QED BY <2>1, <2>3 DEF InHandInv, HeldInv
<1> QED BY <1>1, <1>2, <1>3, <1>4, <1>5, <1>6, <1>7, <1>8, <1>9, <1>10, <1>11,
           <1>12, <1>13, <1>14, <1>15, <1>16, <1>17 DEF Next, CoreNext

(* An empty database satisfies the invariant. *)
LEMMA FaultInit == Init => FaultInv
<1> SUFFICES ASSUME Init PROVE FaultInv
  OBVIOUS
<1>1. TypeOK
  BY TypeInit
<1>2. BackupType
  BY FS_EmptySet DEF Init, BackupType, NoBackup, NoRow
<1>3. TablesInv
  BY DEF Init, TablesInv, Ordered, NoBackup
<1>4. InHandInv
  BY DEF Init, InHandInv
<1>5. HeldInv
  BY DEF Init, HeldInv, Held, Numbered, NoEventLost, NoRow, Unknown
<1> QED BY <1>1, <1>2, <1>3, <1>4, <1>5 DEF FaultInv

(* The invariant holds under every fault of Spec. *)
THEOREM InvarianceUnderFaults == Spec => []FaultInv
BY FaultInit, FaultStep, PTL DEF Spec

(* Sequence numbers follow acceptance and stay below next_seq, whatever is *)
(* renumbered, restored from a backup or enqueued in between, so that      *)
(* ORDER BY seq delivers in the order of acceptance                        *)
(* (src/events/events.go:238, 285-324).                                    *)
THEOREM QueuesStayOrdered == Spec => []QueueOrdered
<1>1. FaultInv => QueueOrdered
  BY DEF FaultInv, TablesInv, Ordered, QueueOrdered
<1> QED BY <1>1, InvarianceUnderFaults, PTL

(* An accepted event is queued or delivered although the server forgets    *)
(* the producer, late requests of older epochs arrive after it and the     *)
(* queue is renumbered, as long as no older database is put back           *)
(* (src/events/events.go:199-277, 283-324).                                *)
THEOREM Durability == Spec => []NoEventLostUnrestored
<1>1. FaultInv => NoEventLostUnrestored
  BY DEF FaultInv, HeldInv, NoEventLostUnrestored
<1> QED BY <1>1, InvarianceUnderFaults, PTL
=============================================================================

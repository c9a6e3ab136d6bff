---------------------------- MODULE StreamsProofs ----------------------------
(***************************************************************************)
(* The invariants of Streams hold for any number of connections, a channel *)
(* of any size and any number of progress events.                          *)
(*                                                                         *)
(* That no event is lost or passed over rests on WrittenFirst: the event   *)
(* being written comes before those in the channel, so that it is the next *)
(* after the last one that the client has.                                 *)
(***************************************************************************)
EXTENDS Streams, TLAPS

-----------------------------------------------------------------------------
(* Facts that the actions share.                                           *)

\* Two and more is what twice Chunks comes to, and Last is one above.
LEMMA Bounds == /\ 2 * Chunks \in Nat /\ Last = 2 * Chunks + 1 /\ Chunks < 2 * Chunks
                /\ Event = 0 .. (2 * Chunks + 1) /\ None \notin Event /\ 0 \in Event
  BY BoundAssumption, NoneAssumption DEF Last, Event, Sample

\* What emit puts into a channel comes last there.
LEMMA PutAppends ==
    ASSUME TypeOK, NEW c \in Client, NEW e \in Event, Put(c, e)
    PROVE  /\ events' \in [Client -> Seq(Event)] /\ out' = out /\ got' = got
           /\ \A k \in Client \ {c} : events'[k] = events[k]
           /\ Len(events'[c]) = Len(events[c]) + 1 /\ Len(events[c]) \in Nat
           /\ \A i \in 1 .. Len(events[c]) : events'[c][i] = events[c][i]
           /\ events'[c][Len(events[c]) + 1] = e
           /\ 1 .. Len(events'[c]) = (1 .. Len(events[c])) \cup {Len(events[c]) + 1}
<1>1. events[c] \in Seq(Event) BY DEF TypeOK
<1>2. events'[c] = Append(events[c], e) /\ events' \in [Client -> Seq(Event)]
  BY <1>1 DEF Put, TypeOK
<1>3. QED BY <1>1, <1>2 DEF Put, TypeOK

\* So the numbers of a connection gain what is put.
LEMMA PutNumbers ==
    ASSUME TypeOK, NEW c \in Client, NEW e \in Event, Put(c, e)
    PROVE  Numbers(c)' = Numbers(c) \cup {e}
<1> DEFINE n == Len(events[c])
<1>1. /\ n \in Nat /\ out' = out /\ 1 .. Len(events'[c]) = (1 .. n) \cup {n + 1}
      /\ \A i \in 1 .. n : events'[c][i] = events[c][i]
      /\ events'[c][n + 1] = e
  BY PutAppends
<1>2. {events'[c][i] : i \in 1 .. Len(events'[c])} = {events[c][i] : i \in 1 .. n} \cup {e}
  <2> HIDE DEF n
  <2>1. {events'[c][i] : i \in (1 .. n) \cup {n + 1}}
        = {events'[c][i] : i \in 1 .. n} \cup {events'[c][n + 1]}
    OBVIOUS
  <2>2. {events'[c][i] : i \in 1 .. n} = {events[c][i] : i \in 1 .. n}
    BY <1>1
  <2>3. QED BY <1>1, <2>1, <2>2
<1>3. QED BY <1>1, <1>2 DEF Numbers

\* What is true of the events of a connection stays so when they stay.
LEMMA Frame ==
    ASSUME NEW k \in Client, events'[k] = events[k], out'[k] = out[k],
           got'[k] = got[k], sent'[k] = sent[k]
    PROVE  /\ InOrder(k) => InOrder(k)' /\ Numbers(k)' = Numbers(k)
           /\ Precedes(k) => Precedes(k)'
<1>1. Numbers(k)' = Numbers(k) BY DEF Numbers
<1>2. InOrder(k) => InOrder(k)' BY <1>1 DEF InOrder
<1>3. QED BY <1>1, <1>2 DEF Precedes

\* A step that leaves the channels alone leaves their order alone.
LEMMA ChannelsKept ==
    ASSUME IInv, UNCHANGED <<chan, sent>>,
           \A c \in Client : handler'[c] = handler[c]
    PROVE  WrittenFirst' /\ EveryEventInOrder'
<1>1. \A k \in Client : (InOrder(k) => InOrder(k)') /\ (Precedes(k) => Precedes(k)')
  BY Frame DEF chan
<1>2. QED BY <1>1 DEF IInv, WrittenFirst, EveryEventInOrder, chan

\* A sample put into a channel changes nothing about the numbered events.
LEMMA PutSample ==
    ASSUME IInv, NEW c \in Client, Put(c, Sample), UNCHANGED <<handler, sent>>
    PROVE  WrittenFirst' /\ EveryEventInOrder'
<1> USE DEF IInv
<1>1. Sample \in Event /\ Sample = 0 BY Bounds DEF Sample
<1>2. \A k \in Client \ {c} : (InOrder(k) => InOrder(k)') /\ (Precedes(k) => Precedes(k)')
  BY <1>1, PutAppends, Frame
<1> DEFINE q == events[c]  r == events'[c]
<1>3. /\ Len(r) = Len(q) + 1 /\ Len(q) \in Nat /\ r[Len(q) + 1] = Sample
      /\ \A i \in 1 .. Len(q) : r[i] = q[i]
      /\ out' = out /\ got' = got
  BY <1>1, PutAppends
<1> HIDE DEF q, r
<1>4. \A i \in 1 .. Len(r) : r[i] # Sample => i \in 1 .. Len(q)
  BY <1>3
<1>5. Precedes(c) => Precedes(c)'
  BY <1>3, <1>4 DEF Precedes, q, r
<1>6. InOrder(c) => InOrder(c)'
  <2> SUFFICES ASSUME InOrder(c) PROVE InOrder(c)' OBVIOUS
  <2>1. Numbers(c)' \ {Sample, None} = (got'[c] + 1) .. sent'[c]
    BY <1>1, <1>3, PutNumbers DEF InOrder
  <2>2. ASSUME NEW i \in 1 .. Len(r), NEW j \in 1 .. Len(r), i < j, r[j] # Sample
        PROVE  r[i] < r[j]
    <3>1. i \in 1 .. Len(q) /\ j \in 1 .. Len(q) BY <1>3, <1>4, <2>2
    <3>2. q[i] < q[j] BY <1>3, <2>2, <3>1 DEF InOrder, q
    <3>3. QED BY <1>3, <3>1, <3>2
  <2>3. QED BY <2>1, <2>2 DEF InOrder, r
<1>7. QED BY <1>2, <1>3, <1>5, <1>6 DEF WrittenFirst, EveryEventInOrder

\* The next event of a benchmark comes after all those before.
LEMMA PutNext ==
    ASSUME IInv, NEW c \in Client, sent[c] < Last, Put(c, sent[c] + 1),
           sent' = [sent EXCEPT ![c] = @ + 1], UNCHANGED handler
    PROVE  WrittenFirst' /\ EveryEventInOrder'
<1> USE DEF IInv
<1> DEFINE e == sent[c] + 1  q == events[c]  r == events'[c]
<1>1. /\ e \in Event /\ e # Sample /\ e # None /\ sent[c] \in Nat /\ got[c] \in Nat
      /\ sent'[c] = e /\ got[c] <= sent[c] /\ got[c] <= e
      /\ out[c] \in Event \cup {None} /\ q \in Seq(Event) /\ e = sent[c] + 1
  BY Bounds DEF TypeOK, Sample, WrittenFirst
<1>2. /\ Len(r) = Len(q) + 1 /\ Len(q) \in Nat /\ r[Len(q) + 1] = e
      /\ \A i \in 1 .. Len(q) : r[i] = q[i]
      /\ out' = out /\ got' = got /\ events' \in [Client -> Seq(Event)]
      /\ Numbers(c)' = Numbers(c) \cup {e}
  BY <1>1, PutAppends, PutNumbers
<1>3. \A k \in Client \ {c} : (InOrder(k) => InOrder(k)') /\ (Precedes(k) => Precedes(k)')
  BY <1>1, PutAppends, Frame DEF TypeOK
<1>4. \A k \in Client \ {c} : sent'[k] = sent[k] BY DEF TypeOK
<1>5. \A i \in 1 .. Len(q) : q[i] \in Event /\ q[i] \in Int /\ q[i] # None
  <2>1. \A i \in 1 .. Len(q) : q[i] \in Event BY <1>1
  <2>2. \A n \in Event : n \in Int /\ n # None BY Bounds
  <2>3. QED BY <2>1, <2>2
<1> HIDE DEF e, q, r
<1>6. ASSUME InOrder(c)
      PROVE  /\ out[c] # None => out[c] < e
             /\ \A i \in 1 .. Len(q) : q[i] < e
  <2>1. ASSUME NEW n \in Numbers(c) \ {None} PROVE n < e
    <3>1. n = Sample \/ n \in (got[c] + 1) .. sent[c]
      BY <1>6, <2>1 DEF InOrder
    <3>2. Sample < e BY <1>1 DEF Sample
    <3>3. QED BY <1>1, <3>1, <3>2
  <2>2. out[c] \in Numbers(c) /\ \A i \in 1 .. Len(q) : q[i] \in Numbers(c)
    BY DEF Numbers, q
  <2>3. QED BY <1>5, <2>1, <2>2
<1>7. handler[c] = "off" => out[c] = None BY DEF WrittenFirst
<1>8. Precedes(c)'
  <2> SUFFICES ASSUME NEW i \in 1 .. Len(r), out[c] # None, r[i] # Sample
               PROVE  out[c] < r[i]
      BY <1>2 DEF Precedes, r
  <2>1. InOrder(c) BY <1>7 DEF EveryEventInOrder
  <2>2. CASE i = Len(q) + 1 BY <1>2, <1>6, <2>1, <2>2
  <2>3. CASE i # Len(q) + 1
    <3>1. i \in 1 .. Len(q) BY <1>2, <2>3
    <3>2. Precedes(c) BY DEF WrittenFirst
    <3>3. QED BY <1>2, <3>1, <3>2 DEF Precedes, q
  <2>4. QED BY <2>2, <2>3
<1>9. InOrder(c) => InOrder(c)'
  <2> SUFFICES ASSUME InOrder(c) PROVE InOrder(c)' OBVIOUS
  <2>1. Numbers(c)' \ {Sample, None} = ((got[c] + 1) .. sent[c]) \cup {e}
    BY <1>1, <1>2 DEF InOrder
  <2>2. ((got[c] + 1) .. sent[c]) \cup {e} = (got[c] + 1) .. e
    BY <1>1
  <2>3. ASSUME NEW i \in 1 .. Len(r), NEW j \in 1 .. Len(r), i < j, r[j] # Sample
        PROVE  r[i] < r[j]
    <3>1. i \in 1 .. Len(q) BY <1>2, <2>3
    <3>2. CASE j = Len(q) + 1 BY <1>2, <1>6, <3>1, <3>2
    <3>3. CASE j # Len(q) + 1
      <4>1. j \in 1 .. Len(q) BY <1>2, <3>3
      <4>2. r[i] = q[i] /\ r[j] = q[j] BY <1>2, <3>1, <4>1
      <4>3. q[i] < q[j] BY <2>3, <3>1, <4>1, <4>2 DEF InOrder, q
      <4>4. QED BY <4>2, <4>3
    <3>4. QED BY <3>2, <3>3
  <2>4. QED BY <1>1, <1>2, <2>1, <2>2, <2>3 DEF InOrder, r
<1>10. WrittenFirst'
  BY <1>1, <1>2, <1>3, <1>4, <1>8 DEF WrittenFirst
<1>11. EveryEventInOrder'
  BY <1>3, <1>9 DEF EveryEventInOrder
<1>12. QED BY <1>10, <1>11

-----------------------------------------------------------------------------
(* Every step keeps the invariant.                                         *)

LEMMA HandleEventsIInv ==
    ASSUME IInv, NEW c \in Client, HandleEvents(c)
    PROVE  IInv'
<1> USE Bounds DEF IInv, HandleEvents, Ended, temps
<1>1. TypeOK' BY DEF TypeOK, Sample, Point
<1>2. Counted' BY DEF TypeOK, Counted
<1>3. /\ events'[c] = << >> /\ out'[c] = Sample /\ got'[c] = 0 /\ sent'[c] = 0
      /\ Sample # None /\ Len(events'[c]) = 0 /\ 1 .. 0 = {}
  BY DEF TypeOK, Sample
<1>4. Numbers(c)' = {Sample} BY <1>3 DEF Numbers
<1>5. InOrder(c)' BY <1>3, <1>4 DEF InOrder
<1>6. Precedes(c)' BY <1>3 DEF Precedes
<1>7. \A k \in Client \ {c} : (InOrder(k) => InOrder(k)') /\ (Precedes(k) => Precedes(k)')
  BY Frame DEF TypeOK
<1>8. WrittenFirst' BY <1>3, <1>6, <1>7 DEF TypeOK, WrittenFirst
<1>9. EveryEventInOrder' BY <1>5, <1>7 DEF TypeOK, EveryEventInOrder
<1>10. TemporariesOwned' BY DEF TypeOK, TemporariesOwned, Busy
<1>11. QED BY <1>1, <1>2, <1>8, <1>9, <1>10

LEMMA TakeIInv ==
    ASSUME IInv, NEW c \in Client, Take(c)
    PROVE  IInv'
<1> USE DEF IInv
<1> DEFINE q == events[c]  t == Tail(events[c])
<1>1. /\ q \in Seq(Event) /\ q # << >> /\ t \in Seq(Event)
      /\ out[c] = None /\ out'[c] = Head(q) /\ events'[c] = t
      /\ handler[c] = "select" /\ handler'[c] = "write" /\ got' = got /\ sent' = sent
  BY DEF TypeOK, WrittenFirst, Take
<1>2. /\ Head(q) = q[1] /\ q[1] \in Event /\ Len(q) \in Nat \ {0}
      /\ Len(t) = Len(q) - 1
      /\ \A i \in 1 .. Len(t) : t[i] = q[i + 1]
  BY <1>1
<1>3. TypeOK' BY <1>1, <1>2 DEF TypeOK, Take, temps
<1>4. Counted' BY DEF Counted, Take
<1>5. TemporariesOwned' BY DEF TemporariesOwned, Busy, Take, temps
<1>6. \A k \in Client \ {c} : (InOrder(k) => InOrder(k)') /\ (Precedes(k) => Precedes(k)')
  BY Frame DEF TypeOK, Take
<1>7. InOrder(c) BY <1>1 DEF EveryEventInOrder
<1> HIDE DEF q, t
<1>8. \A i \in 1 .. Len(t) : i + 1 \in 1 .. Len(q) /\ 1 \in 1 .. Len(q) /\ 1 < i + 1
  BY <1>2
<1>9. Precedes(c)'
  <2> SUFFICES ASSUME NEW i \in 1 .. Len(t), t[i] # Sample PROVE q[1] < t[i]
      BY <1>1, <1>2 DEF Precedes
  <2>1. t[i] = q[i + 1] /\ i + 1 \in 1 .. Len(q) /\ 1 \in 1 .. Len(q) /\ 1 < i + 1
    BY <1>2, <1>8
  <2>2. q[i + 1] # Sample BY <2>1
  <2>3. \A a, b \in 1 .. Len(q) : a < b /\ q[b] # Sample => q[a] < q[b]
    BY <1>7 DEF InOrder, q
  <2>4. q[1] < q[i + 1] BY <2>1, <2>2, <2>3
  <2>5. QED BY <2>1, <2>4
<1>10. Numbers(c)' \ {None} = Numbers(c) \ {None}
  <2>1. \A n \in {t[i] : i \in 1 .. Len(t)} : n \in {q[i] : i \in 1 .. Len(q)}
    BY <1>2, <1>8
  <2>2. ASSUME NEW i \in 1 .. Len(q)
        PROVE  q[i] = q[1] \/ q[i] \in {t[k] : k \in 1 .. Len(t)}
    <3>1. CASE i = 1 BY <3>1
    <3>2. CASE i # 1
      <4>1. i - 1 \in 1 .. Len(t) /\ (i - 1) + 1 = i BY <1>2, <3>2
      <4>2. t[i - 1] = q[i] BY <1>2, <4>1
      <4>3. QED BY <4>1, <4>2
    <3>3. QED BY <3>1, <3>2
  <2>3. q[1] \in {q[i] : i \in 1 .. Len(q)} BY <1>2
  <2>4. {q[i] : i \in 1 .. Len(q)} = {t[i] : i \in 1 .. Len(t)} \cup {q[1]}
    BY <2>1, <2>2, <2>3
  <2>5. QED BY <1>1, <1>2, <2>4 DEF Numbers, q
<1>11. InOrder(c)'
  <2>1. Numbers(c)' \ {Sample, None} = (got'[c] + 1) .. sent'[c]
    BY <1>1, <1>7, <1>10 DEF InOrder
  <2>2. ASSUME NEW i \in 1 .. Len(t), NEW j \in 1 .. Len(t), i < j, t[j] # Sample
        PROVE  t[i] < t[j]
    <3>1. /\ t[i] = q[i + 1] /\ t[j] = q[j + 1] /\ i + 1 < j + 1
          /\ i + 1 \in 1 .. Len(q) /\ j + 1 \in 1 .. Len(q)
      BY <1>2, <1>8, <2>2
    <3>2. \A a, b \in 1 .. Len(q) : a < b /\ q[b] # Sample => q[a] < q[b]
      BY <1>7 DEF InOrder, q
    <3>3. q[j + 1] # Sample BY <2>2, <3>1
    <3>4. q[i + 1] < q[j + 1] BY <3>1, <3>2, <3>3
    <3>5. QED BY <3>1, <3>4
  <2>3. QED BY <1>1, <2>1, <2>2 DEF InOrder
<1>12. WrittenFirst'
  <2>1. out'[c] # None BY <1>1, <1>2, Bounds
  <2>2. QED BY <1>1, <1>6, <1>9, <2>1 DEF TypeOK, WrittenFirst, Take
<1>13. EveryEventInOrder' BY <1>6, <1>11 DEF TypeOK, EveryEventInOrder, Take
<1>14. QED BY <1>3, <1>4, <1>5, <1>12, <1>13

LEMMA HeartbeatIInv ==
    ASSUME IInv, NEW c \in Client, Heartbeat(c)
    PROVE  IInv'
<1> USE Bounds DEF IInv, Heartbeat, temps
<1>1. TypeOK' BY DEF TypeOK, Sample
<1>2. Counted' /\ TemporariesOwned' BY DEF Counted, TemporariesOwned, Busy
<1>3. /\ out[c] = None /\ out'[c] = Sample /\ Sample # None
      /\ events' = events /\ got' = got /\ sent' = sent
  BY DEF TypeOK, WrittenFirst, Sample
<1>4. \A k \in Client \ {c} : (InOrder(k) => InOrder(k)') /\ (Precedes(k) => Precedes(k)')
  BY Frame DEF TypeOK
<1>5. Numbers(c)' \ {Sample, None} = Numbers(c) \ {Sample, None}
  BY <1>3 DEF Numbers
<1>6. InOrder(c)' BY <1>3, <1>5 DEF InOrder, EveryEventInOrder
<1>7. Precedes(c)'
  <2> SUFFICES ASSUME NEW i \in 1 .. Len(events[c]), events[c][i] # Sample
               PROVE  Sample < events[c][i]
      BY <1>3 DEF Precedes
  <2>1. events[c][i] \in Event BY DEF TypeOK
  <2>2. QED BY <2>1 DEF Sample
<1>8. WrittenFirst' BY <1>3, <1>4, <1>7 DEF TypeOK, WrittenFirst
<1>9. EveryEventInOrder' BY <1>4, <1>6 DEF TypeOK, EveryEventInOrder
<1>10. QED BY <1>1, <1>2, <1>8, <1>9

LEMMA WriteIInv ==
    ASSUME IInv, NEW c \in Client, Write(c)
    PROVE  IInv'
<1> USE DEF IInv, Write
<1>1. TypeOK' BY Bounds DEF TypeOK, WrittenFirst, temps
<1>2. Counted' /\ TemporariesOwned' BY DEF Counted, TemporariesOwned, Busy, temps
<1>3. \A k \in Client \ {c} : (InOrder(k) => InOrder(k)') /\ (Precedes(k) => Precedes(k)')
  BY Frame DEF TypeOK
<1>4. /\ out[c] \in Event /\ out[c] \in Nat /\ got[c] \in Nat /\ sent[c] \in Nat
      /\ events' = events /\ sent' = sent /\ out'[c] = None /\ out[c] # None
      /\ handler[c] = "write" /\ handler'[c] = "select"
      /\ got'[c] = IF out[c] = Sample THEN got[c] ELSE out[c]
  BY Bounds DEF TypeOK, WrittenFirst
<1>5. got[c] <= sent[c] /\ Precedes(c) BY DEF WrittenFirst
<1>6. InOrder(c) BY <1>4 DEF EveryEventInOrder
<1>7. Precedes(c)' BY <1>4 DEF Precedes
<1> DEFINE q == events[c]  Q == {q[i] : i \in 1 .. Len(q)}
<1>8. Numbers(c) = Q \cup {out[c]} /\ Numbers(c)' = Q \cup {None}
  BY <1>4 DEF Numbers
<1>9. \A n \in Q \ {Sample} : n \in Nat /\ out[c] < n
  BY <1>4, <1>5, Bounds DEF Precedes, TypeOK
<1>10. Numbers(c) \ {Sample, None} = (got[c] + 1) .. sent[c]
  BY <1>6 DEF InOrder
<1>11. /\ Numbers(c)' \ {Sample, None} = (got'[c] + 1) .. sent'[c]
       /\ got'[c] <= sent'[c]
  <2>1. CASE out[c] = Sample
    BY <1>4, <1>5, <1>8, <1>10, <2>1
  <2>2. CASE out[c] # Sample
    <3> HIDE DEF Q
    <3>1. out[c] \in (got[c] + 1) .. sent[c] BY <1>4, <1>8, <1>10, <2>2
    <3>2. got[c] + 1 \in (got[c] + 1) .. sent[c] BY <1>4, <3>1
    <3>3. got[c] + 1 = out[c] \/ got[c] + 1 \in Q \ {Sample}
      BY <1>8, <1>10, <3>2
    <3>4. out[c] = got[c] + 1 BY <1>4, <1>9, <3>1, <3>3
    <3>5. Q \ {Sample, None} = (Numbers(c) \ {Sample, None}) \ {out[c]}
      <4>1. out[c] \notin Q BY <1>4, <1>9, <2>2
      <4>2. QED BY <1>8, <4>1
    <3>6. Q \ {Sample, None} = ((got[c] + 1) .. sent[c]) \ {got[c] + 1}
      BY <1>10, <3>4, <3>5
    <3>7. ((got[c] + 1) .. sent[c]) \ {got[c] + 1} = ((got[c] + 1) + 1) .. sent[c]
      BY <1>4
    <3>8. got'[c] = got[c] + 1 BY <1>4, <2>2, <3>4
    <3>9. QED BY <1>4, <1>8, <3>1, <3>4, <3>6, <3>7, <3>8
  <2>3. QED BY <2>1, <2>2
<1>12. InOrder(c)'
  BY <1>4, <1>6, <1>11 DEF InOrder
<1>13. WrittenFirst' BY <1>3, <1>4, <1>7, <1>11 DEF TypeOK, WrittenFirst
<1>14. EveryEventInOrder' BY <1>3, <1>12 DEF TypeOK, EveryEventInOrder
<1>15. QED BY <1>1, <1>2, <1>13, <1>14

LEMMA ReturnIInv ==
    ASSUME IInv, NEW c \in Client, Return(c)
    PROVE  IInv'
<1> USE Bounds DEF IInv, Return, temps
<1>1. TypeOK' BY DEF TypeOK
<1>2. Counted' /\ TemporariesOwned' BY DEF Counted, TemporariesOwned, Busy
<1>3. \A k \in Client \ {c} : (InOrder(k) => InOrder(k)') /\ (Precedes(k) => Precedes(k)')
  BY Frame DEF TypeOK
<1>4. /\ handler'[c] = "off" /\ out'[c] = None /\ got'[c] = 0 /\ sent'[c] \in Nat
      /\ events' = events /\ sent' = sent
  BY DEF TypeOK
<1>5. Precedes(c)' BY <1>4 DEF Precedes
<1>6. WrittenFirst' BY <1>3, <1>4, <1>5 DEF TypeOK, WrittenFirst
<1>7. EveryEventInOrder' BY <1>3, <1>4 DEF TypeOK, EveryEventInOrder
<1>8. QED BY <1>1, <1>2, <1>6, <1>7

LEMMA LeaveIInv ==
    ASSUME IInv, NEW c \in Client, Leave(c)
    PROVE  IInv'
<1> USE DEF IInv, Leave, conn, chan, temps
<1>1. TypeOK' BY Bounds DEF TypeOK, Point
<1>2. Counted' BY Bounds DEF TypeOK, Counted
<1>3. WrittenFirst' /\ EveryEventInOrder' BY ChannelsKept
<1>4. TemporariesOwned' BY DEF TypeOK, TemporariesOwned, Busy
<1>5. QED BY <1>1, <1>2, <1>3, <1>4

LEMMA CollectIInv ==
    ASSUME IInv, NEW c \in Client, Collect(c)
    PROVE  IInv'
<1> USE DEF IInv, Collect, conn, chan, temps
<1>1. TypeOK' BY Bounds DEF TypeOK, Point
<1>2. Counted' BY Bounds DEF TypeOK, Counted
<1>3. WrittenFirst' /\ EveryEventInOrder' BY ChannelsKept
<1>4. TemporariesOwned' BY DEF TypeOK, TemporariesOwned, Busy
<1>5. QED BY <1>1, <1>2, <1>3, <1>4

LEMMA EmitSampleIInv ==
    ASSUME IInv, NEW c \in Client, EmitSample(c)
    PROVE  IInv'
<1> USE DEF IInv, EmitSample, conn, chan, temps
<1>1. Counted' /\ TemporariesOwned' BY DEF Counted, TemporariesOwned, Busy
<1>2. CASE Put(c, Sample)
  <2>1. Sample \in Event BY Bounds DEF Sample
  <2>2. events' \in [Client -> Seq(Event)] /\ out' = out /\ got' = got
    BY <1>2, <2>1, PutAppends
  <2>3. sampler' \in [Client -> {"end", "collect", "emit"}] BY DEF TypeOK
  <2>4. TypeOK' BY <2>2, <2>3 DEF TypeOK
  <2>5. QED BY <1>1, <1>2, <2>4, PutSample
<1>3. CASE UNCHANGED chan
  <2>1. TypeOK' BY <1>3 DEF TypeOK
  <2>2. QED BY <1>1, <1>3, <2>1, ChannelsKept
<1>4. QED BY <1>2, <1>3

LEMMA ResolveIInv ==
    ASSUME IInv, NEW c \in Client, Resolve(c)
    PROVE  IInv'
<1> USE DEF IInv, Resolve, Goto, conn, chan, temps
<1>1. TypeOK' BY Bounds DEF TypeOK, Point
<1>2. Counted' BY Bounds DEF TypeOK, Counted
<1>3. WrittenFirst' /\ EveryEventInOrder' BY ChannelsKept
<1>4. TemporariesOwned' BY DEF TypeOK, TemporariesOwned, Busy
<1>5. QED BY <1>1, <1>2, <1>3, <1>4

LEMMA PrepareIInv ==
    ASSUME IInv, NEW c \in Client, Prepare(c)
    PROVE  IInv'
<1> USE DEF IInv, conn, chan, temps
<1>1. /\ bench[c] = "prepare" /\ (Goto(c, "transfer") \/ Goto(c, "clean"))
      /\ UNCHANGED <<handler, done, chan, sampler, cloud, sent, remote>>
  BY DEF Prepare
<1>2. bench' \in [Client -> Point] /\ \A k \in Client \ {c} : bench'[k] = bench[k]
  BY <1>1 DEF TypeOK, Goto, Point
<1>3. bench'[c] \in {"transfer", "clean"} BY <1>1 DEF TypeOK, Goto
<1>4. /\ file' \in BOOLEAN /\ left' \in BOOLEAN /\ own' \in [Client -> BOOLEAN]
  <2>1. CASE ~ cloud BY <2>1 DEF Prepare, Remove, TypeOK
  <2>2. CASE cloud BY <2>2 DEF Prepare, TypeOK
  <2>3. QED BY <2>1, <2>2
<1>5. TypeOK' BY <1>1, <1>2, <1>4 DEF TypeOK
<1>6. Counted'
  <2>1. sent[c] = 0 /\ sent' = sent BY <1>1 DEF Counted
  <2>2. 0 < 2 * Chunks BY BoundAssumption
  <2>3. 0 <= 2 * Chunks BY BoundAssumption
  <2>4. QED BY <1>2, <1>3, <2>1, <2>2, <2>3 DEF Counted
<1>7. WrittenFirst' /\ EveryEventInOrder' BY <1>1, ChannelsKept
<1>8. \A k \in Client : Busy(k) => Busy(k)' BY <1>1, <1>2, <1>3 DEF Busy
<1>9. Busy(c)' BY <1>3 DEF Busy
<1>10. TemporariesOwned'
  <2>1. CASE ~ cloud
    <3>1. Remove BY <2>1 DEF Prepare
    <3>2. file' => left'
      <4>1. CASE file' = FALSE BY <4>1
      <4>2. CASE file' = file /\ left' = file BY <4>2
      <4>3. QED BY <3>1, <4>1, <4>2 DEF Remove
    <3>3. own' = own /\ remote' = remote /\ cloud' = cloud
      BY <1>1, <2>1 DEF Prepare
    <3>4. QED BY <1>8, <3>2, <3>3 DEF TemporariesOwned
  <2>2. CASE cloud
    <3>1. file' = file /\ left' = left /\ remote' = remote /\ cloud' = cloud
          /\ \A k \in Client \ {c} : own'[k] = own[k]
      BY <1>1, <2>2 DEF Prepare, TypeOK
    <3>2. QED BY <1>8, <1>9, <2>2, <3>1 DEF TemporariesOwned
  <2>3. QED BY <2>1, <2>2 DEF TypeOK
<1>11. QED BY <1>5, <1>6, <1>7, <1>10

LEMMA TransferIInv ==
    ASSUME IInv, NEW c \in Client, Transfer(c)
    PROVE  IInv'
<1> USE DEF IInv, Transfer, Goto, Writing, Readable, conn, chan, temps
<1>1. TypeOK' BY Bounds DEF TypeOK, Point
<1>2. Counted' BY Bounds DEF TypeOK, Counted
<1>3. WrittenFirst' /\ EveryEventInOrder' BY ChannelsKept
<1>4. TemporariesOwned' BY DEF TypeOK, TemporariesOwned, Busy
<1>5. QED BY <1>1, <1>2, <1>3, <1>4

LEMMA RecordIInv ==
    ASSUME IInv, NEW c \in Client, Record(c)
    PROVE  IInv'
<1> USE DEF IInv, Record, Goto, conn, chan, temps
<1>1. TypeOK' BY Bounds DEF TypeOK, Point
<1>2. Counted' BY Bounds DEF TypeOK, Counted
<1>3. WrittenFirst' /\ EveryEventInOrder' BY ChannelsKept
<1>4. TemporariesOwned' BY DEF TypeOK, TemporariesOwned, Busy
<1>5. QED BY <1>1, <1>2, <1>3, <1>4

LEMMA CleanUpIInv ==
    ASSUME IInv, NEW c \in Client, CleanUp(c)
    PROVE  IInv'
<1> USE DEF IInv, CleanUp, Goto, Remove, conn, chan, temps
<1>1. TypeOK' BY Bounds DEF TypeOK, Point
<1>2. Counted' BY Bounds DEF TypeOK, Counted
<1>3. WrittenFirst' /\ EveryEventInOrder' BY ChannelsKept
<1>4. TemporariesOwned' BY DEF TypeOK, TemporariesOwned, Busy
<1>5. QED BY <1>1, <1>2, <1>3, <1>4

LEMMA EmitProgressIInv ==
    ASSUME IInv, NEW c \in Client, EmitProgress(c)
    PROVE  IInv'
<1> USE Bounds DEF IInv, EmitProgress, Goto, conn, chan, temps
<1>1. CASE Put(c, sent[c] + 1) /\ sent' = [sent EXCEPT ![c] = @ + 1]
  <2>1. sent[c] + 1 \in Event /\ sent[c] < Last BY DEF TypeOK, Counted
  <2>2. WrittenFirst' /\ EveryEventInOrder'
    BY <1>1, <2>1, PutNext
  <2>3. TypeOK' BY <1>1, <2>1, PutAppends DEF TypeOK, Point
  <2>4. Counted' BY <1>1, <2>1 DEF TypeOK, Counted
  <2>5. TemporariesOwned' BY DEF TypeOK, TemporariesOwned, Busy
  <2>6. QED BY <2>2, <2>3, <2>4, <2>5
<1>2. CASE UNCHANGED <<chan, sent>>
  <2>1. TypeOK' BY <1>2 DEF TypeOK, Point
  <2>2. Counted' BY <1>2 DEF TypeOK, Counted
  <2>3. WrittenFirst' /\ EveryEventInOrder'
    BY <1>2, ChannelsKept
  <2>4. TemporariesOwned' BY DEF TypeOK, TemporariesOwned, Busy
  <2>5. QED BY <2>1, <2>2, <2>3, <2>4
<1>3. QED BY <1>1, <1>2

LEMMA EmitResultIInv ==
    ASSUME IInv, NEW c \in Client, EmitResult(c)
    PROVE  IInv'
<1> USE Bounds DEF IInv, EmitResult, Goto, conn, chan, temps
<1>1. CASE Put(c, sent[c] + 1) /\ sent' = [sent EXCEPT ![c] = @ + 1]
  <2>1. sent[c] + 1 \in Event /\ sent[c] < Last BY DEF TypeOK, Counted
  <2>2. WrittenFirst' /\ EveryEventInOrder'
    BY <1>1, <2>1, PutNext
  <2>3. TypeOK' BY <1>1, <2>1, PutAppends DEF TypeOK, Point
  <2>4. Counted' BY <1>1, <2>1 DEF TypeOK, Counted
  <2>5. TemporariesOwned' BY DEF TypeOK, TemporariesOwned, Busy
  <2>6. QED BY <2>2, <2>3, <2>4, <2>5
<1>2. CASE UNCHANGED <<chan, sent>>
  <2>1. TypeOK' BY <1>2 DEF TypeOK, Point
  <2>2. Counted' BY <1>2 DEF TypeOK, Counted
  <2>3. WrittenFirst' /\ EveryEventInOrder'
    BY <1>2, ChannelsKept
  <2>4. TemporariesOwned' BY DEF TypeOK, TemporariesOwned, Busy
  <2>5. QED BY <2>1, <2>2, <2>3, <2>4
<1>3. QED BY <1>1, <1>2

LEMMA RestartIInv ==
    ASSUME IInv, Restart
    PROVE  IInv'
<1> USE Bounds DEF IInv, Restart
<1>1. TypeOK' BY DEF TypeOK, Point
<1>2. Counted' BY DEF Counted
<1>3. WrittenFirst' /\ EveryEventInOrder' BY DEF WrittenFirst, EveryEventInOrder, Precedes
<1>4. TemporariesOwned' BY DEF TemporariesOwned
<1>5. QED BY <1>1, <1>2, <1>3, <1>4

-----------------------------------------------------------------------------
(* The beginning, and the theorems.                                        *)

LEMMA InitIInv == Init => IInv
<1> SUFFICES ASSUME Init PROVE IInv OBVIOUS
<1> USE Bounds DEF Init
<1>1. TypeOK
  <2>1. << >> \in Seq(Event) OBVIOUS
  <2>2. QED BY <2>1 DEF TypeOK, Point
<1>2. Counted BY DEF Counted
<1>3. WrittenFirst /\ EveryEventInOrder BY DEF WrittenFirst, EveryEventInOrder, Precedes
<1>4. TemporariesOwned BY DEF TemporariesOwned
<1>5. QED BY <1>1, <1>2, <1>3, <1>4 DEF IInv

LEMMA NextIInv == IInv /\ [Next]_vars => IInv'
<1> SUFFICES ASSUME IInv, [Next]_vars PROVE IInv' OBVIOUS
<1>1. CASE UNCHANGED vars
  <2> USE <1>1 DEF IInv, vars, conn, chan, temps
  <2>1. TypeOK' BY DEF TypeOK
  <2>2. WrittenFirst' /\ EveryEventInOrder' BY ChannelsKept
  <2>3. QED BY <2>1, <2>2 DEF Counted, TemporariesOwned, Busy
<1>2. ASSUME NEW c \in Client, HandleEvents(c) \/ Serve(c) PROVE IInv'
  BY <1>2, HandleEventsIInv, TakeIInv, HeartbeatIInv, WriteIInv, LeaveIInv, ReturnIInv
     DEF Serve
<1>3. ASSUME NEW c \in Client, SampleStep(c) PROVE IInv'
  BY <1>3, CollectIInv, EmitSampleIInv DEF SampleStep
<1>4. ASSUME NEW c \in Client, BenchStep(c) PROVE IInv'
  BY <1>4, ResolveIInv, PrepareIInv, TransferIInv, EmitProgressIInv, RecordIInv,
     CleanUpIInv, EmitResultIInv DEF BenchStep
<1>5. QED BY <1>1, <1>2, <1>3, <1>4, RestartIInv DEF Next

\* The inductive invariant holds in every state (handler.go, benchmark.go).
THEOREM Invariance == Spec => []IInv
<1>1. QED BY InitIInv, NextIInv, PTL DEF Spec

\* The variables have their types (HandleEvents, its channel and its producers).
THEOREM TypeCorrect == Spec => []TypeOK
<1>1. IInv => TypeOK BY DEF IInv
<1>2. QED BY Invariance, <1>1, PTL

\* A client that is served misses no event of its benchmark and gets none out of
\* order, whatever the size of the channel (emit, HandleEvents).
THEOREM EventsArriveInOrder == Spec => []EveryEventInOrder
<1>1. IInv => EveryEventInOrder BY DEF IInv
<1>2. QED BY Invariance, <1>1, PTL

\* Benchmarks leave no temporaries but by a crash or a removal that failed, and no
\* more than the one file (BenchmarkPoolStream, BenchmarkGoogleDrive).
THEOREM TemporariesAreOwned == Spec => []TemporariesOwned
<1>1. IInv => TemporariesOwned BY DEF IInv
<1>2. QED BY Invariance, <1>1, PTL
=============================================================================

---------------------------- MODULE ReplyProofs -----------------------------
(***************************************************************************)
(* Proofs about what callers are told, for every channel, limit, window    *)
(* and number of jobs: that each gets one terminal event, all its tokens,  *)
(* and the true reason.                                                    *)
(***************************************************************************)
EXTENDS PoolProofs, WellFoundedInduction

(***************************************************************************)
(* Induction over the naturals, with a set for the predicate: a least      *)
(* number outside of it would have a predecessor outside of it.            *)
(***************************************************************************)
Less == {pair \in Nat \X Nat : pair[1] < pair[2]}

LEMMA LessIsWellFounded == IsWellFoundedOn(Less, Nat)
  BY NatLessThanWellFounded DEF Less, OpToRel

LEMMA Induction ==
    ASSUME NEW T, 0 \in T, \A n \in Nat : n \in T => n + 1 \in T
    PROVE  Nat \subseteq T
<1> DEFINE Rest == Nat \ T
<1>1. SUFFICES ASSUME Rest # {} PROVE FALSE
  OBVIOUS
<1>2. PICK x \in Rest : \A y \in Rest : ~(<<y, x>> \in Less)
  <2>1. Rest \subseteq Nat
    OBVIOUS
  <2> HIDE DEF Rest
  <2> QED
    BY <1>1, <2>1, LessIsWellFounded, WFMin
<1>3. x \in Nat /\ x # 0 /\ x - 1 \in Rest
  OBVIOUS
<1>4. <<x - 1, x>> \in Less
  BY <1>3 DEF Less
<1> QED
  BY <1>2, <1>3, <1>4

(***************************************************************************)
(* The events of one job in an outbox.                                     *)
(***************************************************************************)
Sieve(f, j, box, m) ==
    f = [n \in 0 .. m |->
           IF n = 0 THEN <<>>
           ELSE IF box[n].job = j THEN Append(f[n - 1], box[n].event)
           ELSE f[n - 1]]

\* EventsOf is well defined: there is such a function, of every length.
LEMMA SieveExists ==
    ASSUME NEW j, NEW box, NEW m \in Nat
    PROVE  \E f : Sieve(f, j, box, m)
<1> DEFINE T == {k \in Nat : \E f : Sieve(f, j, box, k)}
<1>1. 0 \in T
  <2>1. Sieve([n \in 0 .. 0 |-> <<>>], j, box, 0)
    BY DEF Sieve
  <2> QED
    BY <2>1
<1>2. ASSUME NEW n \in Nat, n \in T PROVE n + 1 \in T
  <2>1. PICK f : Sieve(f, j, box, n)
    BY <1>2
  <2> DEFINE top == IF box[n + 1].job = j THEN Append(f[n], box[n + 1].event) ELSE f[n]
             g == [k \in 0 .. n + 1 |-> IF k = n + 1 THEN top ELSE f[k]]
  <2>2. \A k \in 0 .. n : f[k] = IF k = 0 THEN <<>>
                                 ELSE IF box[k].job = j THEN Append(f[k - 1], box[k].event)
                                 ELSE f[k - 1]
    BY <2>1 DEF Sieve
  <2>3. ASSUME NEW k \in 0 .. n + 1
        PROVE  g[k] = IF k = 0 THEN <<>>
                      ELSE IF box[k].job = j THEN Append(g[k - 1], box[k].event)
                      ELSE g[k - 1]
    BY <2>2
  <2>4. g = [k \in 0 .. n + 1 |-> g[k]]
    OBVIOUS
  <2> HIDE DEF g
  <2>5. Sieve(g, j, box, n + 1)
    BY <2>3, <2>4 DEF Sieve
  <2> QED
    BY <2>5
<1> HIDE DEF T
<1>3. m \in T
  BY <1>1, <1>2, Induction
<1> QED
  BY <1>3 DEF T

LEMMA SieveOf ==
    ASSUME NEW j, NEW box, Len(box) \in Nat
    PROVE  \E f : Sieve(f, j, box, Len(box)) /\ EventsOf(j, box) = f[Len(box)]
<1> DEFINE f == CHOOSE f : Sieve(f, j, box, Len(box))
<1>1. Sieve(f, j, box, Len(box))
  BY SieveExists
<1>2. EventsOf(j, box) = f[Len(box)]
  BY DEF EventsOf, Sieve
<1> QED
  BY <1>1, <1>2

\* A sieve gives events.
LEMMA SieveTypes ==
    ASSUME NEW j, NEW box \in Seq(Entry), NEW f, Sieve(f, j, box, Len(box))
    PROVE  \A i \in 0 .. Len(box) : f[i] \in Seq(Event)
<1> DEFINE T == {i \in Nat : i <= Len(box) => f[i] \in Seq(Event)}
<1>1. Len(box) \in Nat /\ f[0] = <<>>
  BY LenProperties DEF Sieve
<1>2. 0 \in T
  BY <1>1, EmptySeq
<1>3. ASSUME NEW i \in Nat, i \in T PROVE i + 1 \in T
  <2> SUFFICES ASSUME i + 1 <= Len(box) PROVE f[i + 1] \in Seq(Event)
    OBVIOUS
  <2>1. f[i] \in Seq(Event)
    BY <1>1, <1>3
  <2>2. i + 1 \in 0 .. Len(box) /\ i + 1 # 0 /\ (i + 1) - 1 = i /\ i + 1 \in 1 .. Len(box)
    BY <1>1
  <2>3. f[i + 1] = IF box[i + 1].job = j THEN Append(f[i], box[i + 1].event) ELSE f[i]
    BY <2>2 DEF Sieve
  <2>4. box[i + 1] \in Entry
    BY <2>2, ElementOfSeq
  <2>5. box[i + 1].event \in Event
    BY <2>4 DEF Entry
  <2> QED
    BY <2>1, <2>3, <2>5, AppendProperties
<1> HIDE DEF T
<1>4. Nat \subseteq T
  BY <1>2, <1>3, Induction
<1> QED
  BY <1>4 DEF T

\* Of a longer outbox it gives the same for the entries it has in common.
LEMMA SievesAgree ==
    ASSUME NEW j, NEW box \in Seq(Entry), NEW e \in Entry, NEW f, NEW g,
           Sieve(f, j, box, Len(box)), Sieve(g, j, Append(box, e), Len(box) + 1)
    PROVE  \A i \in 0 .. Len(box) : f[i] = g[i]
<1> DEFINE T == {i \in Nat : i <= Len(box) => f[i] = g[i]}
<1>1. Len(box) \in Nat /\ f[0] = <<>> /\ g[0] = <<>>
  BY LenProperties DEF Sieve
<1>2. 0 \in T
  BY <1>1
<1>3. ASSUME NEW i \in Nat, i \in T PROVE i + 1 \in T
  <2> SUFFICES ASSUME i + 1 <= Len(box) PROVE f[i + 1] = g[i + 1]
    OBVIOUS
  <2>1. f[i] = g[i]
    BY <1>1, <1>3
  <2>2. /\ i + 1 \in 0 .. Len(box) /\ i + 1 # 0 /\ (i + 1) - 1 = i /\ i + 1 \in 1 .. Len(box)
        /\ i + 1 \in 0 .. Len(box) + 1
    BY <1>1
  <2>3. Append(box, e)[i + 1] = box[i + 1]
    BY <2>2, AppendProperties
  <2>4. f[i + 1] = IF box[i + 1].job = j THEN Append(f[i], box[i + 1].event) ELSE f[i]
    BY <2>2 DEF Sieve
  <2> DEFINE long == Append(box, e)
  <2>5. g[i + 1] = IF long[i + 1].job = j THEN Append(g[i], long[i + 1].event) ELSE g[i]
    <3> HIDE DEF long
    <3>1. Sieve(g, j, long, Len(box) + 1)
      BY DEF long
    <3> QED
      BY <2>2, <3>1 DEF Sieve
  <2> QED
    BY <2>1, <2>3, <2>4, <2>5
<1> HIDE DEF T
<1>4. Nat \subseteq T
  BY <1>2, <1>3, Induction
<1> QED
  BY <1>4 DEF T

\* No entries, one more entry, and the events of the entries so far.
LEMMA EventsOfEmpty == \A j : EventsOf(j, <<>>) = <<>>
<1> SUFFICES ASSUME NEW j PROVE EventsOf(j, <<>>) = <<>>
  OBVIOUS
<1>1. Len(<<>>) = 0
  BY EmptySeq
<1>2. PICK f : Sieve(f, j, <<>>, 0) /\ EventsOf(j, <<>>) = f[0]
  BY <1>1, SieveOf
<1> QED
  BY <1>2 DEF Sieve

LEMMA EventsOfTypes ==
    ASSUME NEW j, NEW box \in Seq(Entry)
    PROVE  EventsOf(j, box) \in Seq(Event)
<1>1. Len(box) \in Nat
  BY LenProperties
<1>2. PICK f : Sieve(f, j, box, Len(box)) /\ EventsOf(j, box) = f[Len(box)]
  BY <1>1, SieveOf
<1>3. Len(box) \in 0 .. Len(box)
  BY <1>1
<1> QED
  BY <1>2, <1>3, SieveTypes

LEMMA EventsOfAppend ==
    ASSUME NEW j, NEW box \in Seq(Entry), NEW e \in Entry
    PROVE  EventsOf(j, Append(box, e)) =
             IF e.job = j THEN Append(EventsOf(j, box), e.event) ELSE EventsOf(j, box)
<1> DEFINE long == Append(box, e)  n == Len(box)
<1>1. /\ n \in Nat /\ Len(long) = n + 1 /\ long[n + 1] = e
      /\ \A i \in 1 .. n : long[i] = box[i]
  BY LenProperties, AppendProperties
<1> HIDE DEF long, n
<1>2. PICK f : Sieve(f, j, box, n) /\ EventsOf(j, box) = f[n]
  BY <1>1, SieveOf DEF n
<1>3. PICK g : Sieve(g, j, long, n + 1) /\ EventsOf(j, long) = g[n + 1]
  BY <1>1, SieveOf
<1>4. n \in 0 .. n
  BY <1>1
<1>5. f[n] = g[n]
  <2>1. Sieve(f, j, box, Len(box)) /\ Sieve(g, j, Append(box, e), Len(box) + 1)
    BY <1>2, <1>3 DEF n, long
  <2>2. \A i \in 0 .. Len(box) : f[i] = g[i]
    BY <2>1, SievesAgree
  <2> QED
    BY <1>4, <2>2 DEF n
<1>6. g[n + 1] = IF e.job = j THEN Append(g[n], e.event) ELSE g[n]
  <2>1. n + 1 \in 0 .. n + 1 /\ n + 1 # 0 /\ (n + 1) - 1 = n
    BY <1>1
  <2>2. g[n + 1] = IF long[n + 1].job = j THEN Append(g[n], long[n + 1].event) ELSE g[n]
    BY <1>3, <2>1 DEF Sieve
  <2> QED
    BY <1>1, <2>2
<1> QED
  BY <1>2, <1>3, <1>5, <1>6 DEF long

\* Of two boxes, one after the other: by induction on the second.
LEMMA EventsOfConcat ==
    ASSUME NEW j, NEW box \in Seq(Entry), NEW more \in Seq(Entry)
    PROVE  EventsOf(j, box \o more) = EventsOf(j, box) \o EventsOf(j, more)
<1> DEFINE Holds(t) == EventsOf(j, box \o t) = EventsOf(j, box) \o EventsOf(j, t)
           T == {n \in Nat : \A t \in Seq(Entry) : Len(t) = n => Holds(t)}
<1>1. EventsOf(j, box) \in Seq(Event)
  BY EventsOfTypes
<1>2. 0 \in T
  <2>1. ASSUME NEW t \in Seq(Entry), Len(t) = 0 PROVE Holds(t)
    <3>1. t = <<>>
      BY <2>1, EmptySeq
    <3> QED
      BY <1>1, <3>1, ConcatEmptySeq, EventsOfEmpty
  <2> QED
    BY <2>1
<1>3. ASSUME NEW n \in Nat, n \in T PROVE n + 1 \in T
  <2>1. ASSUME NEW t \in Seq(Entry), Len(t) = n + 1 PROVE Holds(t)
    <3>0. t # <<>>
      BY <2>1, EmptySeq
    <3>1. PICK u \in Seq(Entry), e \in Entry : t = Append(u, e)
      BY <3>0, SequenceEmptyOrAppend
    <3>2. Len(u) = n
      <4>1. Len(t) = Len(u) + 1 /\ Len(u) \in Nat
        BY <3>1, AppendProperties, LenProperties
      <4> QED
        BY <2>1, <4>1
    <3>3. Holds(u)
      BY <1>3, <3>2
    <3>4. <<e>> \in Seq(Entry) /\ t = u \o <<e>>
      BY <3>1, AppendIsConcat
    <3>5. box \o t = (box \o u) \o <<e>> /\ box \o u \in Seq(Entry)
      BY <3>4, ConcatAssociative, ConcatProperties
    <3>6. box \o t = Append(box \o u, e)
      BY <3>5, AppendIsConcat
    <3>7. /\ EventsOf(j, box \o t) =
                IF e.job = j THEN Append(EventsOf(j, box \o u), e.event) ELSE EventsOf(j, box \o u)
          /\ EventsOf(j, t) =
                IF e.job = j THEN Append(EventsOf(j, u), e.event) ELSE EventsOf(j, u)
      <4>1. \A b \in Seq(Entry) : EventsOf(j, Append(b, e)) =
              IF e.job = j THEN Append(EventsOf(j, b), e.event) ELSE EventsOf(j, b)
        BY EventsOfAppend
      <4> QED
        BY <3>1, <3>5, <3>6, <4>1
    <3>8. CASE e.job # j
      BY <3>3, <3>7, <3>8
    <3>9. CASE e.job = j
      <4>1. e.event \in Event /\ EventsOf(j, u) \in Seq(Event) /\ <<e.event>> \in Seq(Event)
        <5>1. e.event \in Event
          BY DEF Entry
        <5> QED
          BY <5>1, EventsOfTypes
      <4>2. EventsOf(j, box) \o EventsOf(j, u) \in Seq(Event)
        BY <1>1, <4>1, ConcatProperties
      <4>3. /\ EventsOf(j, box \o t) = (EventsOf(j, box) \o EventsOf(j, u)) \o <<e.event>>
            /\ EventsOf(j, t) = EventsOf(j, u) \o <<e.event>>
        BY <3>3, <3>7, <3>9, <4>1, <4>2, AppendIsConcat
      <4>4. (EventsOf(j, box) \o EventsOf(j, u)) \o <<e.event>>
              = EventsOf(j, box) \o (EventsOf(j, u) \o <<e.event>>)
        BY <1>1, <4>1, ConcatAssociative, SMTT(30)
      <4> QED
        BY <4>3, <4>4
    <3> QED
      BY <3>8, <3>9
  <2> QED
    BY <2>1
<1> HIDE DEF T
<1>4. Nat \subseteq T
  BY <1>2, <1>3, Induction
<1> QED
  BY <1>4, LenProperties DEF T

\* A sequence is its first element and the rest.
LEMMA HeadThenTail ==
    ASSUME NEW S, NEW s \in Seq(S), s # <<>>
    PROVE  /\ Head(s) \in S /\ <<Head(s)>> \in Seq(S) /\ Tail(s) \in Seq(S)
           /\ s = <<Head(s)>> \o Tail(s)
<1>1. Head(s) \in S /\ Tail(s) \in Seq(S)
  BY HeadTailProperties
<1>2. <<Head(s)>> \in Seq(S) /\ Len(<<Head(s)>>) = 1
  BY <1>1
<1>3. /\ Len(<<Head(s)>> \o Tail(s)) = 1 + Len(Tail(s))
      /\ <<Head(s)>> \o Tail(s) \in Seq(S)
      /\ \A i \in 1 .. 1 + Len(Tail(s)) :
           (<<Head(s)>> \o Tail(s))[i] = IF i <= 1 THEN <<Head(s)>>[i] ELSE Tail(s)[i - 1]
  BY <1>1, <1>2, ConcatProperties
<1>4. /\ Len(s) \in Nat \ {0} /\ Len(Tail(s)) = Len(s) - 1 /\ Head(s) = s[1]
      /\ \A i \in 1 .. Len(s) - 1 : Tail(s)[i] = s[i + 1]
  BY EmptySeq, HeadTailProperties
<1>5. \A i \in 1 .. Len(s) : (<<Head(s)>> \o Tail(s))[i] = s[i]
  BY <1>3, <1>4
<1> QED
  BY <1>1, <1>2, <1>3, <1>4, <1>5, SeqEqual

\* The first entry, and the rest.
LEMMA EventsOfHead ==
    ASSUME NEW j, NEW box \in Seq(Entry), box # <<>>
    PROVE  EventsOf(j, box) =
             (IF Head(box).job = j THEN <<Head(box).event>> ELSE <<>>) \o EventsOf(j, Tail(box))
<1>1. Head(box) \in Entry /\ Tail(box) \in Seq(Entry) /\ box = <<Head(box)>> \o Tail(box)
  BY HeadThenTail
<1>2. EventsOf(j, <<Head(box)>>) = IF Head(box).job = j THEN <<Head(box).event>> ELSE <<>>
  <2>1. <<Head(box)>> = Append(<<>>, Head(box))
    OBVIOUS
  <2>2. <<>> \in Seq(Entry)
    BY EmptySeq
  <2>3. EventsOf(j, <<Head(box)>>) =
          IF Head(box).job = j THEN Append(<<>>, Head(box).event) ELSE <<>>
    <3>1. EventsOf(j, Append(<<>>, Head(box))) =
            IF Head(box).job = j THEN Append(EventsOf(j, <<>>), Head(box).event)
            ELSE EventsOf(j, <<>>)
      BY <1>1, <2>2, EventsOfAppend
    <3>2. EventsOf(j, <<>>) = <<>>
      BY EventsOfEmpty
    <3> QED
      BY <2>1, <3>1, <3>2
  <2> QED
    BY <2>3
<1>3. EventsOf(j, box) = EventsOf(j, <<Head(box)>>) \o EventsOf(j, Tail(box))
  <2>1. <<Head(box)>> \in Seq(Entry)
    BY <1>1
  <2>2. EventsOf(j, <<Head(box)>> \o Tail(box)) = EventsOf(j, <<Head(box)>>) \o EventsOf(j, Tail(box))
    BY <1>1, <2>1, EventsOfConcat
  <2> QED
    BY <1>1, <2>2
<1> QED
  BY <1>2, <1>3

(***************************************************************************)
(* The invariant of the replies.                                           *)
(*                                                                         *)
(* A reply is the tokens so far, as many as the slot has decoded, with     *)
(* nothing in the outbox, until the job is let go of.  From then on it is  *)
(* the tokens and the end: the last two of them may be in the outbox, and  *)
(* if they are, `retain` may send the second and keep the first.           *)
(***************************************************************************)
Numbered(j, n) == [i \in 1 .. n |-> Token(j, i)]
Said(j) == got[j] \o events[j]
Owed(j) == EventsOf(j, kept \o outbox)
Live    == {"idle", "sent", "holding", "refused"}
Unused  == {"idle", "refused"}
\* The engine has not let go of the job, or never had it.
Undecided(j) == caller[j] \in Unused \/ j \in Occupying

\* What StopHasACause and FailureHasACause ask of the end of a reply of n tokens.
TrueStop(j, stop, n) ==
    LET r == req[j]
    IN  /\ stop = "Limit" => 0 < r.asked /\ n = IF r.asked = 1 THEN 2 ELSE r.asked
        /\ stop = "ContextFull" => NCtx <= r.prompt + n \/ (r.asked <= 0 /\ n = 0)
        /\ stop = "Cancelled" => cancel[j] \/ ChanCap < n
MayFail(j) == Faults # {} \/ MaxInflight > BatchCap \/ req[j].prompt >= NCtx
TrueEnd(j, e, n) ==
    \/ e = Failed(j) /\ MayFail(j)
    \/ \E stop \in Stops : e = Done(j, stop, n) /\ TrueStop(j, stop, n)

Unfinished(j) ==
    /\ Owed(j) = <<>>
    /\ \E n \in Nat :
          /\ Reply(j) = Numbered(j, n)
          /\ j \notin Decoding => n = 0
          /\ \A s \in Occupied : slots[s].job = j => slots[s].n_decoded = n
\* The end of a reply, `owing` of its events in the outbox.
Ended(j, reply, owing, n, e) ==
    \/ reply = Numbered(j, n) \o <<e>> /\ owing <= 2
    \/ n > 0 /\ reply = Numbered(j, n - 1) \o <<e, Token(j, n)>> /\ owing <= 1
Answered(j) ==
    \E n \in Nat, e \in Event :
       TrueEnd(j, e, n) /\ Ended(j, Reply(j), Len(Owed(j)), n, e)

JobInv(j) ==
    caller[j] \in Live => IF Undecided(j) THEN Unfinished(j) ELSE Answered(j)
ReplyInv == \A j \in Jobs : JobInv(j)

(***************************************************************************)
(* The parts of a reply.                                                   *)
(***************************************************************************)

\* The piece a job's slot holds back.
LEMMA PendingAt ==
    OnePlacePerJob =>
      /\ \A s \in SeqIds : \A j \in Jobs : slots[s].job = j =>
            PendingOf(j) = IF Waiting(s) THEN <<slots[s].pending>> ELSE <<>>
      /\ \A j \in Jobs : j \notin Decoding => PendingOf(j) = <<>>
<1> SUFFICES ASSUME OnePlacePerJob
             PROVE  /\ \A s \in SeqIds : \A j \in Jobs : slots[s].job = j =>
                        PendingOf(j) = IF Waiting(s) THEN <<slots[s].pending>> ELSE <<>>
                    /\ \A j \in Jobs : j \notin Decoding => PendingOf(j) = <<>>
  OBVIOUS
<1>1. ASSUME NEW s \in SeqIds, NEW j \in Jobs, slots[s].job = j
      PROVE  PendingOf(j) = IF Waiting(s) THEN <<slots[s].pending>> ELSE <<>>
  <2> DEFINE at == {t \in Occupied : slots[t].job = j /\ Waiting(t)}
  <2>1. s \in Occupied
    BY <1>1, Sizes DEF Occupied
  <2>2. \A t \in Occupied : slots[t].job = j => t = s
    BY <1>1, <2>1 DEF OnePlacePerJob
  <2>3. CASE Waiting(s)
    <3>1. at = {s}
      BY <1>1, <2>1, <2>2, <2>3
    <3>2. (CHOOSE t \in at : TRUE) = s
      BY <3>1
    <3> QED
      BY <2>3, <3>1, <3>2 DEF PendingOf
  <2>4. CASE ~Waiting(s)
    <3>1. at = {}
      BY <2>2, <2>4
    <3> QED
      BY <2>4, <3>1 DEF PendingOf
  <2> QED
    BY <2>3, <2>4
<1>2. ASSUME NEW j \in Jobs, j \notin Decoding PROVE PendingOf(j) = <<>>
  <2>1. {t \in Occupied : slots[t].job = j /\ Waiting(t)} = {}
    BY <1>2 DEF Decoding
  <2> QED
    BY <2>1 DEF PendingOf
<1> QED
  BY <1>1, <1>2

\* ... and after a step.
LEMMA PendingAtNext ==
    OnePlacePerJob' =>
      /\ \A s \in SeqIds : \A j \in Jobs : slots'[s].job = j =>
            PendingOf(j)' = IF slots'[s].pending # NoEvent THEN <<slots'[s].pending>> ELSE <<>>
      /\ \A j \in Jobs : j \notin Decoding' => PendingOf(j)' = <<>>
<1>1. (OnePlacePerJob =>
      /\ \A s \in SeqIds : \A j \in Jobs : slots[s].job = j =>
            PendingOf(j) = IF Waiting(s) THEN <<slots[s].pending>> ELSE <<>>
      /\ \A j \in Jobs : j \notin Decoding => PendingOf(j) = <<>>)'
  BY PendingAt, PTL
<1> QED
  BY <1>1 DEF Waiting

\* All parts are sequences of events.
LEMMA PartTypes ==
    ASSUME TypeOK, PoolInv, OnePlacePerJob, NEW j \in Jobs
    PROVE  /\ got[j] \in Seq(Event) /\ events[j] \in Seq(Event) /\ Said(j) \in Seq(Event)
           /\ PendingOf(j) \in Seq(Event) /\ Owed(j) \in Seq(Event)
           /\ Reply(j) \in Seq(Event)
           /\ Reply(j) = (Said(j) \o PendingOf(j)) \o Owed(j)
           /\ kept \o outbox \in Seq(Entry)
<1>1. got[j] \in Seq(Event) /\ events[j] \in Seq(Event)
  BY DEF TypeOK
<1>2. Said(j) \in Seq(Event)
  BY <1>1, ConcatProperties DEF Said
<1>3. kept \o outbox \in Seq(Entry)
  BY ConcatProperties DEF TypeOK
<1>4. Owed(j) \in Seq(Event)
  BY <1>3, EventsOfTypes DEF Owed
<1>5. PendingOf(j) \in Seq(Event)
  <2>1. CASE j \in Decoding
    <3>1. PICK s \in SeqIds : slots[s].job = j
      BY <2>1 DEF Decoding, Occupied
    <3>2. slots[s].pending \in Event
      BY DEF TypeOK, Slot
    <3>3. <<slots[s].pending>> \in Seq(Event) /\ <<>> \in Seq(Event)
      BY <3>2
    <3> QED
      BY <3>1, <3>3, PendingAt
  <2>2. CASE j \notin Decoding
    BY <2>2, PendingAt, EmptySeq
  <2> QED
    BY <2>1, <2>2
<1>6. Reply(j) = (Said(j) \o PendingOf(j)) \o Owed(j)
  BY DEF Reply, Said, Owed
<1>7. Reply(j) \in Seq(Event)
  BY <1>2, <1>4, <1>5, <1>6, ConcatProperties
<1> QED
  BY <1>1, <1>2, <1>3, <1>4, <1>5, <1>6, <1>7

\* A step that leaves a job's parts, its counter and its place as they are.
LEMMA SlotFrame ==
    ASSUME NEW j \in Jobs,
           \A s \in SeqIds : slots[s].job = j \/ slots'[s].job = j =>
              /\ slots'[s].job = slots[s].job /\ slots'[s].pending = slots[s].pending
              /\ slots'[s].n_decoded = slots[s].n_decoded
    PROVE  /\ PendingOf(j)' = PendingOf(j)
           /\ j \in Decoding' <=> j \in Decoding
           /\ \A s \in SeqIds : slots'[s].job = j =>
                 slots[s].job = j /\ slots'[s].n_decoded = slots[s].n_decoded
<1> DEFINE at == {t \in Occupied : slots[t].job = j /\ Waiting(t)}
<1>1. at' = at
  BY Sizes DEF Occupied, Waiting
<1>2. j \in Decoding' <=> j \in Decoding
  BY Sizes DEF Decoding, Occupied
<1>3. PendingOf(j)' = PendingOf(j)
  <2>1. CASE at = {}
    BY <1>1, <2>1 DEF PendingOf
  <2>2. CASE at # {}
    <3>1. (CHOOSE t \in at : TRUE) \in at
      BY <2>2
    <3>2. /\ PendingOf(j) = <<slots[CHOOSE t \in at : TRUE].pending>>
          /\ PendingOf(j)' = <<slots'[CHOOSE t \in at : TRUE].pending>>
      BY <1>1, <2>2 DEF PendingOf
    <3>3. \A t \in at : slots'[t].pending = slots[t].pending
      BY DEF Occupied
    <3> QED
      BY <3>1, <3>2, <3>3
  <2> QED
    BY <2>1, <2>2
<1> QED
  BY <1>2, <1>3

LEMMA JobFrame ==
    ASSUME NEW j \in Jobs, JobInv(j), req' = req, cancel[j] => cancel'[j],
           \A s \in SeqIds : slots[s].job = j \/ slots'[s].job = j =>
              /\ slots'[s].job = slots[s].job /\ slots'[s].pending = slots[s].pending
              /\ slots'[s].n_decoded = slots[s].n_decoded,
           caller'[j] \in Live =>
              /\ caller[j] \in Live /\ (Undecided(j)' <=> Undecided(j))
              /\ Said(j)' = Said(j) /\ Owed(j)' = Owed(j)
    PROVE  JobInv(j)'
<1> SUFFICES ASSUME caller'[j] \in Live
             PROVE  IF Undecided(j)' THEN Unfinished(j)' ELSE Answered(j)'
  BY DEF JobInv
<1>1. /\ PendingOf(j)' = PendingOf(j) /\ (j \in Decoding' <=> j \in Decoding)
      /\ \A s \in SeqIds : slots'[s].job = j =>
            slots[s].job = j /\ slots'[s].n_decoded = slots[s].n_decoded
  BY SlotFrame
<1>2. Reply(j)' = Reply(j) /\ Owed(j)' = Owed(j)
  BY <1>1 DEF Reply, Said, Owed
<1>3. \A e, n : TrueEnd(j, e, n) => TrueEnd(j, e, n)'
  BY DEF TrueEnd, TrueStop, MayFail
<1>4. CASE Undecided(j)
  <2>1. Unfinished(j)
    BY <1>4 DEF JobInv
  <2>2. Unfinished(j)'
    BY <1>1, <1>2, <2>1, Sizes DEF Unfinished, Occupied
  <2> QED
    BY <1>4, <2>2
<1>5. CASE ~Undecided(j)
  <2>1. Answered(j)
    BY <1>5 DEF JobInv
  <2>2. Answered(j)'
    BY <1>2, <1>3, <2>1 DEF Answered
  <2> QED
    BY <1>5, <2>2
<1> QED
  BY <1>4, <1>5

(***************************************************************************)
(* The steps that say nothing.                                             *)
(***************************************************************************)

\* A receipt moves an event from the channel to what was received.
LEMMA RecvKeeps ==
    ASSUME TypeOK, NEW j \in Jobs, NEW k \in Jobs, Recv(k)
    PROVE  Said(j)' = Said(j)
<1>1. CASE j # k
  BY <1>1 DEF Recv, TypeOK, Said
<1>2. CASE j = k
  <2> DEFINE e == Head(events[j])
  <2>1. events[j] \in Seq(Event) /\ got[j] \in Seq(Event) /\ events[j] # <<>>
    BY <1>2 DEF TypeOK, Recv
  <2>2. got'[j] = Append(got[j], e) /\ events'[j] = Tail(events[j])
    BY <1>2 DEF Recv, TypeOK
  <2>3. /\ e \in Event /\ Tail(events[j]) \in Seq(Event)
        /\ <<e>> \in Seq(Event) /\ events[j] = <<e>> \o Tail(events[j])
    BY <2>1, HeadThenTail
  <2> HIDE DEF e
  <2>4. got'[j] = got[j] \o <<e>>
    BY <2>1, <2>2, <2>3, AppendIsConcat
  <2>5. (got[j] \o <<e>>) \o Tail(events[j]) = got[j] \o (<<e>> \o Tail(events[j]))
    <3>1. \A a, b, c \in Seq(Event) : (a \o b) \o c = a \o (b \o c)
      BY ConcatAssociative
    <3> QED
      BY <2>1, <2>3, <3>1
  <2> QED
    BY <2>2, <2>3, <2>4, <2>5 DEF Said
<1> QED
  BY <1>1, <1>2

\* The steps of callers.
LEMMA CallerReplies ==
    ASSUME TypeOK, PlaceInv, ReplyInv, CallerStep
    PROVE  ReplyInv'
<1> USE DEF poolVars, loopVars, sharedVars, callerVars
<1>1. UNCHANGED <<req, slots, kept, outbox, taken>>
  BY DEF CallerStep, SubmitQueued, SubmitRefused, CountIn, Recv, Cancel,
         DropGeneration, DropHandle
<1>2. \A j : Owed(j)' = Owed(j)
  BY <1>1 DEF Owed
<1>3. Decoding' = Decoding
  BY <1>1 DEF Decoding, Occupied
<1>4. ASSUME NEW j \in Jobs, cancel[j] => cancel'[j],
             caller'[j] \in Live => /\ caller[j] \in Live /\ (Undecided(j)' <=> Undecided(j))
                                    /\ Said(j)' = Said(j)
      PROVE  JobInv(j)'
  BY <1>1, <1>2, <1>4, JobFrame DEF ReplyInv
<1>5. ASSUME NEW k \in Jobs, SubmitQueued(k) PROVE ReplyInv'
  <2>1. Queued' = Queued \cup {k}
    <3>1. queue \in Seq(Jobs) /\ Distinct(queue) /\ Queued = Elements(queue) /\ k \notin Queued
      BY <1>5 DEF SubmitQueued, TypeOK, PlaceInv, OnePlacePerJob, Distinct, Queued, Elements,
                  Occupying
    <3>2. Elements(queue') = Elements(queue) \cup {k}
      BY <1>5, <3>1, AppendDistinct DEF SubmitQueued
    <3> QED
      BY <3>1, <3>2 DEF Queued, Elements
  <2>2. Occupying' = Occupying \cup {k}
    BY <1>1, <1>3, <2>1 DEF Occupying
  <2>3. /\ caller[k] = "idle" /\ caller'[k] = "sent"
        /\ \A j \in Jobs : j # k => caller'[j] = caller[j]
        /\ UNCHANGED <<cancel, got, events>>
    BY <1>5 DEF SubmitQueued, TypeOK
  <2>4. ASSUME NEW j \in Jobs PROVE JobInv(j)'
    <3>1. Undecided(j)' <=> Undecided(j)
      BY <2>2, <2>3 DEF Undecided, Unused
    <3>2. caller'[j] \in Live => caller[j] \in Live
      BY <2>3 DEF Live
    <3>3. Said(j)' = Said(j)
      BY <2>3 DEF Said
    <3> QED
      BY <1>4, <2>3, <3>1, <3>2, <3>3
  <2> QED
    BY <2>4 DEF ReplyInv
<1>6. ASSUME ~(\E k \in Jobs : SubmitQueued(k)) PROVE ReplyInv'
  <2>1. Occupying' = Occupying
    <3>1. queue' = queue
      BY <1>6 DEF CallerStep, SubmitRefused, CountIn, Recv, Cancel, DropGeneration, DropHandle
    <3> QED
      BY <1>1, <1>3, <3>1 DEF Occupying, Queued
  <2>2. ASSUME NEW j \in Jobs PROVE JobInv(j)'
    <3>1. \/ \E k \in Jobs : \/ SubmitRefused(k) \/ CountIn(k)
                             \/ Recv(k) \/ Cancel(k) \/ DropGeneration(k)
          \/ DropHandle
      BY <1>6 DEF CallerStep
    <3>2. cancel[j] => cancel'[j]
      BY <3>1 DEF SubmitRefused, CountIn, Recv, Cancel, DropGeneration, DropHandle, TypeOK
    <3>3. caller'[j] \in Live => caller[j] \in Live /\ (caller'[j] \in Unused <=> caller[j] \in Unused)
      BY <3>1 DEF SubmitRefused, CountIn, Recv, Cancel, DropGeneration, DropHandle, TypeOK, Live, Unused
    <3>4. caller'[j] \in Live => Said(j)' = Said(j)
      <4>1. ASSUME NEW k \in Jobs, Recv(k) PROVE Said(j)' = Said(j)
        BY <4>1, RecvKeeps
      <4>2. ASSUME NEW k \in Jobs, DropGeneration(k), caller'[j] \in Live PROVE Said(j)' = Said(j)
        BY <4>2 DEF DropGeneration, TypeOK, Said, Live
      <4>3. ASSUME NEW k \in Jobs, SubmitRefused(k) \/ CountIn(k) \/ Cancel(k)
            PROVE  Said(j)' = Said(j)
        BY <4>3 DEF SubmitRefused, CountIn, Cancel, Said
      <4>4. DropHandle => Said(j)' = Said(j)
        BY DEF DropHandle, Said
      <4> QED
        BY <3>1, <4>1, <4>2, <4>3, <4>4
    <3>5. caller'[j] \in Live => (Undecided(j)' <=> Undecided(j))
      BY <2>1, <3>3 DEF Undecided
    <3> QED
      BY <1>4, <3>2, <3>3, <3>4, <3>5
  <2> QED
    BY <2>2 DEF ReplyInv
<1> QED
  BY <1>5, <1>6

\* The steps of the engine that touch no reply.
Quiet ==
    \/ UNCHANGED vars
    \/ DrainKeep \/ DrainEnd \/ FlushEnd
    \/ AdmitNone \/ AdmitClosed \/ AdmitTake
    \/ MeterExit \/ MeterStep \/ CollectEnd
    \/ DecodeOk \/ DecodeFail \/ FailEnd \/ SampleEnd
    \/ \E s \in SeqIds : FlushReady(s) \/ FlushStalled(s) \/ CollectSkip(s) \/ CollectRow(s)

LEMMA QuietFrame ==
    ASSUME TypeOK, PlaceInv, TakenInPrefill, Quiet
    PROVE  /\ UNCHANGED <<caller, req, got, cancel, events>>
           /\ \A s \in SeqIds :
                 /\ slots'[s].job = slots[s].job /\ slots'[s].pending = slots[s].pending
                 /\ slots'[s].n_decoded = slots[s].n_decoded
           /\ Decoding' = Decoding /\ Occupying' = Occupying
           /\ ~AdmitTake => UNCHANGED <<queue, taken>>
           /\ kept' \o outbox' = kept \o outbox
<1> USE DEF poolVars, loopVars, sharedVars, callerVars, Quiet
<1>1. UNCHANGED <<caller, req, got, cancel, events>>
  BY DEF vars, DrainKeep, DrainEnd, FlushEnd, AdmitNone, AdmitClosed, AdmitTake, MeterExit,
         MeterStep, CollectEnd, DecodeOk, DecodeFail, FailEnd, SampleEnd, FlushReady,
         FlushStalled, CollectSkip, CollectRow
<1>2. \A s \in SeqIds :
        /\ slots'[s].job = slots[s].job /\ slots'[s].pending = slots[s].pending
        /\ slots'[s].n_decoded = slots[s].n_decoded
  <2>1. ASSUME NEW t \in SeqIds, FlushStalled(t)
        PROVE  \A s \in SeqIds :
                  /\ slots'[s].job = slots[s].job /\ slots'[s].pending = slots[s].pending
                  /\ slots'[s].n_decoded = slots[s].n_decoded
    BY <2>1 DEF FlushStalled, TypeOK, Slot
  <2>2. ASSUME ~(\E s \in SeqIds : FlushStalled(s)) PROVE slots' = slots
    BY <2>2 DEF vars, DrainKeep, DrainEnd, FlushEnd, AdmitNone, AdmitClosed, AdmitTake, MeterExit,
         MeterStep, CollectEnd, DecodeOk, DecodeFail, FailEnd, SampleEnd, FlushReady,
         CollectSkip, CollectRow
  <2> QED
    BY <2>1, <2>2
<1>3. Decoding' = Decoding
  BY <1>2 DEF Decoding, Occupied
<1>4. ~AdmitTake => UNCHANGED <<queue, taken>>
  BY DEF vars, DrainKeep, DrainEnd, FlushEnd, AdmitNone, AdmitClosed, MeterExit,
         MeterStep, CollectEnd, DecodeOk, DecodeFail, FailEnd, SampleEnd, FlushReady,
         FlushStalled, CollectSkip, CollectRow
<1>5. Occupying' = Occupying
  <2>2. CASE AdmitTake
    <3>1. queue # <<>> /\ Dequeue /\ taken' = Head(queue) /\ taken = NoJob
      BY <2>2 DEF AdmitTake, TakenInPrefill
    <3>2. Head(queue) \in Queued /\ Queued' = Queued \ {Head(queue)} /\ Head(queue) \in Jobs
      BY <3>1, DequeuePlaces
    <3> QED
      BY <1>3, <3>1, <3>2, Sizes DEF Occupying
  <2> QED
    BY <1>3, <1>4, <2>2 DEF Occupying, Queued
<1>6. kept' \o outbox' = kept \o outbox
  <2>1. kept \in Seq(Entry) /\ outbox \in Seq(Entry)
    BY DEF TypeOK
  <2>2. CASE DrainKeep
    <3> DEFINE e == Head(outbox)
    <3>1. kept' = Append(kept, e) /\ outbox' = Tail(outbox) /\ outbox # <<>>
      BY <2>2 DEF DrainKeep
    <3>2. /\ e \in Entry /\ <<e>> \in Seq(Entry) /\ Tail(outbox) \in Seq(Entry)
          /\ outbox = <<e>> \o Tail(outbox)
      BY <2>1, <3>1, HeadThenTail
    <3> HIDE DEF e
    <3>3. kept' = kept \o <<e>>
      BY <2>1, <3>1, <3>2, AppendIsConcat
    <3>4. (kept \o <<e>>) \o Tail(outbox) = kept \o (<<e>> \o Tail(outbox))
      BY <2>1, <3>2, ConcatAssociative
    <3> QED
      BY <3>1, <3>2, <3>3, <3>4
  <2>3. CASE DrainEnd
    BY <2>1, <2>3, ConcatEmptySeq DEF DrainEnd
  <2>4. ASSUME ~DrainKeep, ~DrainEnd PROVE UNCHANGED <<kept, outbox>>
    BY <2>4 DEF vars, FlushEnd, AdmitNone, AdmitClosed, AdmitTake, MeterExit,
         MeterStep, CollectEnd, DecodeOk, DecodeFail, FailEnd, SampleEnd, FlushReady,
         FlushStalled, CollectSkip, CollectRow
  <2> QED
    BY <2>2, <2>3, <2>4
<1> QED
  BY <1>1, <1>2, <1>3, <1>4, <1>5, <1>6

LEMMA QuietReplies ==
    ASSUME TypeOK, PlaceInv, TakenInPrefill, ReplyInv, Quiet
    PROVE  ReplyInv'
<1> SUFFICES ASSUME NEW j \in Jobs PROVE JobInv(j)'
  BY DEF ReplyInv
<1>1. (Undecided(j)' <=> Undecided(j)) /\ Said(j)' = Said(j) /\ Owed(j)' = Owed(j)
  BY QuietFrame DEF Undecided, Said, Owed
<1> QED
  BY <1>1, QuietFrame, JobFrame DEF ReplyInv

(***************************************************************************)
(* The steps that say something.                                           *)
(***************************************************************************)

\* The tokens of a reply, in their order.
LEMMA NumberedTypes ==
    ASSUME NEW j \in Jobs, NEW n \in Nat
    PROVE  /\ Numbered(j, n) \in Seq(Event) /\ Len(Numbered(j, n)) = n
           /\ \A i \in 1 .. n : Numbered(j, n)[i] = Token(j, i)
           /\ Append(Numbered(j, n), Token(j, n + 1)) = Numbered(j, n + 1)
           /\ Numbered(j, 0) = <<>>
<1>1. \A m \in Nat : Token(j, m) \in Event
  BY EventTypes
<1>2. \A m \in Nat : /\ Numbered(j, m) \in Seq(Event) /\ Len(Numbered(j, m)) = m
                     /\ \A i \in 1 .. m : Numbered(j, m)[i] = Token(j, i)
  <2> SUFFICES ASSUME NEW m \in Nat
               PROVE  /\ Numbered(j, m) \in Seq(Event) /\ Len(Numbered(j, m)) = m
                      /\ \A i \in 1 .. m : Numbered(j, m)[i] = Token(j, i)
    OBVIOUS
  <2>1. Numbered(j, m) \in [1 .. m -> Event]
    BY <1>1 DEF Numbered
  <2>2. Numbered(j, m) \in Seq(Event)
    BY <2>1
  <2>3. DOMAIN Numbered(j, m) = 1 .. m
    BY <2>1
  <2>4. Len(Numbered(j, m)) = m
    <3>1. /\ Len(Numbered(j, m)) \in Nat /\ 1 .. Len(Numbered(j, m)) = 1 .. m
      BY <2>2, <2>3, LenProperties
    <3>2. \A k \in Nat : 1 .. k = 1 .. m => k = m
      OBVIOUS
    <3> QED
      BY <3>1, <3>2
  <2> QED
    BY <2>2, <2>4 DEF Numbered
<1>3. Append(Numbered(j, n), Token(j, n + 1)) = Numbered(j, n + 1)
  <2> DEFINE s == Append(Numbered(j, n), Token(j, n + 1))
  <2>1. /\ s \in Seq(Event) /\ Len(s) = n + 1 /\ s[n + 1] = Token(j, n + 1)
        /\ \A i \in 1 .. n : s[i] = Token(j, i)
    <3>1. /\ Numbered(j, n) \in Seq(Event) /\ Token(j, n + 1) \in Event /\ Len(Numbered(j, n)) = n
          /\ \A i \in 1 .. n : Numbered(j, n)[i] = Token(j, i)
      BY <1>1, <1>2
    <3> QED
      BY <3>1, AppendProperties
  <2> HIDE DEF s
  <2>2. \A i \in 1 .. n + 1 : s[i] = Numbered(j, n + 1)[i]
    BY <1>2, <2>1
  <2>3. s = Numbered(j, n + 1)
    BY <1>2, <2>1, <2>2, SeqEqual
  <2> QED
    BY <2>3 DEF s
<1>4. Numbered(j, 0) = <<>>
  BY <1>2, EmptySeq
<1> QED
  BY <1>2, <1>3, <1>4

\* Two elements after a sequence.
LEMMA PairAfter ==
    ASSUME NEW S, NEW said \in Seq(S), NEW pair \in Seq(S), Len(pair) = 2
    PROVE  /\ Len(said) \in Nat /\ Len(said \o pair) = Len(said) + 2
           /\ \A i \in 1 .. Len(said) : (said \o pair)[i] = said[i]
           /\ (said \o pair)[Len(said) + 1] = pair[1]
           /\ (said \o pair)[Len(said) + 2] = pair[2]
<1>1. /\ Len(said) \in Nat /\ Len(said \o pair) = Len(said) + Len(pair)
      /\ \A i \in 1 .. Len(said) + Len(pair) :
           (said \o pair)[i] = IF i <= Len(said) THEN said[i] ELSE pair[i - Len(said)]
  BY ConcatProperties, LenProperties
<1>2. PICK m \in Nat : m = Len(said)
  BY <1>1
<1>3. \A i \in 1 .. m + 2 : (said \o pair)[i] = IF i <= m THEN said[i] ELSE pair[i - m]
  BY <1>1, <1>2
<1>4. /\ \A i \in 1 .. m : (said \o pair)[i] = said[i]
      /\ (said \o pair)[m + 1] = pair[1] /\ (said \o pair)[m + 2] = pair[2]
  <2>1. /\ m + 1 \in 1 .. m + 2 /\ ~(m + 1 <= m) /\ (m + 1) - m = 1
        /\ m + 2 \in 1 .. m + 2 /\ ~(m + 2 <= m) /\ (m + 2) - m = 2
        /\ \A i \in 1 .. m : i \in 1 .. m + 2 /\ i <= m
    OBVIOUS
  <2>2. \A i \in 1 .. m : (said \o pair)[i] = said[i]
    BY <1>3, <2>1
  <2>3. (said \o pair)[m + 1] = pair[(m + 1) - m] /\ (said \o pair)[m + 2] = pair[(m + 2) - m]
    BY <1>3, <2>1
  <2> QED
    BY <2>1, <2>2, <2>3
<1> QED
  BY <1>1, <1>2, <1>4

\* The last two events of a reply.
LastTwoOf(reply, j, n, e) == reply = Numbered(j, n) \o <<e>>
LEMMA LastTwo ==
    ASSUME NEW j \in Jobs, NEW n \in Nat, NEW e \in Event, NEW said \in Seq(Event),
           NEW pair \in Seq(Event), Len(pair) = 2, LastTwoOf(said \o pair, j, n, e)
    PROVE  n > 0 /\ said = Numbered(j, n - 1) /\ pair[1] = Token(j, n) /\ pair[2] = e
<1>1. /\ Len(Numbered(j, n) \o <<e>>) = n + 1
      /\ \A i \in 1 .. n : (Numbered(j, n) \o <<e>>)[i] = Token(j, i)
      /\ (Numbered(j, n) \o <<e>>)[n + 1] = e
  <2>1. /\ Numbered(j, n) \in Seq(Event) /\ Len(Numbered(j, n)) = n
        /\ \A i \in 1 .. n : Numbered(j, n)[i] = Token(j, i)
    BY NumberedTypes
  <2>2. Numbered(j, n) \o <<e>> = Append(Numbered(j, n), e)
    BY <2>1, AppendIsConcat
  <2> QED
    BY <2>1, <2>2, AppendProperties
<1>2. /\ Len(said) \in Nat /\ Len(said \o pair) = Len(said) + 2
      /\ \A i \in 1 .. Len(said) : (said \o pair)[i] = said[i]
      /\ (said \o pair)[Len(said) + 1] = pair[1]
      /\ (said \o pair)[Len(said) + 2] = pair[2]
  BY PairAfter
<1> DEFINE reply == said \o pair
<1>3. /\ Len(reply) = n + 1 /\ reply[n + 1] = e
      /\ \A i \in 1 .. n : reply[i] = Token(j, i)
  BY <1>1 DEF LastTwoOf
<1> HIDE DEF reply
<1>4. Len(said) = n - 1 /\ n > 0
  BY <1>2, <1>3 DEF reply
<1>5. pair[1] = Token(j, n) /\ pair[2] = e
  BY <1>2, <1>3, <1>4 DEF reply
<1>6. said = Numbered(j, n - 1)
  <2>1. /\ Numbered(j, n - 1) \in Seq(Event) /\ Len(Numbered(j, n - 1)) = n - 1
        /\ \A i \in 1 .. n - 1 : Numbered(j, n - 1)[i] = Token(j, i)
    <3>1. n - 1 \in Nat
      BY <1>4
    <3> QED
      BY <3>1, NumberedTypes
  <2>2. \A i \in 1 .. Len(said) : said[i] = Numbered(j, n - 1)[i]
    BY <1>2, <1>3, <1>4, <2>1 DEF reply
  <2> QED
    BY <1>4, <2>1, <2>2, SeqEqual
<1> QED
  BY <1>4, <1>5, <1>6

\* Sequences of events.
LEMMA EventSeqs ==
    \A a, b, c \in Seq(Event) :
       /\ a \o b \in Seq(Event) /\ Len(a \o b) = Len(a) + Len(b)
       /\ (a \o b) \o c = a \o (b \o c)
       /\ a \o <<>> = a /\ <<>> \o a = a
  BY ConcatProperties, ConcatAssociative, ConcatEmptySeq

LEMMA EntrySeqs ==
    \A a, b, c \in Seq(Entry) : a \o b \in Seq(Entry) /\ a \o (b \o c) = (a \o b) \o c
  BY ConcatProperties, ConcatAssociative

LEMMA Pairs ==
    ASSUME NEW S, NEW a \in S, NEW b \in S
    PROVE  /\ <<a>> \in Seq(S) /\ Len(<<a>>) = 1 /\ <<a, b>> \in Seq(S) /\ Len(<<a, b>>) = 2
           /\ <<a>> \o <<b>> = <<a, b>>
<1>1. /\ <<a>> \in Seq(S) /\ <<b>> \in Seq(S) /\ Len(<<a>>) = 1 /\ Len(<<b>>) = 1
      /\ <<a, b>> \in Seq(S) /\ Len(<<a, b>>) = 2
  OBVIOUS
<1>2. /\ <<a>> \o <<b>> \in Seq(S) /\ Len(<<a>> \o <<b>>) = 2
      /\ (<<a>> \o <<b>>)[1] = a /\ (<<a>> \o <<b>>)[2] = b
  BY <1>1, ConcatProperties
<1>3. \A i \in 1 .. 2 : i = 1 \/ i = 2
  OBVIOUS
<1>4. \A i \in 1 .. 2 : (<<a>> \o <<b>>)[i] = <<a, b>>[i]
  BY <1>2, <1>3
<1> QED
  BY <1>1, <1>2, <1>4, SeqEqual

LEMMA OneElement ==
    ASSUME NEW S, NEW k \in Seq(S), Len(k) = 1
    PROVE  \E a \in S : k = <<a>>
<1>1. k[1] \in S
  <2>1. 1 \in 1 .. Len(k)
    OBVIOUS
  <2> QED
    BY <2>1, ElementOfSeq
<1>2. <<k[1]>> \in Seq(S) /\ Len(<<k[1]>>) = 1 /\ <<k[1]>>[1] = k[1]
  BY <1>1
<1>3. \A i \in 1 .. 1 : i = 1
  OBVIOUS
<1>4. \A i \in 1 .. Len(k) : k[i] = <<k[1]>>[i]
  BY <1>2, <1>3
<1>5. k = <<k[1]>>
  BY <1>2, <1>4, SeqEqual
<1> QED
  BY <1>1, <1>5

\* An event sent after the only one kept, and before it.
LEMMA Overtaken ==
    ASSUME NEW said \in Seq(Event), NEW k \in Seq(Event), NEW x \in Event,
           NEW t \in Seq(Event), Len(k) = 1, Len(t) = 0
    PROVE  \E y \in Event :
              /\ said \o (k \o (<<x>> \o t)) = said \o <<y, x>>
              /\ (said \o <<x>>) \o (k \o t) = said \o <<x, y>>
<1>1. PICK y \in Event : k = <<y>>
  BY OneElement
<1>2. t = <<>>
  BY EmptySeq
<1>3. <<x>> \in Seq(Event) /\ <<x>> \o t = <<x>> /\ k \o t = k
  BY <1>2, Pairs, ConcatEmptySeq
<1>4. <<y>> \o <<x>> = <<y, x>> /\ <<x>> \o <<y>> = <<x, y>> /\ <<y>> \in Seq(Event)
  BY Pairs
<1>5. (said \o <<x>>) \o <<y>> = said \o (<<x>> \o <<y>>)
  BY <1>3, <1>4, ConcatAssociative
<1> QED
  BY <1>1, <1>3, <1>4, <1>5

\* ... either way the reply keeps its end.
LEMMA EndedFewer ==
    ASSUME NEW j, NEW reply, NEW n, NEW e, NEW a \in Int, NEW b \in Int, b <= a,
           Ended(j, reply, a, n, e)
    PROVE  Ended(j, reply, b, n, e)
<1>1. (a <= 2 => b <= 2) /\ (a <= 1 => b <= 1)
  OBVIOUS
<1> QED
  BY <1>1 DEF Ended

LEMMA EndMoves ==
    ASSUME NEW j \in Jobs, NEW n \in Nat, NEW e \in Event,
           NEW said \in Seq(Event), NEW k \in Seq(Event), NEW x \in Event,
           NEW t \in Seq(Event),
           Ended(j, said \o (k \o (<<x>> \o t)), Len(k) + 1 + Len(t), n, e)
    PROVE  Ended(j, (said \o <<x>>) \o (k \o t), Len(k) + Len(t), n, e)
<1>1. Len(k) \in Nat /\ Len(t) \in Nat
  BY LenProperties
<1>2. CASE Len(k) = 0
  <2>1. k = <<>>
    BY <1>2, EmptySeq
  <2>2. <<x>> \in Seq(Event) /\ <<x>> \o t \in Seq(Event)
    BY Pairs, ConcatProperties
  <2>3. k \o t = t /\ k \o (<<x>> \o t) = <<x>> \o t
    BY <2>1, <2>2, ConcatEmptySeq
  <2>4. (said \o <<x>>) \o t = said \o (<<x>> \o t)
    BY <2>2, ConcatAssociative
  <2>5. (said \o <<x>>) \o (k \o t) = said \o (k \o (<<x>> \o t))
    BY <2>3, <2>4
  <2> DEFINE reply == said \o (k \o (<<x>> \o t))
  <2>6. Ended(j, reply, Len(k) + 1 + Len(t), n, e)
    OBVIOUS
  <2> HIDE DEF reply
  <2>7. Ended(j, reply, Len(k) + Len(t), n, e)
    BY <1>1, <2>6, EndedFewer
  <2> QED
    BY <2>5, <2>7 DEF reply
<1>3. CASE Len(k) # 0
  <2>1. /\ Len(k) = 1 /\ Len(t) = 0
        /\ said \o (k \o (<<x>> \o t)) = Numbered(j, n) \o <<e>>
    BY <1>1, <1>3 DEF Ended
  <2>2. PICK y \in Event : /\ said \o (k \o (<<x>> \o t)) = said \o <<y, x>>
                          /\ (said \o <<x>>) \o (k \o t) = said \o <<x, y>>
    <3>1. Len(k) = 1 /\ Len(t) = 0
      BY <2>1
    <3> QED
      BY <3>1, Overtaken, ZenonT(30)
  <2>3. n > 0 /\ said \o <<x, y>> = Numbered(j, n - 1) \o <<e, Token(j, n)>>
    <3>1. PICK pair \in Seq(Event) : pair = <<y, x>>
      BY Pairs
    <3>2. Len(pair) = 2 /\ pair[1] = y /\ pair[2] = x
      BY <3>1
    <3>3. said \o pair = Numbered(j, n) \o <<e>>
      BY <2>1, <2>2, <3>1
    <3>4. n > 0 /\ said = Numbered(j, n - 1) /\ pair[1] = Token(j, n) /\ pair[2] = e
      <4>1. Len(pair) = 2
        BY <3>2
      <4>2. LastTwoOf(said \o pair, j, n, e)
        BY <3>3 DEF LastTwoOf
      <4> QED
        BY <4>1, <4>2, LastTwo
    <3> QED
      BY <3>2, <3>4
  <2> QED
    BY <2>1, <2>2, <2>3 DEF Ended
<1> QED
  BY <1>2, <1>3

\* An event sent to a caller.
LEMMA SaidAndSent ==
    ASSUME TypeOK, NEW j \in Jobs, NEW x \in Event, Send(j, x), got' = got
    PROVE  Said(j)' = Said(j) \o <<x>>
<1>1. PICK g \in Seq(Event), v \in Seq(Event), z \in Seq(Event) :
         g = got[j] /\ v = events[j] /\ z = <<x>>
  BY Pairs DEF TypeOK
<1>2. events'[j] = Append(v, x) /\ got'[j] = g
  BY <1>1 DEF Send, TypeOK
<1>3. Append(v, x) = v \o z
  BY <1>1, AppendIsConcat
<1>4. g \o (v \o z) = (g \o v) \o z
  BY EventSeqs
<1> QED
  BY <1>1, <1>2, <1>3, <1>4 DEF Said

\* What is owed, when the first entry left to offer goes.
LEMMA OwedHead ==
    ASSUME TypeOK, outbox # <<>>, outbox' = Tail(outbox), kept' = kept, NEW j
    PROVE  /\ Owed(j) = EventsOf(j, kept) \o
                  ((IF Head(outbox).job = j THEN <<Head(outbox).event>> ELSE <<>>)
                   \o EventsOf(j, Tail(outbox)))
           /\ Owed(j)' = EventsOf(j, kept) \o EventsOf(j, Tail(outbox))
           /\ EventsOf(j, kept) \in Seq(Event) /\ EventsOf(j, Tail(outbox)) \in Seq(Event)
<1>1. kept \in Seq(Entry) /\ outbox \in Seq(Entry) /\ Tail(outbox) \in Seq(Entry)
  BY SeqTypes DEF TypeOK
<1>2. Owed(j) = EventsOf(j, kept) \o EventsOf(j, outbox)
  BY <1>1, EventsOfConcat DEF Owed
<1>3. EventsOf(j, outbox) =
        (IF Head(outbox).job = j THEN <<Head(outbox).event>> ELSE <<>>)
        \o EventsOf(j, Tail(outbox))
  BY <1>1, EventsOfHead
<1>4. Owed(j)' = EventsOf(j, kept \o Tail(outbox))
  BY DEF Owed
<1>5. EventsOf(j, kept \o Tail(outbox)) = EventsOf(j, kept) \o EventsOf(j, Tail(outbox))
  BY <1>1, EventsOfConcat
<1> QED
  BY <1>1, <1>2, <1>3, <1>4, <1>5, EventsOfTypes

\* An entry delivered: the next event owed to its caller, or, when that one is
\* kept, the one after it.
LEMMA DeliverReplies ==
    ASSUME TypeOK, PoolInv, PlaceInv, ReplyInv, TypeOK', PlaceInv',
           DrainDeliver \/ DrainDiscard
    PROVE  ReplyInv'
<1> USE DEF poolVars, loopVars, sharedVars, callerVars
<1> DEFINE h == Head(outbox)
<1>1. /\ outbox # <<>> /\ outbox' = Tail(outbox)
      /\ UNCHANGED <<caller, req, got, cancel, queue, taken, slots, kept>>
      /\ DrainDeliver => SendOk(h.job) /\ Send(h.job, h.event)
      /\ DrainDiscard => SendClosed(h.job) /\ events' = events
  BY DEF DrainDeliver, DrainDiscard
<1>2. h \in Entry /\ h.job \in Jobs /\ h.event \in Event /\ Tail(outbox) \in Seq(Entry)
  <2>1. h \in Entry /\ Tail(outbox) \in Seq(Entry)
    BY <1>1, SeqTypes DEF TypeOK
  <2> QED
    BY <2>1 DEF Entry
<1>3. Occupying' = Occupying /\ Decoding' = Decoding
  BY <1>1 DEF Occupying, Decoding, Queued, Occupied
<1>4. ASSUME NEW j
      PROVE  /\ Owed(j) = EventsOf(j, kept) \o
                     ((IF h.job = j THEN <<h.event>> ELSE <<>>) \o EventsOf(j, Tail(outbox)))
             /\ Owed(j)' = EventsOf(j, kept) \o EventsOf(j, Tail(outbox))
             /\ EventsOf(j, kept) \in Seq(Event) /\ EventsOf(j, Tail(outbox)) \in Seq(Event)
  BY <1>1, OwedHead
<1>5. ASSUME NEW j \in Jobs, j # h.job PROVE JobInv(j)'
  <2>1. Owed(j)' = Owed(j)
    BY <1>4, <1>5, ConcatEmptySeq
  <2>2. events'[j] = events[j]
    BY <1>1, <1>5 DEF Send, TypeOK, DrainDeliver, DrainDiscard
  <2>3. Said(j)' = Said(j) /\ (Undecided(j)' <=> Undecided(j))
    BY <1>1, <1>3, <2>2 DEF Said, Undecided
  <2> QED
    BY <1>1, <2>1, <2>3, JobFrame DEF ReplyInv
<1>6. ASSUME NEW j \in Jobs, j = h.job PROVE JobInv(j)'
  <2> SUFFICES ASSUME caller'[j] \in Live
               PROVE  IF Undecided(j)' THEN Unfinished(j)' ELSE Answered(j)'
    BY DEF JobInv
  <2> DEFINE k == EventsOf(j, kept)  t == EventsOf(j, Tail(outbox))
             x == h.event  said == Said(j)
  <2>1. DrainDeliver /\ caller[j] \in Live
    BY <1>1, <1>6 DEF SendClosed, Live
  <2>2. /\ k \in Seq(Event) /\ t \in Seq(Event) /\ x \in Event /\ said \in Seq(Event)
        /\ <<x>> \in Seq(Event)
    BY <1>2, <1>4, PartTypes DEF PlaceInv
  <2>3. Owed(j) = k \o (<<x>> \o t) /\ Owed(j)' = k \o t
    BY <1>4, <1>6
  <2>4. Said(j)' = said \o <<x>>
    BY <1>1, <1>2, <1>6, <2>1, SaidAndSent
  <2>5. /\ Len(Owed(j)) = Len(k) + 1 + Len(t) /\ Len(Owed(j)') = Len(k) + Len(t)
        /\ Len(k) \in Nat /\ Len(t) \in Nat
    <3>1. <<x>> \o t \in Seq(Event) /\ Len(<<x>> \o t) = 1 + Len(t)
      BY <2>2, ConcatProperties
    <3>2. Len(k \o (<<x>> \o t)) = Len(k) + (1 + Len(t)) /\ Len(k \o t) = Len(k) + Len(t)
      BY <2>2, <3>1, ConcatProperties
    <3> QED
      BY <2>2, <2>3, <3>1, <3>2, LenProperties
  <2>6. ~Undecided(j) /\ ~Undecided(j)' /\ Answered(j)
    <3>1. ~Undecided(j)
      <4>1. Owed(j) # <<>>
        BY <2>5, EmptySeq
      <4> QED
        BY <2>1, <4>1 DEF ReplyInv, JobInv, Unfinished
    <3> QED
      BY <1>1, <1>3, <2>1, <3>1 DEF Undecided, ReplyInv, JobInv
  <2>7. PendingOf(j) = <<>> /\ PendingOf(j)' = <<>>
    <3>1. j \notin Decoding /\ j \notin Decoding'
      BY <1>3, <2>6 DEF Undecided, Occupying
    <3> QED
      BY <3>1, PendingAt, PendingAtNext DEF PlaceInv
  <2>8. Reply(j) = said \o (k \o (<<x>> \o t))
    BY <2>2, <2>3, <2>7, PartTypes, ConcatEmptySeq DEF PlaceInv
  <2>9. Reply(j)' = (said \o <<x>>) \o (k \o t)
    <3>1. said \o <<x>> \in Seq(Event)
      BY <2>2, ConcatProperties
    <3>2. Reply(j)' = (Said(j)' \o PendingOf(j)') \o Owed(j)'
      BY DEF Reply, Said, Owed
    <3> QED
      BY <2>3, <2>4, <2>7, <3>1, <3>2, ConcatEmptySeq
  <2>10. \A e, n : TrueEnd(j, e, n) => TrueEnd(j, e, n)'
    BY <1>1 DEF TrueEnd, TrueStop, MayFail
  <2>11. PICK n \in Nat, e \in Event :
           /\ TrueEnd(j, e, n)
           /\ Ended(j, Reply(j), Len(Owed(j)), n, e)
    BY <2>6 DEF Answered
  <2>12. PICK K \in Seq(Event), T \in Seq(Event), X \in Event, S \in Seq(Event) :
            K = k /\ T = t /\ X = x /\ S = said
    BY <2>2
  <2> HIDE DEF k, t, x, said
  <2>13. Ended(j, S \o (K \o (<<X>> \o T)), Len(K) + 1 + Len(T), n, e)
    BY <2>5, <2>8, <2>11, <2>12
  <2>14. Ended(j, (S \o <<X>>) \o (K \o T), Len(K) + Len(T), n, e)
    BY <2>13, EndMoves
  <2>15. (TrueEnd(j, e, n) /\ Ended(j, Reply(j), Len(Owed(j)), n, e))'
    BY <2>5, <2>9, <2>10, <2>11, <2>12, <2>14 DEF Ended
  <2> QED
    BY <2>6, <2>15 DEF Answered
<1> QED
  BY <1>5, <1>6 DEF ReplyInv

\* A piece delivered: it moves from the slot to the channel.
LEMMA FlushReplies ==
    ASSUME TypeOK, PoolInv, PlaceInv, ReplyInv, PlaceInv', NEW s \in SeqIds, FlushDeliver(s)
    PROVE  ReplyInv'
<1> USE DEF poolVars, loopVars, sharedVars, callerVars
<1>1. PICK i \in Jobs, x \in Event : /\ i = slots[s].job /\ x = slots[s].pending
                                      /\ x # NoEvent
  BY DEF TypeOK, Slot, PoolInv, PhaseInv, FlushDeliver, Waiting
<1>2. /\ Send(i, x)
      /\ UNCHANGED <<caller, req, got, cancel, queue, taken, kept, outbox>>
  BY <1>1 DEF FlushDeliver
<1>3. /\ slots'[s].job = i /\ slots'[s].pending = NoEvent
      /\ slots'[s].n_decoded = slots[s].n_decoded
      /\ \A t \in SeqIds : t # s => slots'[t] = slots[t]
  BY <1>1 DEF FlushDeliver, TypeOK, Slot
<1>4. \A t \in SeqIds : slots'[t].job = slots[t].job /\ slots'[t].n_decoded = slots[t].n_decoded
  BY <1>1, <1>3
<1>5. Occupied' = Occupied /\ Decoding' = Decoding /\ Occupying' = Occupying
  <2>1. Occupied' = Occupied
    BY <1>4 DEF Occupied
  <2>2. Decoding' = Decoding
    BY <1>4, <2>1 DEF Decoding, Occupied
  <2> QED
    BY <1>2, <2>1, <2>2 DEF Occupying, Queued
<1>6. \A j : Owed(j)' = Owed(j) /\ (Undecided(j)' <=> Undecided(j))
  BY <1>2, <1>5 DEF Owed, Undecided
<1>7. ASSUME NEW j \in Jobs, j # i PROVE JobInv(j)'
  <2>1. Said(j)' = Said(j)
    BY <1>2, <1>7 DEF Said, Send, TypeOK
  <2> QED
    BY <1>1, <1>2, <1>3, <1>6, <1>7, <2>1, JobFrame DEF ReplyInv
<1>8. JobInv(i)'
  <2> SUFFICES ASSUME caller'[i] \in Live PROVE Unfinished(i)' /\ Undecided(i)'
    BY DEF JobInv
  <2>1. i \in Decoding
    BY <1>1, Sizes DEF Decoding, Occupied
  <2>2. Undecided(i) /\ Unfinished(i)
    BY <1>2, <2>1 DEF Undecided, Occupying, ReplyInv, JobInv
  <2>3. Said(i)' = Said(i) \o <<x>>
    BY <1>2, SaidAndSent
  <2>4. PendingOf(i) = <<x>> /\ PendingOf(i)' = <<>>
    BY <1>1, <1>3, PendingAt, PendingAtNext DEF PlaceInv, Waiting
  <2>5. Reply(i)' = Reply(i)
    <3>1. PICK d \in Seq(Event), z \in Seq(Event) : d = Said(i) /\ z = <<x>>
      BY Pairs, PartTypes DEF PlaceInv
    <3>2. Reply(i) = (d \o z) \o <<>> /\ Reply(i)' = ((d \o z) \o <<>>) \o <<>>
      BY <1>6, <2>2, <2>3, <2>4, <3>1 DEF Reply, Said, Owed, Unfinished
    <3>3. (d \o z) \o <<>> = d \o z
      BY EventSeqs
    <3> QED
      BY <3>2, <3>3
  <2>6. Unfinished(i)'
    BY <1>4, <1>5, <1>6, <2>2, <2>5 DEF Unfinished, Occupied
  <2> QED
    BY <1>6, <2>2, <2>6
<1> QED
  BY <1>7, <1>8 DEF ReplyInv

(***************************************************************************)
(* The steps that let go of a job.                                         *)
(***************************************************************************)

\* The entry of one event, and the entries of last words.
LEMMA EventsOfOne ==
    ASSUME NEW i \in Jobs, NEW e \in Event, NEW j
    PROVE  /\ <<Post(i, e)>> \in Seq(Entry)
           /\ EventsOf(j, <<Post(i, e)>>) = IF i = j THEN <<e>> ELSE <<>>
<1>1. Post(i, e) \in Entry /\ Post(i, e).job = i /\ Post(i, e).event = e
  BY DEF Post, Entry
<1> DEFINE x == Post(i, e)
<1> HIDE DEF x
<1>2. x \in Entry /\ x.job = i /\ x.event = e
  BY <1>1 DEF x
<1>3. /\ <<x>> \in Seq(Entry) /\ <<x>> # <<>> /\ Head(<<x>>) = x /\ Tail(<<x>>) = <<>>
  BY <1>2
<1>4. EventsOf(j, <<x>>) = (IF i = j THEN <<e>> ELSE <<>>) \o <<>>
  <2>1. EventsOf(j, <<x>>) =
          (IF Head(<<x>>).job = j THEN <<Head(<<x>>).event>> ELSE <<>>)
          \o EventsOf(j, Tail(<<x>>))
    BY <1>3, EventsOfHead
  <2> QED
    BY <1>2, <1>3, <2>1, EventsOfEmpty
<1>5. <<e>> \in Seq(Event) /\ <<>> \in Seq(Event)
  BY Pairs, EmptySeq
<1>6. EventsOf(j, <<x>>) = IF i = j THEN <<e>> ELSE <<>>
  BY <1>4, <1>5, EventSeqs
<1> QED
  BY <1>3, <1>6 DEF x

LEMMA EventsOfLastWords ==
    ASSUME NEW slot \in Slot, slot.job \in Jobs, NEW stop \in Stops, NEW j
    PROVE  /\ LastWords(slot, stop) \in Seq(Entry)
           /\ Done(slot.job, stop, slot.n_decoded) \in Event /\ slot.pending \in Event
           /\ EventsOf(j, LastWords(slot, stop)) =
                IF slot.job # j THEN <<>>
                ELSE (IF slot.pending = NoEvent THEN <<>> ELSE <<slot.pending>>)
                     \o <<Done(slot.job, stop, slot.n_decoded)>>
<1>1. PICK i \in Jobs, p \in Event, e \in Event :
         i = slot.job /\ p = slot.pending /\ e = Done(slot.job, stop, slot.n_decoded)
  BY EventTypes DEF Slot
<1>2. PICK a \in Seq(Entry), b \in Seq(Entry) : a = <<Post(i, p)>> /\ b = <<Post(i, e)>>
  BY EventsOfOne
<1>3. EventsOf(j, a) = (IF i = j THEN <<p>> ELSE <<>>)
      /\ EventsOf(j, b) = (IF i = j THEN <<e>> ELSE <<>>)
  BY <1>2, EventsOfOne
<1>4. PICK first \in Seq(Entry) : /\ first = IF p = NoEvent THEN <<>> ELSE a
                                  /\ LastWords(slot, stop) = first \o b
  <2>1. <<>> \in Seq(Entry)
    BY EmptySeq
  <2> QED
    BY <1>1, <1>2, <2>1 DEF LastWords
<1>5. first \o b \in Seq(Entry) /\ EventsOf(j, first \o b) = EventsOf(j, first) \o EventsOf(j, b)
  BY EventsOfConcat, ConcatProperties
<1>6. EventsOf(j, first) = IF p = NoEvent THEN <<>> ELSE IF i = j THEN <<p>> ELSE <<>>
  BY <1>3, <1>4, EventsOfEmpty
<1>7. <<>> \in Seq(Event) /\ <<>> \o <<>> = <<>>
  <2>1. <<>> \in Seq(Event)
    BY EmptySeq
  <2> QED
    BY <2>1, EventSeqs
<1>8. CASE i = j
  BY <1>1, <1>3, <1>4, <1>5, <1>6, <1>8
<1>9. CASE i # j
  BY <1>1, <1>3, <1>4, <1>5, <1>6, <1>7, <1>9
<1> QED
  BY <1>8, <1>9

\* The last words about a job: the end, or the last token and the end.
LastSaid(j, last, n, e) ==
    \/ Said(j) = Numbered(j, n) /\ last = <<e>>
    \/ /\ n > 0 /\ Said(j) = Numbered(j, n - 1)
       /\ last = <<Token(j, n), e>> /\ e.kind = "done"

\* A step that lets go of job i, adding `words` to the outbox.
Parting(i, words) ==
    /\ outbox' = outbox \o words
    /\ UNCHANGED <<caller, req, got, cancel, events, kept>>
    /\ i \in Occupying /\ Occupying' = Occupying \ {i}
    /\ \A j \in Jobs \ {i} :
          /\ EventsOf(j, words) = <<>>
          /\ \A s \in SeqIds : slots[s].job = j \/ slots'[s].job = j => slots'[s] = slots[s]
    /\ caller[i] \in Live =>
          \E n \in Nat, e \in Event :
             TrueEnd(i, e, n) /\ n <= NCtx /\ LastSaid(i, EventsOf(i, words), n, e)
Parts == \E i \in Jobs, words \in Seq(Entry) : Parting(i, words)

LEMMA LastSaidEnds ==
    ASSUME NEW j \in Jobs, NEW n \in Nat, NEW e \in Event, NEW last, LastSaid(j, last, n, e)
    PROVE  Ended(j, Said(j) \o last, Len(last), n, e)
<1>1. CASE Said(j) = Numbered(j, n) /\ last = <<e>>
  <2>1. Ended(j, Said(j) \o last, 1, n, e)
    BY <1>1 DEF Ended
  <2>2. Len(last) = 1
    BY <1>1
  <2> QED
    BY <2>1, <2>2 DEF Ended
<1>2. CASE n > 0 /\ Said(j) = Numbered(j, n - 1) /\ last = <<Token(j, n), e>>
  <2>1. PICK m \in Nat : n = m + 1 /\ n - 1 = m
    <3>1. n - 1 \in Nat /\ n = (n - 1) + 1
      BY <1>2
    <3> QED
      BY <3>1
  <2>a. PICK a \in Seq(Event) : a = Numbered(j, m)
    BY <2>1, NumberedTypes
  <2>b. PICK x \in Event : x = Token(j, m + 1)
    BY <2>1, EventTypes
  <2>2. a = Numbered(j, m) /\ x = Token(j, m + 1)
    BY <2>a, <2>b
  <2>3. PICK z \in Seq(Event), y \in Seq(Event) : z = <<x>> /\ y = <<e>> /\ z \o y = <<x, e>>
    BY Pairs
  <2>4. a \o z = Append(a, x)
    BY <2>3, AppendIsConcat
  <2>5. Append(a, x) = Numbered(j, n)
    BY <2>1, <2>2, NumberedTypes
  <2>6. a \o (z \o y) = (a \o z) \o y
    BY SMTT(30), EventSeqs
  <2>7. Said(j) = a /\ last = z \o y
    BY <1>2, <2>1, <2>2, <2>3
  <2>8. Said(j) \o last = Numbered(j, n) \o <<e>>
    BY <2>3, <2>4, <2>5, <2>6, <2>7
  <2>9. Ended(j, Said(j) \o last, 2, n, e)
    BY <2>8 DEF Ended
  <2>10. Len(last) = 2
    BY <1>2
  <2> QED
    BY <2>9, <2>10 DEF Ended
<1> QED
  BY <1>1, <1>2 DEF LastSaid

LEMMA OwedNext ==
    ASSUME TypeOK, NEW words \in Seq(Entry), outbox' = outbox \o words, kept' = kept, NEW j
    PROVE  /\ Owed(j)' = Owed(j) \o EventsOf(j, words)
           /\ Owed(j) \in Seq(Event) /\ EventsOf(j, words) \in Seq(Event)
<1>1. PICK k \in Seq(Entry), o \in Seq(Entry) : k = kept /\ o = outbox
  BY DEF TypeOK
<1>2. kept' \o outbox' = k \o (o \o words) /\ kept \o outbox = k \o o
  BY <1>1
<1>3. k \o (o \o words) = (k \o o) \o words /\ k \o o \in Seq(Entry)
  BY EntrySeqs
<1>4. EventsOf(j, (k \o o) \o words) = EventsOf(j, k \o o) \o EventsOf(j, words)
  BY <1>3, EventsOfConcat
<1> QED
  BY <1>2, <1>3, <1>4, EventsOfTypes DEF Owed

LEMMA PartingReplies ==
    ASSUME TypeOK, PoolInv, PlaceInv, ReplyInv, PlaceInv', Parts
    PROVE  ReplyInv'
<1>1. PICK i \in Jobs, words \in Seq(Entry) : Parting(i, words)
  BY DEF Parts
<1>2. /\ UNCHANGED <<caller, req, got, cancel, events>>
      /\ i \in Occupying /\ Occupying' = Occupying \ {i}
  BY <1>1 DEF Parting
<1>3. ASSUME NEW j
      PROVE  /\ Owed(j)' = Owed(j) \o EventsOf(j, words) /\ Said(j)' = Said(j)
             /\ Owed(j) \in Seq(Event) /\ EventsOf(j, words) \in Seq(Event)
  BY <1>1, OwedNext DEF Parting, Said
<1>4. ASSUME NEW j \in Jobs, j # i PROVE JobInv(j)'
  <2>1. Owed(j)' = Owed(j)
    <3>1. PICK o \in Seq(Event) : o = Owed(j)
      BY <1>3
    <3>2. o \o <<>> = o
      BY EventSeqs
    <3>3. Owed(j)' = o \o <<>>
      BY <1>1, <1>3, <1>4, <3>1 DEF Parting
    <3> QED
      BY <3>1, <3>2, <3>3
  <2>2. Undecided(j)' <=> Undecided(j)
    BY <1>2, <1>4 DEF Undecided
  <2>3. \A s \in SeqIds : slots[s].job = j \/ slots'[s].job = j => slots'[s] = slots[s]
    BY <1>1, <1>4 DEF Parting
  <2> QED
    BY <1>2, <1>3, <2>1, <2>2, <2>3, JobFrame DEF ReplyInv
<1>5. JobInv(i)'
  <2> SUFFICES ASSUME caller[i] \in Live PROVE Answered(i)' /\ ~Undecided(i)'
    BY <1>2 DEF JobInv
  <2>1. Undecided(i) /\ Unfinished(i) /\ ~Undecided(i)'
    BY <1>2 DEF Undecided, Unused, ReplyInv, JobInv, PlaceInv, OnePlacePerJob
  <2>2. PICK n \in Nat, e \in Event :
           TrueEnd(i, e, n) /\ LastSaid(i, EventsOf(i, words), n, e)
    BY <1>1 DEF Parting
  <2>3. PICK d \in Seq(Event), w \in Seq(Event) : d = Said(i) /\ w = EventsOf(i, words)
    BY <1>3, PartTypes DEF PlaceInv
  <2>4. Owed(i)' = w
    BY <1>3, <2>1, <2>3, EventSeqs DEF Unfinished
  <2>5. PendingOf(i)' = <<>>
    <3>1. i \notin Decoding'
      BY <1>2 DEF Occupying
    <3> QED
      BY <3>1, PendingAtNext DEF PlaceInv
  <2>6. Reply(i)' = d \o w
    <3>1. Reply(i)' = (Said(i)' \o PendingOf(i)') \o Owed(i)'
      BY DEF Reply, Said, Owed
    <3> QED
      BY <1>3, <2>3, <2>4, <2>5, <3>1, EventSeqs
  <2>7. TrueEnd(i, e, n)'
    BY <1>2, <2>2 DEF TrueEnd, TrueStop, MayFail
  <2>8. Ended(i, d \o w, Len(w), n, e)
    BY <2>2, <2>3, LastSaidEnds
  <2>9. Ended(i, Reply(i)', Len(Owed(i)'), n, e)
    BY <2>4, <2>6, <2>8
  <2>10. Answered(i)'
    BY <2>7, <2>9 DEF Answered, Ended
  <2> QED
    BY <2>1, <2>10
<1> QED
  BY <1>4, <1>5 DEF ReplyInv

\* The places, when a slot is given back.
LEMMA VacateOccupying ==
    ASSUME TypeOK, OnePlacePerJob, NEW s \in SeqIds, slots[s].job # NoJob, Vacate(s),
           UNCHANGED <<queue, taken>>
    PROVE  /\ slots[s] \in Slot /\ slots[s].job \in Jobs
           /\ slots[s].job \in Decoding /\ slots[s].job \in Occupying
           /\ Occupying' = Occupying \ {slots[s].job}
           /\ \A j \in Jobs \ {slots[s].job} : \A t \in SeqIds :
                 slots[t].job = j \/ slots'[t].job = j => slots'[t] = slots[t]
<1>1. slots[s] \in Slot /\ slots[s].job \in Jobs
  BY DEF TypeOK, Slot
<1>2. /\ slots'[s].job = NoJob
      /\ \A t \in SeqIds : t # s => slots'[t] = slots[t]
  BY DEF Vacate, TypeOK, Vacant
<1>3. Occupied' = Occupied \ {s} /\ s \in Occupied
  BY <1>2 DEF Occupied
<1>4. Decoding' = Decoding \ {slots[s].job} /\ slots[s].job \in Decoding
  BY <1>2, <1>3 DEF Decoding, Occupied, OnePlacePerJob
<1>5. slots[s].job \notin Queued /\ slots[s].job # taken
  BY <1>4 DEF OnePlacePerJob
<1>6. Occupying' = Occupying \ {slots[s].job} /\ slots[s].job \in Occupying
  BY <1>4, <1>5 DEF Occupying, Queued
<1> QED
  BY <1>1, <1>2, <1>4, <1>6, Sizes

\* A reply whose last token is the piece held back.
LEMMA LastOne ==
    ASSUME NEW j \in Jobs, NEW n \in Nat, NEW d \in Seq(Event), NEW p \in Event,
           d \o <<p>> = Numbered(j, n)
    PROVE  n > 0 /\ d = Numbered(j, n - 1) /\ p = Token(j, n)
<1>1. d \o <<p>> = Append(d, p)
  BY AppendIsConcat
<1>2. /\ Len(Append(d, p)) = Len(d) + 1 /\ Append(d, p)[Len(d) + 1] = p /\ Len(d) \in Nat
      /\ \A i \in 1 .. Len(d) : Append(d, p)[i] = d[i]
  BY AppendProperties, LenProperties
<1>3. /\ Numbered(j, n) \in Seq(Event) /\ Len(Numbered(j, n)) = n
      /\ \A i \in 1 .. n : Numbered(j, n)[i] = Token(j, i)
  BY NumberedTypes
<1>4. PICK r : r = Numbered(j, n) /\ r = Append(d, p)
  BY <1>1
<1>5. PICK m \in Nat : m = Len(d)
  BY <1>2
<1>6. /\ n = m + 1 /\ r[m + 1] = p /\ (\A i \in 1 .. m : r[i] = d[i])
      /\ \A i \in 1 .. n : r[i] = Token(j, i)
  BY <1>2, <1>3, <1>4, <1>5
<1>7. n > 0 /\ n - 1 = m /\ p = Token(j, n)
  BY <1>6
<1>8. /\ Numbered(j, m) \in Seq(Event) /\ Len(Numbered(j, m)) = m
      /\ \A i \in 1 .. m : Numbered(j, m)[i] = Token(j, i)
  BY NumberedTypes
<1>9. \A i \in 1 .. m : d[i] = Numbered(j, m)[i]
  BY <1>6, <1>8
<1>10. d = Numbered(j, m)
  BY <1>5, <1>8, <1>9, SeqEqual
<1> QED
  BY <1>7, <1>10

\* A slot decodes fewer tokens than the window holds.
LEMMA CourseBound ==
    ASSUME TypeOK, CourseInv, NEW s \in SeqIds, slots[s].job # NoJob
    PROVE  slots[s].n_decoded \in Nat /\ slots[s].n_decoded + 1 <= NCtx
<1> DEFINE r == req[slots[s].job]  d == slots[s].n_decoded  b == slots[s].budget
<1>1. slots[s] \in Slot /\ slots[s].job \in Jobs /\ OnCourse(slots[s])
  BY DEF TypeOK, Slot, CourseInv, Occupied
<1>2. /\ r.prompt \in Nat \ {0} /\ r.asked \in Int /\ d \in Nat /\ b \in Nat /\ NCtx \in Nat
  BY <1>1, RequestAssumption, Sizes DEF TypeOK, Request, Slot
<1>3. Fits(r) /\ b = Budget(r) /\ b > 0 /\ (d = 1 \/ d \in 2 .. b - 1)
  BY <1>1 DEF OnCourse
<1> HIDE DEF r, d, b
<1>4. d + 1 <= NCtx
  BY <1>2, <1>3 DEF Fits, Budget, Asked, Room
<1> QED
  BY <1>2, <1>4 DEF d

\* What has been said of a job that is not let go of, by its slot.
LEMMA SaidOfSlot ==
    ASSUME TypeOK, PoolInv, PlaceInv, NEW s \in SeqIds, NEW i \in Jobs, slots[s].job = i,
           Unfinished(i)
    PROVE  /\ slots[s].n_decoded \in Nat /\ slots[s].pending \in Event
           /\ ~Waiting(s) => Said(i) = Numbered(i, slots[s].n_decoded)
           /\ Waiting(s) => /\ slots[s].n_decoded > 0
                            /\ slots[s].pending = Token(i, slots[s].n_decoded)
                            /\ Said(i) = Numbered(i, slots[s].n_decoded - 1)
<1>1. slots[s] \in Slot /\ s \in Occupied
  BY Sizes DEF TypeOK, Occupied
<1>2. PICK n \in Nat : n = slots[s].n_decoded /\ Reply(i) = Numbered(i, n)
  BY <1>1 DEF Unfinished
<1>3. PICK d \in Seq(Event), p \in Seq(Event), x \in Event :
         d = Said(i) /\ p = PendingOf(i) /\ x = slots[s].pending
  BY <1>1, PartTypes DEF PlaceInv, Slot
<1>4. d \o p = Numbered(i, n)
  <2>1. Reply(i) = (d \o p) \o <<>>
    BY <1>3 DEF Reply, Said, Owed, Unfinished
  <2>2. (d \o p) \o <<>> = d \o p
    BY EventSeqs
  <2> QED
    BY <1>2, <2>1, <2>2
<1>5. p = IF Waiting(s) THEN <<x>> ELSE <<>>
  BY <1>3, PendingAt DEF PlaceInv
<1>6. CASE Waiting(s)
  <2>1. d \o <<x>> = Numbered(i, n)
    BY <1>4, <1>5, <1>6
  <2> QED
    BY <1>2, <1>3, <1>6, <2>1, LastOne
<1>7. CASE ~Waiting(s)
  <2>1. d \o <<>> = d
    BY EventSeqs
  <2> QED
    BY <1>2, <1>3, <1>4, <1>5, <1>7, <2>1
<1> QED
  BY <1>6, <1>7

\* A slot taken back with the reason why: what it says completes the reply.
LEMMA RetireReplies ==
    ASSUME TypeOK, PoolInv, PlaceInv, CourseInv, ReplyInv,
           NEW s \in SeqIds, NEW slot \in Slot, NEW stop \in Stops, NEW i \in Jobs,
           slots[s].job = i, slot.job = i, Retire(s, slot, stop),
           UNCHANGED <<caller, req, got, cancel, events, kept, queue, taken>>,
           caller[i] \in Live /\ Unfinished(i) =>
              /\ TrueStop(i, stop, slot.n_decoded)
              /\ \/ slot.pending = slots[s].pending /\ slot.n_decoded = slots[s].n_decoded
                 \/ /\ ~Waiting(s) /\ slot.n_decoded = slots[s].n_decoded + 1
                    /\ slot.pending = Token(i, slots[s].n_decoded + 1)
    PROVE  Parts
<1>1. /\ Vacate(s) /\ outbox' = outbox \o LastWords(slot, stop)
      /\ slots[s].job # NoJob
  BY Sizes DEF Retire
<1>2. /\ slots[s] \in Slot /\ i \in Occupying /\ Occupying' = Occupying \ {i}
      /\ \A j \in Jobs \ {i} : \A t \in SeqIds :
            slots[t].job = j \/ slots'[t].job = j => slots'[t] = slots[t]
  BY <1>1, VacateOccupying DEF PlaceInv
<1> DEFINE held == IF slot.pending = NoEvent THEN <<>> ELSE <<slot.pending>>
<1>3. PICK e \in Event, words \in Seq(Entry) :
         e = Done(i, stop, slot.n_decoded) /\ words = LastWords(slot, stop)
  BY EventsOfLastWords
<1>4. \A j : EventsOf(j, words) = IF i # j THEN <<>> ELSE held \o <<e>>
  BY <1>3, EventsOfLastWords
<1>5. ASSUME caller[i] \in Live
      PROVE  \E n \in Nat : /\ TrueEnd(i, e, n) /\ n <= NCtx
                            /\ LastSaid(i, EventsOf(i, words), n, e)
  <2>1. Unfinished(i)
    BY <1>2, <1>5 DEF ReplyInv, JobInv, Undecided
  <2>2. PICK m \in Nat, d \in Nat, x \in Event :
           m = slot.n_decoded /\ d = slots[s].n_decoded /\ x = slot.pending
    BY <1>2 DEF Slot
  <2>3. TrueEnd(i, e, m)
    BY <1>3, <1>5, <2>1, <2>2 DEF TrueEnd
  <2>4. d + 1 <= NCtx
    BY <1>1, <2>2, CourseBound
  <2>5. e.kind = "done"
    BY <1>3 DEF Done
  <2>6. ASSUME x # NoEvent PROVE EventsOf(i, words) = <<x, e>>
    <3>1. <<x>> \o <<e>> = <<x, e>>
      BY Pairs
    <3> QED
      BY <1>4, <2>2, <2>6, <3>1
  <2>7. ASSUME x = NoEvent PROVE EventsOf(i, words) = <<e>>
    <3>1. PICK y \in Seq(Event) : y = <<e>>
      BY Pairs
    <3>2. <<>> \o y = y
      BY EventSeqs
    <3> QED
      BY <1>4, <2>2, <2>7, <3>1, <3>2
  <2>8. CASE x = slots[s].pending /\ m = d
    <3>1. Waiting(s) <=> x # NoEvent
      BY <2>8 DEF Waiting
    <3>2. LastSaid(i, EventsOf(i, words), m, e)
      BY <2>1, <2>2, <2>5, <2>6, <2>7, <2>8, <3>1, SaidOfSlot DEF LastSaid
    <3> QED
      BY <2>3, <2>4, <2>8, <3>2, Sizes
  <2>9. CASE ~Waiting(s) /\ m = d + 1 /\ x = Token(i, d + 1)
    <3>1. x # NoEvent /\ x = Token(i, m) /\ m > 0 /\ m - 1 = d
      BY <2>9, EventTypes
    <3>2. Said(i) = Numbered(i, m - 1)
      BY <2>1, <2>2, <2>9, <3>1, SaidOfSlot
    <3>3. LastSaid(i, EventsOf(i, words), m, e)
      BY <2>5, <2>6, <3>1, <3>2 DEF LastSaid
    <3> QED
      BY <2>3, <2>4, <2>9, <3>3
  <2> QED
    BY <1>5, <2>1, <2>2, <2>8, <2>9
<1>6. \A j \in Jobs \ {i} : EventsOf(j, words) = <<>>
  BY <1>4
<1>7. outbox' = outbox \o words
  BY <1>1, <1>3
<1> HIDE DEF held
<1>8. Parting(i, words)
  BY <1>2, <1>5, <1>6, <1>7 DEF Parting
<1> QED
  BY <1>8 DEF Parts

\* One entry more.
LEMMA PostOne ==
    ASSUME TypeOK, NEW i \in Jobs, NEW e \in Event, outbox' = Append(outbox, Post(i, e))
    PROVE  \E words \in Seq(Entry) :
              /\ outbox' = outbox \o words
              /\ \A j : EventsOf(j, words) = IF i = j THEN <<e>> ELSE <<>>
<1>1. PICK words \in Seq(Entry) : words = <<Post(i, e)>>
  BY EventsOfOne
<1>2. outbox' = outbox \o words
  <2>1. PICK o \in Seq(Entry), x \in Entry : o = outbox /\ x = Post(i, e)
    BY PostTypes DEF TypeOK
  <2>2. Append(o, x) = o \o <<x>>
    BY AppendIsConcat
  <2> QED
    BY <1>1, <2>1, <2>2
<1>3. \A j : EventsOf(j, words) = IF i = j THEN <<e>> ELSE <<>>
  BY <1>1, EventsOfOne
<1> QED
  BY <1>2, <1>3

\* A slot taken back because of a failure.
LEMMA FailReplies ==
    ASSUME TypeOK, PoolInv, PlaceInv, CourseInv, ReplyInv,
           NEW s \in SeqIds, slots[s].job # NoJob, ~Waiting(s), Fail(s), MayFail(slots[s].job),
           UNCHANGED <<caller, req, got, cancel, events, kept, queue, taken>>
    PROVE  Parts
<1>1. PICK i \in Jobs : i = slots[s].job
  BY DEF TypeOK, Slot
<1>2. PICK e \in Event : e = Failed(i)
  BY EventTypes
<1>3. Vacate(s) /\ outbox' = Append(outbox, Post(i, e))
  BY <1>1, <1>2 DEF Fail
<1>4. /\ i \in Occupying /\ Occupying' = Occupying \ {i}
      /\ \A j \in Jobs \ {i} : \A t \in SeqIds :
            slots[t].job = j \/ slots'[t].job = j => slots'[t] = slots[t]
  BY <1>1, <1>3, VacateOccupying DEF PlaceInv
<1>5. PICK words \in Seq(Entry) : /\ outbox' = outbox \o words
                                  /\ \A j : EventsOf(j, words) = IF i = j THEN <<e>> ELSE <<>>
  BY <1>3, PostOne
<1>6. ASSUME caller[i] \in Live
      PROVE  \E n \in Nat : /\ TrueEnd(i, e, n) /\ n <= NCtx
                            /\ LastSaid(i, EventsOf(i, words), n, e)
  <2>1. Unfinished(i)
    BY <1>4, <1>6 DEF ReplyInv, JobInv, Undecided
  <2>2. PICK n \in Nat : n = slots[s].n_decoded /\ n + 1 <= NCtx
    BY CourseBound
  <2>3. Said(i) = Numbered(i, n)
    BY <1>1, <2>1, <2>2, SaidOfSlot
  <2>4. TrueEnd(i, e, n)
    BY <1>1, <1>2 DEF TrueEnd
  <2>5. LastSaid(i, EventsOf(i, words), n, e)
    BY <1>5, <2>3 DEF LastSaid
  <2> QED
    BY <2>2, <2>4, <2>5, Sizes
<1>7. Parting(i, words)
  BY <1>4, <1>5, <1>6 DEF Parting
<1> QED
  BY <1>7 DEF Parts

(***************************************************************************)
(* Why each step that lets go of a job may say what it says.               *)
(***************************************************************************)

\* StallTimeout: a full channel holds ChanCap events of the reply, and the
\* piece that would not go in is one more.  FlushClosed: nobody is there to be
\* told.
LEMMA StallReplies ==
    ASSUME TypeOK, PoolInv, PlaceInv, CourseInv, ReplyInv, NEW s \in SeqIds,
           StallTimeout(s) \/ FlushClosed(s)
    PROVE  Parts
<1> USE DEF poolVars, loopVars, sharedVars, callerVars
<1>1. Waiting(s) /\ UNCHANGED <<caller, req, got, cancel, events, kept, queue, taken>>
  BY DEF StallTimeout, FlushClosed
<1>2. PICK i \in Jobs : i = slots[s].job /\ slots[s] \in Slot
  BY <1>1 DEF TypeOK, Slot, PoolInv, PhaseInv
<1>3. "Cancelled" \in Stops
  BY DEF Stops
<1>4. CASE FlushClosed(s)
  <2> DEFINE slot == [slots[s] EXCEPT !.pending = NoEvent]
  <2>1. slot \in Slot /\ slot.job = i
    BY <1>2, EventTypes DEF Slot
  <2>2. Retire(s, slot, "Cancelled") /\ caller[i] \notin Live
    BY <1>2, <1>4 DEF FlushClosed, SendClosed, Live
  <2> HIDE DEF slot
  <2> QED
    BY <1>1, <1>2, <1>3, <2>1, <2>2, RetireReplies
<1>5. CASE StallTimeout(s)
  <2>1. Retire(s, slots[s], "Cancelled") /\ Len(events[i]) >= ChanCap
    BY <1>2, <1>5 DEF StallTimeout, SendFull
  <2>2. ASSUME Unfinished(i) PROVE ChanCap < slots[s].n_decoded
    <3>1. PICK n \in Nat : Reply(i) = Numbered(i, n) /\ slots[s].n_decoded = n
      BY <1>2, <2>2, Sizes DEF Unfinished, Occupied
    <3>2. PICK g \in Seq(Event), v \in Seq(Event), p \in Seq(Event) :
             g = got[i] /\ v = events[i] /\ p = PendingOf(i)
      BY PartTypes DEF PlaceInv
    <3>3. Reply(i) = ((g \o v) \o p) \o <<>>
      BY <2>2, <3>2 DEF Reply, Unfinished, Owed
    <3>4. Len(((g \o v) \o p) \o <<>>) = Len(g) + Len(v) + Len(p)
      BY EventSeqs
    <3>5. Len(p) = 1
      BY <1>1, <1>2, <3>2, PendingAt DEF PlaceInv
    <3>6. Len(Numbered(i, n)) = n
      BY NumberedTypes
    <3>7. Len(g) \in Nat /\ Len(v) >= ChanCap
      BY <2>1, <3>2, LenProperties
    <3>8. n = Len(g) + Len(v) + Len(p)
      BY <3>1, <3>3, <3>4, <3>6
    <3> QED
      BY <3>1, <3>5, <3>7, <3>8, Sizes, LenProperties
  <2>3. Unfinished(i) => TrueStop(i, "Cancelled", slots[s].n_decoded)
    BY <2>2 DEF TrueStop
  <2> QED
    BY <1>1, <1>2, <1>3, <2>1, <2>3, RetireReplies
<1> QED
  BY <1>4, <1>5

\* CollectCancelled: the flag is set.
LEMMA CancelReplies ==
    ASSUME TypeOK, PoolInv, PlaceInv, CourseInv, ReplyInv, NEW s \in SeqIds,
           CollectCancelled(s)
    PROVE  Parts
<1> USE DEF poolVars, loopVars, sharedVars, callerVars
<1>1. /\ Retire(s, slots[s], "Cancelled") /\ Cancelled(s)
      /\ UNCHANGED <<caller, req, got, cancel, events, kept, queue, taken>>
  BY DEF CollectCancelled
<1>2. PICK i \in Jobs : i = slots[s].job /\ slots[s] \in Slot
  BY <1>1 DEF TypeOK, Slot, Cancelled
<1>3. "Cancelled" \in Stops /\ TrueStop(i, "Cancelled", slots[s].n_decoded)
  BY <1>1, <1>2 DEF Stops, TrueStop, Cancelled
<1> QED
  BY <1>1, <1>2, <1>3, RetireReplies

\* SampleEog, and SampleLast: the budget is spent, which is the number asked
\* for, or two if that is one, or what the window leaves.
LEMMA SampleReplies ==
    ASSUME TypeOK, PoolInv, PlaceInv, CourseInv, ReplyInv, SampleEog \/ SampleLast
    PROVE  Parts
<1> USE DEF poolVars, loopVars, sharedVars, callerVars
<1>1. rows # <<>> /\ UNCHANGED <<caller, req, got, cancel, events, kept, queue, taken>>
  BY DEF SampleEog, SampleLast
<1>2. PICK i \in Jobs, s \in SeqIds :
         /\ s = RowSlot /\ i = slots[s].job /\ slots[s] \in Slot /\ RowJob = i /\ ~Waiting(s)
  BY <1>1, HeadRow DEF PoolInv
<1>3. CASE SampleEog
  <2>1. Retire(s, slots[s], "EndOfGeneration")
    BY <1>2, <1>3 DEF SampleEog
  <2>2. "EndOfGeneration" \in Stops /\ TrueStop(i, "EndOfGeneration", slots[s].n_decoded)
    BY DEF Stops, TrueStop
  <2> QED
    BY <1>1, <1>2, <2>1, <2>2, RetireReplies
<1>4. CASE SampleLast
  <2> DEFINE d == slots[s].n_decoded
             stop == IF Sampled.context_bound THEN "ContextFull" ELSE "Limit"
  <2>1. Retire(s, Sampled, stop) /\ Sampled.n_decoded >= Sampled.budget
    BY <1>2, <1>4 DEF SampleLast
  <2>2. /\ Sampled.job = i /\ Sampled.n_decoded = d + 1 /\ Sampled.budget = slots[s].budget
        /\ Sampled.context_bound = slots[s].context_bound
        /\ Sampled.pending = Token(i, d + 1) /\ Sampled \in Slot
    <3>1. PICK old \in Slot : old = slots[s]
      BY <1>2
    <3>2. old.n_decoded \in Nat /\ old.n_cur \in Nat
      BY DEF Slot
    <3>3. PICK x \in Event : x = Token(i, old.n_decoded + 1)
      BY <3>2, EventTypes
    <3>4. Sampled = [old EXCEPT !.n_cur = old.n_cur + 1, !.n_decoded = old.n_decoded + 1,
                                !.pending = x]
      BY <1>2, <3>1, <3>3 DEF Sampled
    <3>5. PICK c \in Nat, n \in Nat : c = old.n_cur + 1 /\ n = old.n_decoded + 1
      BY <3>2
    <3>6. Sampled = [old EXCEPT !.n_cur = c, !.n_decoded = n, !.pending = x]
      BY <3>4, <3>5
    <3>7. Sampled \in Slot
      BY <3>6 DEF Slot
    <3>8. /\ Sampled.job = old.job /\ Sampled.n_decoded = n /\ Sampled.budget = old.budget
          /\ Sampled.context_bound = old.context_bound /\ Sampled.pending = x
      BY <3>6 DEF Slot
    <3> QED
      BY <1>2, <3>1, <3>3, <3>5, <3>7, <3>8
  <2>3. stop \in Stops
    BY DEF Stops
  <2>4. TrueStop(i, stop, d + 1)
    <3> DEFINE r == req[i]  b == slots[s].budget
    <3>1. OnCourse(slots[s])
      BY <1>2, Sizes DEF CourseInv, Occupied
    <3>2. /\ b = Budget(r) /\ b > 0 /\ (d = 1 \/ d \in 2 .. b - 1)
          /\ slots[s].context_bound = ContextBound(r)
      BY <1>2, <3>1 DEF OnCourse
    <3>3. r.prompt \in Nat /\ r.asked \in Int /\ d \in Nat /\ b \in Nat /\ NCtx \in Nat
      BY <1>2, RequestAssumption, Sizes DEF TypeOK, Request, Slot
    <3>4. d + 1 >= b /\ (stop = "ContextFull" <=> ContextBound(r)) /\ stop # "Cancelled"
          /\ (stop = "Limit" <=> ~ContextBound(r))
      BY <2>1, <2>2, <3>2
    <3> HIDE DEF r, b, d, stop
    <3>5. ContextBound(r) => NCtx <= r.prompt + (d + 1)
      BY <3>2, <3>3, <3>4 DEF ContextBound, Budget, Asked, Room
    <3>6. ~ContextBound(r) => 0 < r.asked /\ d + 1 = IF r.asked = 1 THEN 2 ELSE r.asked
      BY <3>2, <3>3, <3>4 DEF ContextBound, Budget, Asked, Room
    <3> QED
      BY <3>4, <3>5, <3>6 DEF TrueStop, r
  <2> HIDE DEF stop
  <2> QED
    BY <1>1, <1>2, <2>1, <2>2, <2>3, <2>4, RetireReplies
<1> QED
  BY <1>3, <1>4

\* CollectFail: a full batch, of other slots than the one that has no place in
\* it, is shorter than the slots are many.
LEMMA CollectFailCause ==
    ASSUME TypeOK, PoolInv, BatchIsRows, NEW s \in SeqIds, CollectFail(s)
    PROVE  MaxInflight > BatchCap
<1> DEFINE t == [i \in 1 .. Len(rows) |-> rows[i][1]]
<1>1. pc = "collect" /\ cursor = s /\ Len(batch) >= BatchCap /\ Len(rows) = Len(batch)
  BY DEF CollectFail, BatchIsRows
<1>2. rows \in Seq(SeqIds \X Nat) /\ Len(rows) \in Nat /\ DOMAIN rows = 1 .. Len(rows)
  BY LenProperties DEF TypeOK
<1>3. \A i \in 1 .. Len(rows) : rows[i] \in SeqIds \X Nat
  BY <1>2, SeqTypes
<1>4. \A i \in 1 .. Len(rows) : rows[i][1] \in SeqIds /\ rows[i][1] # s
  <2>1. \A i \in 1 .. Len(rows) : rows[i][1] \in SeqIds /\ rows[i][1] < s
    BY <1>1, <1>2, <1>3 DEF PoolInv, RowsBehindCursor
  <2>2. \A u \in SeqIds : u < s => u # s
    BY Sizes
  <2> QED
    BY <2>1, <2>2
<1>5. t \in Seq(SeqIds) /\ Len(t) = Len(rows) /\ DOMAIN t = 1 .. Len(rows)
  BY <1>2, <1>3
<1>6. Distinct(t)
  BY <1>2, <1>5 DEF Distinct, PoolInv, RowsMatchSlots
<1>7. Elements(t) \subseteq SeqIds \ {s}
  BY <1>4, <1>5 DEF Elements
<1> HIDE DEF t
<1>8. Cardinality(Elements(t)) = Len(rows)
  BY <1>5, <1>6, DistinctCount
<1>9. /\ IsFiniteSet(SeqIds \ {s}) /\ Cardinality(SeqIds \ {s}) = MaxInflight - 1
      /\ Cardinality(Elements(t)) <= Cardinality(SeqIds \ {s})
  <2>1. IsFiniteSet(SeqIds) /\ Cardinality(SeqIds) = MaxInflight
    BY Sizes, FS_Interval DEF SeqIds
  <2>2. IsFiniteSet(SeqIds \ {s}) /\ Cardinality(SeqIds \ {s}) = Cardinality(SeqIds) - 1
    BY <2>1, FS_RemoveElement
  <2> QED
    BY <1>7, <2>1, <2>2, FS_Subset
<1> QED
  BY <1>1, <1>2, <1>8, <1>9, Sizes

\* The failures of a step: a batch that is too short, a failed decode, a piece
\* that is not text.
FailingInv == pc = "failing" => "decode" \in Faults

LEMMA FailureReplies ==
    ASSUME TypeOK, PoolInv, PlaceInv, BatchIsRows, CourseInv, FailingInv, ReplyInv,
           FailRow \/ SampleFail \/ \E s \in SeqIds : CollectFail(s)
    PROVE  Parts
<1> USE DEF poolVars, loopVars, sharedVars, callerVars
<1>1. ASSUME NEW s \in SeqIds, CollectFail(s) PROVE Parts
  <2>1. /\ slots[s].job # NoJob /\ ~Waiting(s) /\ Fail(s)
        /\ UNCHANGED <<caller, req, got, cancel, events, kept, queue, taken>>
    BY <1>1 DEF CollectFail, Ready
  <2>2. MayFail(slots[s].job)
    BY <1>1, CollectFailCause DEF MayFail
  <2> QED
    BY <2>1, <2>2, FailReplies
<1>2. CASE FailRow \/ SampleFail
  <2>1. /\ rows # <<>> /\ UNCHANGED <<caller, req, got, cancel, events, kept, queue, taken>>
        /\ Faults # {}
    BY <1>2 DEF FailRow, SampleFail, FailingInv
  <2>2. RowSlot \in SeqIds /\ slots[RowSlot].job # NoJob /\ ~Waiting(RowSlot)
    BY <2>1, HeadRow, Sizes DEF PoolInv
  <2>3. Fail(RowSlot)
    BY <1>2 DEF FailRow, SampleFail, RowSlot
  <2>4. MayFail(slots[RowSlot].job)
    BY <2>1 DEF MayFail
  <2> QED
    BY <2>1, <2>2, <2>3, <2>4, FailReplies
<1> QED
  BY <1>1, <1>2

\* One last event, said of a job that has no slot.
LEMMA SettleReplies ==
    ASSUME TypeOK, PoolInv, PlaceInv, ReplyInv,
           NEW i \in Jobs, NEW e \in Event, outbox' = Append(outbox, Post(i, e)),
           UNCHANGED <<caller, req, got, cancel, events, kept, slots>>,
           i \in Occupying, i \notin Decoding, Occupying' = Occupying \ {i},
           TrueEnd(i, e, 0)
    PROVE  Parts
<1>1. PICK words \in Seq(Entry) : /\ outbox' = outbox \o words
                                  /\ \A j : EventsOf(j, words) = IF i = j THEN <<e>> ELSE <<>>
  BY PostOne
<1>2. ASSUME caller[i] \in Live PROVE LastSaid(i, EventsOf(i, words), 0, e)
  <2>1. Unfinished(i)
    BY <1>2 DEF ReplyInv, JobInv, Undecided
  <2>2. Reply(i) = Numbered(i, 0) /\ PendingOf(i) = <<>>
    BY <2>1, PendingAt DEF Unfinished, PlaceInv
  <2>3. PICK d \in Seq(Event) : d = Said(i)
    BY PartTypes DEF PlaceInv
  <2>4. Reply(i) = (d \o <<>>) \o <<>>
    BY <2>1, <2>2, <2>3 DEF Reply, Said, Owed, Unfinished
  <2>5. (d \o <<>>) \o <<>> = d
    BY EventSeqs
  <2> QED
    BY <1>1, <2>2, <2>3, <2>4, <2>5 DEF LastSaid
<1>3. 0 \in Nat /\ 0 <= NCtx
  BY Sizes
<1>4. Parting(i, words)
  BY <1>1, <1>2, <1>3 DEF Parting
<1> QED
  BY <1>4 DEF Parts

\* A job cancelled in the queue.
LEMMA AdmitReplies ==
    ASSUME TypeOK, PoolInv, PlaceInv, ReplyInv, AdmitCancelled
    PROVE  Parts
<1> USE DEF poolVars, loopVars, sharedVars, callerVars
<1>1. PICK i \in Jobs, e \in Event : i = Head(queue) /\ e = Done(i, "Cancelled", 0)
  <2>1. Head(queue) \in Jobs
    BY DequeuePlaces DEF AdmitCancelled
  <2>2. "Cancelled" \in Stops
    BY DEF Stops
  <2> QED
    BY <2>1, <2>2, EventTypes
<1>2. /\ outbox' = Append(outbox, Post(i, e)) /\ cancel[i]
      /\ UNCHANGED <<caller, req, got, cancel, events, kept, slots, taken>>
  BY <1>1 DEF AdmitCancelled
<1>3. i \in Occupying /\ i \notin Decoding /\ Occupying' = Occupying \ {i}
  <2>1. /\ i \in Queued /\ i \notin Decoding /\ i # taken /\ Queued' = Queued \ {i}
    BY <1>1, DequeuePlaces DEF AdmitCancelled
  <2>2. Decoding' = Decoding
    BY <1>2 DEF Decoding, Occupied
  <2> QED
    BY <1>2, <2>1, <2>2 DEF Occupying
<1>4. TrueEnd(i, e, 0)
  BY <1>1, <1>2 DEF TrueEnd, TrueStop, Stops
<1> QED
  BY <1>2, <1>3, <1>4, SettleReplies

\* A prefill that ends or fails.
LEMMA PrefillEndReplies ==
    ASSUME TypeOK, PoolInv, PlaceInv, ReplyInv, NEW s \in SeqIds,
           PrefillFinish(s) \/ PrefillFail(s)
    PROVE  Parts
<1> USE DEF poolVars, loopVars, sharedVars, callerVars
<1>1. pc = "prefill" /\ UNCHANGED <<caller, req, got, cancel, events, kept, slots, queue>>
  BY DEF PrefillFinish, PrefillFail
<1>2. PICK i \in Jobs : i = taken
  BY <1>1 DEF PoolInv, PhaseInv, TypeOK
<1>3. /\ req[i].prompt \in Nat /\ req[i].asked \in Int
      /\ NCtx \in Nat
  BY RequestAssumption, Sizes DEF TypeOK, Request
<1>4. PICK e \in Event : TrueEnd(i, e, 0) /\ Settle(s, e)
  <2>1. CASE PrefillFail(s)
    <3>1. Failed(i) \in Event
      BY EventTypes
    <3>2. Settle(s, Failed(i))
      BY <1>2, <2>1 DEF PrefillFail
    <3>3. MayFail(i)
      BY <1>2, <1>3, <2>1 DEF PrefillFail, MayFail, Fits
    <3> QED
      BY <3>1, <3>2, <3>3 DEF TrueEnd
  <2>2. CASE PrefillFinish(s)
    <3>1. PICK stop \in Stops :
             /\ Settle(s, Done(i, stop, 0))
             /\ \/ stop = "EndOfGeneration"
                \/ stop = "ContextFull" /\ Fits(req[i]) /\ Budget(req[i]) = 0
      BY <1>2, <2>2 DEF PrefillFinish, Stops
    <3>2. TrueStop(i, stop, 0)
      <4>1. Fits(req[i]) /\ Budget(req[i]) = 0 => req[i].asked <= 0
        BY <1>3 DEF Fits, Budget, Asked, Room
      <4> QED
        BY <3>1, <4>1 DEF TrueStop
    <3>3. Done(i, stop, 0) \in Event
      BY EventTypes
    <3> QED
      BY <3>1, <3>2, <3>3 DEF TrueEnd
  <2> QED
    BY <2>1, <2>2
<1>5. outbox' = Append(outbox, Post(i, e)) /\ taken' = NoJob
  BY <1>2, <1>4 DEF Settle
<1>6. i \in Occupying /\ i \notin Decoding /\ Occupying' = Occupying \ {i}
  <2>1. Decoding' = Decoding /\ Queued' = Queued
    BY <1>1 DEF Decoding, Occupied, Queued
  <2>2. i \notin Queued /\ i \notin Decoding
    BY <1>2 DEF PlaceInv, OnePlacePerJob
  <2> QED
    BY <1>2, <1>5, <2>1, <2>2, Sizes DEF Occupying
<1> QED
  BY <1>1, <1>4, <1>5, <1>6, SettleReplies

(***************************************************************************)
(* The steps that add a token.                                             *)
(***************************************************************************)

\* One more token in a job's slot, which held none back.
LEMMA TokenReplies ==
    ASSUME TypeOK, PoolInv, PlaceInv, ReplyInv, OnePlacePerJob',
           UNCHANGED <<caller, req, got, cancel, events, kept, outbox>>,
           Occupying' = Occupying, NEW s \in SeqIds, NEW i \in Jobs, NEW n \in Nat,
           i \in Occupying, PendingOf(i) = <<>>,
           Unfinished(i) => Reply(i) = Numbered(i, n),
           slots'[s].job = i, slots'[s].n_decoded = n + 1, slots'[s].pending = Token(i, n + 1),
           \A t \in SeqIds : t # s => slots'[t] = slots[t],
           \A j \in Jobs \ {i} : slots[s].job # j
    PROVE  ReplyInv'
<1>1. \A j : Owed(j)' = Owed(j) /\ Said(j)' = Said(j) /\ (Undecided(j)' <=> Undecided(j))
  BY DEF Owed, Said, Undecided
<1>2. ASSUME NEW j \in Jobs, j # i PROVE JobInv(j)'
  BY <1>1, <1>2, JobFrame DEF ReplyInv
<1>3. JobInv(i)'
  <2> SUFFICES ASSUME caller[i] \in Live PROVE Unfinished(i)' /\ Undecided(i)'
    BY DEF JobInv
  <2>1. Undecided(i) /\ Unfinished(i)
    BY DEF Undecided, ReplyInv, JobInv
  <2>2. PICK d \in Seq(Event), x \in Event : d = Said(i) /\ x = Token(i, n + 1) /\ x # NoEvent
    BY EventTypes, PartTypes DEF PlaceInv
  <2>3. d = Numbered(i, n)
    <3>1. Reply(i) = (d \o <<>>) \o <<>>
      BY <2>1, <2>2 DEF Reply, Said, Owed, Unfinished
    <3>2. (d \o <<>>) \o <<>> = d
      BY EventSeqs
    <3> QED
      BY <2>1, <3>1, <3>2
  <2>4. PendingOf(i)' = <<x>>
    BY <2>2, PendingAtNext
  <2>5. Reply(i)' = Numbered(i, n + 1)
    <3>1. PICK z \in Seq(Event) : z = <<x>>
      BY Pairs
    <3>2. Reply(i)' = (d \o z) \o <<>>
      BY <1>1, <2>1, <2>2, <2>4, <3>1 DEF Reply, Said, Owed, Unfinished
    <3>3. (d \o z) \o <<>> = d \o z
      BY EventSeqs
    <3>4. d \o z = Append(d, x)
      BY <3>1, AppendIsConcat
    <3>5. Append(d, x) = Numbered(i, n + 1)
      <4>1. Append(Numbered(i, n), Token(i, n + 1)) = Numbered(i, n + 1)
        BY NumberedTypes
      <4> QED
        BY <4>1, <2>2, <2>3
    <3> QED
      BY <3>2, <3>3, <3>4, <3>5
  <2>6. i \in Decoding' /\ \A t \in Occupied' : slots'[t].job = i => t = s
    <3>1. s \in Occupied'
      BY Sizes DEF Occupied
    <3> QED
      BY <3>1 DEF Decoding, OnePlacePerJob
  <2>7. Owed(i)' = <<>>
    BY <1>1, <2>1 DEF Unfinished
  <2>8. Unfinished(i)'
    BY <2>5, <2>6, <2>7 DEF Unfinished
  <2> QED
    BY <1>1, <2>1, <2>8
<1> QED
  BY <1>2, <1>3 DEF ReplyInv

\* The first one, of a prefill.
LEMMA PrefillRunReplies ==
    ASSUME TypeOK, PoolInv, PlaceInv, ReplyInv, PlaceInv', NEW s \in SeqIds, PrefillRun(s)
    PROVE  ReplyInv'
<1> USE DEF poolVars, loopVars, sharedVars, callerVars
<1>1. PICK i \in Jobs : i = taken
  BY PrefillRunSlots
<1>2. UNCHANGED <<caller, req, got, cancel, events, kept, outbox, queue>> /\ taken' = NoJob
  BY DEF PrefillRun
<1>3. /\ s \notin Occupied /\ Occupied' = Occupied \cup {s}
      /\ \A t \in SeqIds : t # s => slots'[t] = slots[t]
      /\ slots'[s].job = i /\ slots'[s].n_decoded = 1 /\ slots'[s].pending = Token(i, 1)
  BY <1>1, PrefillRunSlots
<1>4. i \notin Queued /\ i \notin Decoding /\ i \in Occupying
  BY <1>1, Sizes DEF PlaceInv, OnePlacePerJob, Occupying
<1>5. Occupying' = Occupying
  <2>1. Decoding' = Decoding \cup {i} /\ Queued' = Queued
    BY <1>2, <1>3 DEF Decoding, Occupied, Queued
  <2> QED
    BY <1>1, <1>2, <2>1, Sizes DEF Occupying
<1>6. PendingOf(i) = <<>> /\ (Unfinished(i) => Reply(i) = Numbered(i, 0))
  BY <1>4, PendingAt DEF PlaceInv, Unfinished
<1>7. \A j \in Jobs \ {i} : slots[s].job # j
  BY <1>3, Sizes DEF Occupied
<1>8. 0 \in Nat /\ 0 + 1 = 1
  OBVIOUS
<1>9. slots'[s].n_decoded = 0 + 1 /\ slots'[s].pending = Token(i, 0 + 1)
  BY <1>3, <1>8
<1> QED
  BY <1>2, <1>3, <1>4, <1>5, <1>6, <1>7, <1>8, <1>9, TokenReplies DEF PlaceInv

\* The next one.
LEMMA SampleTokenReplies ==
    ASSUME TypeOK, PoolInv, PlaceInv, ReplyInv, PlaceInv', SampleToken
    PROVE  ReplyInv'
<1> USE DEF poolVars, loopVars, sharedVars, callerVars
<1>1. /\ rows # <<>>
      /\ UNCHANGED <<caller, req, got, cancel, events, kept, outbox, queue, taken>>
  BY DEF SampleToken
<1>2. PICK i \in Jobs, s \in SeqIds, n \in Nat :
         /\ s = RowSlot /\ i = slots[s].job /\ RowJob = i /\ ~Waiting(s)
         /\ n = slots[s].n_decoded /\ slots[s] \in Slot
  BY <1>1, HeadRow DEF PoolInv, Slot
<1>3. /\ s \in Occupied /\ Occupied' = Occupied /\ slots'[s] = Sampled
      /\ \A t \in SeqIds : t # s => slots'[t] = slots[t]
  BY <1>2, SampleTokenSlots
<1>4. slots'[s].job = i /\ slots'[s].n_decoded = n + 1 /\ slots'[s].pending = Token(i, n + 1)
  BY <1>2, <1>3 DEF Sampled, Slot
<1>5. Occupying' = Occupying /\ i \in Occupying
  <2>1. Decoding' = Decoding /\ i \in Decoding
    BY <1>2, <1>3, <1>4 DEF Decoding, Occupied
  <2> QED
    BY <1>1, <2>1 DEF Occupying, Queued
<1>6. PendingOf(i) = <<>>
  BY <1>2, PendingAt DEF PlaceInv
<1>7. Unfinished(i) => Reply(i) = Numbered(i, n)
  BY <1>2, <1>3 DEF Unfinished
<1>8. \A j \in Jobs \ {i} : slots[s].job # j
  BY <1>2
<1> QED
  BY <1>1, <1>2, <1>3, <1>4, <1>5, <1>6, <1>7, <1>8, TokenReplies DEF PlaceInv

(***************************************************************************)
(* The invariant.                                                          *)
(***************************************************************************)
LEMMA FailingStep == FailingInv /\ [Next]_vars => FailingInv'
<1> SUFFICES ASSUME FailingInv, [Next]_vars, pc' = "failing" PROVE "decode" \in Faults
  BY DEF FailingInv
<1>1. pc = "failing" \/ DecodeFail
  BY DEF vars, callerVars, sharedVars, poolVars, loopVars,
         Next, CallerStep, SubmitQueued, SubmitRefused, CountIn, Recv, Cancel, DropGeneration,
         DropHandle, EngineStep, DrainDeliver, DrainKeep, DrainDiscard, DrainEnd, FlushReady,
         FlushDeliver, FlushStalled, StallTimeout, FlushClosed, FlushEnd, AdmitNone,
         AdmitClosed, AdmitCancelled, AdmitTake, PrefillRun, PrefillFinish, PrefillFail, Settle,
         MeterExit, MeterStep, CollectSkip, CollectCancelled,
         CollectRow, CollectFail, CollectEnd, DecodeOk, FailRow, FailEnd,
         SampleEog, SampleFail, SampleToken, SampleLast, SampleEnd
<1> QED
  BY <1>1 DEF FailingInv, DecodeFail

\* The steps that let go of a job.
Leaves ==
    \/ FailRow \/ SampleEog \/ SampleFail \/ SampleLast \/ AdmitCancelled
    \/ \E s \in SeqIds : \/ StallTimeout(s) \/ FlushClosed(s) \/ CollectCancelled(s)
                         \/ CollectFail(s) \/ PrefillFinish(s) \/ PrefillFail(s)

LEMMA LeavesPart ==
    ASSUME TypeOK, PoolInv, PlaceInv, BatchIsRows, CourseInv, FailingInv, ReplyInv, Leaves
    PROVE  Parts
  BY StallReplies, CancelReplies, SampleReplies, FailureReplies, AdmitReplies,
     PrefillEndReplies DEF Leaves

LEMMA ReplyStep ==
    TypeOK /\ PoolInv /\ PlaceInv /\ TakenInPrefill /\ BatchIsRows /\ CourseInv
      /\ FailingInv /\ ReplyInv /\ [Next]_vars => ReplyInv'
<1> SUFFICES ASSUME TypeOK, PoolInv, PlaceInv, TakenInPrefill, BatchIsRows, CourseInv,
                    FailingInv, ReplyInv, [Next]_vars
             PROVE  ReplyInv'
  OBVIOUS
<1>1. TypeOK' /\ PlaceInv'
  BY TypeStep, PlaceStep
<1>2. CASE CallerStep
  BY <1>2, CallerReplies
<1>3. CASE Quiet
  BY <1>3, QuietReplies
<1>4. CASE DrainDeliver \/ DrainDiscard
  BY <1>1, <1>4, DeliverReplies
<1>5. ASSUME NEW s \in SeqIds, FlushDeliver(s) PROVE ReplyInv'
  BY <1>1, <1>5, FlushReplies
<1>6. CASE Leaves
  BY <1>1, <1>6, LeavesPart, PartingReplies
<1>7. ASSUME NEW s \in SeqIds, PrefillRun(s) PROVE ReplyInv'
  BY <1>1, <1>7, PrefillRunReplies
<1>8. CASE SampleToken
  BY <1>1, <1>8, SampleTokenReplies
<1> QED
  BY <1>2, <1>3, <1>4, <1>5, <1>6, <1>7, <1>8 DEF Next, EngineStep, Quiet, Leaves

LEMMA InitReplies == Init => ReplyInv /\ FailingInv
<1> SUFFICES ASSUME Init PROVE ReplyInv /\ FailingInv
  OBVIOUS
<1>1. FailingInv
  BY DEF Init, FailingInv
<1>2. TypeOK /\ PoolInv /\ PlaceInv
  BY InitPool, InitPlaces
<1>3. ASSUME NEW j \in Jobs PROVE JobInv(j)
  <2>1. /\ caller[j] = "idle" /\ got[j] = <<>> /\ events[j] = <<>>
        /\ kept = <<>> /\ outbox = <<>>
    BY DEF Init
  <2>2. Occupied = {} /\ j \notin Decoding
    BY DEF Init, Occupied, Vacant, Decoding
  <2>3. PendingOf(j) = <<>>
    BY <1>2, <2>2, PendingAt DEF PlaceInv
  <2>4. <<>> \o <<>> = <<>>
    BY EmptySeq, EventSeqs
  <2>5. Owed(j) = <<>>
    BY <2>1, <2>4, EventsOfEmpty DEF Owed
  <2>6. Reply(j) = <<>>
    BY <2>1, <2>3, <2>4, <2>5 DEF Reply, Owed
  <2>7. Unfinished(j)
    BY <2>2, <2>5, <2>6, NumberedTypes DEF Unfinished
  <2> QED
    BY <2>1, <2>7 DEF JobInv, Undecided, Unused
<1> QED
  BY <1>1, <1>3 DEF ReplyInv

\* From the last event back: every reply is the tokens so far, or the tokens
\* and a true end.
THEOREM RepliesAreConsistent == Spec => [](ReplyInv /\ FailingInv)
  BY PoolIsConsistent, PlacesAreConsistent, BatchIsConsistent, InitReplies, ReplyStep,
     FailingStep, PTL DEF Spec

(***************************************************************************)
(* What follows for a caller.                                              *)
(***************************************************************************)

\* A reply that has its end e at place `at`, and n tokens around it.
EndsAt(j, reply, n, e, at) ==
    /\ Len(reply) = n + 1 /\ DOMAIN reply = 1 .. n + 1 /\ at \in 1 .. n + 1
    /\ \A i \in 1 .. n + 1 : reply[i] = IF i < at THEN Token(j, i)
                                        ELSE IF i = at THEN e ELSE Token(j, i - 1)
\* A reply of n tokens.
Goes(j, reply, n) ==
    Len(reply) = n /\ DOMAIN reply = 1 .. n /\ \A i \in 1 .. n : reply[i] = Token(j, i)

LEMMA EndedEnds ==
    ASSUME NEW j \in Jobs, NEW reply, NEW owing, NEW n \in Nat, NEW e \in Event,
           Ended(j, reply, owing, n, e)
    PROVE  \E at \in 1 .. n + 1 : EndsAt(j, reply, n, e, at)
<1>1. CASE LastTwoOf(reply, j, n, e)
  <2>1. PICK a \in Seq(Event) : a = Numbered(j, n) /\ Len(a) = n
                                /\ \A i \in 1 .. n : a[i] = Token(j, i)
    BY NumberedTypes
  <2>2. reply = Append(a, e)
    BY <1>1, <2>1, AppendIsConcat DEF LastTwoOf
  <2>3. /\ Append(a, e) \in Seq(Event) /\ Len(Append(a, e)) = n + 1
        /\ Append(a, e)[n + 1] = e /\ \A i \in 1 .. n : Append(a, e)[i] = a[i]
    BY <2>1, AppendProperties
  <2>4. /\ reply \in Seq(Event) /\ Len(reply) = n + 1
        /\ reply[n + 1] = e /\ \A i \in 1 .. n : reply[i] = Token(j, i)
    BY <2>1, <2>2, <2>3
  <2>5. DOMAIN reply = 1 .. n + 1
    BY <2>4, LenProperties
  <2>6. n + 1 \in 1 .. n + 1
        /\ \A i \in 1 .. n + 1 : (i < n + 1 /\ i \in 1 .. n) \/ i = n + 1
    OBVIOUS
  <2>7. EndsAt(j, reply, n, e, n + 1)
    BY <2>4, <2>5, <2>6 DEF EndsAt
  <2> QED
    BY <2>6, <2>7
<1>2. CASE n > 0 /\ reply = Numbered(j, n - 1) \o <<e, Token(j, n)>>
  <2>1. PICK m \in Nat : n = m + 1
    <3>1. n - 1 \in Nat /\ n = (n - 1) + 1
      BY <1>2
    <3> QED
      BY <3>1
  <2>2. PICK a \in Seq(Event) : a = Numbered(j, m) /\ Len(a) = m
                                /\ \A i \in 1 .. m : a[i] = Token(j, i)
    BY NumberedTypes
  <2>3. PICK pair \in Seq(Event) : pair = <<e, Token(j, n)>>
    <3>1. Token(j, n) \in Event
      BY EventTypes
    <3> QED
      BY <3>1, Pairs
  <2>4. Len(pair) = 2 /\ pair[1] = e /\ pair[2] = Token(j, n)
    BY <2>3
  <2>5. /\ a \o pair \in Seq(Event) /\ Len(a \o pair) = m + 2
        /\ (a \o pair)[m + 1] = e /\ (a \o pair)[m + 2] = Token(j, n)
        /\ \A i \in 1 .. m : (a \o pair)[i] = a[i]
    <3>1. /\ Len(a \o pair) = Len(a) + 2
          /\ \A i \in 1 .. Len(a) : (a \o pair)[i] = a[i]
          /\ (a \o pair)[Len(a) + 1] = pair[1] /\ (a \o pair)[Len(a) + 2] = pair[2]
      BY <2>4, PairAfter
    <3>2. a \o pair \in Seq(Event)
      BY EventSeqs
    <3> QED
      BY <2>2, <2>4, <3>1, <3>2
  <2>6. reply = a \o pair
    BY <1>2, <2>1, <2>2, <2>3
  <2>7. /\ reply \in Seq(Event) /\ Len(reply) = n + 1 /\ reply[n] = e
        /\ reply[n + 1] = Token(j, n) /\ \A i \in 1 .. m : reply[i] = Token(j, i)
    BY <2>1, <2>2, <2>5, <2>6
  <2>8. DOMAIN reply = 1 .. n + 1
    BY <2>7, LenProperties
  <2>9. /\ n \in 1 .. n + 1
        /\ \A i \in 1 .. n + 1 : \/ i < n /\ i \in 1 .. m
                                 \/ i = n
                                 \/ i = n + 1 /\ i - 1 = n /\ ~(i < n)
    BY <2>1
  <2>10. EndsAt(j, reply, n, e, n)
    BY <2>7, <2>8, <2>9 DEF EndsAt
  <2> QED
    BY <2>9, <2>10
<1> QED
  BY <1>1, <1>2 DEF Ended, LastTwoOf

\* The reply of a caller that expects one.
LEMMA ReplyFacts ==
    ASSUME TypeOK, ReplyInv, NEW j \in Expecting
    PROVE  /\ j \in Jobs
           /\ \/ j \in Occupying /\ \E n \in Nat : Goes(j, Reply(j), n)
              \/ /\ j \notin Occupying
                 /\ \E n \in Nat, e \in Event : \E at \in 1 .. n + 1 :
                       TrueEnd(j, e, n) /\ EndsAt(j, Reply(j), n, e, at)
<1>1. j \in Jobs /\ caller[j] \in Live /\ caller[j] \notin Unused /\ JobInv(j)
  BY DEF Expecting, Live, Unused, ReplyInv
<1>2. CASE j \in Occupying
  <2>1. PICK n \in Nat : Reply(j) = Numbered(j, n)
    BY <1>1, <1>2 DEF JobInv, Undecided, Unfinished
  <2>2. /\ Numbered(j, n) \in Seq(Event) /\ Len(Numbered(j, n)) = n
        /\ \A i \in 1 .. n : Numbered(j, n)[i] = Token(j, i)
    BY <1>1, NumberedTypes
  <2>3. DOMAIN Numbered(j, n) = 1 .. n
    BY <2>2, LenProperties
  <2>4. Goes(j, Reply(j), n)
    BY <2>1, <2>2, <2>3 DEF Goes
  <2> QED
    BY <1>1, <1>2, <2>4
<1>3. CASE j \notin Occupying
  <2>1. PICK n \in Nat, e \in Event : TrueEnd(j, e, n) /\ Ended(j, Reply(j), Len(Owed(j)), n, e)
    BY <1>1, <1>3 DEF JobInv, Undecided, Answered
  <2>2. \E at \in 1 .. n + 1 : EndsAt(j, Reply(j), n, e, at)
    BY <1>1, <2>1, EndedEnds
  <2> QED
    BY <1>1, <1>3, <2>1, <2>2
<1> QED
  BY <1>2, <1>3

\* The kinds of events.
LEMMA Kinds ==
    ASSUME NEW j \in Jobs, NEW n \in Nat, NEW e \in Event
    PROVE  /\ Token(j, n).kind = "token" /\ Token(j, n).of = j /\ ~IsTerminal(Token(j, n))
           /\ TrueEnd(j, e, n) =>
                 /\ IsTerminal(e) /\ e.kind # "token" /\ e.of = j
                 /\ e.kind = "failed" => MayFail(j)
                 /\ e.kind = "done" => e.n = n /\ e.stop \in Stops /\ TrueStop(j, e.stop, n)
<1>1. Token(j, n).kind = "token" /\ Token(j, n).of = j /\ ~IsTerminal(Token(j, n))
  BY DEF Token, IsTerminal
<1>2. CASE e = Failed(j) /\ MayFail(j)
  <2>1. e.kind = "failed" /\ e.of = j
    BY <1>2 DEF Failed
  <2> QED
    BY <1>1, <1>2, <2>1 DEF IsTerminal
<1>3. ASSUME NEW stop \in Stops, e = Done(j, stop, n), TrueStop(j, stop, n)
      PROVE  /\ IsTerminal(e) /\ e.kind # "token" /\ e.of = j /\ e.kind # "failed"
             /\ e.n = n /\ e.stop \in Stops /\ TrueStop(j, e.stop, n)
  <2>1. e.kind = "done" /\ e.of = j /\ e.n = n /\ e.stop = stop
    BY <1>3 DEF Done
  <2> QED
    BY <1>3, <2>1 DEF IsTerminal
<1> QED
  BY <1>1, <1>2, <1>3 DEF TrueEnd

\* The tokens up to any place of a reply.
LEMMA GoesTokens ==
    ASSUME NEW j \in Jobs, NEW reply, NEW n \in Nat, Goes(j, reply, n), NEW i \in 1 .. n
    PROVE  TokensTo(reply, i) = i
<1>1. i \in Nat /\ 1 .. i \subseteq 1 .. n /\ \A k \in 1 .. n : k \in Nat
  OBVIOUS
<1>2. {k \in 1 .. i : reply[k].kind = "token"} = 1 .. i
  BY <1>1, Kinds, EventTypes DEF Goes
<1>3. Cardinality(1 .. i) = i
  BY <1>1, FS_Interval
<1> QED
  BY <1>2, <1>3 DEF TokensTo

LEMMA EndTokens ==
    ASSUME NEW j \in Jobs, NEW reply, NEW n \in Nat, NEW e \in Event, NEW at \in 1 .. n + 1,
           TrueEnd(j, e, n), EndsAt(j, reply, n, e, at), NEW i \in 1 .. n + 1
    PROVE  TokensTo(reply, i) = IF i < at THEN i ELSE i - 1
<1>1. /\ i \in Nat /\ at \in Nat /\ 1 .. i \subseteq 1 .. n + 1
      /\ \A k \in 1 .. n + 1 : k \in Nat /\ (k > at => k - 1 \in Nat)
  OBVIOUS
<1>2. \A k \in 1 .. n + 1 : reply[k].kind = "token" <=> k # at
  BY <1>1, Kinds DEF EndsAt
<1>3. IsFiniteSet(1 .. i) /\ Cardinality(1 .. i) = i
  BY <1>1, FS_Interval
<1>4. CASE i < at
  <2>1. {k \in 1 .. i : reply[k].kind = "token"} = 1 .. i
    BY <1>1, <1>2, <1>4
  <2> QED
    BY <1>3, <1>4, <2>1 DEF TokensTo
<1>5. CASE ~(i < at)
  <2>1. {k \in 1 .. i : reply[k].kind = "token"} = (1 .. i) \ {at}
    BY <1>1, <1>2
  <2>2. at \in 1 .. i
    BY <1>1, <1>5
  <2>3. Cardinality((1 .. i) \ {at}) = i - 1
    BY <1>3, <2>2, FS_RemoveElement
  <2> QED
    BY <1>5, <2>1, <2>3 DEF TokensTo
<1> QED
  BY <1>4, <1>5

\* Every caller that waits for a reply has been or will be given one terminal
\* event, from the moment the engine lets go of its job and no sooner, whatever
\* fails, stalls or is cancelled, and in whatever order the outbox is emptied.
THEOREM EachCallerIsAnsweredOnce == Spec => []AnsweredOnce
<1>1. TypeOK /\ ReplyInv => AnsweredOnce
  <2> SUFFICES ASSUME TypeOK, ReplyInv, NEW j \in Expecting
               PROVE  Cardinality({i \in DOMAIN Reply(j) : IsTerminal(Reply(j)[i])})
                          = IF j \in Occupying THEN 0 ELSE 1
    BY DEF AnsweredOnce
  <2> DEFINE ends == {i \in DOMAIN Reply(j) : IsTerminal(Reply(j)[i])}
  <2>1. ASSUME NEW n \in Nat, Goes(j, Reply(j), n) PROVE Cardinality(ends) = 0
    <3>1. \A i \in 1 .. n : i \in Nat
      OBVIOUS
    <3>2. ends = {}
      BY <2>1, <3>1, ReplyFacts, Kinds, EventTypes DEF Goes
    <3> QED
      BY <3>2, FS_EmptySet
  <2>2. ASSUME NEW n \in Nat, NEW e \in Event, NEW at \in 1 .. n + 1,
               TrueEnd(j, e, n), EndsAt(j, Reply(j), n, e, at)
        PROVE  Cardinality(ends) = 1
    <3>1. \A i \in 1 .. n + 1 : i \in Nat /\ (i > at => i - 1 \in Nat)
                                /\ (i < at \/ i = at \/ i > at)
      OBVIOUS
    <3>2. \A i \in 1 .. n + 1 : IsTerminal(Reply(j)[i]) <=> i = at
      BY <2>2, <3>1, ReplyFacts, Kinds DEF EndsAt
    <3>3. ends = {at}
      BY <2>2, <3>2 DEF EndsAt
    <3> QED
      BY <3>3, FS_Singleton
  <2> QED
    BY <2>1, <2>2, ReplyFacts
<1> QED
  BY PoolIsConsistent, RepliesAreConsistent, <1>1, PTL

\* No token is lost, repeated, or given to another job's caller, and Done
\* counts them all.
THEOREM RepliesAreWhole == Spec => []ReplyIsWhole
<1>1. TypeOK /\ ReplyInv => ReplyIsWhole
  <2> SUFFICES ASSUME TypeOK, ReplyInv, NEW j \in Expecting, NEW i \in DOMAIN Reply(j)
               PROVE  /\ Reply(j)[i].of = j
                      /\ Reply(j)[i].kind = "token" =>
                            Reply(j)[i] = Token(j, TokensTo(Reply(j), i))
                      /\ Reply(j)[i].kind = "done" =>
                            Reply(j)[i].n = TokensTo(Reply(j), Len(Reply(j)))
    BY DEF ReplyIsWhole
  <2>1. PICK reply : reply = Reply(j)
    OBVIOUS
  <2>2. ASSUME NEW n \in Nat, Goes(j, reply, n)
        PROVE  /\ reply[i].of = j
               /\ reply[i].kind = "token" => reply[i] = Token(j, TokensTo(reply, i))
               /\ reply[i].kind = "done" => reply[i].n = TokensTo(reply, Len(reply))
    <3>1. i \in 1 .. n /\ i \in Nat /\ reply[i] = Token(j, i) /\ j \in Jobs
      BY <2>1, <2>2, ReplyFacts DEF Goes
    <3>2. TokensTo(reply, i) = i
      BY <2>2, <3>1, GoesTokens
    <3> QED
      BY <3>1, <3>2, EventTypes, Kinds
  <2>3. ASSUME NEW n \in Nat, NEW e \in Event, NEW at \in 1 .. n + 1,
               TrueEnd(j, e, n), EndsAt(j, reply, n, e, at)
        PROVE  /\ reply[i].of = j
               /\ reply[i].kind = "token" => reply[i] = Token(j, TokensTo(reply, i))
               /\ reply[i].kind = "done" => reply[i].n = TokensTo(reply, Len(reply))
    <3>1. /\ i \in 1 .. n + 1 /\ Len(reply) = n + 1 /\ j \in Jobs
          /\ reply[i] = IF i < at THEN Token(j, i) ELSE IF i = at THEN e ELSE Token(j, i - 1)
      BY <2>1, <2>3, ReplyFacts DEF EndsAt
    <3>2. TokensTo(reply, i) = IF i < at THEN i ELSE i - 1
      BY <2>3, <3>1, EndTokens
    <3>3. TokensTo(reply, n + 1) = n
      <4>1. n + 1 \in 1 .. n + 1 /\ ~(n + 1 < at) /\ (n + 1) - 1 = n
        OBVIOUS
      <4> QED
        BY <2>3, <3>1, <4>1, EndTokens
    <3>4. /\ i \in Nat /\ (i > at => i - 1 \in Nat)
          /\ (i < at \/ i = at \/ (i > at /\ ~(i < at) /\ i # at))
      BY <3>1
    <3>5. CASE i < at
      BY <3>1, <3>2, <3>4, <3>5, Kinds
    <3>6. CASE i = at
      <4>1. reply[i] = e
        BY <3>1, <3>4, <3>6
      <4> QED
        BY <2>3, <3>1, <3>3, <4>1, Kinds
    <3>7. CASE i > at
      <4>1. i - 1 \in Nat /\ reply[i] = Token(j, i - 1) /\ TokensTo(reply, i) = i - 1
        BY <3>1, <3>2, <3>4, <3>7
      <4> QED
        BY <3>1, <4>1, Kinds
    <3> QED
      BY <3>4, <3>5, <3>6, <3>7
  <2> QED
    BY <2>1, <2>2, <2>3, ReplyFacts
<1> QED
  BY PoolIsConsistent, RepliesAreConsistent, <1>1, PTL

\* What an event of a reply that is not a token may be.
LEMMA EndIsTrue ==
    ASSUME TypeOK, ReplyInv, NEW j \in Expecting, NEW i \in DOMAIN Reply(j),
           Reply(j)[i].kind # "token"
    PROVE  \E n \in Nat : TrueEnd(j, Reply(j)[i], n) /\ j \in Jobs /\ Reply(j)[i] \in Event
<1>1. PICK reply : reply = Reply(j)
  OBVIOUS
<1>2. j \in Jobs
  BY ReplyFacts
<1>3. ASSUME NEW n \in Nat, Goes(j, reply, n) PROVE FALSE
  <2>1. i \in 1 .. n /\ i \in Nat /\ reply[i] = Token(j, i)
    BY <1>1, <1>3 DEF Goes
  <2> QED
    BY <1>1, <1>2, <2>1, Kinds, EventTypes
<1>4. ASSUME NEW n \in Nat, NEW e \in Event, NEW at \in 1 .. n + 1,
             TrueEnd(j, e, n), EndsAt(j, reply, n, e, at)
      PROVE  reply[i] = e
  <2>1. /\ i \in 1 .. n + 1
        /\ reply[i] = IF i < at THEN Token(j, i) ELSE IF i = at THEN e ELSE Token(j, i - 1)
    BY <1>1, <1>4 DEF EndsAt
  <2>2. i \in Nat /\ (i > at => i - 1 \in Nat)
        /\ (i < at \/ i = at \/ (i > at /\ ~(i < at) /\ i # at))
    BY <2>1
  <2> QED
    BY <1>1, <1>2, <2>1, <2>2, Kinds
<1> QED
  BY <1>1, <1>2, <1>3, <1>4, ReplyFacts

\* A reply that ends at its limit has exactly max_tokens tokens (two for a
\* max_tokens of 1); one that ends as ContextFull fills the window (or asked for
\* no tokens and has none); one that ends as Cancelled was cancelled, or dropped,
\* or its channel was left full.
THEOREM StopsHaveCauses == Spec => []StopHasACause
<1>1. TypeOK /\ ReplyInv => StopHasACause
  <2> SUFFICES ASSUME TypeOK, ReplyInv, NEW j \in Expecting, NEW i \in DOMAIN Reply(j),
                      Reply(j)[i].kind = "done"
               PROVE  LET e == Reply(j)[i]  r == req[j]
                      IN  CASE e.stop = "Limit"       -> 0 < r.asked /\ e.n = IF r.asked = 1 THEN 2 ELSE r.asked
                            [] e.stop = "ContextFull" -> NCtx <= r.prompt + e.n \/ (r.asked <= 0 /\ e.n = 0)
                            [] e.stop = "Cancelled"   -> cancel[j] \/ ChanCap < e.n
                            [] OTHER                  -> TRUE
    BY DEF StopHasACause
  <2>1. PICK n \in Nat : TrueEnd(j, Reply(j)[i], n) /\ j \in Jobs /\ Reply(j)[i] \in Event
    BY EndIsTrue
  <2>2. PICK e \in Event : e = Reply(j)[i]
    BY <2>1
  <2>3. e.n = n /\ e.stop \in Stops /\ TrueStop(j, e.stop, n)
    BY <2>1, <2>2, Kinds
  <2> QED
    BY <2>2, <2>3 DEF TrueStop, Stops
<1> QED
  BY PoolIsConsistent, RepliesAreConsistent, <1>1, PTL

\* A generation fails only if something failed.
THEOREM FailuresHaveCauses == Spec => []FailureHasACause
<1>1. TypeOK /\ ReplyInv => FailureHasACause
  <2> SUFFICES ASSUME TypeOK, ReplyInv, NEW j \in Expecting, NEW i \in DOMAIN Reply(j),
                      Reply(j)[i].kind = "failed"
               PROVE  MayFail(j)
    BY DEF FailureHasACause, MayFail
  <2>1. PICK n \in Nat : TrueEnd(j, Reply(j)[i], n) /\ j \in Jobs /\ Reply(j)[i] \in Event
    BY EndIsTrue
  <2> QED
    BY <2>1, Kinds
<1> QED
  BY PoolIsConsistent, RepliesAreConsistent, <1>1, PTL
=============================================================================

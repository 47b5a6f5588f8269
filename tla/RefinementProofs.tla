-------------------------- MODULE RefinementProofs ---------------------------
(***************************************************************************)
(* The proof that the engine implements Lifecycle, for every size and any  *)
(* number of jobs: every step of Engine is one of Lifecycle's or changes   *)
(* nothing there.                                                          *)
(***************************************************************************)
EXTENDS ReplyProofs, EngineRefinement

(***************************************************************************)
(* What Lifecycle sees of the engine.                                      *)
(***************************************************************************)
Known    == {j \in Jobs : caller[j] \notin Unused}
Serving  == ({taken} \ {NoJob}) \cup Decoding
Settled  == Known \ Occupying
Refusals == {j \in Jobs : caller[j] = "refused"}
Unwanted == {j \in Jobs : cancel[j]}
Sayings  == [j \in Jobs |-> IF j \in Gone THEN <<>> ELSE Words(Said(j))]
Owings   == [j \in Jobs |-> IF j \in Gone THEN {} ELSE WordsOwed(j)]

LEMMA Views ==
    L!vars = <<queue, Serving, Settled, Refusals, Unwanted, Gone, Sayings, Owings>>
  BY DEF L!vars, Serving, Settled, Known, Unused, Refusals, Unwanted, Sayings, Owings, Said

\* The jobs Lifecycle has accepted are those whose submission was.
LEMMA AcceptedJobs ==
    ASSUME TypeOK, OnePlacePerJob
    PROVE  L!Accepted = Known
<1>1. Occupying \subseteq Known
  BY Counts DEF OnePlacePerJob, Known, Unused
<1>2. L!Accepted = Queued \cup Serving \cup Settled
  BY DEF L!Accepted, Queued, Serving, Settled, Known, Unused
<1> QED
  BY <1>1, <1>2 DEF Settled, Occupying, Serving

(***************************************************************************)
(* Words.                                                                  *)
(***************************************************************************)
LEMMA WordsAppend ==
    ASSUME NEW s \in Seq(Event), NEW x \in Event
    PROVE  Words(s \o <<x>>) = Append(Words(s), Word(x))
<1> DEFINE W == {Word(e) : e \in Event}  long == Append(s, x)
<1>1. /\ Len(s) \in Nat /\ DOMAIN s = 1 .. Len(s)
      /\ long \in Seq(Event) /\ Len(long) = Len(s) + 1 /\ long[Len(s) + 1] = x
      /\ \A i \in 1 .. Len(s) : long[i] = s[i]
  BY LenProperties, AppendProperties
<1>2. DOMAIN long = 1 .. Len(s) + 1
  <2>1. DOMAIN long = 1 .. Len(long)
    <3> HIDE DEF long
    <3> QED
      BY <1>1, LenProperties
  <2> QED
    BY <1>1, <2>1
<1>3. s \o <<x>> = long
  BY AppendIsConcat
<1> HIDE DEF long
<1>4. PICK n \in Nat : n = Len(s)
  BY <1>1
<1>5. \A i \in 1 .. n : s[i] \in Event
  BY <1>1, <1>4, ElementOfSeq
<1>6. Words(s) \in Seq(W) /\ Len(Words(s)) = n /\ \A i \in 1 .. n : Words(s)[i] = Word(s[i])
  <2>1. Words(s) = [i \in 1 .. n |-> Word(s[i])]
    BY <1>1, <1>4 DEF Words
  <2>2. \A i \in 1 .. n : Word(s[i]) \in W
    BY <1>5
  <2> HIDE DEF W
  <2> QED
    BY <2>1, <2>2
<1>7. Words(long) \in Seq(W) /\ Len(Words(long)) = n + 1
      /\ \A i \in 1 .. n + 1 : Words(long)[i] = Word(long[i])
  <2>1. Words(long) = [i \in 1 .. n + 1 |-> Word(long[i])]
    BY <1>2, <1>4 DEF Words
  <2>2. \A i \in 1 .. n + 1 : long[i] \in Event
    BY <1>1, <1>2, <1>4, ElementOfSeq
  <2>3. \A i \in 1 .. n + 1 : Word(long[i]) \in W
    BY <2>2
  <2> HIDE DEF W
  <2> QED
    BY <2>1, <2>3
<1>8. Word(x) \in W
  OBVIOUS
<1> HIDE DEF W
<1>9. /\ Append(Words(s), Word(x)) \in Seq(W) /\ Len(Append(Words(s), Word(x))) = n + 1
      /\ Append(Words(s), Word(x))[n + 1] = Word(x)
      /\ \A i \in 1 .. n : Append(Words(s), Word(x))[i] = Words(s)[i]
  BY <1>6, <1>8, AppendProperties
<1>10. \A i \in 1 .. n + 1 : Append(Words(s), Word(x))[i] = Words(long)[i]
  <2>1. \A i \in 1 .. n + 1 : i \in 1 .. n \/ i = n + 1
    OBVIOUS
  <2> QED
    BY <1>1, <1>4, <1>6, <1>7, <1>9, <2>1
<1>11. Append(Words(s), Word(x)) = Words(long)
  BY <1>7, <1>9, <1>10, SeqEqual
<1> QED
  BY <1>3, <1>11

LEMMA WordKinds ==
    ASSUME NEW j, NEW n, NEW stop
    PROVE  /\ Word(Token(j, n)) = L!Token(j, n) /\ Word(Done(j, stop, n)) = L!Done(j, n)
           /\ Word(Failed(j)) = L!Failed(j)
           /\ L!Token(j, n) # L!Done(j, n) /\ L!Token(j, n) # L!Failed(j)
  BY DEF Word, Token, Done, Failed, L!Token, L!Done, L!Failed

\* Lifecycle counts as Engine does.
LEMMA SameCount == \A S : L!Cardinality(S) = Cardinality(S)
  BY DEF L!Cardinality, Cardinality, L!IsFiniteSet, IsFiniteSet

\* What has been said so far is as many words as there are tokens.
LEMMA SaidSoFar ==
    ASSUME NEW j \in Jobs, NEW n \in Nat, j \notin Gone, Said(j) = Numbered(j, n)
    PROVE  L!Said(j) = n
<1>1. DOMAIN Numbered(j, n) = 1 .. n /\ \A i \in 1 .. n : Numbered(j, n)[i] = Token(j, i)
  BY DEF Numbered
<1>2. DOMAIN Words(Said(j)) = 1 .. n
      /\ \A i \in 1 .. n : Words(Said(j))[i].kind = "token"
  <2>1. PICK s : s = Said(j)
    OBVIOUS
  <2>2. DOMAIN s = 1 .. n /\ \A i \in 1 .. n : s[i].kind = "token"
    <3>1. DOMAIN s = 1 .. n /\ \A i \in 1 .. n : s[i] = Token(j, i)
      BY <1>1, <2>1
    <3>2. \A i : Token(j, i).kind = "token"
      BY DEF Token
    <3> QED
      BY <3>1, <3>2
  <2>3. Words(s) = [i \in 1 .. n |-> [kind |-> s[i].kind, of |-> s[i].of, n |-> s[i].n]]
    BY <2>2 DEF Words, Word
  <2>4. DOMAIN Words(s) = 1 .. n /\ \A i \in 1 .. n : Words(s)[i].kind = s[i].kind
    BY <2>3
  <2> QED
    BY <2>1, <2>2, <2>4
<1>3. Sayings[j] = Words(Said(j))
  BY DEF Sayings
<1>4. L!Said(j) = Cardinality({i \in DOMAIN Sayings[j] : Sayings[j][i].kind = "token"})
  BY SameCount DEF L!Said, Sayings, Said
<1>5. {i \in DOMAIN Sayings[j] : Sayings[j][i].kind = "token"} = 1 .. n
  BY <1>2, <1>3
<1> QED
  <2>1. Cardinality(1 .. n) = n
    BY FS_Interval
  <2> QED
    BY <1>4, <1>5, <2>1

\* The words of some events.
WordsIn(last) == {Word(last[i]) : i \in DOMAIN last}
LEMMA OwedWords == \A j : WordsOwed(j) = WordsIn(Owed(j))
  BY DEF WordsOwed, WordsIn, Owed

(***************************************************************************)
(* The steps of Lifecycle, by what they do to what it sees.                *)
(***************************************************************************)

\* A step that Lifecycle does not see.
LEMMA SameViews ==
    ASSUME UNCHANGED <<queue, cancel>>, Serving' = Serving, Known' = Known,
           Refusals' = Refusals, Gone' = Gone, Occupying' = Occupying,
           \A j \in Jobs \ Gone : Said(j)' = Said(j) /\ Owed(j)' = Owed(j)
    PROVE  UNCHANGED L!vars
<1>1. Settled' = Settled /\ Unwanted' = Unwanted
  BY DEF Settled, Unwanted
<1>2. Sayings' = Sayings
  BY DEF Sayings
<1>3. Owings' = Owings
  <2>1. \A j \in Jobs \ Gone : Owed(j)' = Owed(j) => WordsOwed(j)' = WordsOwed(j)
    BY DEF WordsOwed, Owed
  <2> QED
    BY <2>1 DEF Owings
<1>4. (L!vars = <<queue, Serving, Settled, Refusals, Unwanted, Gone, Sayings, Owings>>)'
  BY Views, PTL
<1> QED
  BY <1>1, <1>2, <1>3, <1>4, Views

\* Whom the callers' states make known, refused and gone.
LEMMA SameCallers ==
    ASSUME caller' = caller
    PROVE  Known' = Known /\ Refusals' = Refusals /\ Gone' = Gone
  BY DEF Known, Refusals, Gone

\* The steps of callers.
LEMMA CallerRefines ==
    ASSUME TypeOK, PlaceInv, CallerStep
    PROVE  [L!Next]_L!vars
<1> USE DEF poolVars, loopVars, sharedVars, callerVars
<1>1. UNCHANGED <<slots, kept, outbox, taken>>
  BY DEF CallerStep, SubmitQueued, SubmitRefused, CountIn, Recv, Cancel,
         DropGeneration, DropHandle
<1>2. /\ \A j : Owed(j)' = Owed(j) /\ WordsOwed(j)' = WordsOwed(j)
      /\ Serving' = Serving /\ Decoding' = Decoding
  BY <1>1 DEF Owed, WordsOwed, Serving, Decoding, Occupied
<1>3. L!Accepted = Known
  BY AcceptedJobs DEF PlaceInv
<1>4. queue' = queue => Occupying' = Occupying
  BY <1>1, <1>2 DEF Occupying, Queued
<1>5. ASSUME UNCHANGED <<queue, cancel>>, Known' = Known, Refusals' = Refusals, Gone' = Gone,
             \A j \in Jobs : Said(j)' = Said(j)
      PROVE  UNCHANGED L!vars
  BY <1>2, <1>4, <1>5, SameViews
<1>6. ASSUME NEW k \in Jobs, SubmitQueued(k) PROVE L!Submit(k)
  <2>1. /\ caller[k] = "idle" /\ caller'[k] = "sent" /\ queue' = Append(queue, k)
        /\ \A j \in Jobs : j # k => caller'[j] = caller[j]
        /\ UNCHANGED <<cancel, got, events>> /\ Len(queue) < QueueLimit
    <3>1. /\ caller[k] = "idle" /\ caller'[k] = "sent" /\ queue' = Append(queue, k)
          /\ \A j \in Jobs : j # k => caller'[j] = caller[j]
          /\ UNCHANGED <<cancel, got, events>> /\ ~QueueFull
      BY <1>6 DEF SubmitQueued, TypeOK
    <3>2. queue \in Seq(Jobs) /\ QueueLimit \in Nat
      BY SizeAssumption DEF TypeOK, QueueLimit
    <3>3. Len(queue) < QueueLimit
      BY <3>1, <3>2 DEF QueueFull
    <3> QED
      BY <3>1, <3>3
  <2>2. Occupying' = Occupying \cup {k} /\ k \notin Occupying
    <3>1. queue \in Seq(Jobs) /\ Distinct(queue) /\ Queued = Elements(queue) /\ k \notin Occupying
      BY <2>1 DEF TypeOK, PlaceInv, OnePlacePerJob, Distinct, Queued, Elements
    <3>2. k \notin Elements(queue)
      BY <3>1 DEF Occupying
    <3>3. Elements(queue') = Elements(queue) \cup {k}
      BY <2>1, <3>1, <3>2, AppendDistinct
    <3>4. Queued' = Queued \cup {k}
      BY <3>1, <3>3 DEF Queued, Elements
    <3> QED
      BY <1>1, <1>2, <3>1, <3>4 DEF Occupying
  <2>3. Known' = Known \cup {k} /\ k \notin Known /\ Refusals' = Refusals /\ k \notin Refusals
        /\ Gone' = Gone
    BY <2>1 DEF Known, Unused, Refusals, Gone
  <2>4. Settled' = Settled /\ Unwanted' = Unwanted
    BY <2>1, <2>2, <2>3 DEF Settled, Unwanted
  <2>5. Sayings' = Sayings /\ Owings' = Owings
    BY <1>2, <2>1, <2>3 DEF Sayings, Owings, Said
  <2>6. k \notin L!Accepted \cup Refusals
    BY <1>3, <2>3
  <2> QED
    BY <1>2, <2>1, <2>3, <2>4, <2>5, <2>6
    DEF L!Submit, Serving, Settled, Known, Unused, Refusals, Unwanted, Sayings, Owings, Said
<1>7. ASSUME NEW k \in Jobs, SubmitRefused(k) PROVE L!Refuse(k)
  <2>1. /\ caller[k] = "idle" /\ caller'[k] = "refused"
        /\ \A j \in Jobs : j # k => caller'[j] = caller[j]
        /\ UNCHANGED <<queue, cancel, got, events>> /\ Len(queue) >= QueueLimit
    BY <1>7 DEF SubmitRefused, QueueFull, TypeOK
  <2>2. Known' = Known /\ k \notin Known /\ Refusals' = Refusals \cup {k} /\ k \notin Refusals
        /\ Gone' = Gone
    BY <2>1 DEF Known, Unused, Refusals, Gone
  <2>3. Settled' = Settled /\ Unwanted' = Unwanted
    BY <1>4, <2>1, <2>2 DEF Settled, Unwanted
  <2>4. Sayings' = Sayings /\ Owings' = Owings
    BY <1>2, <2>1, <2>2 DEF Sayings, Owings, Said
  <2>5. k \notin L!Accepted \cup Refusals
    BY <1>3, <2>2
  <2> QED
    BY <1>2, <2>1, <2>2, <2>3, <2>4, <2>5
    DEF L!Refuse, Serving, Settled, Known, Unused, Refusals, Unwanted, Sayings, Owings, Said
<1>8. ASSUME NEW k \in Jobs, CountIn(k) PROVE UNCHANGED L!vars
  <2>1. /\ caller[k] = "sent" /\ caller'[k] = "holding"
        /\ \A j \in Jobs : j # k => caller'[j] = caller[j]
        /\ UNCHANGED <<queue, cancel, got, events>>
    BY <1>8 DEF CountIn, TypeOK
  <2>2. Known' = Known /\ Refusals' = Refusals /\ Gone' = Gone
    BY <2>1 DEF Known, Unused, Refusals, Gone
  <2> QED
    BY <1>5, <2>1, <2>2 DEF Said
<1>9. ASSUME NEW k \in Jobs, Recv(k) PROVE UNCHANGED L!vars
  <2>1. UNCHANGED <<caller, queue, cancel>>
    BY <1>9 DEF Recv
  <2> QED
    BY <1>5, <1>9, <2>1, RecvKeeps, SameCallers
<1>10. ASSUME NEW k \in Jobs, Cancel(k) PROVE L!Cancel(k)
  <2>1. /\ caller[k] = "holding" /\ cancel'[k]
        /\ \A j \in Jobs : j # k => cancel'[j] = cancel[j]
        /\ UNCHANGED <<caller, queue, got, events>>
    BY <1>10 DEF Cancel, TypeOK
  <2>2. Known' = Known /\ Refusals' = Refusals /\ Gone' = Gone /\ k \in Known
    BY <2>1, SameCallers DEF Known, Unused
  <2>3. Settled' = Settled /\ Unwanted' = Unwanted \cup {k}
    BY <1>4, <2>1, <2>2 DEF Settled, Unwanted
  <2>4. Sayings' = Sayings /\ Owings' = Owings
    BY <1>2, <2>1, <2>2 DEF Sayings, Owings, Said
  <2>5. k \in L!Accepted
    BY <1>3, <2>2
  <2> QED
    BY <1>2, <2>1, <2>2, <2>3, <2>4, <2>5
    DEF L!Cancel, Serving, Settled, Known, Unused, Refusals, Unwanted, Sayings, Owings, Said
<1>11. ASSUME NEW k \in Jobs, DropGeneration(k) PROVE L!Drop(k)
  <2>1. /\ caller[k] = "holding" /\ caller'[k] = "dropped" /\ cancel'[k]
        /\ \A j \in Jobs : j # k => /\ cancel'[j] = cancel[j] /\ caller'[j] = caller[j]
                                    /\ events'[j] = events[j]
        /\ UNCHANGED <<queue, got>>
    BY <1>11 DEF DropGeneration, TypeOK
  <2>2. Known' = Known /\ Refusals' = Refusals /\ Gone' = Gone \cup {k} /\ k \in Known
    BY <2>1 DEF Known, Unused, Refusals, Gone
  <2>3. Settled' = Settled /\ Unwanted' = Unwanted \cup {k}
    BY <1>4, <2>1, <2>2 DEF Settled, Unwanted
  <2>4. Sayings' = [Sayings EXCEPT ![k] = <<>>]
    <3>1. \A j \in Jobs : j # k => Said(j)' = Said(j)
      BY <2>1 DEF Said
    <3> QED
      BY <2>2, <3>1 DEF Sayings
  <2>5. Owings' = [Owings EXCEPT ![k] = {}]
    BY <1>2, <2>2 DEF Owings
  <2>6. k \in L!Accepted
    BY <1>3, <2>2
  <2> QED
    BY <1>2, <2>1, <2>2, <2>3, <2>4, <2>5, <2>6
    DEF L!Drop, Serving, Settled, Known, Unused, Refusals, Unwanted, Sayings, Owings, Said
<1>12. CASE DropHandle
  BY <1>5, <1>12, SameCallers DEF DropHandle, Said
<1> QED
  BY <1>6, <1>7, <1>8, <1>9, <1>10, <1>11, <1>12 DEF CallerStep, L!Next

(***************************************************************************)
(* The steps of the engine that say nothing.                               *)
(***************************************************************************)

\* While a slot is free, fewer jobs are being worked on than there are slots.
LEMMA RoomToServe ==
    ASSUME TypeOK, Free # {}
    PROVE  Cardinality(Decoding) < MaxInflight
<1> DEFINE job == [s \in Occupied |-> slots[s].job]
<1>1. IsFiniteSet(Occupied) /\ Cardinality(Occupied) \in Nat
  BY OccupiedFinite
<1>2. IsFiniteSet(SeqIds) /\ Cardinality(SeqIds) = MaxInflight /\ MaxInflight \in Nat
  <2>1. 0 \in Int /\ MaxInflight - 1 \in Int /\ MaxInflight \in Nat /\ MaxInflight > 0
    BY Sizes
  <2> QED
    BY <2>1, FS_Interval DEF SeqIds
<1>3. Occupied \subseteq SeqIds /\ Occupied # SeqIds
  BY DEF Occupied, Free
<1>4. Cardinality(Occupied) < MaxInflight
  BY <1>1, <1>2, <1>3, FS_Subset
<1>5. IsFiniteSet(Decoding) /\ Cardinality(Decoding) <= Cardinality(Occupied)
  <2>1. job \in Surjection(Occupied, Decoding)
    BY DEF Surjection, Decoding
  <2> HIDE DEF job
  <2> QED
    BY <1>1, <2>1, FS_Surjection
<1>6. Cardinality(Decoding) \in Nat
  BY <1>5, FS_CardinalityType
<1> QED
  BY <1>1, <1>2, <1>4, <1>5, <1>6

\* The next job taken up.
LEMMA TakeRefines ==
    ASSUME TypeOK, PlaceInv, TakenInPrefill, AdmitTake
    PROVE  L!Start
<1> USE DEF poolVars, loopVars, sharedVars, callerVars
<1>1. /\ Free # {} /\ queue # <<>> /\ Dequeue /\ taken' = Head(queue) /\ taken = NoJob
      /\ UNCHANGED <<caller, cancel, got, events, kept, outbox>>
  BY DEF AdmitTake, TakenInPrefill
<1>2. Decoding' = Decoding /\ Occupying' = Occupying
  BY QuietFrame DEF Quiet
<1>3. Head(queue) \in Jobs
  BY <1>1, DequeuePlaces
<1>4. Serving = Decoding /\ Serving' = Serving \cup {Head(queue)}
  BY <1>1, <1>2, <1>3, Sizes DEF Serving
<1>5. L!Cardinality(Serving) < MaxInflight
  BY <1>1, <1>4, RoomToServe, SameCount
<1>6. Known' = Known /\ Refusals' = Refusals /\ Gone' = Gone
  BY <1>1, SameCallers
<1>7. Settled' = Settled /\ Unwanted' = Unwanted
  BY <1>1, <1>2, <1>6 DEF Settled, Unwanted
<1>8. Sayings' = Sayings /\ Owings' = Owings
  BY <1>1, <1>6 DEF Sayings, Owings, Said, WordsOwed
<1> QED
  BY <1>1, <1>4, <1>5, <1>6, <1>7, <1>8
  DEF L!Start, Dequeue, Serving, Settled, Known, Unused, Refusals, Unwanted, Sayings, Owings, Said

LEMMA QuietRefines ==
    ASSUME TypeOK, PlaceInv, TakenInPrefill, Quiet
    PROVE  [L!Next]_L!vars
<1>1. CASE AdmitTake
  BY <1>1, TakeRefines DEF L!Next, L!Work
<1>2. CASE ~AdmitTake
  <2>1. /\ UNCHANGED <<caller, queue, cancel, got, events, taken>>
        /\ Decoding' = Decoding /\ Occupying' = Occupying /\ kept' \o outbox' = kept \o outbox
    BY <1>2, QuietFrame
  <2>2. \A j \in Jobs : Said(j)' = Said(j) /\ Owed(j)' = Owed(j)
    BY <2>1 DEF Said, Owed
  <2>3. Serving' = Serving
    BY <2>1 DEF Serving
  <2> QED
    BY <2>1, <2>2, <2>3, SameCallers, SameViews
<1> QED
  BY <1>1, <1>2

\* A token that a slot holds is not said yet.
LEMMA TokenRefines ==
    ASSUME TypeOK, PoolInv, PlaceInv, SampleToken \/ \E s \in SeqIds : PrefillRun(s)
    PROVE  UNCHANGED L!vars
<1> USE DEF poolVars, loopVars, sharedVars, callerVars
<1>1. UNCHANGED <<caller, queue, cancel, got, events, kept, outbox>>
  BY DEF SampleToken, PrefillRun
<1>2. Serving' = Serving
  <2>1. ASSUME NEW s \in SeqIds, PrefillRun(s) PROVE Serving' = Serving
    <3>1. PICK i \in Jobs : i = taken
      BY <2>1, PrefillRunSlots
    <3>2. /\ s \notin Occupied /\ Occupied' = Occupied \cup {s}
          /\ \A t \in SeqIds : t # s => slots'[t] = slots[t]
          /\ slots'[s].job = i
      BY <2>1, <3>1, PrefillRunSlots
    <3>3. taken' = NoJob
      BY <2>1 DEF PrefillRun
    <3>4. Decoding' = Decoding \cup {i}
      BY <3>2 DEF Decoding, Occupied
    <3> QED
      BY <3>1, <3>3, <3>4, Sizes DEF Serving
  <2>2. CASE SampleToken
    <3>1. RowSlot \in SeqIds /\ slots[RowSlot] \in Slot
      BY <2>2, HeadRow DEF SampleToken, PoolInv
    <3>2. PICK s \in SeqIds : s = RowSlot /\ slots[s] \in Slot
      BY <3>1
    <3>3. /\ Occupied' = Occupied /\ slots'[s] = Sampled
          /\ \A t \in SeqIds : t # s => slots'[t] = slots[t]
      BY <2>2, <3>2, SampleTokenSlots
    <3>4. slots'[s].job = slots[s].job
      BY <3>2, <3>3 DEF Sampled, Slot
    <3>5. Decoding' = Decoding /\ taken' = taken
      BY <2>2, <3>3, <3>4 DEF Decoding, Occupied, SampleToken
    <3> QED
      BY <3>5 DEF Serving
  <2> QED
    BY <2>1, <2>2
<1>3. Occupying' = Occupying
  BY <1>1, <1>2 DEF Occupying, Serving, Queued
<1>4. \A j \in Jobs : Said(j)' = Said(j) /\ Owed(j)' = Owed(j)
  BY <1>1 DEF Said, Owed
<1> QED
  BY <1>1, <1>2, <1>3, <1>4, SameCallers, SameViews

(***************************************************************************)
(* The steps that say something.                                           *)
(***************************************************************************)

\* A job that its caller still expects an answer for.
LEMMA NotGone ==
    ASSUME TypeOK, PlaceInv, ReplyInv, NEW j \in Jobs, j \notin Gone
    PROVE  /\ caller[j] \in Live
           /\ IF Undecided(j) THEN Unfinished(j) ELSE Answered(j)
           /\ j \in Occupying => Undecided(j)
<1>1. caller[j] \in Live
  BY DEF TypeOK, Gone, Live
<1> QED
  BY <1>1 DEF ReplyInv, JobInv, Undecided

\* An event sent is a word said.
LEMMA SendSays ==
    ASSUME TypeOK, NEW i \in Jobs, i \notin Gone, NEW x \in Event, Send(i, x),
           UNCHANGED <<caller, got>>
    PROVE  Sayings' = [Sayings EXCEPT ![i] = Append(@, Word(x))]
<1>1. Said(i)' = Said(i) \o <<x>>
  BY SaidAndSent
<1>2. \A j \in Jobs \ {i} : Said(j)' = Said(j)
  BY DEF Send, TypeOK, Said
<1>3. Words(Said(i))' = Append(Words(Said(i)), Word(x))
  <2>1. PICK d \in Seq(Event) : d = Said(i)
    <3>1. got[i] \in Seq(Event) /\ events[i] \in Seq(Event)
      BY DEF TypeOK
    <3> QED
      BY <3>1, EventSeqs DEF Said
  <2>2. Words(d \o <<x>>) = Append(Words(d), Word(x))
    BY WordsAppend
  <2> QED
    BY <1>1, <2>1, <2>2 DEF Words
<1>4. Gone' = Gone
  BY SameCallers
<1>5. \A j \in Jobs \ {i} : Words(Said(j))' = Words(Said(j))
  BY <1>2 DEF Words
<1> QED
  BY <1>3, <1>4, <1>5 DEF Sayings

\* The piece a slot held is the next token of its reply.
LEMMA FlushRefines ==
    ASSUME TypeOK, PoolInv, PlaceInv, CourseInv, ReplyInv, NEW s \in SeqIds, FlushDeliver(s)
    PROVE  L!Next
<1> USE DEF poolVars, loopVars, sharedVars, callerVars
<1>1. PICK i \in Jobs, x \in Event, d \in Nat :
         /\ i = slots[s].job /\ x = slots[s].pending /\ d = slots[s].n_decoded
  BY DEF TypeOK, Slot, PoolInv, PhaseInv, FlushDeliver
<1>2. /\ Send(i, x) /\ SendOk(i) /\ Waiting(s)
      /\ UNCHANGED <<caller, got, cancel, queue, taken, kept, outbox>>
  BY <1>1 DEF FlushDeliver
<1>3. Occupied' = Occupied /\ Decoding' = Decoding
  <2>1. \A t \in SeqIds : slots'[t].job = slots[t].job
    BY DEF FlushDeliver, TypeOK, Slot
  <2>2. Occupied' = Occupied
    BY <2>1 DEF Occupied
  <2> QED
    BY <2>1, <2>2 DEF Decoding, Occupied
<1>4. Serving' = Serving /\ Occupying' = Occupying
  BY <1>2, <1>3 DEF Serving, Occupying, Queued
<1>5. i \in Decoding /\ i \in Serving /\ i \in Occupying /\ i \notin Gone
  BY <1>1, <1>2, Sizes DEF Decoding, Occupied, Serving, Occupying, SendOk, SendClosed, Gone
<1>6. Unfinished(i)
  BY <1>5, NotGone
<1>7. d > 0 /\ x = Token(i, d) /\ Said(i) = Numbered(i, d - 1) /\ d + 1 <= NCtx
  BY <1>1, <1>2, <1>6, Sizes, SaidOfSlot, CourseBound
<1>8. d - 1 \in Nat /\ (d - 1) + 1 = d /\ d - 1 < NCtx
  BY <1>7, Sizes
<1>9. L!Said(i) = d - 1
  BY <1>5, <1>7, <1>8, SaidSoFar
<1>10. Sayings' = [Sayings EXCEPT ![i] = Append(@, Word(x))]
  BY <1>2, <1>5, SendSays
<1>11. Word(x) = L!Token(i, L!Said(i) + 1) /\ L!Said(i) < NCtx
  BY <1>7, <1>8, <1>9, WordKinds
<1>12. Known' = Known /\ Refusals' = Refusals /\ Gone' = Gone
  BY <1>2, SameCallers
<1>13. Settled' = Settled /\ Unwanted' = Unwanted
  BY <1>2, <1>4, <1>12 DEF Settled, Unwanted
<1>14. Owings' = Owings
  BY <1>2, <1>12 DEF Owings, WordsOwed
<1>15. L!Speak(i)
  <2>1. L!Say(i, L!Token(i, L!Said(i) + 1))
    BY <1>10, <1>11 DEF L!Say, Sayings, Said
  <2> QED
    BY <1>2, <1>4, <1>5, <1>11, <1>12, <1>13, <1>14, <2>1
    DEF L!Speak, Serving, Settled, Known, Unused, Refusals, Unwanted, Owings
<1> QED
  BY <1>15 DEF L!Next, L!Work

\* One of at most two different words taken away.
LEMMA WordsWithout ==
    ASSUME NEW k \in Seq(Event), NEW x \in Event, NEW t \in Seq(Event),
           NEW o \in Seq(Event), o = k \o (<<x>> \o t), Len(o) <= 2,
           Len(o) = 2 => Word(o[1]) # Word(o[2])
    PROVE  WordsIn(k \o t) = WordsIn(o) \ {Word(x)} /\ Word(x) \in WordsIn(o)
<1>1. \A e \in Event : <<e>> \in Seq(Event) /\ WordsIn(<<e>>) = {Word(e)}
  <2>1. \A e \in Event : <<e>> \in Seq(Event) /\ DOMAIN <<e>> = {1} /\ <<e>>[1] = e
    OBVIOUS
  <2> QED
    BY <2>1 DEF WordsIn
<1>2. WordsIn(<<>>) = {}
  BY DEF WordsIn
<1>3. ASSUME NEW a \in Event, NEW b \in Event
      PROVE  WordsIn(<<a, b>>) = {Word(a), Word(b)} /\ <<a, b>>[1] = a /\ <<a, b>>[2] = b
  <2>1. DOMAIN <<a, b>> = {1, 2} /\ <<a, b>>[1] = a /\ <<a, b>>[2] = b
    OBVIOUS
  <2> QED
    BY <2>1 DEF WordsIn
<1>4. Len(k) \in Nat /\ Len(t) \in Nat /\ Len(o) = Len(k) + (1 + Len(t))
  <2>1. <<x>> \in Seq(Event) /\ Len(<<x>>) = 1
    OBVIOUS
  <2>2. <<x>> \o t \in Seq(Event) /\ Len(<<x>> \o t) = 1 + Len(t)
    BY <2>1, EventSeqs
  <2>3. Len(k \o (<<x>> \o t)) = Len(k) + (1 + Len(t))
    BY <2>2, EventSeqs
  <2> QED
    BY <2>3, LenProperties
<1>5. CASE Len(k) = 0 /\ Len(t) = 0
  <2>1. k = <<>> /\ t = <<>>
    BY <1>5, EmptySeq
  <2>2. <<x>> \o <<>> = <<x>> /\ <<>> \o <<x>> = <<x>> /\ <<>> \o <<>> = <<>>
    BY <1>1, EmptySeq, EventSeqs
  <2>3. o = <<x>> /\ k \o t = <<>>
    BY <2>1, <2>2
  <2> QED
    BY <1>1, <1>2, <2>3
<1>6. CASE Len(k) = 1 /\ Len(t) = 0
  <2>1. PICK y \in Event : k = <<y>>
    BY <1>6, OneElement
  <2>2. t = <<>>
    BY <1>6, EmptySeq
  <2>3. <<x>> \o <<>> = <<x>> /\ <<y>> \o <<>> = <<y>> /\ <<y>> \o <<x>> = <<y, x>>
    BY <1>1, EmptySeq, EventSeqs, Pairs
  <2>4. o = <<y, x>> /\ k \o t = <<y>>
    BY <2>1, <2>2, <2>3
  <2>5. Word(y) # Word(x)
    BY <1>3, <1>4, <1>6, <2>4
  <2>6. WordsIn(o) = {Word(x), Word(y)}
    <3>1. PICK z \in Seq(Event) : z = <<y, x>>
      BY Pairs
    <3>2. WordsIn(z) = {Word(x), Word(y)}
      BY <1>3, <3>1
    <3>3. o = z
      BY <2>4, <3>1
    <3> QED
      BY <3>2, <3>3
  <2>7. WordsIn(k \o t) = {Word(y)}
    BY <1>1, <2>4
  <2> QED
    BY <2>5, <2>6, <2>7
<1>7. CASE Len(k) = 0 /\ Len(t) = 1
  <2>1. PICK y \in Event : t = <<y>>
    BY <1>7, OneElement
  <2>2. k = <<>>
    BY <1>7, EmptySeq
  <2>3. <<x>> \o <<y>> = <<x, y>> /\ <<>> \o <<x, y>> = <<x, y>> /\ <<>> \o <<y>> = <<y>>
    <3>1. <<x, y>> \in Seq(Event)
      BY Pairs
    <3> QED
      BY <1>1, <3>1, EmptySeq, EventSeqs, Pairs
  <2>4. o = <<x, y>> /\ k \o t = <<y>>
    BY <2>1, <2>2, <2>3
  <2>5. Word(y) # Word(x)
    BY <1>3, <1>4, <1>7, <2>4
  <2>6. WordsIn(o) = {Word(x), Word(y)}
    <3>1. PICK z \in Seq(Event) : z = <<x, y>>
      BY Pairs
    <3>2. WordsIn(z) = {Word(x), Word(y)}
      BY <1>3, <3>1
    <3>3. o = z
      BY <2>4, <3>1
    <3> QED
      BY <3>2, <3>3
  <2>7. WordsIn(k \o t) = {Word(y)}
    BY <1>1, <2>4
  <2> QED
    BY <2>5, <2>6, <2>7
<1> QED
  BY <1>4, <1>5, <1>6, <1>7

\* Of the two last events of a reply neither is the other's word.
LEMMA OwedApart ==
    ASSUME TypeOK, PoolInv, PlaceInv, NEW j \in Jobs, j \notin Decoding, Answered(j)
    PROVE  /\ Len(Owed(j)) <= 2
           /\ Len(Owed(j)) = 2 => Word(Owed(j)[1]) # Word(Owed(j)[2])
<1>1. PICK d \in Seq(Event), o \in Seq(Event) : d = Said(j) /\ o = Owed(j)
  BY PartTypes DEF PlaceInv
<1>2. PICK n \in Nat, e \in Event : TrueEnd(j, e, n) /\ Ended(j, Reply(j), Len(o), n, e)
  BY <1>1 DEF Answered
<1>3. Reply(j) = d \o o
  <2>1. Reply(j) = (d \o <<>>) \o o
    BY <1>1, PendingAt DEF Reply, Said, Owed, PlaceInv
  <2>2. d \o <<>> = d
    BY EventSeqs
  <2> QED
    BY <2>1, <2>2
<1>4. Len(o) <= 2 /\ Len(o) \in Nat /\ (Len(o) = 2 => LastTwoOf(d \o o, j, n, e))
  <2>1. Len(o) \in Nat
    BY LenProperties
  <2>2. PICK m \in Nat : m = Len(o)
    BY <2>1
  <2>3. Ended(j, Reply(j), m, n, e)
    BY <1>2, <2>2
  <2>4. m <= 2 /\ (m = 2 => LastTwoOf(Reply(j), j, n, e))
    BY SMTT(30), <2>3 DEF Ended, LastTwoOf
  <2> QED
    BY <1>3, <2>1, <2>2, <2>4
<1>5. ASSUME Len(o) = 2 PROVE Word(o[1]) # Word(o[2])
  <2>1. o[1] = Token(j, n) /\ o[2] = e
    BY <1>4, <1>5, LastTwo
  <2>2. e = Failed(j) \/ \E stop \in Stops : e = Done(j, stop, n)
    BY <1>2 DEF TrueEnd
  <2>3. Word(e) \in {L!Failed(j), L!Done(j, n)} /\ Word(Token(j, n)) = L!Token(j, n)
    BY <2>2, WordKinds
  <2>4. L!Token(j, n) # L!Done(j, n) /\ L!Token(j, n) # L!Failed(j)
    BY WordKinds
  <2> QED
    BY <2>1, <2>3, <2>4
<1> QED
  BY <1>1, <1>4, <1>5

\* An entry delivered, in whatever order.
LEMMA DeliverRefines ==
    ASSUME TypeOK, PoolInv, PlaceInv, ReplyInv, DrainDeliver \/ DrainDiscard
    PROVE  [L!Next]_L!vars
<1> USE DEF poolVars, loopVars, sharedVars, callerVars
<1>1. /\ outbox # <<>> /\ outbox' = Tail(outbox)
      /\ UNCHANGED <<caller, got, cancel, queue, taken, slots, kept>>
      /\ DrainDeliver => SendOk(Head(outbox).job) /\ Send(Head(outbox).job, Head(outbox).event)
      /\ DrainDiscard => SendClosed(Head(outbox).job) /\ events' = events
  BY DEF DrainDeliver, DrainDiscard
<1>2. PICK i \in Jobs, x \in Event : i = Head(outbox).job /\ x = Head(outbox).event
  <2>1. Head(outbox) \in Entry
    BY <1>1, SeqTypes DEF TypeOK
  <2> QED
    BY <2>1 DEF Entry
<1>3. /\ Known' = Known /\ Refusals' = Refusals /\ Gone' = Gone
      /\ Serving' = Serving /\ Occupying' = Occupying /\ Decoding' = Decoding
  BY <1>1, SameCallers DEF Serving, Occupying, Decoding, Queued, Occupied
<1>4. \A j \in Jobs \ {i} : Owed(j)' = Owed(j) /\ Said(j)' = Said(j)
  <2> SUFFICES ASSUME NEW j \in Jobs \ {i} PROVE Owed(j)' = Owed(j) /\ Said(j)' = Said(j)
    OBVIOUS
  <2>1. PICK k \in Seq(Event), t \in Seq(Event) :
           Owed(j) = k \o (<<>> \o t) /\ Owed(j)' = k \o t
    BY <1>1, <1>2, OwedHead
  <2>2. <<>> \o t = t
    BY EventSeqs
  <2>3. Said(j)' = Said(j)
    BY <1>1, <1>2 DEF Said, Send, TypeOK
  <2> QED
    BY <2>1, <2>2, <2>3
<1>5. CASE i \in Gone
  <2>1. \A j \in Jobs \ Gone : Owed(j)' = Owed(j) /\ Said(j)' = Said(j)
    BY <1>4, <1>5
  <2> QED
    BY <1>1, <1>3, <2>1, SameViews
<1>6. CASE i \notin Gone
  <2>1. DrainDeliver /\ Send(i, x)
    BY <1>1, <1>2, <1>6 DEF SendClosed, Gone
  <2>2. PICK k \in Seq(Event), t \in Seq(Event), o \in Seq(Event) :
           o = Owed(i) /\ o = k \o (<<x>> \o t) /\ Owed(i)' = k \o t
    <3>1. Owed(i) \in Seq(Event)
      BY PartTypes DEF PlaceInv
    <3>2. PICK k \in Seq(Event), t \in Seq(Event) :
             Owed(i) = k \o (<<x>> \o t) /\ Owed(i)' = k \o t
      BY <1>1, <1>2, OwedHead
    <3> QED
      BY <3>1, <3>2
  <2>3. Answered(i) /\ i \notin Decoding
    <3>1. o # <<>>
      <4>1. /\ <<x>> \o t \in Seq(Event) /\ Len(<<x>> \o t) = 1 + Len(t)
            /\ Len(t) \in Nat /\ Len(k) \in Nat
        <5>1. <<x>> \in Seq(Event) /\ Len(<<x>>) = 1
          OBVIOUS
        <5> QED
          BY <5>1, EventSeqs, LenProperties
      <4>2. Len(k \o (<<x>> \o t)) = Len(k) + (1 + Len(t))
        BY <4>1, EventSeqs
      <4>3. Len(o) > 0
        BY <2>2, <4>1, <4>2
      <4> QED
        BY <4>3, EmptySeq
    <3>2. ~Unfinished(i)
      BY <2>2, <3>1 DEF Unfinished
    <3>3. ~Undecided(i) /\ Answered(i)
      BY <1>6, <3>2, NotGone
    <3> QED
      BY <3>3 DEF Undecided, Occupying
  <2>4. WordsIn(k \o t) = WordsIn(o) \ {Word(x)} /\ Word(x) \in WordsIn(o)
    <3>1. Len(o) <= 2 /\ (Len(o) = 2 => Word(o[1]) # Word(o[2]))
      BY <2>2, <2>3, OwedApart
    <3> QED
      BY <2>2, <3>1, WordsWithout
  <2>5. WordsOwed(i) = WordsIn(o) /\ WordsOwed(i)' = WordsIn(k \o t)
    BY <2>2 DEF WordsOwed, WordsIn, Owed
  <2>6. Owings' = [Owings EXCEPT ![i] = @ \ {Word(x)}] /\ Word(x) \in Owings[i]
    <3>1. \A j \in Jobs \ {i} : WordsOwed(j)' = WordsOwed(j)
      BY <1>4 DEF WordsOwed, Owed
    <3> QED
      BY <1>3, <1>6, <2>4, <2>5, <3>1 DEF Owings
  <2>7. Sayings' = [Sayings EXCEPT ![i] = Append(@, Word(x))]
    BY <1>1, <1>6, <2>1, SendSays
  <2>8. Settled' = Settled /\ Unwanted' = Unwanted
    BY <1>1, <1>3 DEF Settled, Unwanted
  <2>9. L!Deliver(i)
    BY <1>1, <1>3, <2>6, <2>7, <2>8
    DEF L!Deliver, L!Say, Sayings, Owings, Serving, Settled, Known, Unused, Refusals, Unwanted, Said
  <2> QED
    BY <2>9 DEF L!Next, L!Work
<1> QED
  BY <1>5, <1>6

(***************************************************************************)
(* The steps that let go of a job.                                         *)
(***************************************************************************)

\* What such a step changes, when all it adds to the outbox is for job i.
LEMMA PartingViews ==
    ASSUME TypeOK, PoolInv, PlaceInv, ReplyInv, NEW i \in Jobs, NEW words \in Seq(Entry),
           outbox' = outbox \o words, UNCHANGED <<caller, req, got, cancel, events, kept>>,
           i \in Occupying, Occupying' = Occupying \ {i},
           \A j \in Jobs \ {i} : EventsOf(j, words) = <<>>
    PROVE  /\ Known' = Known /\ Refusals' = Refusals /\ Gone' = Gone /\ Unwanted' = Unwanted
           /\ Settled' = Settled \cup {i}
           /\ Sayings' = Sayings
           /\ Owings' = [Owings EXCEPT ![i] = IF i \in Gone THEN {}
                                              ELSE WordsIn(EventsOf(i, words))]
<1>1. Known' = Known /\ Refusals' = Refusals /\ Gone' = Gone /\ Unwanted' = Unwanted
  BY SameCallers DEF Unwanted
<1>2. Settled' = Settled \cup {i}
  <2>1. i \in Known
    BY DEF PlaceInv, OnePlacePerJob, Known, Unused
  <2> QED
    BY <1>1, <2>1 DEF Settled
<1>3. Sayings' = Sayings
  BY <1>1 DEF Sayings, Said
<1>4. ASSUME NEW j \in Jobs \ {i} PROVE WordsOwed(j)' = WordsOwed(j)
  <2>1. PICK o \in Seq(Event) : o = Owed(j) /\ Owed(j)' = o \o <<>>
    BY <1>4, OwedNext
  <2>2. o \o <<>> = o
    BY EventSeqs
  <2> QED
    BY <2>1, <2>2 DEF WordsOwed, Owed
<1>5. ASSUME i \notin Gone PROVE WordsOwed(i)' = WordsIn(EventsOf(i, words))
  <2>1. Owed(i) = <<>>
    BY <1>5, NotGone DEF Unfinished
  <2>2. PICK w \in Seq(Event) : w = EventsOf(i, words) /\ Owed(i)' = <<>> \o w
    BY <2>1, OwedNext
  <2>3. <<>> \o w = w
    BY EventSeqs
  <2> QED
    BY <2>2, <2>3 DEF WordsOwed, WordsIn, Owed
<1>6. Owings' = [Owings EXCEPT ![i] = IF i \in Gone THEN {} ELSE WordsIn(EventsOf(i, words))]
  BY <1>1, <1>4, <1>5 DEF Owings
<1> QED
  BY <1>1, <1>2, <1>3, <1>6

\* A job cancelled in the queue.
LEMMA SkipRefines ==
    ASSUME TypeOK, PoolInv, PlaceInv, TakenInPrefill, ReplyInv, AdmitCancelled
    PROVE  L!Skip
<1> USE DEF poolVars, loopVars, sharedVars, callerVars
<1>1. /\ Free # {} /\ queue # <<>> /\ Dequeue /\ cancel[Head(queue)] /\ taken = NoJob
      /\ UNCHANGED <<caller, req, cancel, got, events, kept, taken, slots>>
      /\ outbox' = Append(outbox, Post(Head(queue), Done(Head(queue), "Cancelled", 0)))
  BY DEF AdmitCancelled, TakenInPrefill
<1>2. PICK i \in Jobs, e \in Event : i = Head(queue) /\ e = Done(i, "Cancelled", 0)
  <2>1. Head(queue) \in Jobs
    BY <1>1, DequeuePlaces
  <2>2. "Cancelled" \in Stops
    BY DEF Stops
  <2> QED
    BY <2>1, <2>2, EventTypes
<1>3. /\ Serving' = Serving /\ Serving = Decoding
      /\ i \in Occupying /\ Occupying' = Occupying \ {i}
  <2>1. i \in Queued /\ i \notin Decoding /\ i # taken /\ Queued' = Queued \ {i}
    BY <1>1, <1>2, DequeuePlaces
  <2>2. Decoding' = Decoding
    BY <1>1 DEF Decoding, Occupied
  <2> QED
    BY <1>1, <2>1, <2>2 DEF Occupying, Serving
<1>4. PICK words \in Seq(Entry) : /\ outbox' = outbox \o words
                                  /\ \A j : EventsOf(j, words) = IF i = j THEN <<e>> ELSE <<>>
  BY <1>1, <1>2, PostOne
<1>5. WordsIn(EventsOf(i, words)) = {L!Done(i, 0)}
  <2>1. EventsOf(i, words) = <<e>>
    BY <1>4
  <2>2. WordsIn(<<e>>) = {Word(e)}
    BY DEF WordsIn
  <2>3. Word(e) = L!Done(i, 0)
    BY <1>2, WordKinds
  <2> QED
    BY <2>1, <2>2, <2>3
<1>6. /\ Known' = Known /\ Refusals' = Refusals /\ Gone' = Gone /\ Unwanted' = Unwanted
      /\ Settled' = Settled \cup {i} /\ Sayings' = Sayings
      /\ Owings' = [Owings EXCEPT ![i] = IF i \in Gone THEN {} ELSE {L!Done(i, 0)}]
  <2>1. \A j \in Jobs \ {i} : EventsOf(j, words) = <<>>
    BY <1>4
  <2> QED
    BY <1>1, <1>3, <1>4, <1>5, <2>1, PartingViews
<1>7. L!Cardinality(Serving) < MaxInflight /\ i \in Unwanted
  BY <1>1, <1>2, <1>3, RoomToServe, SameCount DEF Unwanted
<1>8. L!Owe(Head(queue), {L!Done(Head(queue), 0)})
  BY <1>2, <1>6 DEF L!Owe, Owings
<1> QED
  BY <1>1, <1>2, <1>3, <1>6, <1>7, <1>8
  DEF L!Skip, Dequeue, Serving, Settled, Known, Unused, Refusals, Unwanted, Sayings, Said

\* What is owed of a job let go of: its end, after its last token perhaps.
LEMMA LastWordsOwed ==
    ASSUME TypeOK, NEW i \in Jobs, i \notin Gone, NEW n \in Nat, n <= NCtx, NEW e \in Event,
           TrueEnd(i, e, n), NEW last, LastSaid(i, last, n, e)
    PROVE  \/ WordsIn(last) \in {{L!Done(i, L!Said(i))}, {L!Failed(i)}}
           \/ /\ L!Said(i) < NCtx
              /\ WordsIn(last) = {L!Token(i, L!Said(i) + 1), L!Done(i, L!Said(i) + 1)}
<1>1. /\ Word(e) \in {L!Failed(i), L!Done(i, n)}
      /\ e.kind = "done" => Word(e) = L!Done(i, n)
  <2>1. CASE e = Failed(i)
    <3>1. Word(e) = L!Failed(i) /\ e.kind = "failed"
      BY <2>1, WordKinds DEF Failed
    <3> QED
      BY <3>1
  <2>2. ASSUME NEW stop \in Stops, e = Done(i, stop, n) PROVE Word(e) = L!Done(i, n)
    BY <2>2, WordKinds
  <2> QED
    BY <2>1, <2>2 DEF TrueEnd
<1>2. CASE Said(i) = Numbered(i, n) /\ last = <<e>>
  <2>1. L!Said(i) = n
    BY <1>2, SaidSoFar
  <2>2. WordsIn(last) = {Word(e)}
    BY <1>2 DEF WordsIn
  <2> QED
    BY <1>1, <2>1, <2>2
<1>3. CASE /\ n > 0 /\ Said(i) = Numbered(i, n - 1)
           /\ last = <<Token(i, n), e>> /\ e.kind = "done"
  <2>1. n - 1 \in Nat /\ (n - 1) + 1 = n /\ n - 1 < NCtx
    BY <1>3, Sizes
  <2>2. L!Said(i) = n - 1
    BY <1>3, <2>1, SaidSoFar
  <2>3. WordsIn(last) = {Word(Token(i, n)), Word(e)}
    <3>1. PICK x : x = Token(i, n)
      OBVIOUS
    <3>2. WordsIn(<<x, e>>) = {Word(x), Word(e)}
      <4>1. DOMAIN <<x, e>> = {1, 2} /\ <<x, e>>[1] = x /\ <<x, e>>[2] = e
        OBVIOUS
      <4> QED
        BY <4>1 DEF WordsIn
    <3> QED
      BY <1>3, <3>1, <3>2
  <2>4. Word(Token(i, n)) = L!Token(i, n) /\ Word(e) = L!Done(i, n)
    BY <1>1, <1>3, WordKinds
  <2> QED
    BY <2>1, <2>2, <2>3, <2>4
<1> QED
  BY <1>2, <1>3 DEF LastSaid

\* A job that was being worked on.
LEMMA FinishRefines ==
    ASSUME TypeOK, PoolInv, PlaceInv, ReplyInv, Parts, OnePlacePerJob', UNCHANGED queue
    PROVE  \E i \in Jobs : L!Finish(i)
<1>1. PICK i \in Jobs, words \in Seq(Entry) : Parting(i, words)
  BY DEF Parts
<1>2. /\ outbox' = outbox \o words
      /\ UNCHANGED <<caller, req, got, cancel, events, kept>>
      /\ i \in Occupying /\ Occupying' = Occupying \ {i}
      /\ \A j \in Jobs \ {i} : EventsOf(j, words) = <<>>
  BY <1>1 DEF Parting
<1>3. /\ Known' = Known /\ Refusals' = Refusals /\ Gone' = Gone /\ Unwanted' = Unwanted
      /\ Settled' = Settled \cup {i} /\ Sayings' = Sayings
      /\ Owings' = [Owings EXCEPT ![i] = IF i \in Gone THEN {} ELSE WordsIn(EventsOf(i, words))]
  BY <1>2, PartingViews
<1>4. i \in Serving /\ Serving' = Serving \ {i}
  <2>1. Serving = Occupying \ Queued /\ Serving' = Occupying' \ Queued'
    <3>1. OnePlacePerJob => Serving = Occupying \ Queued
      BY DEF OnePlacePerJob, Serving, Occupying
    <3>2. (OnePlacePerJob => Serving = Occupying \ Queued)'
      BY DEF OnePlacePerJob, Serving, Occupying
    <3> QED
      BY <3>1, <3>2 DEF PlaceInv
  <2>2. Queued' = Queued
    BY DEF Queued
  <2>3. i \notin Queued
    BY <1>2, <2>2 DEF Occupying
  <2> QED
    BY <1>2, <2>1, <2>2, <2>3
<1>5. \/ L!Owe(i, {L!Done(i, L!Said(i))})
      \/ /\ L!Said(i) < NCtx
         /\ L!Owe(i, {L!Token(i, L!Said(i) + 1), L!Done(i, L!Said(i) + 1)})
      \/ L!Owe(i, {L!Failed(i)})
  <2>1. CASE i \in Gone
    BY <1>3, <2>1 DEF L!Owe, Owings
  <2>2. CASE i \notin Gone
    <3>1. PICK n \in Nat, e \in Event :
             TrueEnd(i, e, n) /\ n <= NCtx /\ LastSaid(i, EventsOf(i, words), n, e)
      BY <1>1, <2>2, NotGone DEF Parting
    <3>2. PICK said, w : said = L!Said(i) /\ w = WordsIn(EventsOf(i, words))
      OBVIOUS
    <3>3. \/ w \in {{L!Done(i, said)}, {L!Failed(i)}}
          \/ said < NCtx /\ w = {L!Token(i, said + 1), L!Done(i, said + 1)}
      BY <2>2, <3>1, <3>2, LastWordsOwed
    <3>4. CASE w = {L!Done(i, said)}
      BY <1>3, <3>2, <3>4 DEF L!Owe, Owings
    <3>5. CASE w = {L!Failed(i)}
      BY <1>3, <3>2, <3>5 DEF L!Owe, Owings
    <3>6. CASE said < NCtx /\ w = {L!Token(i, said + 1), L!Done(i, said + 1)}
      BY <1>3, <3>2, <3>6 DEF L!Owe, Owings
    <3> QED
      BY <3>3, <3>4, <3>5, <3>6
  <2> QED
    BY <2>1, <2>2
<1>6. L!LeaveServing(i)
  BY <1>4 DEF L!LeaveServing, Serving
<1>7. L!Finish(i)
  BY <1>3, <1>4, <1>5, <1>6
  DEF L!Finish, Serving, Settled, Known, Unused, Refusals, Unwanted, Sayings, Said
<1> QED
  BY <1>7

(***************************************************************************)
(* The theorem.                                                            *)
(***************************************************************************)
LEMMA EngineRefines ==
    TypeOK /\ PoolInv /\ PlaceInv /\ TakenInPrefill /\ BatchIsRows /\ CourseInv
      /\ FailingInv /\ ReplyInv /\ [Next]_vars => [L!Next]_L!vars
<1> SUFFICES ASSUME TypeOK, PoolInv, PlaceInv, TakenInPrefill, BatchIsRows, CourseInv,
                    FailingInv, ReplyInv, [Next]_vars
             PROVE  [L!Next]_L!vars
  OBVIOUS
<1>1. TypeOK' /\ PlaceInv'
  BY TypeStep, PlaceStep
<1>2. CASE CallerStep
  BY <1>2, CallerRefines
<1>3. CASE Quiet
  BY <1>3, QuietRefines
<1>4. CASE DrainDeliver \/ DrainDiscard
  BY <1>4, DeliverRefines
<1>5. ASSUME NEW s \in SeqIds, FlushDeliver(s) PROVE [L!Next]_L!vars
  BY <1>5, FlushRefines
<1>6. CASE AdmitCancelled
  BY <1>6, SkipRefines DEF L!Next, L!Work
<1>7. CASE Leaves /\ ~AdmitCancelled
  <2>1. UNCHANGED queue
    BY <1>7 DEF Leaves, FailRow, SampleEog, SampleFail, SampleLast, StallTimeout, FlushClosed,
                CollectCancelled, CollectFail, PrefillFinish, PrefillFail
  <2> QED
    BY <1>1, <1>7, <2>1, LeavesPart, FinishRefines DEF PlaceInv, L!Next, L!Work
<1>8. CASE SampleToken \/ \E s \in SeqIds : PrefillRun(s)
  BY <1>8, TokenRefines
<1> QED
  BY <1>2, <1>3, <1>4, <1>5, <1>6, <1>7, <1>8 DEF Next, EngineStep, Quiet, Leaves

LEMMA InitRefines == Init => L!Init
<1> SUFFICES ASSUME Init PROVE L!Init
  OBVIOUS
<1>1. /\ \A j \in Jobs : caller[j] = "idle" /\ ~cancel[j] /\ Said(j) = <<>> \o <<>>
      /\ queue = <<>> /\ taken = NoJob /\ kept \o outbox = <<>> \o <<>> /\ Occupied = {}
  BY DEF Init, Said, Occupied, Vacant
<1>2. <<>> \o <<>> = <<>>
  BY EmptySeq, EventSeqs
<1>3. Serving = {} /\ Known = {} /\ Refusals = {} /\ Unwanted = {} /\ Gone = {} /\ Settled = {}
  BY <1>1 DEF Serving, Decoding, Known, Unused, Refusals, Unwanted, Gone, Settled
<1>4. Sayings = [j \in Jobs |-> <<>>]
  <2>1. Words(<<>>) = <<>>
    BY DEF Words
  <2> QED
    BY <1>1, <1>2, <1>3, <2>1 DEF Sayings
<1>5. Owings = [j \in Jobs |-> {}]
  <2>1. \A j \in Jobs : Owed(j) = <<>>
    BY <1>1, <1>2, EventsOfEmpty DEF Owed
  <2>2. WordsIn(<<>>) = {}
    BY DEF WordsIn
  <2> QED
    BY <1>3, <2>1, <2>2, OwedWords DEF Owings
<1> QED
  BY <1>1, <1>3, <1>4, <1>5
  DEF L!Init, Serving, Known, Unused, Refusals, Unwanted, Settled, Sayings, Owings, Said

\* The engine serves its callers as Lifecycle says, for any number of slots,
\* submissions and buffered events, whatever callers do and whatever fails.
THEOREM EngineImplementsLifecycle == Spec => ImplementsLifecycle
<1>1. Init => L!Init
  BY InitRefines
<1> QED
  BY PoolIsConsistent, PlacesAreConsistent, BatchIsConsistent, RepliesAreConsistent,
     <1>1, EngineRefines, PTL DEF Spec, ImplementsLifecycle, L!Spec
=============================================================================

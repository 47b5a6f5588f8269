---------------------------- MODULE WorkerProofs -----------------------------
(***************************************************************************)
(* Proofs about Worker, for any number of streams, claims and slots.       *)
(***************************************************************************)
EXTENDS Worker, FiniteSetTheorems, SequenceTheorems, TLAPS

(***************************************************************************)
(* The engine, as the worker relies on it.                                 *)
(***************************************************************************)
Event  == [kind : {"token", "done", "failed"}, of : Jobs, n : Nat]
Queued == {waiting[i] : i \in DOMAIN waiting}

\* A job is in one place, or its submission was refused, or not yet made.
PlaceInv ==
    /\ waiting \in Seq(Jobs) /\ serving \subseteq Jobs /\ settled \subseteq Jobs
    /\ \A i, k \in DOMAIN waiting : waiting[i] = waiting[k] => i = k
    /\ Queued \cap serving = {} /\ Queued \cap settled = {} /\ serving \cap settled = {}
    /\ refused \cap (Queued \cup serving \cup settled) = {}

\* The first m events of a reply are its first m tokens.
Tokens(j, m) == /\ m <= Len(reply[j])
                /\ \A i \in 1 .. m : reply[j][i] = E!Token(j, i)

\* What a caller has been sent of its reply, and is owed.
Speaking(j, m) == Len(reply[j]) = m /\ owed[j] = {}
EndedAt(j, m, e) ==
    /\ e \in {E!Failed(j), E!Done(j, m)}
    /\ \/ Len(reply[j]) = m /\ owed[j] = {e}
       \/ Len(reply[j]) = m + 1 /\ reply[j][m + 1] = e /\ owed[j] = {}
\* The last token and the end were owed together.
EndedLate(j, m, e) ==
    /\ m < MaxTokens /\ e = E!Done(j, m + 1)
    /\ \/ Len(reply[j]) = m /\ owed[j] = {E!Token(j, m + 1), e}
       \/ Len(reply[j]) = m + 1 /\ reply[j][m + 1] = e /\ owed[j] = {E!Token(j, m + 1)}
       \/ /\ Len(reply[j]) = m + 2 /\ owed[j] = {}
          /\ reply[j][m + 1] = e /\ reply[j][m + 2] = E!Token(j, m + 1)
ReplyInv(j) ==
    \E m \in Nat :
       /\ m <= MaxTokens /\ Tokens(j, m)
       /\ IF j \in settled THEN \E e : EndedAt(j, m, e) \/ EndedLate(j, m, e)
                           ELSE Speaking(j, m) /\ (j \notin serving => m = 0)
EngineInv ==
    /\ PlaceInv
    /\ reply \in [Jobs -> Seq(Event)] /\ owed \in [Jobs -> SUBSET Event]
    /\ \A j \in Jobs \ gone : ReplyInv(j)

LEMMA Bounds ==
    /\ Claims \in Nat /\ Claims > 0 /\ MaxServing \in Nat /\ MaxWaiting \in Nat
    /\ MaxTokens \in Nat
  BY WorkerAssumption

LEMMA EventTypes ==
    /\ \A j \in Jobs, n \in Nat : E!Token(j, n) \in Event /\ E!Done(j, n) \in Event
    /\ \A j \in Jobs : E!Failed(j) \in Event
    /\ \A j, n : E!Token(j, n).kind = "token" /\ E!Done(j, n).kind = "done"
    /\ \A j : E!Failed(j).kind = "failed"
    /\ \A j, n, k, l : E!Token(j, n) = E!Token(k, l) => n = l
  BY DEF Event, E!Token, E!Done, E!Failed

LEMMA SameCount == \A S : E!Cardinality(S) = Cardinality(S)
  BY DEF E!Cardinality, Cardinality, E!IsFiniteSet, IsFiniteSet

LEMMA AcceptedJobs == E!Accepted = Queued \cup serving \cup settled
  BY DEF E!Accepted, Queued

(***************************************************************************)
(* Sequences without repetition.                                           *)
(***************************************************************************)
LEMMA AppendQueue ==
    ASSUME PlaceInv, NEW j \in Jobs, j \notin Queued, waiting' = Append(waiting, j)
    PROVE  /\ waiting' \in Seq(Jobs) /\ Queued' = Queued \cup {j}
           /\ \A i, k \in DOMAIN waiting' : waiting'[i] = waiting'[k] => i = k
<1>1. waiting \in Seq(Jobs) /\ Len(waiting) \in Nat /\ DOMAIN waiting = 1 .. Len(waiting)
  BY LenProperties DEF PlaceInv
<1>2. PICK n \in Nat : n = Len(waiting)
  BY <1>1
<1>3. /\ waiting' \in Seq(Jobs) /\ Len(waiting') = n + 1 /\ waiting'[n + 1] = j
      /\ \A i \in 1 .. n : waiting'[i] = waiting[i]
  BY <1>1, <1>2, AppendProperties
<1>4. DOMAIN waiting' = 1 .. n + 1
  BY <1>3, LenProperties
<1>5. \A i \in 1 .. n + 1 : i \in 1 .. n \/ i = n + 1
  BY <1>2
<1>6. \A i \in 1 .. n : i \in 1 .. n + 1 /\ waiting[i] \in Queued
  BY <1>1, <1>2 DEF Queued
<1>7. Queued' = Queued \cup {j}
  <2>1. \A x \in Queued : \E i \in 1 .. n + 1 : waiting'[i] = x
    BY <1>1, <1>2, <1>3, <1>6 DEF Queued
  <2>2. n + 1 \in 1 .. n + 1
    BY <1>2
  <2>3. \A i \in 1 .. n + 1 : waiting'[i] \in Queued \cup {j}
    BY <1>3, <1>5, <1>6
  <2> QED
    BY <1>3, <1>4, <2>1, <2>2, <2>3 DEF Queued
<1>8. ASSUME NEW i \in 1 .. n + 1, NEW k \in 1 .. n + 1, waiting'[i] = waiting'[k]
      PROVE  i = k
  BY <1>1, <1>2, <1>3, <1>5, <1>6, <1>8 DEF PlaceInv
<1> QED
  BY <1>3, <1>4, <1>7, <1>8

LEMMA TailQueue ==
    ASSUME PlaceInv, waiting # <<>>, waiting' = Tail(waiting)
    PROVE  /\ waiting' \in Seq(Jobs) /\ Head(waiting) \in Queued /\ Head(waiting) \in Jobs
           /\ Queued' = Queued \ {Head(waiting)}
           /\ \A i, k \in DOMAIN waiting' : waiting'[i] = waiting'[k] => i = k
<1>1. waiting \in Seq(Jobs) /\ Len(waiting) \in Nat /\ DOMAIN waiting = 1 .. Len(waiting)
  BY LenProperties DEF PlaceInv
<1>2. PICK n \in Nat : n + 1 = Len(waiting)
  <2>1. PICK l \in Nat : l = Len(waiting)
    BY <1>1
  <2>2. l # 0
    BY <1>1, <2>1, EmptySeq
  <2>3. l - 1 \in Nat /\ (l - 1) + 1 = l
    BY <2>2
  <2> QED
    BY <2>1, <2>3
<1>3. /\ waiting' \in Seq(Jobs) /\ Len(waiting') = n /\ Head(waiting) = waiting[1]
      /\ \A i \in 1 .. n : waiting'[i] = waiting[i + 1]
  <2>1. /\ Head(waiting) \in Jobs /\ Tail(waiting) \in Seq(Jobs)
        /\ Len(Tail(waiting)) = Len(waiting) - 1
        /\ \A i \in 1 .. Len(Tail(waiting)) : Tail(waiting)[i] = waiting[i + 1]
    BY <1>1, HeadTailProperties
  <2>2. Head(waiting) = waiting[1]
    BY <1>1
  <2> QED
    BY <1>2, <2>1, <2>2
<1>4. DOMAIN waiting' = 1 .. n /\ DOMAIN waiting = 1 .. n + 1
  BY <1>1, <1>2, <1>3, LenProperties
<1>5. 1 \in 1 .. n + 1 /\ \A i \in 1 .. n : i + 1 \in 1 .. n + 1 /\ i + 1 # 1
  BY <1>2
<1>6. \A i, k \in 1 .. n + 1 : waiting[i] = waiting[k] => i = k
  BY <1>4 DEF PlaceInv
<1>7. \A i \in 1 .. n + 1 : i = 1 \/ (i - 1 \in 1 .. n /\ (i - 1) + 1 = i)
  BY <1>2
<1>8. Queued' = Queued \ {Head(waiting)}
  <2>1. \A i \in 1 .. n : waiting'[i] \in Queued \ {Head(waiting)}
    BY <1>3, <1>4, <1>5, <1>6 DEF Queued
  <2>2. \A x \in Queued \ {Head(waiting)} : \E i \in 1 .. n : waiting'[i] = x
    BY <1>3, <1>4, <1>7 DEF Queued
  <2> QED
    BY <1>4, <2>1, <2>2 DEF Queued
<1>9. \A i, k \in 1 .. n : waiting'[i] = waiting'[k] => i = k
  <2>1. ASSUME NEW i \in 1 .. n, NEW k \in 1 .. n, waiting'[i] = waiting'[k] PROVE i = k
    <3>1. i + 1 = k + 1
      BY <1>3, <1>5, <1>6, <2>1
    <3> QED
      BY <3>1
  <2> QED
    BY <2>1
<1>10. Head(waiting) \in Queued /\ Head(waiting) \in Jobs
  <2>1. waiting[1] \in Queued
    BY <1>4, <1>5 DEF Queued
  <2>2. waiting[1] \in Jobs
    BY <1>1, <1>4, <1>5, ElementOfSeq
  <2> QED
    BY <1>3, <2>1, <2>2
<1> QED
  BY <1>3, <1>4, <1>8, <1>9, <1>10

(***************************************************************************)
(* The steps of the engine keep what the worker relies on.                 *)
(***************************************************************************)
LEMMA SaidTokens ==
    ASSUME EngineInv, NEW j \in Jobs, NEW m \in Nat, Tokens(j, m), Len(reply[j]) = m
    PROVE  E!Said(j) = m
<1>1. reply[j] \in Seq(Event)
  BY DEF EngineInv
<1>2. DOMAIN reply[j] = 1 .. m
  BY <1>1, LenProperties
<1>3. {i \in DOMAIN reply[j] : reply[j][i].kind = "token"} = 1 .. m
  BY <1>2, EventTypes DEF Tokens
<1>4. Cardinality(1 .. m) = m
  BY FS_Interval
<1> QED
  BY <1>3, <1>4, SameCount DEF E!Said

LEMMA ReplyFrame ==
    ASSUME NEW j \in Jobs, ReplyInv(j), reply'[j] = reply[j], owed'[j] = owed[j],
           j \in settled' <=> j \in settled, j \in serving => j \in serving'
    PROVE  ReplyInv(j)'
  BY DEF ReplyInv, Tokens, Speaking, EndedAt, EndedLate

\* An event more.
LEMMA ReplyGrows ==
    ASSUME EngineInv, NEW j \in Jobs, NEW e \in Event, reply' = [reply EXCEPT ![j] = Append(@, e)]
    PROVE  /\ reply' \in [Jobs -> Seq(Event)]
           /\ Len(reply[j]) \in Nat /\ Len(reply'[j]) = Len(reply[j]) + 1
           /\ \A i \in 1 .. Len(reply[j]) : reply'[j][i] = reply[j][i]
           /\ reply'[j][Len(reply[j]) + 1] = e
           /\ \A k \in Jobs : k # j => reply'[k] = reply[k]
<1>1. PICK r \in Seq(Event) : r = reply[j] /\ reply'[j] = Append(r, e)
  BY DEF EngineInv
<1>2. /\ Append(r, e) \in Seq(Event) /\ Len(Append(r, e)) = Len(r) + 1 /\ Len(r) \in Nat
      /\ Append(r, e)[Len(r) + 1] = e /\ \A i \in 1 .. Len(r) : Append(r, e)[i] = r[i]
  BY AppendProperties, LenProperties
<1>3. reply' \in [Jobs -> Seq(Event)] /\ \A k \in Jobs : k # j => reply'[k] = reply[k]
  BY <1>1, <1>2 DEF EngineInv
<1> QED
  BY <1>1, <1>2, <1>3

\* What every step of the engine leaves as it was: replies only grow.
Kept ==
    /\ refused' = refused /\ gone' = gone
    /\ (Queued \cup serving \cup settled)' = Queued \cup serving \cup settled
    /\ settled \subseteq settled'
    /\ \A j \in Jobs : /\ Len(reply[j]) <= Len(reply'[j])
                       /\ \A i \in 1 .. Len(reply[j]) : reply'[j][i] = reply[j][i]

LEMMA LenReply == EngineInv => \A j \in Jobs : Len(reply[j]) \in Nat
  BY LenProperties DEF EngineInv

\* A job is taken up.
LEMMA StartKeeps ==
    ASSUME EngineInv, E!Start
    PROVE  EngineInv' /\ Kept
<1>1. /\ waiting # <<>> /\ waiting' = Tail(waiting) /\ serving' = serving \cup {Head(waiting)}
      /\ UNCHANGED <<settled, refused, gone, reply, owed>>
  BY DEF E!Start
<1>2. /\ waiting' \in Seq(Jobs) /\ Head(waiting) \in Queued /\ Head(waiting) \in Jobs
      /\ Queued' = Queued \ {Head(waiting)}
      /\ \A i, k \in DOMAIN waiting' : waiting'[i] = waiting'[k] => i = k
  BY <1>1, TailQueue DEF EngineInv
<1>3. PlaceInv'
  BY <1>1, <1>2 DEF EngineInv, PlaceInv
<1>4. \A j \in Jobs \ gone : ReplyInv(j)'
  BY <1>1, ReplyFrame DEF EngineInv
<1>5. Kept
  BY <1>1, <1>2, LenReply DEF Kept
<1> QED
  BY <1>1, <1>3, <1>4, <1>5 DEF EngineInv

\* A job is let go of before it is taken up.
LEMMA SkipKeeps ==
    ASSUME EngineInv, E!Skip
    PROVE  EngineInv' /\ Kept
<1>a. /\ waiting # <<>> /\ waiting' = Tail(waiting)
      /\ settled' = settled \cup {Head(waiting)}
      /\ owed' = [owed EXCEPT ![Head(waiting)] =
                    IF Head(waiting) \in gone THEN {} ELSE {E!Done(Head(waiting), 0)}]
      /\ UNCHANGED <<serving, refused, gone, reply>>
  BY DEF E!Skip, E!Owe
<1>b. /\ waiting' \in Seq(Jobs) /\ Head(waiting) \in Queued /\ Head(waiting) \in Jobs
      /\ Queued' = Queued \ {Head(waiting)}
      /\ \A i, k \in DOMAIN waiting' : waiting'[i] = waiting'[k] => i = k
  BY <1>a, TailQueue DEF EngineInv
<1>c. PICK h \in Jobs : h = Head(waiting)
  BY <1>b
<1>1. /\ settled' = settled \cup {h}
      /\ owed' = [owed EXCEPT ![h] = IF h \in gone THEN {} ELSE {E!Done(h, 0)}]
      /\ UNCHANGED <<serving, refused, gone, reply>>
  BY <1>a, <1>c
<1>2. /\ waiting' \in Seq(Jobs) /\ h \in Queued /\ Queued' = Queued \ {h}
      /\ \A i, k \in DOMAIN waiting' : waiting'[i] = waiting'[k] => i = k
  BY <1>b, <1>c
<1>3. PlaceInv'
  BY <1>1, <1>2 DEF EngineInv, PlaceInv
<1>4. owed' \in [Jobs -> SUBSET Event]
  <2>1. E!Done(h, 0) \in Event
    BY <1>2, EventTypes
  <2> QED
    BY <1>1, <2>1 DEF EngineInv
<1>5. ASSUME NEW j \in Jobs \ gone PROVE ReplyInv(j)'
  <2>1. CASE j # h
    BY <1>1, <1>5, <2>1, ReplyFrame DEF EngineInv
  <2>2. CASE j = h
    <3>1. h \notin settled /\ ReplyInv(h)
      BY <1>2, <1>5, <2>2 DEF EngineInv, PlaceInv
    <3>2. h \notin serving
      BY <1>2 DEF EngineInv, PlaceInv
    <3>3. Tokens(h, 0) /\ Len(reply[h]) = 0 /\ 0 <= MaxTokens
      BY <3>1, <3>2 DEF ReplyInv, Speaking
    <3>4. owed'[h] = {E!Done(h, 0)} /\ h \in settled'
      BY <1>1, <1>2, <1>5, <2>2 DEF EngineInv
    <3>5. Tokens(h, 0)' /\ EndedAt(h, 0, E!Done(h, 0))'
      BY <1>1, <3>3, <3>4 DEF Tokens, EndedAt
    <3> QED
      BY <2>2, <3>3, <3>4, <3>5 DEF ReplyInv
  <2> QED
    BY <2>1, <2>2
<1>6. Kept
  BY <1>1, <1>2, LenReply DEF Kept
<1> QED
  BY <1>1, <1>3, <1>4, <1>5, <1>6 DEF EngineInv

\* A token of a reply is sent.
LEMMA SpeakKeeps ==
    ASSUME EngineInv, NEW k \in Jobs, E!Speak(k)
    PROVE  EngineInv' /\ Kept
<1>1. /\ k \in serving \ gone /\ E!Said(k) < MaxTokens
      /\ UNCHANGED <<waiting, serving, settled, refused, gone, owed>>
      /\ reply' = [reply EXCEPT ![k] = Append(@, E!Token(k, E!Said(k) + 1))]
  BY DEF E!Speak, E!Say
<1>2. k \notin settled /\ ReplyInv(k)
  BY <1>1 DEF EngineInv, PlaceInv
<1>3. PICK m \in Nat : Tokens(k, m) /\ Speaking(k, m)
  BY <1>2 DEF ReplyInv
<1>4. E!Said(k) = m
  BY <1>3, SaidTokens DEF Speaking
<1>5. PICK e \in Event : e = E!Token(k, m + 1)
  BY EventTypes
<1>6. m + 1 \in Nat /\ m + 1 <= MaxTokens
  BY <1>1, <1>4, Bounds
<1>7. /\ reply' \in [Jobs -> Seq(Event)] /\ Len(reply'[k]) = m + 1
      /\ \A i \in 1 .. m : reply'[k][i] = reply[k][i]
      /\ reply'[k][m + 1] = e
      /\ \A j \in Jobs : j # k => reply'[j] = reply[j]
  <2>1. reply' = [reply EXCEPT ![k] = Append(@, e)]
    BY <1>1, <1>4, <1>5
  <2> QED
    BY <1>3, <2>1, ReplyGrows DEF Speaking
<1>8. PlaceInv'
  BY <1>1 DEF EngineInv, PlaceInv, Queued
<1>9. ReplyInv(k)'
  <2>1. \A i \in 1 .. m + 1 : i \in 1 .. m \/ i = m + 1
    OBVIOUS
  <2>2. Tokens(k, m + 1)'
    BY <1>3, <1>5, <1>7, <2>1 DEF Tokens
  <2>3. Speaking(k, m + 1)'
    BY <1>1, <1>3, <1>7 DEF Speaking
  <2> QED
    BY <1>1, <1>2, <1>6, <2>2, <2>3 DEF ReplyInv
<1>10. \A j \in Jobs \ gone : j # k => ReplyInv(j)'
  BY <1>1, <1>7, ReplyFrame DEF EngineInv
<1>11. Kept
  BY <1>1, <1>3, <1>7, LenReply DEF Kept, Queued, Speaking
<1> QED
  BY <1>1, <1>7, <1>8, <1>9, <1>10, <1>11 DEF EngineInv

\* A job is let go of.
LEMMA FinishKeeps ==
    ASSUME EngineInv, NEW k \in Jobs, E!Finish(k)
    PROVE  EngineInv' /\ Kept
<1>1. PICK words :
         /\ k \in serving /\ serving' = serving \ {k} /\ settled' = settled \cup {k}
         /\ owed' = [owed EXCEPT ![k] = IF k \in gone THEN {} ELSE words]
         /\ UNCHANGED <<waiting, refused, gone, reply>>
         /\ \/ words = {E!Done(k, E!Said(k))}
            \/ /\ E!Said(k) < MaxTokens
               /\ words = {E!Token(k, E!Said(k) + 1), E!Done(k, E!Said(k) + 1)}
            \/ words = {E!Failed(k)}
  BY DEF E!Finish, E!LeaveServing, E!Owe
<1>2. PlaceInv'
  BY <1>1 DEF EngineInv, PlaceInv, Queued
<1>3. ASSUME k \notin gone
      PROVE  /\ owed'[k] \in SUBSET Event /\ ReplyInv(k)'
  <2>1. k \notin settled /\ ReplyInv(k)
    BY <1>1, <1>3 DEF EngineInv, PlaceInv
  <2>2. PICK m \in Nat : m <= MaxTokens /\ Tokens(k, m) /\ Speaking(k, m)
    BY <2>1 DEF ReplyInv
  <2>3. E!Said(k) = m
    BY <2>2, SaidTokens DEF Speaking
  <2>4. owed'[k] = words /\ k \in settled' /\ Tokens(k, m)' /\ Len(reply'[k]) = m
    BY <1>1, <1>3, <2>2 DEF EngineInv, Tokens, Speaking
  <2>5. CASE words = {E!Done(k, m)} \/ words = {E!Failed(k)}
    <3>1. PICK e \in Event : e \in {E!Done(k, m), E!Failed(k)} /\ words = {e}
      BY <2>5, EventTypes
    <3>2. EndedAt(k, m, e)'
      BY <2>4, <3>1 DEF EndedAt
    <3> QED
      BY <2>2, <2>4, <3>1, <3>2 DEF ReplyInv
  <2>6. CASE m < MaxTokens /\ words = {E!Token(k, m + 1), E!Done(k, m + 1)}
    <3>1. EndedLate(k, m, E!Done(k, m + 1))'
      BY <2>4, <2>6 DEF EndedLate
    <3>2. m + 1 \in Nat
      OBVIOUS
    <3>3. words \in SUBSET Event
      BY <2>6, <3>2, EventTypes
    <3> QED
      BY <2>2, <2>4, <3>1, <3>3 DEF ReplyInv
  <2> QED
    BY <1>1, <2>3, <2>5, <2>6
<1>4. owed' \in [Jobs -> SUBSET Event]
  BY <1>1, <1>3 DEF EngineInv
<1>5. \A j \in Jobs \ gone : j # k => ReplyInv(j)'
  BY <1>1, ReplyFrame DEF EngineInv
<1>6. Kept
  BY <1>1, LenReply DEF Kept, Queued
<1> QED
  BY <1>1, <1>2, <1>3, <1>4, <1>5, <1>6 DEF EngineInv

\* An event that was owed is sent.
LEMMA DeliverKeeps ==
    ASSUME EngineInv, NEW k \in Jobs, E!Deliver(k)
    PROVE  EngineInv' /\ Kept
<1>1. PICK e \in Event :
         /\ e \in owed[k] /\ owed' = [owed EXCEPT ![k] = @ \ {e}]
         /\ reply' = [reply EXCEPT ![k] = Append(@, e)]
         /\ UNCHANGED <<waiting, serving, settled, refused, gone>>
  BY DEF E!Deliver, E!Say, EngineInv
<1>2. /\ reply' \in [Jobs -> Seq(Event)] /\ Len(reply[k]) \in Nat
      /\ Len(reply'[k]) = Len(reply[k]) + 1
      /\ \A i \in 1 .. Len(reply[k]) : reply'[k][i] = reply[k][i]
      /\ reply'[k][Len(reply[k]) + 1] = e
      /\ \A j \in Jobs : j # k => reply'[j] = reply[j]
  BY <1>1, ReplyGrows
<1>3. PlaceInv'
  BY <1>1 DEF EngineInv, PlaceInv, Queued
<1>4. owed' \in [Jobs -> SUBSET Event] /\ owed'[k] = owed[k] \ {e}
      /\ \A j \in Jobs : j # k => owed'[j] = owed[j]
  BY <1>1 DEF EngineInv
<1>5. ASSUME k \notin gone PROVE ReplyInv(k)'
  <2>1. ReplyInv(k)
    BY <1>5 DEF EngineInv
  <2>a. PICK m \in Nat :
           /\ m <= MaxTokens /\ Tokens(k, m) /\ k \in settled
           /\ \E x : EndedAt(k, m, x) \/ EndedLate(k, m, x)
    BY <1>1, <2>1 DEF ReplyInv, Speaking
  <2>b. PICK x : EndedAt(k, m, x) \/ EndedLate(k, m, x)
    BY <2>a
  <2>2. /\ m <= MaxTokens /\ Tokens(k, m) /\ k \in settled
        /\ EndedAt(k, m, x) \/ EndedLate(k, m, x)
    BY <2>a, <2>b
  <2>3. PICK l \in Nat : l = Len(reply[k])
    BY <1>2
  <2>4. Tokens(k, m)'
    <3>1. m <= l /\ \A i \in 1 .. m : i \in 1 .. l
      BY <2>2, <2>3 DEF Tokens
    <3> QED
      BY <1>2, <2>2, <2>3, <3>1 DEF Tokens
  <2>5. CASE EndedAt(k, m, x)
    <3>1. l = m /\ e = x /\ owed'[k] = {} /\ x \in {E!Failed(k), E!Done(k, m)}
      BY <1>1, <1>4, <2>3, <2>5 DEF EndedAt
    <3>2. EndedAt(k, m, x)'
      BY <1>2, <2>3, <3>1 DEF EndedAt
    <3> QED
      BY <1>1, <2>2, <2>4, <3>2 DEF ReplyInv
  <2>6. CASE EndedLate(k, m, x)
    <3> DEFINE t == E!Token(k, m + 1)
    <3>1. m < MaxTokens /\ x = E!Done(k, m + 1) /\ m + 1 \in Nat /\ m + 1 <= MaxTokens /\ t # x
      <4>1. m < MaxTokens /\ x = E!Done(k, m + 1)
        BY <2>6 DEF EndedLate
      <4>2. t.kind = "token" /\ x.kind = "done"
        BY <4>1, EventTypes
      <4> QED
        BY <4>1, <4>2, Bounds
    <3> HIDE DEF t
    <3>2. CASE l = m /\ owed[k] = {t, x} /\ e = t
      <4>1. \A i \in 1 .. m + 1 : i \in 1 .. m \/ i = m + 1
        OBVIOUS
      <4>2. Tokens(k, m + 1)'
        BY <1>2, <2>3, <2>4, <3>2, <4>1 DEF Tokens, t
      <4>3. EndedAt(k, m + 1, x)'
        BY <1>2, <1>4, <2>3, <3>1, <3>2 DEF EndedAt
      <4> QED
        BY <1>1, <2>2, <3>1, <4>2, <4>3 DEF ReplyInv
    <3>3. CASE l = m /\ owed[k] = {t, x} /\ e = x
      <4>1. EndedLate(k, m, x)'
        BY <1>2, <1>4, <2>3, <3>1, <3>3 DEF EndedLate, t
      <4> QED
        BY <1>1, <2>2, <2>4, <4>1 DEF ReplyInv
    <3>4. CASE l = m + 1 /\ reply[k][m + 1] = x /\ owed[k] = {t}
      <4>1. e = t /\ owed'[k] = {} /\ m + 1 \in 1 .. l
        BY <1>1, <1>4, <3>1, <3>4
      <4>2. Len(reply'[k]) = m + 2 /\ reply'[k][m + 2] = t /\ reply'[k][m + 1] = x
        BY <1>2, <2>3, <3>4, <4>1
      <4>3. EndedLate(k, m, x)'
        BY <3>1, <4>1, <4>2 DEF EndedLate, t
      <4> QED
        BY <1>1, <2>2, <2>4, <4>3 DEF ReplyInv
    <3> QED
      BY <1>1, <2>3, <2>6, <3>2, <3>3, <3>4 DEF EndedLate, t
  <2> QED
    BY <2>2, <2>5, <2>6
<1>6. \A j \in Jobs \ gone : j # k => ReplyInv(j)'
  BY <1>1, <1>2, <1>4, ReplyFrame DEF EngineInv
<1>7. Kept
  BY <1>1, <1>2, LenReply DEF Kept, Queued
<1> QED
  BY <1>1, <1>2, <1>3, <1>4, <1>5, <1>6, <1>7 DEF EngineInv

LEMMA WorkKeeps ==
    ASSUME EngineInv, E!Work
    PROVE  EngineInv' /\ Kept
  BY StartKeeps, SkipKeeps, SpeakKeeps, FinishKeeps, DeliverKeeps DEF E!Work

(***************************************************************************)
(* The jobs of the worker.                                                 *)
(***************************************************************************)
Stages == {"parked", "heading", "reading", "receiving", "writing", "returned"}
Frame ==
    {Open, Error, End} \cup [kind : {"head"}, status : Nat]
        \cup [kind : {"chunk", "close"}, of : Jobs, n : Nat]
        \cup [kind : {"whole"}, of : Jobs, n : Nat, text : Seq(Event)]
Types ==
    /\ streams \subseteq Jobs /\ closed \subseteq Jobs
    /\ stage \in [Jobs -> Stages] /\ final \in [Jobs -> BOOLEAN]
    /\ read \in [Jobs -> 0 .. MaxTokens + 1] /\ seen \in [Jobs -> 0 .. MaxTokens + 1]
    /\ text \in [Jobs -> Seq(Event)]
    /\ todo \in [Jobs -> Seq(Frame)] /\ lane \in [Jobs -> Seq(Frame)]

\* The answers that LaneIsOneAnswer admits.
Full(j) == {a \in Answers(j) : Counted(a)}
\* What an answer has said when n tokens have been received.
Chunks(j, n)    == [i \in 1 .. n |-> Chunk(E!Token(j, i))]
Beginning(j, n) == IF j \in streams THEN << Head200, Open >> \o Chunks(j, n) ELSE <<>>
Taken == Queued \cup serving \cup settled

\* Nothing has been said to the engine or to the client.
Untried(j) ==
    stage[j] \in {"parked", "heading", "reading"} =>
        /\ j \notin Taken \cup refused \cup gone
        /\ lane[j] = <<>> /\ todo[j] = <<>> /\ text[j] = <<>> /\ read[j] = 0
\* What has been received has been passed on, or is about to be.
Passing(j) ==
    stage[j] = "receiving" \/ (stage[j] = "writing" /\ ~final[j]) =>
        /\ j \in Taken \ gone
        /\ read[j] <= MaxTokens /\ Tokens(j, read[j])
        /\ lane[j] \o todo[j] = Beginning(j, read[j])
        /\ j \notin streams => stage[j] = "receiving" /\ text[j] = Numbered(j, read[j])
        /\ stage[j] = "receiving" <=> todo[j] = <<>>
\* The rest of an answer is about to be written.
Ending(j) ==
    stage[j] = "writing" /\ final[j] =>
        /\ j \notin gone /\ (j \in Taken => j \in settled)
        /\ todo[j] # <<>> /\ lane[j] \o todo[j] \in Full(j)
\* Nothing follows, and nothing is missing unless the client has left.
Ended(j) ==
    stage[j] = "returned" =>
        /\ j \in Taken => j \in gone
        /\ \E u \in Seq(Frame) : lane[j] \o u \in Full(j) /\ (j \notin closed => u = <<>>)
        /\ j \in Taken /\ j \notin closed => j \in settled
\* An event more than when the client left, of which a write is to fail.
Hung(j) ==
    j \in closed \cap streams =>
        /\ read[j] <= seen[j] + 1
        /\ stage[j] \notin {"writing", "returned"} => read[j] = seen[j]
JobInv(j) ==
    /\ Untried(j) /\ Passing(j) /\ Ending(j) /\ Ended(j) /\ Hung(j)
    /\ Len(text[j]) <= MaxTokens

\* The ring hands over no more streams than were claimed.
HandInv == IsFiniteSet(InHand) /\ Cardinality(InHand) <= Claims

WorkerInv == EngineInv /\ Types /\ HandInv /\ \A j \in Jobs : JobInv(j)

(***************************************************************************)
(* Frames and answers.                                                     *)
(***************************************************************************)
LEMMA FrameTypes ==
    /\ Open \in Frame /\ Error \in Frame /\ End \in Frame
    /\ \A s \in Nat : [kind |-> "head", status |-> s] \in Frame
    /\ Head200 \in Frame
    /\ \A j \in Jobs, n \in Nat : /\ Chunk(E!Token(j, n)) \in Frame
                                  /\ Close(E!Done(j, n)) \in Frame
    /\ \A j \in Jobs, n \in Nat : \A t \in Seq(Event) :
          [kind |-> "whole", of |-> j, n |-> n, text |-> t] \in Frame
<1>1. 200 \in Nat
  OBVIOUS
<1>2. /\ Open \in Frame /\ Error \in Frame /\ End \in Frame
      /\ \A s \in Nat : [kind |-> "head", status |-> s] \in Frame
  BY DEF Frame
<1>3. ASSUME NEW j \in Jobs, NEW n \in Nat
      PROVE  /\ Chunk(E!Token(j, n)) \in Frame /\ Close(E!Done(j, n)) \in Frame
             /\ \A t \in Seq(Event) : [kind |-> "whole", of |-> j, n |-> n, text |-> t] \in Frame
  BY DEF Frame, Chunk, Close, E!Token, E!Done
<1> QED
  BY <1>1, <1>2, <1>3 DEF Head200

LEMMA OneFrame ==
    \A a \in Frame : << a >> \in Seq(Frame) /\ Len(<< a >>) = 1 /\ << a >>[1] = a
  OBVIOUS

LEMMA NumberedText ==
    ASSUME NEW j \in Jobs, NEW n \in Nat
    PROVE  /\ Numbered(j, n) \in Seq(Event) /\ Len(Numbered(j, n)) = n
           /\ Append(Numbered(j, n), E!Token(j, n + 1)) = Numbered(j, n + 1)
           /\ Numbered(j, 0) = <<>>
<1> DEFINE s(k) == [i \in 1 .. k |-> E!Token(j, i)]
<1>1. ASSUME NEW k \in Nat
      PROVE  s(k) \in Seq(Event) /\ Len(s(k)) = k /\ \A i \in 1 .. k : s(k)[i] = E!Token(j, i)
  <2>1. \A i \in 1 .. k : E!Token(j, i) \in Event
    BY EventTypes
  <2>2. s(k) \in [1 .. k -> Event]
    BY <2>1
  <2> QED
    BY <2>2
<1>2. PICK x \in Event : x = E!Token(j, n + 1)
  BY EventTypes
<1>3. PICK a \in Seq(Event) : a = s(n) /\ Len(a) = n
  BY <1>1
<1>4. PICK b \in Seq(Event) : b = s(n + 1) /\ Len(b) = n + 1
  <2>1. n + 1 \in Nat
    OBVIOUS
  <2> HIDE DEF s
  <2> QED
    BY <1>1, <2>1
<1>5. /\ Append(a, x) \in Seq(Event) /\ Len(Append(a, x)) = n + 1
      /\ \A i \in 1 .. n : Append(a, x)[i] = a[i]
      /\ Append(a, x)[n + 1] = x
  BY <1>3, AppendProperties
<1>6. \A i \in 1 .. n + 1 : Append(a, x)[i] = b[i]
  <2>1. \A i \in 1 .. n + 1 : i \in 1 .. n \/ i = n + 1
    OBVIOUS
  <2> QED
    BY <1>1, <1>2, <1>3, <1>4, <1>5, <2>1
<1>7. Append(a, x) = b
  BY <1>4, <1>5, <1>6, SeqEqual
<1>8. s(0) = <<>>
  <2>1. s(0) \in Seq(Event) /\ Len(s(0)) = 0
    BY <1>1
  <2> HIDE DEF s
  <2> QED
    BY <2>1, EmptySeq
<1> QED
  BY <1>1, <1>2, <1>3, <1>4, <1>7, <1>8 DEF Numbered

LEMMA ChunkFrames ==
    ASSUME NEW j \in Jobs, NEW n \in Nat
    PROVE  /\ Chunks(j, n) \in Seq(Frame) /\ Len(Chunks(j, n)) = n
           /\ \A i \in 1 .. n : Chunks(j, n)[i] = Chunk(E!Token(j, i))
           /\ Chunks(j, n) \o << Chunk(E!Token(j, n + 1)) >> = Chunks(j, n + 1)
           /\ Chunks(j, 0) = <<>>
<1> DEFINE s(k) == [i \in 1 .. k |-> Chunk(E!Token(j, i))]
<1>1. ASSUME NEW k \in Nat
      PROVE  /\ s(k) \in Seq(Frame) /\ Len(s(k)) = k
             /\ \A i \in 1 .. k : s(k)[i] = Chunk(E!Token(j, i))
  <2>1. \A i \in 1 .. k : Chunk(E!Token(j, i)) \in Frame
    BY FrameTypes
  <2>2. s(k) \in [1 .. k -> Frame]
    BY <2>1
  <2> QED
    BY <2>2
<1>2. PICK x \in Frame : x = Chunk(E!Token(j, n + 1))
  BY FrameTypes
<1>3. PICK a \in Seq(Frame) : a = s(n) /\ Len(a) = n
  BY <1>1
<1>4. PICK b \in Seq(Frame) : b = s(n + 1) /\ Len(b) = n + 1
  <2>1. n + 1 \in Nat
    OBVIOUS
  <2> HIDE DEF s
  <2> QED
    BY <1>1, <2>1
<1>5. PICK c \in Seq(Frame) : c = << x >> /\ Len(c) = 1 /\ c[1] = x
  BY OneFrame
<1>6. /\ a \o c \in Seq(Frame) /\ Len(a \o c) = n + 1
      /\ \A i \in 1 .. n + 1 : (a \o c)[i] = IF i <= n THEN a[i] ELSE c[i - n]
  BY <1>3, <1>5, ConcatProperties
<1>7. \A i \in 1 .. n + 1 : (a \o c)[i] = b[i]
  <2>1. \A i \in 1 .. n + 1 : (i \in 1 .. n /\ i <= n) \/ (i = n + 1 /\ i - n = 1 /\ ~(i <= n))
    OBVIOUS
  <2>2. \A i \in 1 .. n : (a \o c)[i] = Chunk(E!Token(j, i))
    BY <1>1, <1>3, <1>6, <2>1
  <2>3. (a \o c)[n + 1] = Chunk(E!Token(j, n + 1))
    BY <1>2, <1>5, <1>6, <2>1
  <2> QED
    BY <1>1, <1>4, <2>1, <2>2, <2>3
<1>8. a \o c = b
  BY <1>4, <1>6, <1>7, SeqEqual
<1>9. s(0) = <<>>
  <2>1. s(0) \in Seq(Frame) /\ Len(s(0)) = 0
    BY <1>1
  <2> HIDE DEF s
  <2> QED
    BY <2>1, EmptySeq
<1> QED
  BY <1>1, <1>2, <1>3, <1>4, <1>5, <1>8, <1>9 DEF Chunks

LEMMA Associative == \A s, t, u \in Seq(Frame) : (s \o t) \o u = s \o (t \o u)
  OBVIOUS

\* Writing the next frame moves it from what is to be written to the lane.
LEMMA MoveFrame ==
    ASSUME NEW s \in Seq(Frame), NEW t \in Seq(Frame), t # <<>>
    PROVE  /\ Append(s, Head(t)) \in Seq(Frame) /\ Tail(t) \in Seq(Frame)
           /\ Append(s, Head(t)) \o Tail(t) = s \o t
           /\ Len(t) = 1 => Tail(t) = <<>>
           /\ Len(t) > 1 => Tail(t) # <<>>
<1>1. PICK h \in Frame : h = Head(t)
  BY HeadTailProperties
<1>2. PICK n \in Nat : n = Len(t) /\ n # 0
  BY EmptySeq
<1>3. PICK u \in Seq(Frame) :
         /\ u = Tail(t) /\ Len(u) = n - 1 /\ \A i \in 1 .. n - 1 : u[i] = t[i + 1]
  <2>1. /\ Tail(t) \in Seq(Frame) /\ Len(Tail(t)) = Len(t) - 1
        /\ \A i \in 1 .. Len(Tail(t)) : Tail(t)[i] = t[i + 1]
    BY HeadTailProperties
  <2>2. PICK u \in Seq(Frame) : u = Tail(t)
    BY <2>1
  <2>3. Len(u) = n - 1 /\ \A i \in 1 .. Len(u) : u[i] = t[i + 1]
    BY <1>2, <2>1, <2>2
  <2> QED
    BY <2>2, <2>3
<1>4. PICK c \in Seq(Frame) : c = << h >> /\ Len(c) = 1 /\ c[1] = h
  BY OneFrame
<1>5. h = t[1]
  BY <1>1
<1>6. /\ c \o u \in Seq(Frame) /\ Len(c \o u) = 1 + (n - 1)
      /\ \A i \in 1 .. 1 + (n - 1) : (c \o u)[i] = IF i <= 1 THEN c[i] ELSE u[i - 1]
  BY <1>3, <1>4, ConcatProperties
<1>7. c \o u = t
  <2>1. \A i \in 1 .. n : i \in 1 .. 1 + (n - 1) /\
           ((i = 1 /\ i <= 1) \/ (~(i <= 1) /\ i - 1 \in 1 .. n - 1 /\ (i - 1) + 1 = i))
    BY <1>2
  <2>2. \A i \in 1 .. n : (c \o u)[i] = t[i]
    BY <1>3, <1>4, <1>5, <1>6, <2>1
  <2>3. Len(c \o u) = n
    BY <1>2, <1>6
  <2> QED
    BY <1>2, <1>6, <2>2, <2>3, SeqEqual
<1>8. Append(s, h) = s \o c /\ Append(s, h) \in Seq(Frame)
  BY <1>4, AppendIsConcat, AppendProperties
<1>9. (s \o c) \o u = s \o (c \o u)
  BY Associative
<1>10. /\ n = 1 => u = <<>>
       /\ n > 1 => u # <<>>
  <2>1. n - 1 # 0 => u # <<>>
    <3>1. Len(u) = n - 1
      BY <1>3
    <3> QED
      BY <3>1, EmptySeq
  <2>2. n - 1 = 0 => u = <<>>
    <3>1. Len(u) = n - 1
      BY <1>3
    <3> QED
      BY <3>1, EmptySeq
  <2>3. (n = 1 => n - 1 = 0) /\ (n > 1 => n - 1 # 0)
    OBVIOUS
  <2> QED
    BY <2>1, <2>2, <2>3
<1> QED
  BY <1>1, <1>2, <1>3, <1>7, <1>8, <1>9, <1>10

LEMMA PrefixOfConcat ==
    ASSUME NEW s \in Seq(Frame), NEW t \in Seq(Frame)
    PROVE  IsPrefix(s, s \o t) /\ Len(s) <= Len(s \o t)
<1>1. PICK n \in Nat : n = Len(s)
  BY LenProperties
<1>2. PICK m \in Nat : m = Len(t)
  BY LenProperties
<1>3. PICK a \in Seq(Frame) : a = s \o t /\ Len(a) = n + m /\ \A i \in 1 .. n : a[i] = s[i]
  <2>1. \A i \in 1 .. n : i \in 1 .. n + m /\ i <= n
    BY <1>2
  <2>2. s \o t \in Seq(Frame) /\ Len(s \o t) = n + m
    BY <1>1, <1>2, ConcatProperties
  <2>3. ASSUME NEW i \in 1 .. n PROVE (s \o t)[i] = s[i]
    <3>1. \A k \in 1 .. Len(s) + Len(t) :
             (s \o t)[k] = IF k <= Len(s) THEN s[k] ELSE t[k - Len(s)]
      BY ConcatProperties
    <3> QED
      BY <1>1, <1>2, <2>1, <3>1
  <2> QED
    BY <2>2, <2>3
<1>4. \A i \in 1 .. n : i \in 1 .. n + m
  BY <1>2
<1>5. \A i \in 1 .. n : s[i] \in Frame /\ a[i] \in Frame
  BY <1>1, <1>3, <1>4, ElementOfSeq
<1>6. SubSeq(s, 1, n) = s
  BY <1>1, SubSeqFull
<1>7. /\ SubSeq(a, 1, n) \in Seq(Frame)
      /\ Len(SubSeq(a, 1, n)) = IF 1 <= n THEN n - 1 + 1 ELSE 0
      /\ \A i \in 1 .. n - 1 + 1 : SubSeq(a, 1, n)[i] = a[1 + i - 1]
  BY <1>1, <1>5, SubSeqProperties
<1>8. SubSeq(a, 1, n) = s
  <2>1. PICK b \in Seq(Frame) : b = SubSeq(a, 1, n)
    BY <1>7
  <2>2. Len(b) = n
    BY <1>7, <2>1
  <2>3. \A i \in 1 .. n : b[i] = s[i]
    <3>1. \A i \in 1 .. n : i \in 1 .. n - 1 + 1 /\ 1 + i - 1 = i
      OBVIOUS
    <3> QED
      BY <1>3, <1>7, <2>1, <3>1
  <2> QED
    BY <1>1, <2>1, <2>2, <2>3, SeqEqual
<1>9. n <= n + m
  BY <1>1, <1>2
<1> QED
  BY <1>1, <1>3, <1>6, <1>8, <1>9 DEF IsPrefix

LEMMA FrameKinds ==
    /\ Head200.kind = "head" /\ Open.kind = "open" /\ Error.kind = "error" /\ End.kind = "end"
    /\ \A s : [kind |-> "head", status |-> s].kind = "head"
    /\ \A e : Chunk(e).kind = "chunk"
    /\ \A j, n : Close(E!Done(j, n)).kind = "close" /\ Close(E!Done(j, n)).n = n
    /\ \A j, n, t : /\ [kind |-> "whole", of |-> j, n |-> n, text |-> t].kind = "whole"
                    /\ [kind |-> "whole", of |-> j, n |-> n, text |-> t].n = n
                    /\ [kind |-> "whole", of |-> j, n |-> n, text |-> t].text = t
  BY DEF Head200, Open, Error, End, Chunk, Close, E!Done

\* What a stream has said so far, and with two more frames.
LEMMA StreamShape ==
    ASSUME NEW j \in Jobs, NEW n \in Nat, NEW x \in Frame
    PROVE  LET b == << Head200, Open >> \o Chunks(j, n)
               a == b \o << x, End >>
           IN  /\ b \in Seq(Frame) /\ a \in Seq(Frame) /\ Len(a) = n + 4
               /\ a[1] = Head200 /\ a[2] = Open
               /\ \A i \in 3 .. n + 2 : a[i] = Chunk(E!Token(j, i - 2))
               /\ a[n + 3] = x /\ a[n + 4] = End
<1>a. PICK p \in Frame, o \in Frame, e \in Frame : p = Head200 /\ o = Open /\ e = End
  BY FrameTypes
<1>1. PICK h \in Seq(Frame) : h = << Head200, Open >> /\ Len(h) = 2 /\ h[1] = Head200 /\ h[2] = Open
  <2>1. << p, o >> \in Seq(Frame) /\ Len(<< p, o >>) = 2 /\ << p, o >>[1] = p /\ << p, o >>[2] = o
    OBVIOUS
  <2> QED
    BY <1>a, <2>1
<1>2. PICK c \in Seq(Frame) :
         c = Chunks(j, n) /\ Len(c) = n /\ \A i \in 1 .. n : c[i] = Chunk(E!Token(j, i))
  BY ChunkFrames
<1>3. PICK t \in Seq(Frame) : t = << x, End >> /\ Len(t) = 2 /\ t[1] = x /\ t[2] = End
  <2>1. << x, e >> \in Seq(Frame) /\ Len(<< x, e >>) = 2 /\ << x, e >>[1] = x /\ << x, e >>[2] = e
    OBVIOUS
  <2> QED
    BY <1>a, <2>1
<1>4. PICK b \in Seq(Frame) :
         /\ b = h \o c /\ Len(b) = n + 2
         /\ \A i \in 1 .. n + 2 : b[i] = IF i <= 2 THEN h[i] ELSE c[i - 2]
  <2>1. /\ h \o c \in Seq(Frame) /\ Len(h \o c) = 2 + n
        /\ \A i \in 1 .. 2 + n : (h \o c)[i] = IF i <= 2 THEN h[i] ELSE c[i - 2]
    <3>1. Len(h) = 2 /\ Len(c) = n
      BY <1>1, <1>2
    <3>2. /\ h \o c \in Seq(Frame) /\ Len(h \o c) = Len(h) + Len(c)
          /\ \A i \in 1 .. Len(h) + Len(c) :
                (h \o c)[i] = IF i <= Len(h) THEN h[i] ELSE c[i - Len(h)]
      BY ConcatProperties
    <3> QED
      BY <3>1, <3>2
  <2>2. 2 + n = n + 2
    OBVIOUS
  <2> QED
    BY <2>1, <2>2
<1>5. PICK a \in Seq(Frame) :
         /\ a = b \o t /\ Len(a) = n + 4
         /\ \A i \in 1 .. n + 4 : a[i] = IF i <= n + 2 THEN b[i] ELSE t[i - (n + 2)]
  <2>1. /\ b \o t \in Seq(Frame) /\ Len(b \o t) = (n + 2) + 2
        /\ \A i \in 1 .. (n + 2) + 2 : (b \o t)[i] = IF i <= n + 2 THEN b[i] ELSE t[i - (n + 2)]
    BY <1>3, <1>4, ConcatProperties
  <2>2. (n + 2) + 2 = n + 4
    OBVIOUS
  <2> QED
    BY <2>1, <2>2
<1>6. a[1] = Head200 /\ a[2] = Open
  BY <1>1, <1>4, <1>5
<1>7. \A i \in 3 .. n + 2 : a[i] = Chunk(E!Token(j, i - 2))
  <2>1. \A i \in 3 .. n + 2 : /\ i \in 1 .. n + 4 /\ i \in 1 .. n + 2 /\ i <= n + 2 /\ ~(i <= 2)
                              /\ i - 2 \in 1 .. n
    OBVIOUS
  <2> QED
    BY <1>2, <1>4, <1>5, <2>1
<1>8. a[n + 3] = x /\ a[n + 4] = End
  <2>1. /\ n + 3 \in 1 .. n + 4 /\ ~(n + 3 <= n + 2) /\ (n + 3) - (n + 2) = 1
        /\ n + 4 \in 1 .. n + 4 /\ ~(n + 4 <= n + 2) /\ (n + 4) - (n + 2) = 2
    OBVIOUS
  <2> QED
    BY <1>3, <1>5, <2>1
<1> QED
  BY <1>1, <1>2, <1>3, <1>4, <1>5, <1>6, <1>7, <1>8

LEMMA StreamsCount ==
    ASSUME NEW j \in Jobs, NEW n \in Nat, NEW x \in Frame,
           x.kind = "close" => x.n \in {n, n + 1}, x.kind # "whole"
    PROVE  LET a == (<< Head200, Open >> \o Chunks(j, n)) \o << x, End >>
           IN  Counted(a) /\ a # <<>> /\ a[Len(a)] = End
<1>1. PICK a \in Seq(Frame) :
         /\ a = (<< Head200, Open >> \o Chunks(j, n)) \o << x, End >> /\ Len(a) = n + 4
         /\ a[1] = Head200 /\ a[2] = Open
         /\ \A i \in 3 .. n + 2 : a[i] = Chunk(E!Token(j, i - 2))
         /\ a[n + 3] = x /\ a[n + 4] = End
  BY StreamShape
<1>2. DOMAIN a = 1 .. n + 4
  BY <1>1, LenProperties
<1>3. a # <<>>
  <2>1. n + 4 # 0
    OBVIOUS
  <2> QED
    BY <1>1, <2>1, EmptySeq
<1>4. ASSUME NEW i \in 1 .. n + 4
      PROVE  /\ a[i].kind = "close" => a[i].n \in {i - 3, i - 2}
             /\ a[i].kind # "whole"
  <2>1. CASE i = 1
    BY <1>1, <2>1, FrameKinds
  <2>2. CASE i = 2
    BY <1>1, <2>2, FrameKinds
  <2>3. CASE i \in 3 .. n + 2
    <3>1. a[i] = Chunk(E!Token(j, i - 2))
      BY <1>1, <2>3
    <3>2. a[i].kind = "chunk"
      BY <3>1, FrameKinds
    <3> QED
      BY <3>2
  <2>4. CASE i = n + 3
    <3>1. a[i] = x /\ {i - 3, i - 2} = {n, n + 1}
      BY <1>1, <2>4
    <3> QED
      BY <3>1
  <2>5. CASE i = n + 4
    BY <1>1, <2>5, FrameKinds
  <2> QED
    BY <2>1, <2>2, <2>3, <2>4, <2>5
<1>5. Counted(a)
  BY <1>2, <1>4 DEF Counted
<1> QED
  BY <1>1, <1>3, <1>5

\* A status line, a body and the end.
LEMMA JsonCounts ==
    ASSUME NEW s \in Nat, NEW b \in Frame, b.kind # "close",
           b.kind = "whole" => b.n \in {Len(b.text), Len(b.text) + 1}
    PROVE  /\ Json(s, b) \in Seq(Frame) /\ Len(Json(s, b)) = 3 /\ Json(s, b)[3] = End
           /\ Counted(Json(s, b)) /\ Json(s, b) # <<>>
<1>1. PICK h \in Frame : h = [kind |-> "head", status |-> s] /\ h.kind = "head"
  BY FrameTypes, FrameKinds
<1>2. PICK a \in Seq(Frame) :
         a = << h, b, End >> /\ Len(a) = 3 /\ a[1] = h /\ a[2] = b /\ a[3] = End
  <2>1. PICK e \in Frame : e = End
    BY FrameTypes
  <2>2. /\ << h, b, e >> \in Seq(Frame) /\ Len(<< h, b, e >>) = 3
        /\ << h, b, e >>[1] = h /\ << h, b, e >>[2] = b /\ << h, b, e >>[3] = e
    OBVIOUS
  <2> QED
    BY <2>1, <2>2
<1>3. DOMAIN a = {1, 2, 3}
  <2>1. DOMAIN a = 1 .. 3
    BY <1>2, LenProperties
  <2> QED
    BY <2>1
<1>4. Counted(a)
  BY <1>1, <1>2, <1>3, FrameKinds DEF Counted
<1>5. a = Json(s, b)
  BY <1>1, <1>2 DEF Json
<1>6. a # <<>>
  BY <1>2, EmptySeq
<1> QED
  BY <1>2, <1>4, <1>5, <1>6

LEMMA ErrorCounts ==
    ASSUME NEW s \in Nat
    PROVE  /\ Refusal(s) \in Seq(Frame) /\ Len(Refusal(s)) = 3 /\ Refusal(s)[3] = End
           /\ Counted(Refusal(s)) /\ Refusal(s) # <<>>
  BY JsonCounts, FrameTypes, FrameKinds DEF Refusal

\* The answer of the n tokens of a reply that says it had m.
LEMMA WholeCounts ==
    ASSUME NEW j \in Jobs, NEW n \in Nat, NEW m \in Nat, m \in {n, n + 1}
    PROVE  /\ WholeAnswer(j, n, m) \in Seq(Frame) /\ Len(WholeAnswer(j, n, m)) = 3
           /\ WholeAnswer(j, n, m)[3] = End
           /\ Counted(WholeAnswer(j, n, m)) /\ WholeAnswer(j, n, m) # <<>>
<1>1. PICK t \in Seq(Event) : t = Numbered(j, n) /\ Len(t) = n
  BY NumberedText
<1>2. PICK b \in Frame : b = [kind |-> "whole", of |-> j, n |-> m, text |-> t]
  BY FrameTypes
<1>3. b.kind = "whole" /\ b.n = m /\ b.text = t
  BY <1>2, FrameKinds
<1>4. WholeAnswer(j, n, m) = Json(200, b)
  BY <1>1, <1>2 DEF WholeAnswer
<1>5. 200 \in Nat
  OBVIOUS
<1>6. b.kind # "close" /\ b.n \in {Len(b.text), Len(b.text) + 1}
  BY <1>1, <1>3
<1> QED
  BY <1>4, <1>5, <1>6, JsonCounts

LEMMA AcceptedTaken == E!Accepted = Taken
  BY AcceptedJobs DEF Taken

\* The answers a job may be given.
LEMMA RefusedAnswer ==
    ASSUME NEW j \in Jobs, PlaceInv
    PROVE  /\ j \in refused => Refusal(503) \in Full(j)
           /\ j \notin Taken \cup refused => Refusal(400) \in Full(j)
<1>1. 503 \in Nat /\ 400 \in Nat
  OBVIOUS
<1>2. Counted(Refusal(503)) /\ Counted(Refusal(400))
  BY <1>1, ErrorCounts
<1>3. j \in refused => Answers(j) = {Refusal(503)}
  BY DEF Answers
<1>4. j \notin Taken \cup refused => Answers(j) = {Refusal(400)}
  BY AcceptedJobs DEF Answers, Taken
<1> QED
  BY <1>2, <1>3, <1>4 DEF Full

LEMMA TakenAnswer ==
    ASSUME NEW j \in Taken, j \in Jobs, PlaceInv
    PROVE  Answers(j) =
             IF j \in streams
             THEN {StreamAnswer(j, n, m) : n \in 0 .. MaxTokens, m \in 0 .. MaxTokens}
                     \cup {BrokenStream(j, n) : n \in 0 .. MaxTokens}
             ELSE {WholeAnswer(j, n, m) : n \in 0 .. MaxTokens, m \in 0 .. MaxTokens}
                     \cup { Refusal(500) }
<1>1. j \notin refused /\ j \in E!Accepted
  BY AcceptedJobs DEF PlaceInv, Taken
<1> QED
  BY <1>1 DEF Answers

LEMMA BufferedAnswer ==
    ASSUME NEW j \in Taken, j \in Jobs \ streams, PlaceInv
    PROVE  /\ Refusal(500) \in Full(j)
           /\ \A n, m \in 0 .. MaxTokens : m \in {n, n + 1} => WholeAnswer(j, n, m) \in Full(j)
<1>1. Refusal(500) \in Full(j)
  <2>1. 500 \in Nat
    OBVIOUS
  <2>2. Counted(Refusal(500))
    BY <2>1, ErrorCounts
  <2> QED
    BY <2>2, TakenAnswer DEF Full
<1>2. ASSUME NEW n \in 0 .. MaxTokens, NEW m \in 0 .. MaxTokens, m \in {n, n + 1}
      PROVE  WholeAnswer(j, n, m) \in Full(j)
  <2>1. n \in Nat /\ m \in Nat
    BY Bounds
  <2>2. Counted(WholeAnswer(j, n, m))
    BY <1>2, <2>1, WholeCounts
  <2> QED
    BY <2>2, TakenAnswer DEF Full
<1> QED
  BY <1>1, <1>2

LEMMA StreamedAnswer ==
    ASSUME NEW j \in Taken, j \in Jobs \cap streams, PlaceInv, NEW n \in 0 .. MaxTokens
    PROVE  /\ Beginning(j, n) \o << Error, End >> \in Full(j)
           /\ \A m \in 0 .. MaxTokens :
                 m \in {n, n + 1} => Beginning(j, n) \o ClosedAt(j, m) \in Full(j)
<1>1. n \in Nat /\ Beginning(j, n) = << Head200, Open >> \o Chunks(j, n)
  BY Bounds DEF Beginning
<1>2. Beginning(j, n) \o << Error, End >> \in Full(j)
  <2>1. Error \in Frame /\ Error.kind = "error"
    BY FrameTypes, FrameKinds
  <2>2. Counted((<< Head200, Open >> \o Chunks(j, n)) \o << Error, End >>)
    BY <1>1, <2>1, StreamsCount
  <2>3. (<< Head200, Open >> \o Chunks(j, n)) \o << Error, End >> = BrokenStream(j, n)
    BY DEF BrokenStream, Chunks
  <2>4. Counted(BrokenStream(j, n))
    BY <2>2, <2>3
  <2>5. Beginning(j, n) \o << Error, End >> = BrokenStream(j, n)
    BY <1>1, <2>3
  <2>6. BrokenStream(j, n) \in Full(j)
    BY <2>4, TakenAnswer DEF Full
  <2> QED
    BY <2>5, <2>6
<1>3. ASSUME NEW m \in 0 .. MaxTokens, m \in {n, n + 1}
      PROVE  Beginning(j, n) \o ClosedAt(j, m) \in Full(j)
  <2>1. /\ Close(E!Done(j, m)) \in Frame
        /\ Close(E!Done(j, m)).kind = "close" /\ Close(E!Done(j, m)).n = m
    BY Bounds, FrameTypes, FrameKinds
  <2>2. Counted((<< Head200, Open >> \o Chunks(j, n)) \o << Close(E!Done(j, m)), End >>)
    BY <1>1, <1>3, <2>1, StreamsCount
  <2>3. (<< Head200, Open >> \o Chunks(j, n)) \o << Close(E!Done(j, m)), End >>
          = StreamAnswer(j, n, m)
    BY DEF StreamAnswer, Chunks, ClosedAt
  <2>4. Counted(StreamAnswer(j, n, m))
    BY <2>2, <2>3
  <2>5. Beginning(j, n) \o ClosedAt(j, m) = StreamAnswer(j, n, m)
    BY <1>1, <2>3 DEF ClosedAt
  <2> QED
    BY <2>4, <2>5, TakenAnswer DEF Full
<1> QED
  BY <1>2, <1>3

\* Every answer ends, and has at most four frames besides its tokens.
LEMMA AnswerShape ==
    ASSUME NEW j \in Jobs, PlaceInv, NEW a \in Full(j)
    PROVE  /\ a \in Seq(Frame) /\ a # <<>>
           /\ Len(a) <= MaxTokens + 4 /\ a[Len(a)] = End
<1>1. ASSUME a \in Seq(Frame), Len(a) = 3, a[3] = End, a # <<>>
      PROVE  /\ a \in Seq(Frame) /\ a # <<>>
             /\ Len(a) <= MaxTokens + 4 /\ a[Len(a)] = End
  BY <1>1, Bounds
<1>2. ASSUME NEW s \in Nat, a = Refusal(s)
      PROVE  /\ a \in Seq(Frame) /\ a # <<>>
             /\ Len(a) <= MaxTokens + 4 /\ a[Len(a)] = End
  BY <1>1, <1>2, ErrorCounts
<1>3. CASE j \notin Taken
  <2>1. 503 \in Nat /\ 400 \in Nat
    OBVIOUS
  <2>2. a = Refusal(503) \/ a = Refusal(400)
    BY <1>3, AcceptedJobs DEF Full, Answers, Taken
  <2> QED
    BY <1>2, <2>1, <2>2
<1>4. ASSUME NEW n \in 0 .. MaxTokens, NEW x \in Frame,
             a = (<< Head200, Open >> \o Chunks(j, n)) \o << x, End >>
      PROVE  /\ a \in Seq(Frame) /\ a # <<>>
             /\ Len(a) <= MaxTokens + 4 /\ a[Len(a)] = End
  <2>1. n \in Nat /\ n <= MaxTokens
    BY Bounds
  <2>2. PICK b \in Seq(Frame) : /\ b = (<< Head200, Open >> \o Chunks(j, n)) \o << x, End >>
                                /\ Len(b) = n + 4 /\ b[n + 4] = End
    BY <2>1, StreamShape
  <2>3. a = b
    BY <1>4, <2>2
  <2>4. n + 4 # 0 /\ n + 4 <= MaxTokens + 4
    BY <2>1, Bounds
  <2>5. b # <<>>
    BY <2>2, <2>4, EmptySeq
  <2>6. Len(b) <= MaxTokens + 4 /\ b[Len(b)] = End
    BY <2>2, <2>4
  <2> QED
    BY <2>3, <2>5, <2>6
<1>5. CASE j \in Taken \cap streams
  <2>1. \/ \E n \in 0 .. MaxTokens, m \in 0 .. MaxTokens : a = StreamAnswer(j, n, m)
        \/ \E n \in 0 .. MaxTokens : a = BrokenStream(j, n)
    BY <1>5, TakenAnswer DEF Full
  <2>2. ASSUME NEW n \in 0 .. MaxTokens, NEW m \in 0 .. MaxTokens, a = StreamAnswer(j, n, m)
        PROVE  /\ a \in Seq(Frame) /\ a # <<>>
               /\ Len(a) <= MaxTokens + 4 /\ a[Len(a)] = End
    <3>1. PICK x \in Frame : x = Close(E!Done(j, m))
      BY Bounds, FrameTypes
    <3>2. a = (<< Head200, Open >> \o Chunks(j, n)) \o << x, End >>
      BY <2>2, <3>1 DEF StreamAnswer, Chunks, ClosedAt
    <3> QED
      BY <1>4, <3>2
  <2>3. ASSUME NEW n \in 0 .. MaxTokens, a = BrokenStream(j, n)
        PROVE  /\ a \in Seq(Frame) /\ a # <<>>
               /\ Len(a) <= MaxTokens + 4 /\ a[Len(a)] = End
    <3>1. PICK x \in Frame : x = Error
      BY FrameTypes
    <3>2. a = (<< Head200, Open >> \o Chunks(j, n)) \o << x, End >>
      BY <2>3, <3>1 DEF BrokenStream, Chunks
    <3> QED
      BY <1>4, <3>2
  <2> QED
    BY <2>1, <2>2, <2>3
<1>6. CASE j \in Taken \ streams
  <2>1. \/ \E n \in 0 .. MaxTokens, m \in 0 .. MaxTokens : a = WholeAnswer(j, n, m)
        \/ a = Refusal(500)
    BY <1>6, TakenAnswer DEF Full
  <2>2. ASSUME NEW n \in 0 .. MaxTokens, NEW m \in 0 .. MaxTokens, a = WholeAnswer(j, n, m)
        PROVE  /\ a \in Seq(Frame) /\ a # <<>>
               /\ Len(a) <= MaxTokens + 4 /\ a[Len(a)] = End
    <3>1. PICK t \in Seq(Event) : t = Numbered(j, n)
      BY Bounds, NumberedText
    <3>a. m \in Nat
      BY Bounds
    <3>2. PICK b \in Frame : b = [kind |-> "whole", of |-> j, n |-> m, text |-> t]
      BY <3>a, FrameTypes
    <3>3. a = Json(200, b) /\ 200 \in Nat
      BY <2>2, <3>1, <3>2 DEF WholeAnswer
    <3>4. b.kind = "whole" /\ b.n = m /\ b.text = t /\ Len(t) = n
      BY <3>1, <3>2, Bounds, FrameKinds, NumberedText
    <3>5. Counted(a)
      BY DEF Full
    <3>6. m \in {n, n + 1}
      BY <3>3, <3>4, <3>5 DEF Counted, Json
    <3> QED
      BY <1>1, <3>3, <3>4, <3>6, JsonCounts
  <2>3. 500 \in Nat
    OBVIOUS
  <2> QED
    BY <1>2, <2>1, <2>2, <2>3
<1> QED
  BY <1>3, <1>5, <1>6

LEMMA SameAnswers ==
    ASSUME NEW j \in Jobs, streams' = streams,
           j \in refused' <=> j \in refused, j \in Taken' <=> j \in Taken
    PROVE  Full(j)' = Full(j)
<1>1. j \in E!Accepted' <=> j \in E!Accepted
  <2>1. (E!Accepted = Taken)'
    BY AcceptedTaken, PTL
  <2> QED
    BY <2>1, AcceptedTaken
<1> QED
  BY <1>1 DEF Full, Answers

(***************************************************************************)
(* The calls of one job, as the others see them.                           *)
(***************************************************************************)
KeptFor(j) ==
    /\ j \in refused' <=> j \in refused
    /\ j \in gone' <=> j \in gone
    /\ j \in Taken' <=> j \in Taken
    /\ j \in settled => j \in settled'
    /\ Len(reply[j]) <= Len(reply'[j])
    /\ \A i \in 1 .. Len(reply[j]) : reply'[j][i] = reply[j][i]

LEMMA KeptForAll == Kept => \A j \in Jobs : KeptFor(j)
  BY DEF Kept, KeptFor, Taken

LEMMA IdleKeeps ==
    ASSUME EngineInv, UNCHANGED engineVars
    PROVE  EngineInv' /\ \A j \in Jobs : KeptFor(j)
<1>1. UNCHANGED <<waiting, serving, settled, refused, gone, reply, owed>>
  BY DEF engineVars
<1>2. PlaceInv' /\ Taken' = Taken
  BY <1>1 DEF EngineInv, PlaceInv, Queued, Taken
<1>3. \A j \in Jobs \ gone : ReplyInv(j)'
  BY <1>1, ReplyFrame DEF EngineInv
<1>4. \A j \in Jobs : KeptFor(j)
  BY <1>1, <1>2, LenReply DEF KeptFor
<1> QED
  BY <1>1, <1>2, <1>3, <1>4 DEF EngineInv

LEMMA SubmitKeeps ==
    ASSUME EngineInv, NEW k \in Jobs, E!Submit(k)
    PROVE  /\ EngineInv' /\ \A j \in Jobs \ {k} : KeptFor(j)
           /\ k \notin Taken \cup refused /\ k \in Taken' /\ gone' = gone
<1>1. /\ k \notin Taken \cup refused /\ waiting' = Append(waiting, k)
      /\ UNCHANGED <<serving, settled, refused, gone, reply, owed>>
  BY AcceptedTaken DEF E!Submit
<1>2. /\ waiting' \in Seq(Jobs) /\ Queued' = Queued \cup {k}
      /\ \A i, l \in DOMAIN waiting' : waiting'[i] = waiting'[l] => i = l
  BY <1>1, AppendQueue DEF EngineInv, Taken
<1>3. PlaceInv'
  BY <1>1, <1>2 DEF EngineInv, PlaceInv, Taken
<1>4. \A j \in Jobs \ gone : ReplyInv(j)'
  BY <1>1, ReplyFrame DEF EngineInv
<1>5. Taken' = Taken \cup {k}
  BY <1>1, <1>2 DEF Taken
<1>6. \A j \in Jobs \ {k} : KeptFor(j)
  BY <1>1, <1>5, LenReply DEF KeptFor
<1> QED
  BY <1>1, <1>3, <1>4, <1>5, <1>6 DEF EngineInv

LEMMA RefuseKeeps ==
    ASSUME EngineInv, NEW k \in Jobs, E!Refuse(k)
    PROVE  /\ EngineInv' /\ \A j \in Jobs \ {k} : KeptFor(j)
           /\ k \notin Taken' /\ k \in refused' /\ gone' = gone
<1>1. /\ k \notin Taken \cup refused /\ refused' = refused \cup {k}
      /\ UNCHANGED <<waiting, serving, settled, gone, reply, owed>>
  BY AcceptedTaken DEF E!Refuse
<1>2. PlaceInv' /\ Taken' = Taken
  BY <1>1 DEF EngineInv, PlaceInv, Queued, Taken
<1>3. \A j \in Jobs \ gone : ReplyInv(j)'
  BY <1>1, ReplyFrame DEF EngineInv
<1>4. \A j \in Jobs \ {k} : KeptFor(j)
  BY <1>1, <1>2, LenReply DEF KeptFor
<1> QED
  BY <1>1, <1>2, <1>3, <1>4 DEF EngineInv

LEMMA LetGoKeeps ==
    ASSUME EngineInv, NEW k \in Jobs, LetGo(k)
    PROVE  /\ EngineInv' /\ \A j \in Jobs \ {k} : KeptFor(j)
           /\ Taken' = Taken /\ refused' = refused /\ settled' = settled
           /\ k \in Taken' => k \in gone'
<1>1. CASE k \notin Taken
  <2>1. UNCHANGED engineVars
    BY <1>1, AcceptedTaken DEF LetGo
  <2>2. EngineInv' /\ \A j \in Jobs : KeptFor(j)
    BY <2>1, IdleKeeps
  <2>3. UNCHANGED <<waiting, serving, settled, refused>>
    BY <2>1 DEF engineVars
  <2> QED
    BY <1>1, <2>2, <2>3 DEF Taken, Queued
<1>2. CASE k \in Taken
  <2>1. /\ gone' = gone \cup {k}
        /\ reply' = [reply EXCEPT ![k] = <<>>] /\ owed' = [owed EXCEPT ![k] = {}]
        /\ UNCHANGED <<waiting, serving, settled, refused>>
    BY <1>2, AcceptedTaken DEF LetGo, E!Drop
  <2>2. PlaceInv' /\ Taken' = Taken
    BY <2>1 DEF EngineInv, PlaceInv, Queued, Taken
  <2>3. \A j \in Jobs \ {k} : reply'[j] = reply[j] /\ owed'[j] = owed[j]
    BY <2>1 DEF EngineInv
  <2>4. reply' \in [Jobs -> Seq(Event)] /\ owed' \in [Jobs -> SUBSET Event]
    <3>1. <<>> \in Seq(Event)
      OBVIOUS
    <3> QED
      BY <2>1, <3>1 DEF EngineInv
  <2>5. ASSUME NEW j \in Jobs \ gone' PROVE ReplyInv(j)'
    <3>1. j # k /\ j \in Jobs \ gone
      BY <2>1
    <3> QED
      BY <2>1, <2>3, <3>1, ReplyFrame DEF EngineInv
  <2>6. \A j \in Jobs \ {k} : KeptFor(j)
    BY <2>1, <2>2, <2>3, LenReply DEF KeptFor
  <2> QED
    BY <2>1, <2>2, <2>4, <2>5, <2>6 DEF EngineInv
<1> QED
  BY <1>1, <1>2

(***************************************************************************)
(* The next event of a reply of which r tokens have been received.         *)
(***************************************************************************)
LEMMA NextEvent ==
    ASSUME EngineInv, NEW j \in Jobs \ gone, NEW r \in Nat, r <= MaxTokens,
           Tokens(j, r), r < Len(reply[j])
    PROVE  \/ reply[j][r + 1] = E!Token(j, r + 1) /\ r + 1 <= MaxTokens
           \/ j \in settled /\ reply[j][r + 1] = E!Failed(j)
           \/ /\ j \in settled
              /\ \E m \in {r, r + 1} : m <= MaxTokens /\ reply[j][r + 1] = E!Done(j, m)
<1>1. PICK m \in Nat :
         /\ m <= MaxTokens /\ Tokens(j, m)
         /\ IF j \in settled THEN \E e : EndedAt(j, m, e) \/ EndedLate(j, m, e)
                             ELSE Speaking(j, m)
  BY DEF EngineInv, ReplyInv
<1>2. CASE r < m
  <2>1. r + 1 \in 1 .. m /\ r + 1 <= MaxTokens
    BY <1>1, <1>2, Bounds
  <2> QED
    BY <1>1, <2>1 DEF Tokens
<1>3. CASE m <= r
  <2>1. j \in settled
    BY <1>1, <1>3 DEF Speaking
  <2>2. PICK e : EndedAt(j, m, e) \/ EndedLate(j, m, e)
    BY <1>1, <2>1
  <2>3. CASE EndedAt(j, m, e)
    <3>1. Len(reply[j]) = m + 1 /\ reply[j][m + 1] = e /\ e \in {E!Failed(j), E!Done(j, m)}
      BY <1>3, <2>3 DEF EndedAt
    <3>2. r = m
      BY <1>3, <3>1
    <3> QED
      BY <1>1, <2>1, <3>1, <3>2
  <2>4. CASE EndedLate(j, m, e)
    <3>1. /\ m < MaxTokens /\ e = E!Done(j, m + 1)
          /\ Len(reply[j]) \in {m + 1, m + 2} /\ reply[j][m + 1] = e
      BY <1>3, <2>4 DEF EndedLate
    <3>2. m + 1 \in Nat /\ m + 1 <= MaxTokens
      BY <3>1, Bounds
    <3>3. r = m
      <4>1. ~(m + 1 <= r)
        <5>1. ASSUME m + 1 <= r PROVE FALSE
          <6>1. m + 1 \in 1 .. r
            BY <5>1
          <6>2. reply[j][m + 1] = E!Token(j, m + 1)
            BY <6>1 DEF Tokens
          <6>3. e.kind = "done" /\ e.kind = "token"
            BY <3>1, <3>2, <6>2, EventTypes
          <6> QED
            BY <6>3
        <5> QED
          BY <5>1
      <4> QED
        BY <1>3, <4>1
    <3> QED
      BY <2>1, <3>1, <3>2, <3>3
  <2> QED
    BY <2>2, <2>3, <2>4
<1> QED
  BY <1>2, <1>3

\* A reply is heard out only when it has been ended.
LEMMA HeardOut ==
    ASSUME EngineInv, NEW j \in Jobs \ gone, NEW r \in Nat, Tokens(j, r),
           r = Len(reply[j]), j \in settled
    PROVE  owed[j] # {}
<1>1. PICK m \in Nat :
         /\ m <= MaxTokens /\ Tokens(j, m)
         /\ \E e : EndedAt(j, m, e) \/ EndedLate(j, m, e)
  BY DEF EngineInv, ReplyInv
<1>2. PICK e : EndedAt(j, m, e) \/ EndedLate(j, m, e)
  BY <1>1
<1>3. ASSUME owed[j] = {} PROVE FALSE
  <2>1. reply[j][m + 1] = e /\ m + 1 <= r /\ e.kind # "token"
    <3>1. CASE EndedAt(j, m, e)
      BY <1>3, <3>1, EventTypes DEF EndedAt
    <3>2. CASE EndedLate(j, m, e)
      <4>1. reply[j][m + 1] = e /\ Len(reply[j]) = m + 2 /\ e = E!Done(j, m + 1)
        BY <1>3, <3>2 DEF EndedLate
      <4> QED
        BY <4>1, EventTypes
    <3> QED
      BY <1>2, <3>1, <3>2
  <2>2. m + 1 \in 1 .. r
    BY <2>1
  <2>3. reply[j][m + 1] = E!Token(j, m + 1)
    BY <2>2 DEF Tokens
  <2> QED
    BY <2>1, <2>3, EventTypes
<1> QED
  BY <1>3

(***************************************************************************)
(* What the others do to a job.                                            *)
(***************************************************************************)
SameJob(j) ==
    /\ streams' = streams /\ (j \in closed' <=> j \in closed)
    /\ stage'[j] = stage[j] /\ read'[j] = read[j] /\ seen'[j] = seen[j] /\ text'[j] = text[j]
    /\ todo'[j] = todo[j] /\ final'[j] = final[j] /\ lane'[j] = lane[j]

LEMMA OthersKeep ==
    ASSUME EngineInv, EngineInv', Types, NEW j \in Jobs, JobInv(j), KeptFor(j), SameJob(j)
    PROVE  JobInv(j)'
<1>1. Full(j)' = Full(j)
  BY SameAnswers DEF KeptFor, SameJob
<1>2. Tokens(j, read[j]) => Tokens(j, read[j])'
  <2>1. read[j] \in Nat /\ read'[j] = read[j]
    BY Bounds DEF Types, SameJob
  <2>2. PICK r \in Nat : r = read[j] /\ r = read'[j]
    BY <2>1
  <2>3. ASSUME Tokens(j, r) PROVE Tokens(j, r)'
    <3>1. Len(reply[j]) \in Nat /\ Len(reply'[j]) \in Nat
      BY LenProperties DEF EngineInv
    <3>2. r <= Len(reply'[j]) /\ \A i \in 1 .. r : i \in 1 .. Len(reply[j])
      BY <2>3, <3>1 DEF Tokens, KeptFor
    <3> QED
      BY <2>3, <3>2 DEF Tokens, KeptFor
  <2> QED
    BY <2>2, <2>3
<1>3. Beginning(j, read[j])' = Beginning(j, read[j])
  BY DEF SameJob, Beginning, Chunks
<1>4. Untried(j)'
  BY DEF JobInv, Untried, KeptFor, SameJob
<1>5. Passing(j)'
  BY <1>2, <1>3 DEF JobInv, Passing, KeptFor, SameJob
<1>6. Ending(j)'
  BY <1>1 DEF JobInv, Ending, KeptFor, SameJob
<1>7. Ended(j)'
  BY <1>1 DEF JobInv, Ended, KeptFor, SameJob
<1>8. Hung(j)'
  BY DEF JobInv, Hung, KeptFor, SameJob
<1> QED
  BY <1>4, <1>5, <1>6, <1>7, <1>8 DEF JobInv, SameJob

(***************************************************************************)
(* What a job does.                                                        *)
(***************************************************************************)
Served(j) ==
    /\ EngineInv' /\ Types' /\ JobInv(j)'
    /\ \A k \in Jobs \ {j} : KeptFor(k) /\ SameJob(k)

\* The engine is left alone.
LEMMA IdleJob ==
    ASSUME EngineInv, UNCHANGED engineVars, streams' = streams, NEW j \in Jobs
    PROVE  /\ EngineInv' /\ Full(j)' = Full(j) /\ \A k \in Jobs : KeptFor(k)
           /\ Taken' = Taken /\ refused' = refused /\ settled' = settled /\ gone' = gone
           /\ reply' = reply
<1>1. UNCHANGED <<waiting, serving, settled, refused, gone, reply>>
  BY DEF engineVars
<1>2. Taken' = Taken
  BY <1>1 DEF Taken, Queued
<1> QED
  BY <1>1, <1>2, IdleKeeps, SameAnswers

LEMMA EmptyFrames ==
    /\ <<>> \in Seq(Frame)
    /\ \A s \in Seq(Frame) : s \o <<>> = s /\ <<>> \o s = s
  OBVIOUS

LEMMA ClaimKeeps ==
    ASSUME WorkerInv, NEW j \in Jobs, Claim(j)
    PROVE  Served(j)
<1>1. /\ stage[j] = "parked" /\ stage' = [stage EXCEPT ![j] = "heading"]
      /\ UNCHANGED <<engineVars, streams, read, text, todo, final, closed, seen, lane>>
  BY DEF Claim, laneVars
<1>2. /\ EngineInv' /\ \A k \in Jobs : KeptFor(k)
      /\ Taken' = Taken /\ refused' = refused /\ gone' = gone
  BY <1>1, IdleJob DEF WorkerInv
<1>3. Types' /\ stage'[j] = "heading" /\ \A k \in Jobs \ {j} : stage'[k] = stage[k]
  BY <1>1 DEF WorkerInv, Types, Stages
<1>4. Untried(j)'
  BY <1>1, <1>2 DEF WorkerInv, JobInv, Untried
<1>5. Passing(j)' /\ Ending(j)' /\ Ended(j)'
  BY <1>3 DEF Passing, Ending, Ended
<1>6. Hung(j)'
  BY <1>1, <1>3 DEF WorkerInv, JobInv, Hung
<1>7. JobInv(j)'
  BY <1>1, <1>4, <1>5, <1>6 DEF WorkerInv, JobInv
<1> QED
  BY <1>1, <1>2, <1>3, <1>7 DEF Served, SameJob

LEMMA ReadHeadKeeps ==
    ASSUME WorkerInv, NEW j \in Jobs, ReadHead(j)
    PROVE  Served(j)
<1>1. /\ stage[j] = "heading" /\ stage' = [stage EXCEPT ![j] = "reading"]
      /\ UNCHANGED <<engineVars, streams, read, text, todo, final, closed, seen, lane>>
  BY DEF ReadHead, Goto, laneVars
<1>2. /\ EngineInv' /\ \A k \in Jobs : KeptFor(k)
      /\ Taken' = Taken /\ refused' = refused /\ gone' = gone
  BY <1>1, IdleJob DEF WorkerInv
<1>3. Types' /\ stage'[j] = "reading" /\ \A k \in Jobs \ {j} : stage'[k] = stage[k]
  BY <1>1 DEF WorkerInv, Types, Stages
<1>4. Untried(j)'
  BY <1>1, <1>2 DEF WorkerInv, JobInv, Untried
<1>5. Passing(j)' /\ Ending(j)' /\ Ended(j)'
  BY <1>3 DEF Passing, Ending, Ended
<1>6. Hung(j)'
  BY <1>1, <1>3 DEF WorkerInv, JobInv, Hung
<1>7. JobInv(j)'
  BY <1>1, <1>4, <1>5, <1>6 DEF WorkerInv, JobInv
<1> QED
  BY <1>1, <1>2, <1>3, <1>7 DEF Served, SameJob

LEMMA HangUpKeeps ==
    ASSUME WorkerInv, NEW j \in Jobs, HangUp(j)
    PROVE  Served(j)
<1>1. /\ j \in InHand \ closed /\ closed' = closed \cup {j}
      /\ seen' = [seen EXCEPT ![j] = read[j]]
      /\ UNCHANGED <<engineVars, streams, stage, read, text, todo, final, lane>>
  BY DEF HangUp, jobVars
<1>2. /\ EngineInv' /\ (\A k \in Jobs : KeptFor(k)) /\ Full(j)' = Full(j)
      /\ Taken' = Taken /\ refused' = refused /\ settled' = settled /\ gone' = gone
      /\ reply' = reply
  BY <1>1, IdleJob DEF WorkerInv
<1>3. /\ Types' /\ read[j] \in Nat /\ seen'[j] = read[j]
      /\ \A k \in Jobs \ {j} : seen'[k] = seen[k]
  BY <1>1, Bounds DEF WorkerInv, Types
<1>4. Untried(j)'
  BY <1>1, <1>2 DEF WorkerInv, JobInv, Untried
<1>5. Passing(j)'
  <2>1. Tokens(j, read[j])' <=> Tokens(j, read[j])
    BY <1>1, <1>2 DEF Tokens
  <2>2. Beginning(j, read[j])' = Beginning(j, read[j])
    BY <1>1 DEF Beginning, Chunks
  <2> QED
    BY <1>1, <1>2, <2>1, <2>2 DEF WorkerInv, JobInv, Passing
<1>6. Ending(j)'
  BY <1>1, <1>2 DEF WorkerInv, JobInv, Ending
<1>7. Ended(j)'
  BY <1>1 DEF Ended, InHand
<1>8. Hung(j)'
  BY <1>1, <1>3 DEF Hung
<1>9. JobInv(j)'
  BY <1>1, <1>4, <1>5, <1>6, <1>7, <1>8 DEF WorkerInv, JobInv
<1> QED
  BY <1>1, <1>2, <1>3, <1>9 DEF Served, SameJob

\* serve answers a request that it does not put to the engine.
LEMMA TurnAway ==
    ASSUME WorkerInv, NEW j \in Jobs, stage[j] \in {"heading", "reading"},
           NEW s \in Nat, WriteNext(j, Refusal(s), TRUE),
           UNCHANGED <<streams, read, text, laneVars>>,
           EngineInv', \A k \in Jobs \ {j} : KeptFor(k),
           gone' = gone, j \notin Taken', Refusal(s) \in Full(j)'
    PROVE  Served(j)
<1>1. /\ stage' = [stage EXCEPT ![j] = "writing"] /\ todo' = [todo EXCEPT ![j] = Refusal(s)]
      /\ final' = [final EXCEPT ![j] = TRUE]
      /\ UNCHANGED <<streams, read, text, closed, seen, lane>>
  BY DEF WriteNext, Goto, laneVars
<1>2. Refusal(s) \in Seq(Frame) /\ Refusal(s) # <<>>
  BY ErrorCounts
<1>3. /\ Types' /\ stage'[j] = "writing" /\ todo'[j] = Refusal(s) /\ final'[j]
      /\ \A k \in Jobs \ {j} :
            stage'[k] = stage[k] /\ todo'[k] = todo[k] /\ final'[k] = final[k]
  BY <1>1, <1>2 DEF WorkerInv, Types, Stages
<1>4. lane'[j] = <<>> /\ j \notin gone
  BY <1>1 DEF WorkerInv, JobInv, Untried
<1>5. Ending(j)'
  <2>1. lane'[j] \o todo'[j] = Refusal(s)
    BY <1>2, <1>3, <1>4, EmptyFrames
  <2>2. (lane[j] \o todo[j])' \in Full(j)'
    BY <2>1
  <2> QED
    BY <1>2, <1>3, <1>4, <2>2 DEF Ending
<1>6. Untried(j)' /\ Passing(j)' /\ Ended(j)'
  BY <1>3 DEF Untried, Passing, Ended
<1>7. Hung(j)'
  <2>1. read[j] \in Nat /\ seen[j] \in Nat
    BY Bounds DEF WorkerInv, Types
  <2> QED
    BY <1>1, <2>1 DEF WorkerInv, JobInv, Hung
<1>8. JobInv(j)'
  BY <1>1, <1>5, <1>6, <1>7 DEF WorkerInv, JobInv
<1> QED
  BY <1>1, <1>3, <1>8 DEF Served, SameJob

LEMMA ReadFailKeeps ==
    ASSUME WorkerInv, NEW j \in Jobs, ReadFail(j)
    PROVE  Served(j)
<1>1. /\ stage[j] \in {"heading", "reading"} /\ WriteNext(j, Refusal(400), TRUE)
      /\ UNCHANGED <<engineVars, streams, read, text, laneVars>>
  BY DEF ReadFail
<1>2. /\ EngineInv' /\ (\A k \in Jobs : KeptFor(k)) /\ Full(j)' = Full(j)
      /\ Taken' = Taken /\ gone' = gone
  BY <1>1, IdleJob DEF WorkerInv
<1>3. j \notin Taken \cup refused
  BY <1>1 DEF WorkerInv, JobInv, Untried
<1>4. Refusal(400) \in Full(j)
  BY <1>3, RefusedAnswer DEF WorkerInv, EngineInv
<1>5. 400 \in Nat
  OBVIOUS
<1> QED
  BY <1>1, <1>2, <1>3, <1>4, <1>5, TurnAway

LEMMA SubmitRefusedKeeps ==
    ASSUME WorkerInv, NEW j \in Jobs, SubmitRefused(j)
    PROVE  Served(j)
<1>1. /\ stage[j] = "reading" /\ E!Refuse(j) /\ WriteNext(j, Refusal(503), TRUE)
      /\ UNCHANGED <<streams, read, text, laneVars>>
  BY DEF SubmitRefused
<1>2. /\ EngineInv' /\ (\A k \in Jobs \ {j} : KeptFor(k))
      /\ j \notin Taken' /\ j \in refused' /\ gone' = gone
  BY <1>1, RefuseKeeps DEF WorkerInv
<1>3. Refusal(503) \in Full(j)'
  <2>1. (PlaceInv => (j \in refused => Refusal(503) \in Full(j)))'
    BY RefusedAnswer, PTL
  <2>2. Refusal(503)' = Refusal(503)
    BY DEF Refusal, Json, Error, End
  <2> QED
    BY <1>2, <2>1, <2>2 DEF EngineInv
<1>4. 503 \in Nat
  OBVIOUS
<1> QED
  BY <1>1, <1>2, <1>3, <1>4, TurnAway

LEMMA BeginningFrames ==
    ASSUME NEW j \in Jobs, NEW n \in Nat
    PROVE  /\ Beginning(j, n) \in Seq(Frame)
           /\ j \in streams => /\ Beginning(j, 0) = Opening
                               /\ Beginning(j, n) \o << Chunk(E!Token(j, n + 1)) >> =
                                     Beginning(j, n + 1)
           /\ j \notin streams => Beginning(j, n) = <<>>
<1>1. CASE j \notin streams
  BY <1>1, EmptyFrames DEF Beginning
<1>2. CASE j \in streams
  <2>1. PICK c \in Seq(Frame) : c = Chunks(j, n)
    BY ChunkFrames
  <2>2. PICK d \in Seq(Frame) : d = Chunks(j, n + 1)
    <3>1. n + 1 \in Nat
      OBVIOUS
    <3> QED
      BY <3>1, ChunkFrames
  <2>3. PICK h \in Seq(Frame) : h = << Head200, Open >>
    <3>1. PICK p \in Frame, o \in Frame : p = Head200 /\ o = Open
      BY FrameTypes
    <3>2. << p, o >> \in Seq(Frame)
      OBVIOUS
    <3> QED
      BY <3>1, <3>2
  <2>4. PICK x \in Seq(Frame) : x = << Chunk(E!Token(j, n + 1)) >>
    <3>1. PICK y \in Frame : y = Chunk(E!Token(j, n + 1))
      BY FrameTypes
    <3> QED
      BY <3>1, OneFrame
  <2>5. c \o x = d
    BY <2>1, <2>2, <2>4, ChunkFrames
  <2>6. h \o c \in Seq(Frame)
    BY ConcatProperties
  <2>7. (h \o c) \o x = h \o (c \o x)
    BY Associative
  <2>8. Beginning(j, n) = h \o c /\ Beginning(j, n + 1) = h \o d
    BY <1>2, <2>1, <2>2, <2>3 DEF Beginning
  <2>9. Beginning(j, 0) = Opening
    <3>1. Chunks(j, 0) = <<>>
      BY ChunkFrames
    <3>2. h \o <<>> = h
      BY EmptyFrames
    <3>3. Beginning(j, 0) = h \o Chunks(j, 0)
      BY <1>2, <2>3 DEF Beginning
    <3> QED
      BY <2>3, <3>1, <3>2, <3>3 DEF Opening
  <2>10. (h \o c) \o x = h \o d
    BY <2>5, <2>7
  <2> QED
    BY <1>2, <2>4, <2>6, <2>8, <2>9, <2>10
<1> QED
  BY <1>1, <1>2

LEMMA SubmitJobKeeps ==
    ASSUME WorkerInv, NEW j \in Jobs, Submit(j)
    PROVE  Served(j)
<1>1. /\ stage[j] = "reading" /\ E!Submit(j)
      /\ IF j \in streams
         THEN WriteNext(j, Opening, FALSE)
         ELSE stage' = [stage EXCEPT ![j] = "receiving"] /\ UNCHANGED <<todo, final>>
      /\ UNCHANGED <<streams, read, text, closed, seen, lane>>
  BY DEF Submit, Goto, laneVars
<1>2. /\ EngineInv' /\ (\A k \in Jobs \ {j} : KeptFor(k))
      /\ j \notin Taken \cup refused /\ j \in Taken' /\ gone' = gone
  BY <1>1, SubmitKeeps DEF WorkerInv
<1>3. /\ j \notin gone /\ read[j] = 0
      /\ lane[j] = <<>> /\ todo[j] = <<>> /\ text[j] = <<>>
  BY <1>1 DEF WorkerInv, JobInv, Untried
<1>4. Tokens(j, 0)' /\ 0 <= MaxTokens
  <2>1. Len(reply'[j]) \in Nat
    BY <1>2, LenProperties DEF EngineInv
  <2> QED
    BY <2>1, Bounds DEF Tokens
<1>5. CASE j \in streams
  <2>1. PICK o \in Seq(Frame) : o = Opening /\ o # <<>>
    <3>1. Opening \in Seq(Frame)
      BY FrameTypes DEF Opening
    <3> QED
      BY <3>1 DEF Opening
  <2>2. /\ stage' = [stage EXCEPT ![j] = "writing"] /\ todo' = [todo EXCEPT ![j] = o]
        /\ final' = [final EXCEPT ![j] = FALSE]
    BY <1>1, <1>5, <2>1 DEF WriteNext, Goto
  <2>3. /\ Types' /\ stage'[j] = "writing" /\ todo'[j] = o /\ final'[j] = FALSE
        /\ \A k \in Jobs \ {j} :
              stage'[k] = stage[k] /\ todo'[k] = todo[k] /\ final'[k] = final[k]
    BY <1>1, <2>2 DEF WorkerInv, Types, Stages
  <2>4. lane'[j] \o todo'[j] = Beginning(j, 0)'
    <3>1. <<>> \o o = o
      BY EmptyFrames
    <3>2. Beginning(j, 0)' = Beginning(j, 0)
      BY <1>1 DEF Beginning, Chunks
    <3>3. lane'[j] \o todo'[j] = o
      BY <1>1, <1>3, <2>3, <3>1
    <3>4. 0 \in Nat
      OBVIOUS
    <3> QED
      BY <1>5, <2>1, <3>2, <3>3, <3>4, BeginningFrames
  <2>5. read'[j] = 0 /\ j \in streams'
    BY <1>1, <1>3, <1>5
  <2>6. Passing(j)'
    <3>1. (Tokens(j, read[j]))' /\ (Beginning(j, 0) = Beginning(j, read[j]))'
      BY <1>4, <2>5 DEF Tokens, Beginning
    <3> QED
      BY <1>2, <1>3, <1>4, <2>1, <2>3, <2>4, <2>5, <3>1 DEF Passing
  <2>7. Untried(j)' /\ Ending(j)' /\ Ended(j)'
    BY <2>3 DEF Untried, Ending, Ended
  <2>8. Hung(j)'
    <3>1. read[j] \in Nat /\ seen[j] \in Nat
      BY Bounds DEF WorkerInv, Types
    <3> QED
      BY <1>1, <3>1 DEF WorkerInv, JobInv, Hung
  <2>9. JobInv(j)'
    BY <1>1, <2>6, <2>7, <2>8 DEF WorkerInv, JobInv
  <2> QED
    BY <1>1, <1>2, <2>3, <2>9 DEF Served, SameJob
<1>6. CASE j \notin streams
  <2>1. stage' = [stage EXCEPT ![j] = "receiving"] /\ UNCHANGED <<todo, final>>
    BY <1>1, <1>6
  <2>2. /\ Types' /\ stage'[j] = "receiving"
        /\ \A k \in Jobs \ {j} : stage'[k] = stage[k]
    BY <1>1, <2>1 DEF WorkerInv, Types, Stages
  <2>3. Passing(j)'
    <3>1. lane'[j] \o todo'[j] = <<>> /\ todo'[j] = <<>> /\ text'[j] = <<>> /\ read'[j] = 0
      <4>1. <<>> \o <<>> = <<>>
        BY EmptyFrames
      <4> QED
        BY <1>1, <1>3, <2>1, <4>1
    <3>2. (Beginning(j, read[j]) = <<>>)' /\ Numbered(j, 0) = <<>>
      <4>1. 0 \in Nat
        OBVIOUS
      <4> QED
        BY <1>1, <1>6, <4>1, NumberedText DEF Beginning
    <3>3. Tokens(j, read[j])'
      BY <1>4, <3>1 DEF Tokens
    <3>4. (Numbered(j, read[j]))' = <<>>
      BY <3>1, <3>2 DEF Numbered
    <3> QED
      BY <1>2, <1>3, <1>4, <1>6, <2>2, <3>1, <3>2, <3>3, <3>4 DEF Passing
  <2>4. Untried(j)' /\ Ending(j)' /\ Ended(j)'
    BY <2>2 DEF Untried, Ending, Ended
  <2>5. Hung(j)'
    BY <1>1, <2>2 DEF WorkerInv, JobInv, Hung
  <2>6. JobInv(j)'
    BY <1>1, <2>3, <2>4, <2>5 DEF WorkerInv, JobInv
  <2> QED
    BY <1>1, <1>2, <2>1, <2>2, <2>6 DEF Served, SameJob
<1> QED
  BY <1>5, <1>6

\* What a job that is receiving knows, and what it is about to receive.
LEMMA Receiving ==
    ASSUME WorkerInv, NEW j \in Jobs, NEW kind, Recv(j, kind)
    PROVE  /\ j \in Taken \ gone /\ read[j] \in 0 .. MaxTokens /\ Tokens(j, read[j])
           /\ lane[j] = Beginning(j, read[j]) /\ todo[j] = <<>>
           /\ j \notin streams => text[j] = Numbered(j, read[j])
           /\ j \in closed \cap streams => read[j] = seen[j]
           /\ Coming(j) = reply[j][read[j] + 1] /\ Coming(j).kind = kind
           /\ stage[j] = "receiving" /\ read' = [read EXCEPT ![j] = read[j] + 1]
           /\ read[j] + 1 <= Len(reply[j])
           /\ \/ Coming(j) = E!Token(j, read[j] + 1) /\ read[j] + 1 <= MaxTokens
              \/ j \in settled /\ Coming(j) = E!Failed(j)
              \/ /\ j \in settled
                 /\ \E m \in {read[j], read[j] + 1} : m <= MaxTokens /\ Coming(j) = E!Done(j, m)
<1>1. /\ stage[j] = "receiving" /\ read[j] < Len(reply[j]) /\ Coming(j).kind = kind
      /\ read' = [read EXCEPT ![j] = read[j] + 1]
  BY DEF Recv
<1>2. /\ j \in Taken \ gone /\ read[j] <= MaxTokens /\ Tokens(j, read[j])
      /\ lane[j] \o todo[j] = Beginning(j, read[j]) /\ todo[j] = <<>>
      /\ j \notin streams => text[j] = Numbered(j, read[j])
  BY <1>1 DEF WorkerInv, JobInv, Passing
<1>3. read[j] \in Nat /\ lane[j] \in Seq(Frame) /\ Len(reply[j]) \in Nat
  BY Bounds, LenReply DEF WorkerInv, Types
<1>4. lane[j] = Beginning(j, read[j])
  BY <1>2, <1>3, EmptyFrames
<1>5. j \in closed \cap streams => read[j] = seen[j]
  BY <1>1 DEF WorkerInv, JobInv, Hung
<1>6. Coming(j) = reply[j][read[j] + 1]
  BY DEF Coming
<1>7. PICK r \in Nat : r = read[j] /\ r <= MaxTokens /\ Tokens(j, r) /\ r < Len(reply[j])
  BY <1>1, <1>2, <1>3
<1>8. \/ reply[j][r + 1] = E!Token(j, r + 1) /\ r + 1 <= MaxTokens
      \/ j \in settled /\ reply[j][r + 1] = E!Failed(j)
      \/ /\ j \in settled
         /\ \E m \in {r, r + 1} : m <= MaxTokens /\ reply[j][r + 1] = E!Done(j, m)
  BY <1>2, <1>7, NextEvent DEF WorkerInv
<1>9. read[j] \in 0 .. MaxTokens /\ read[j] + 1 <= Len(reply[j])
  BY <1>1, <1>2, <1>3, Bounds
<1> QED
  BY <1>1, <1>2, <1>4, <1>5, <1>6, <1>7, <1>8, <1>9

\* An answer, or the rest of it, follows what has been received.
LEMMA LastEvent ==
    ASSUME WorkerInv, NEW j \in Jobs, NEW kind, Recv(j, kind), j \in settled,
           NEW rest \in Seq(Frame), rest # <<>>, WriteNext(j, rest, TRUE),
           lane[j] \o rest \in Full(j), UNCHANGED <<engineVars, streams, text, laneVars>>
    PROVE  Served(j)
<1>1. /\ stage' = [stage EXCEPT ![j] = "writing"] /\ todo' = [todo EXCEPT ![j] = rest]
      /\ final' = [final EXCEPT ![j] = TRUE] /\ read' = [read EXCEPT ![j] = read[j] + 1]
      /\ UNCHANGED <<engineVars, streams, text, closed, seen, lane>>
  BY DEF WriteNext, Goto, laneVars, Recv
<1>2. /\ EngineInv' /\ (\A k \in Jobs : KeptFor(k)) /\ Full(j)' = Full(j)
      /\ Taken' = Taken /\ settled' = settled /\ gone' = gone
  BY <1>1, IdleJob DEF WorkerInv
<1>3. /\ j \in Taken \ gone /\ read[j] \in 0 .. MaxTokens
      /\ j \in closed \cap streams => read[j] = seen[j]
  BY Receiving
<1>4. read[j] \in Nat /\ read[j] + 1 \in 0 .. MaxTokens + 1
  BY <1>3, Bounds
<1>5. /\ Types' /\ stage'[j] = "writing" /\ todo'[j] = rest /\ final'[j]
      /\ read'[j] = read[j] + 1
      /\ \A k \in Jobs \ {j} : /\ stage'[k] = stage[k] /\ todo'[k] = todo[k]
                               /\ final'[k] = final[k] /\ read'[k] = read[k]
  BY <1>1, <1>4 DEF WorkerInv, Types, Stages
<1>6. Ending(j)'
  <2>1. (lane[j] \o todo[j])' \in Full(j)'
    BY <1>1, <1>2, <1>5
  <2> QED
    BY <1>2, <1>3, <1>5, <2>1 DEF Ending
<1>7. Untried(j)' /\ Passing(j)' /\ Ended(j)'
  BY <1>5 DEF Untried, Passing, Ended
<1>8. Hung(j)'
  BY <1>1, <1>3, <1>4, <1>5 DEF Hung
<1>9. JobInv(j)'
  BY <1>1, <1>6, <1>7, <1>8 DEF WorkerInv, JobInv
<1> QED
  BY <1>1, <1>2, <1>5, <1>9 DEF Served, SameJob

LEMMA RecvFailedKeeps ==
    ASSUME WorkerInv, NEW j \in Jobs, RecvFailed(j)
    PROVE  Served(j)
<1>1. /\ Recv(j, "failed") /\ WriteNext(j, FailureFrames(j), TRUE)
      /\ UNCHANGED <<engineVars, streams, text, laneVars>>
  BY DEF RecvFailed
<1>2. /\ j \in Taken /\ read[j] \in 0 .. MaxTokens /\ lane[j] = Beginning(j, read[j])
      /\ j \in settled
  <2>1. Coming(j).kind = "failed"
    BY <1>1, Receiving
  <2>2. j \in settled
    BY <1>1, <2>1, Receiving, EventTypes
  <2> QED
    BY <1>1, <2>2, Receiving
<1>3. PlaceInv
  BY DEF WorkerInv, EngineInv
<1>4. PICK rest \in Seq(Frame) : rest = FailureFrames(j) /\ rest # <<>>
  <2>1. PICK e \in Frame, x \in Frame : e = Error /\ x = End
    BY FrameTypes
  <2>2. << e, x >> \in Seq(Frame) /\ << e, x >> # <<>>
    OBVIOUS
  <2>3. Refusal(500) \in Seq(Frame) /\ Refusal(500) # <<>>
    BY ErrorCounts
  <2> QED
    BY <2>1, <2>2, <2>3 DEF FailureFrames
<1>5. lane[j] \o rest \in Full(j)
  <2>1. CASE j \in streams
    <3>1. rest = << Error, End >>
      BY <1>4, <2>1 DEF FailureFrames
    <3>2. Beginning(j, read[j]) \o << Error, End >> \in Full(j)
      BY <1>2, <1>3, <2>1, StreamedAnswer
    <3> QED
      BY <1>2, <3>1, <3>2
  <2>2. CASE j \notin streams
    <3>1. rest = Refusal(500)
      BY <1>4, <2>2 DEF FailureFrames
    <3>2. Refusal(500) \in Full(j)
      BY <1>2, <1>3, <2>2, BufferedAnswer
    <3>3. lane[j] = <<>>
      BY <1>2, <2>2 DEF Beginning
    <3>4. <<>> \o rest = rest
      BY EmptyFrames
    <3> QED
      BY <3>1, <3>2, <3>3, <3>4
  <2> QED
    BY <2>1, <2>2
<1>6. WriteNext(j, rest, TRUE)
  BY <1>1, <1>4
<1> QED
  BY <1>1, <1>2, <1>4, <1>5, <1>6, LastEvent

LEMMA RecvDoneKeeps ==
    ASSUME WorkerInv, NEW j \in Jobs, RecvDone(j)
    PROVE  Served(j)
<1>1. /\ Recv(j, "done")
      /\ WriteNext(j, IF j \in streams THEN << Close(Coming(j)), End >>
                                       ELSE Json(200, Whole(j, Coming(j))), TRUE)
      /\ UNCHANGED <<engineVars, streams, text, laneVars>>
  BY DEF RecvDone
<1>2. /\ j \in Taken /\ read[j] \in 0 .. MaxTokens /\ lane[j] = Beginning(j, read[j])
      /\ j \notin streams => text[j] = Numbered(j, read[j])
  BY <1>1, Receiving
<1>3. j \in settled /\ \E m \in {read[j], read[j] + 1} : m <= MaxTokens /\ Coming(j) = E!Done(j, m)
  <2>1. Coming(j).kind = "done"
    BY <1>1, Receiving
  <2> QED
    BY <1>1, <2>1, Receiving, EventTypes
<1>4. PICK m \in {read[j], read[j] + 1} : m <= MaxTokens /\ Coming(j) = E!Done(j, m)
  BY <1>3
<1>5. m \in 0 .. MaxTokens /\ m \in Nat /\ read[j] \in Nat
  BY <1>2, <1>4, Bounds
<1>6. PlaceInv
  BY DEF WorkerInv, EngineInv
<1>7. CASE j \in streams
  <2>1. PICK rest \in Seq(Frame) : rest = ClosedAt(j, m) /\ rest # <<>>
    <3>1. PICK e \in Frame, x \in Frame : e = Close(E!Done(j, m)) /\ x = End
      BY <1>5, FrameTypes
    <3>2. << e, x >> \in Seq(Frame) /\ << e, x >> # <<>>
      OBVIOUS
    <3> QED
      BY <3>1, <3>2 DEF ClosedAt
  <2>2. lane[j] \o rest \in Full(j)
    <3>1. Beginning(j, read[j]) \o ClosedAt(j, m) \in Full(j)
      BY <1>2, <1>4, <1>5, <1>6, <1>7, StreamedAnswer
    <3> QED
      BY <1>2, <2>1, <3>1
  <2>3. WriteNext(j, rest, TRUE)
    BY <1>1, <1>4, <1>7, <2>1 DEF ClosedAt
  <2> QED
    BY <1>1, <1>3, <2>1, <2>2, <2>3, LastEvent
<1>8. CASE j \notin streams
  <2>1. PICK rest \in Seq(Frame) : rest = WholeAnswer(j, read[j], m) /\ rest # <<>>
    BY <1>4, <1>5, WholeCounts
  <2>2. lane[j] \o rest \in Full(j)
    <3>1. WholeAnswer(j, read[j], m) \in Full(j)
      BY <1>2, <1>4, <1>5, <1>6, <1>8, BufferedAnswer
    <3>2. lane[j] = <<>>
      BY <1>2, <1>8 DEF Beginning
    <3>3. <<>> \o rest = rest
      BY EmptyFrames
    <3> QED
      BY <2>1, <3>1, <3>2, <3>3
  <2>3. WriteNext(j, rest, TRUE)
    <3>1. Whole(j, Coming(j)) =
             [kind |-> "whole", of |-> j, n |-> m, text |-> Numbered(j, read[j])]
      BY <1>2, <1>4, <1>8 DEF Whole, E!Done
    <3>2. Json(200, Whole(j, Coming(j))) = rest
      BY <2>1, <3>1 DEF WholeAnswer
    <3> QED
      BY <1>1, <1>8, <3>2
  <2> QED
    BY <1>1, <1>3, <2>1, <2>2, <2>3, LastEvent
<1> QED
  BY <1>7, <1>8

LEMMA RecvTokenKeeps ==
    ASSUME WorkerInv, NEW j \in Jobs, RecvToken(j)
    PROVE  Served(j)
<1>1. /\ Recv(j, "token") /\ UNCHANGED <<engineVars, streams, closed, seen, lane>>
      /\ read' = [read EXCEPT ![j] = read[j] + 1]
  BY DEF RecvToken, Recv, laneVars
<1>2. /\ j \in Taken \ gone /\ read[j] \in 0 .. MaxTokens /\ lane[j] = Beginning(j, read[j])
      /\ todo[j] = <<>> /\ stage[j] = "receiving"
      /\ j \notin streams => text[j] = Numbered(j, read[j])
      /\ j \in closed \cap streams => read[j] = seen[j]
      /\ Tokens(j, read[j]) /\ read[j] + 1 <= Len(reply[j])
      /\ Coming(j) = reply[j][read[j] + 1]
  BY <1>1, Receiving
<1>3. Coming(j) = E!Token(j, read[j] + 1) /\ read[j] + 1 <= MaxTokens
  <2>1. Coming(j).kind = "token"
    BY <1>1, Receiving
  <2>2. \/ Coming(j) = E!Token(j, read[j] + 1) /\ read[j] + 1 <= MaxTokens
        \/ Coming(j) = E!Failed(j)
        \/ \E m : Coming(j) = E!Done(j, m)
    BY <1>1, Receiving
  <2> QED
    BY <2>1, <2>2, EventTypes
<1>4. PICK r \in Nat : r = read[j]
  BY <1>2, Bounds
<1>5. r + 1 \in 0 .. MaxTokens /\ r + 1 \in 0 .. MaxTokens + 1 /\ r + 1 \in Nat
  BY <1>3, <1>4, Bounds
<1>6. /\ EngineInv' /\ (\A k \in Jobs : KeptFor(k))
      /\ Taken' = Taken /\ settled' = settled /\ gone' = gone /\ reply' = reply
  BY <1>1, IdleJob DEF WorkerInv
<1>7. Tokens(j, read[j])'
  <2>1. \A i \in 1 .. r + 1 : i \in 1 .. r \/ i = r + 1
    OBVIOUS
  <2>2. reply[j][r + 1] = E!Token(j, r + 1) /\ r + 1 <= Len(reply[j])
    BY <1>2, <1>3, <1>4
  <2>3. \A i \in 1 .. r : reply[j][i] = E!Token(j, i)
    BY <1>2, <1>4 DEF Tokens
  <2>4. read'[j] = r + 1
    BY <1>1, <1>4 DEF WorkerInv, Types
  <2> QED
    BY <1>6, <2>1, <2>2, <2>3, <2>4 DEF Tokens
<1>8. /\ read'[j] = r + 1 /\ \A k \in Jobs \ {j} : read'[k] = read[k]
      /\ read' \in [Jobs -> 0 .. MaxTokens + 1]
  BY <1>1, <1>4, <1>5 DEF WorkerInv, Types
<1>9. CASE j \in streams
  <2>1. PICK c \in Seq(Frame) : c = << Chunk(E!Token(j, r + 1)) >> /\ c # <<>>
    <3>1. PICK x \in Frame : x = Chunk(E!Token(j, r + 1))
      BY <1>5, FrameTypes
    <3>2. << x >> \in Seq(Frame) /\ << x >> # <<>>
      OBVIOUS
    <3> QED
      BY <3>1, <3>2
  <2>2. /\ stage' = [stage EXCEPT ![j] = "writing"] /\ todo' = [todo EXCEPT ![j] = c]
        /\ final' = [final EXCEPT ![j] = FALSE] /\ UNCHANGED text
    BY <1>3, <1>4, <1>9, <2>1 DEF RecvToken, WriteNext, Goto
  <2>3. /\ Types' /\ stage'[j] = "writing" /\ todo'[j] = c /\ final'[j] = FALSE
        /\ \A k \in Jobs \ {j} :
              stage'[k] = stage[k] /\ todo'[k] = todo[k] /\ final'[k] = final[k]
    BY <1>1, <1>8, <2>2 DEF WorkerInv, Types, Stages
  <2>4. (lane[j] \o todo[j] = Beginning(j, read[j]))'
    <3>1. Beginning(j, r) \o c = Beginning(j, r + 1)
      BY <1>9, <2>1, BeginningFrames
    <3>2. (Beginning(j, read[j]))' = Beginning(j, r + 1)
      BY <1>1, <1>8 DEF Beginning, Chunks
    <3>3. lane'[j] = Beginning(j, r) /\ todo'[j] = c
      BY <1>1, <1>2, <1>4, <2>3
    <3> QED
      BY <3>1, <3>2, <3>3
  <2>5. Passing(j)'
    BY <1>1, <1>2, <1>5, <1>6, <1>7, <1>8, <1>9, <2>1, <2>3, <2>4 DEF Passing
  <2>6. Untried(j)' /\ Ending(j)' /\ Ended(j)'
    BY <2>3 DEF Untried, Ending, Ended
  <2>7. Hung(j)'
    BY <1>1, <1>2, <1>4, <1>8, <2>3 DEF Hung
  <2>8. JobInv(j)'
    BY <2>2, <2>5, <2>6, <2>7 DEF WorkerInv, JobInv
  <2> QED
    BY <1>1, <1>6, <1>8, <2>2, <2>3, <2>8 DEF Served, SameJob
<1>10. CASE j \notin streams
  <2>1. PICK t \in Seq(Event) : t = Numbered(j, r + 1) /\ Len(t) = r + 1
    BY <1>5, NumberedText
  <2>2. text' = [text EXCEPT ![j] = t] /\ UNCHANGED <<stage, todo, final>>
    <3>1. text' = [text EXCEPT ![j] = Append(text[j], Coming(j))] /\ UNCHANGED <<stage, todo, final>>
      BY <1>10 DEF RecvToken
    <3>2. Append(text[j], Coming(j)) = t
      <4>1. Append(Numbered(j, r), E!Token(j, r + 1)) = Numbered(j, r + 1)
        BY NumberedText
      <4>2. text[j] = Numbered(j, r) /\ Coming(j) = E!Token(j, r + 1)
        BY <1>2, <1>3, <1>4, <1>10
      <4> QED
        BY <2>1, <4>1, <4>2
    <3> QED
      BY <3>1, <3>2
  <2>3. Types' /\ text'[j] = t /\ \A k \in Jobs \ {j} : text'[k] = text[k]
    BY <1>1, <1>8, <2>2 DEF WorkerInv, Types
  <2>4. (lane[j] \o todo[j] = Beginning(j, read[j]))'
    <3>1. lane[j] = <<>>
      BY <1>2, <1>10 DEF Beginning
    <3>2. lane'[j] \o todo'[j] = <<>>
      <4>1. <<>> \o <<>> = <<>>
        BY EmptyFrames
      <4> QED
        BY <1>1, <1>2, <2>2, <3>1, <4>1
    <3>3. (Beginning(j, read[j]) = <<>>)'
      BY <1>1, <1>10 DEF Beginning
    <3> QED
      BY <3>2, <3>3
  <2>5. text'[j] = (Numbered(j, read[j]))'
    BY <1>8, <2>1, <2>3 DEF Numbered
  <2>6. Passing(j)'
    BY <1>1, <1>2, <1>5, <1>6, <1>7, <1>8, <1>10, <2>2, <2>4, <2>5 DEF Passing
  <2>7. Untried(j)' /\ Ending(j)' /\ Ended(j)'
    BY <1>2, <2>2 DEF Untried, Ending, Ended
  <2>8. Hung(j)'
    BY <1>1, <1>10 DEF Hung
  <2>9. Len(text'[j]) <= MaxTokens
    BY <1>3, <1>4, <2>1, <2>3
  <2>10. JobInv(j)'
    BY <2>6, <2>7, <2>8, <2>9 DEF JobInv
  <2> QED
    BY <1>1, <1>6, <1>8, <2>2, <2>3, <2>10 DEF Served, SameJob
<1> QED
  BY <1>9, <1>10

\* A frame of what was to be written reaches the lane.
LEMMA WriteKeeps ==
    ASSUME WorkerInv, NEW j \in Jobs, Write(j)
    PROVE  Served(j)
<1>1. /\ stage[j] = "writing" /\ j \notin closed
      /\ lane' = [lane EXCEPT ![j] = Append(lane[j], Head(todo[j]))]
      /\ todo' = [todo EXCEPT ![j] = Tail(todo[j])]
      /\ UNCHANGED <<streams, read, text, final, closed, seen>>
  BY DEF Write
<1>2. /\ lane[j] \in Seq(Frame) /\ todo[j] \in Seq(Frame) /\ todo[j] # <<>>
      /\ j \notin gone
  BY <1>1 DEF WorkerInv, Types, JobInv, Passing, Ending
<1>3. PICK s \in Seq(Frame), t \in Seq(Frame) :
         /\ s = Append(lane[j], Head(todo[j])) /\ t = Tail(todo[j])
         /\ s \o t = lane[j] \o todo[j]
         /\ Len(todo[j]) = 1 => t = <<>>
         /\ Len(todo[j]) > 1 => t # <<>>
  BY <1>2, MoveFrame
<1>4. lane' = [lane EXCEPT ![j] = s] /\ todo' = [todo EXCEPT ![j] = t]
  BY <1>1, <1>3
<1>5. /\ lane' \in [Jobs -> Seq(Frame)] /\ todo' \in [Jobs -> Seq(Frame)]
      /\ lane'[j] = s /\ todo'[j] = t
      /\ \A k \in Jobs \ {j} : lane'[k] = lane[k] /\ todo'[k] = todo[k]
  BY <1>4 DEF WorkerInv, Types
<1>6. PICK whole \in Seq(Frame) : whole = lane[j] \o todo[j] /\ whole = s \o t
  <2>1. s \o t \in Seq(Frame)
    BY ConcatProperties
  <2> QED
    BY <1>3, <2>1
<1>7. (lane[j] \o todo[j])' = whole
  BY <1>5, <1>6
<1>8. Len(text'[j]) <= MaxTokens
  BY <1>1 DEF WorkerInv, JobInv
<1>9. Beginning(j, read[j])' = Beginning(j, read[j])
  BY <1>1 DEF Beginning, Chunks
<1>10. CASE Len(todo[j]) > 1 /\ UNCHANGED <<engineVars, stage>>
  <2>1. /\ EngineInv' /\ (\A k \in Jobs : KeptFor(k)) /\ Full(j)' = Full(j)
        /\ Taken' = Taken /\ settled' = settled /\ gone' = gone /\ reply' = reply
    BY <1>1, <1>10, IdleJob DEF WorkerInv
  <2>2. Types'
    BY <1>1, <1>5, <1>10 DEF WorkerInv, Types
  <2>3. t # <<>>
    BY <1>3, <1>10
  <2>4. Passing(j)'
    <3>1. Tokens(j, read[j])' <=> Tokens(j, read[j])
      BY <1>1, <2>1 DEF Tokens
    <3>2. ASSUME ~final[j]
          PROVE  /\ j \in Taken \ gone /\ read[j] <= MaxTokens /\ Tokens(j, read[j])
                 /\ whole = Beginning(j, read[j]) /\ j \in streams
      BY <1>1, <1>6, <3>2 DEF WorkerInv, JobInv, Passing
    <3> QED
      BY <1>1, <1>5, <1>7, <1>9, <1>10, <2>1, <2>3, <3>1, <3>2 DEF Passing
  <2>5. Ending(j)'
    <3>1. ASSUME final[j] PROVE (j \in Taken => j \in settled) /\ whole \in Full(j)
      BY <1>1, <1>6, <3>1 DEF WorkerInv, JobInv, Ending
    <3> QED
      BY <1>1, <1>2, <1>5, <1>7, <2>1, <2>3, <3>1 DEF Ending
  <2>6. Untried(j)' /\ Ended(j)'
    BY <1>1, <1>10 DEF Untried, Ended
  <2>7. Hung(j)'
    BY <1>1 DEF Hung
  <2>8. JobInv(j)'
    BY <1>8, <2>4, <2>5, <2>6, <2>7 DEF JobInv
  <2> QED
    BY <1>1, <1>5, <1>10, <2>1, <2>2, <2>8 DEF Served, SameJob
<1>11. CASE Len(todo[j]) = 1 /\ ~final[j] /\ Goto(j, "receiving") /\ UNCHANGED engineVars
  <2>1. /\ EngineInv' /\ (\A k \in Jobs : KeptFor(k))
        /\ Taken' = Taken /\ settled' = settled /\ gone' = gone /\ reply' = reply
    BY <1>1, <1>11, IdleJob DEF WorkerInv
  <2>2. stage' = [stage EXCEPT ![j] = "receiving"]
    BY <1>11 DEF Goto
  <2>3. Types' /\ stage'[j] = "receiving" /\ \A k \in Jobs \ {j} : stage'[k] = stage[k]
    BY <1>1, <1>5, <2>2 DEF WorkerInv, Types, Stages
  <2>4. t = <<>>
    BY <1>3, <1>11
  <2>5. Passing(j)'
    <3>1. Tokens(j, read[j])' <=> Tokens(j, read[j])
      BY <1>1, <2>1 DEF Tokens
    <3>2. /\ j \in Taken \ gone /\ read[j] <= MaxTokens /\ Tokens(j, read[j])
          /\ whole = Beginning(j, read[j]) /\ j \in streams
      BY <1>1, <1>6, <1>11 DEF WorkerInv, JobInv, Passing
    <3> QED
      BY <1>1, <1>5, <1>7, <1>9, <2>1, <2>3, <2>4, <3>1, <3>2 DEF Passing
  <2>6. Untried(j)' /\ Ending(j)' /\ Ended(j)'
    BY <2>3 DEF Untried, Ending, Ended
  <2>7. Hung(j)'
    BY <1>1 DEF Hung
  <2>8. JobInv(j)'
    BY <1>8, <2>5, <2>6, <2>7 DEF JobInv
  <2> QED
    BY <1>1, <1>5, <2>1, <2>3, <2>8 DEF Served, SameJob
<1>12. CASE Len(todo[j]) = 1 /\ final[j] /\ Goto(j, "returned") /\ LetGo(j)
  <2>1. /\ EngineInv' /\ (\A k \in Jobs \ {j} : KeptFor(k))
        /\ Taken' = Taken /\ refused' = refused /\ settled' = settled
        /\ j \in Taken' => j \in gone'
    BY <1>12, LetGoKeeps DEF WorkerInv
  <2>2. stage' = [stage EXCEPT ![j] = "returned"]
    BY <1>12 DEF Goto
  <2>3. Types' /\ stage'[j] = "returned" /\ \A k \in Jobs \ {j} : stage'[k] = stage[k]
    BY <1>1, <1>5, <2>2 DEF WorkerInv, Types, Stages
  <2>4. t = <<>>
    BY <1>3, <1>12
  <2>5. Ended(j)'
    <3>1. (j \in Taken => j \in settled) /\ whole \in Full(j)
      BY <1>1, <1>6, <1>12 DEF WorkerInv, JobInv, Ending
    <3>2. Full(j)' = Full(j)
      BY <1>1, <2>1, SameAnswers
    <3>3. lane'[j] \o <<>> \in Full(j)' /\ <<>> \in Seq(Frame)
      BY <1>5, <1>7, <2>4, <3>1, <3>2, EmptyFrames
    <3> QED
      BY <2>1, <3>1, <3>3 DEF Ended
  <2>6. Untried(j)' /\ Passing(j)' /\ Ending(j)'
    BY <2>3 DEF Untried, Passing, Ending
  <2>7. Hung(j)'
    BY <1>1 DEF Hung
  <2>8. JobInv(j)'
    BY <1>8, <2>5, <2>6, <2>7 DEF JobInv
  <2> QED
    BY <1>1, <1>5, <2>1, <2>3, <2>8 DEF Served, SameJob
<1> QED
  BY <1>10, <1>11, <1>12 DEF Write

\* What is on a lane can still become an answer.
LEMMA LaneCompletes ==
    ASSUME WorkerInv, NEW j \in Jobs
    PROVE  \E a \in Full(j), u \in Seq(Frame) : lane[j] \o u = a
<1>1. lane[j] \in Seq(Frame) /\ todo[j] \in Seq(Frame) /\ stage[j] \in Stages /\ PlaceInv
  BY DEF WorkerInv, Types, EngineInv
<1>2. ASSUME lane[j] = <<>>, NEW a \in Full(j), a \in Seq(Frame)
      PROVE  \E u \in Seq(Frame) : lane[j] \o u = a
  BY <1>2, EmptyFrames
<1>3. CASE stage[j] \in {"parked", "heading", "reading"}
  <2>1. lane[j] = <<>> /\ j \notin Taken \cup refused
    BY <1>3 DEF WorkerInv, JobInv, Untried
  <2>2. Refusal(400) \in Full(j)
    BY <1>1, <2>1, RefusedAnswer
  <2> QED
    BY <1>1, <1>2, <2>1, <2>2, AnswerShape
<1>4. CASE stage[j] = "receiving" \/ (stage[j] = "writing" /\ ~final[j])
  <2>1. /\ j \in Taken /\ read[j] <= MaxTokens
        /\ lane[j] \o todo[j] = Beginning(j, read[j])
        /\ j \notin streams => todo[j] = <<>>
    BY <1>4 DEF WorkerInv, JobInv, Passing
  <2>2. read[j] \in 0 .. MaxTokens
    BY <2>1, Bounds DEF WorkerInv, Types
  <2>3. CASE j \in streams
    <3>1. PICK e \in Seq(Frame) : e = << Error, End >>
      <4>1. PICK x \in Frame, y \in Frame : x = Error /\ y = End
        BY FrameTypes
      <4>2. << x, y >> \in Seq(Frame)
        OBVIOUS
      <4> QED
        BY <4>1, <4>2
    <3>2. Beginning(j, read[j]) \o << Error, End >> \in Full(j)
      BY <1>1, <2>1, <2>2, <2>3, StreamedAnswer
    <3>3. PICK s \in Seq(Frame), t \in Seq(Frame) : s = lane[j] /\ t = todo[j]
      BY <1>1
    <3>4. (s \o t) \o e = s \o (t \o e) /\ t \o e \in Seq(Frame)
      BY Associative, ConcatProperties
    <3>5. (s \o t) \o e \in Full(j)
      BY <2>1, <3>1, <3>2, <3>3
    <3> QED
      BY <3>3, <3>4, <3>5
  <2>4. CASE j \notin streams
    <3>1. Beginning(j, read[j]) = <<>>
      BY <2>4 DEF Beginning
    <3>2. lane[j] = <<>>
      BY <1>1, <2>1, <2>4, <3>1, EmptyFrames
    <3>3. Refusal(500) \in Full(j)
      BY <1>1, <2>1, <2>4, BufferedAnswer
    <3> QED
      BY <1>1, <1>2, <3>2, <3>3, AnswerShape
  <2> QED
    BY <2>3, <2>4
<1>5. CASE stage[j] = "writing" /\ final[j]
  BY <1>1, <1>5 DEF WorkerInv, JobInv, Ending
<1>6. CASE stage[j] = "returned"
  BY <1>6 DEF WorkerInv, JobInv, Ended
<1> QED
  BY <1>1, <1>3, <1>4, <1>5, <1>6 DEF Stages

\* A write fails, and what was to be written is not.
LEMMA WriteFailedKeeps ==
    ASSUME WorkerInv, NEW j \in Jobs, WriteFailed(j)
    PROVE  Served(j)
<1>1. /\ stage[j] = "writing" /\ j \in closed /\ LetGo(j)
      /\ stage' = [stage EXCEPT ![j] = "returned"]
      /\ UNCHANGED <<streams, read, text, todo, final, closed, seen, lane>>
  BY DEF WriteFailed, Goto, laneVars
<1>2. /\ EngineInv' /\ (\A k \in Jobs \ {j} : KeptFor(k))
      /\ Taken' = Taken /\ refused' = refused /\ settled' = settled
      /\ j \in Taken' => j \in gone'
  BY <1>1, LetGoKeeps DEF WorkerInv
<1>3. Types' /\ stage'[j] = "returned" /\ \A k \in Jobs \ {j} : stage'[k] = stage[k]
  BY <1>1 DEF WorkerInv, Types, Stages
<1>4. \E u \in Seq(Frame) : lane[j] \o u \in Full(j)
  BY LaneCompletes
<1>5. Ended(j)'
  <2>1. Full(j)' = Full(j)
    BY <1>1, <1>2, SameAnswers
  <2>2. lane'[j] = lane[j] /\ j \in closed'
    BY <1>1
  <2>3. PICK u \in Seq(Frame) : lane'[j] \o u \in Full(j)'
    BY <1>4, <2>1, <2>2
  <2> QED
    BY <1>2, <2>2, <2>3 DEF Ended
<1>6. Untried(j)' /\ Passing(j)' /\ Ending(j)'
  BY <1>3 DEF Untried, Passing, Ending
<1>7. Hung(j)'
  BY <1>1 DEF WorkerInv, JobInv, Hung
<1>8. JobInv(j)'
  BY <1>1, <1>5, <1>6, <1>7 DEF WorkerInv, JobInv
<1> QED
  BY <1>1, <1>2, <1>3, <1>8 DEF Served, SameJob

(***************************************************************************)
(* The streams in hand.                                                    *)
(***************************************************************************)
LEMMA StagesOfServe ==
    ASSUME Types, NEW j \in Jobs, HangUp(j) \/ Serve(j)
    PROVE  InHand' \subseteq InHand
<1>1. CASE HangUp(j)
  BY <1>1 DEF HangUp, jobVars, InHand
<1>2. CASE Serve(j)
  <2>1. j \in InHand
    BY <1>2 DEF Serve, ReadHead, ReadFail, Submit, SubmitRefused, RecvToken, RecvDone,
             RecvFailed, Recv, Write, WriteFailed, InHand
  <2>2. \A k \in Jobs \ {j} : stage'[k] = stage[k]
    BY <1>2 DEF Types, Serve, ReadHead, ReadFail, Submit, SubmitRefused, RecvToken, RecvDone,
             RecvFailed, Recv, Write, WriteFailed, WriteNext, Goto
  <2> QED
    BY <2>1, <2>2 DEF InHand
<1> QED
  BY <1>1, <1>2

LEMMA HandKeeps ==
    ASSUME WorkerInv, [Next]_vars
    PROVE  HandInv'
<1>1. ASSUME InHand' \subseteq InHand PROVE HandInv'
  <2>1. IsFiniteSet(InHand') /\ Cardinality(InHand') <= Cardinality(InHand)
    BY <1>1, FS_Subset DEF WorkerInv, HandInv
  <2>2. Cardinality(InHand) \in Nat /\ Cardinality(InHand') \in Nat
    BY <2>1, FS_CardinalityType DEF WorkerInv, HandInv
  <2> QED
    BY <2>1, <2>2, Bounds DEF WorkerInv, HandInv
<1>2. CASE EngineStep \/ UNCHANGED vars
  BY <1>1, <1>2 DEF EngineStep, vars, jobVars, InHand
<1>3. ASSUME NEW j \in Jobs, Claim(j) PROVE HandInv'
  <2>1. InHand' = InHand \cup {j}
    BY <1>3 DEF Claim, InHand, WorkerInv, Types
  <2>2. /\ IsFiniteSet(InHand')
        /\ Cardinality(InHand') \in {Cardinality(InHand), Cardinality(InHand) + 1}
    BY <2>1, FS_AddElement DEF WorkerInv, HandInv
  <2>3. Cardinality(InHand) < Claims /\ Cardinality(InHand) \in Nat
    BY <1>3, FS_CardinalityType DEF Claim, CanClaim, WorkerInv, HandInv
  <2> QED
    BY <2>2, <2>3, Bounds DEF HandInv
<1>4. ASSUME NEW j \in Jobs, HangUp(j) \/ Serve(j) PROVE HandInv'
  BY <1>1, <1>4, StagesOfServe DEF WorkerInv
<1> QED
  BY <1>2, <1>3, <1>4 DEF Next

(***************************************************************************)
(* The invariant.                                                          *)
(***************************************************************************)
LEMMA WorkerInit == Init => WorkerInv
<1> SUFFICES ASSUME Init PROVE WorkerInv
  OBVIOUS
<1>1. /\ waiting = <<>> /\ serving = {} /\ settled = {} /\ refused = {} /\ gone = {}
      /\ reply = [j \in Jobs |-> <<>>] /\ owed = [j \in Jobs |-> {}]
  BY DEF Init, E!Init
<1>2. Queued = {} /\ Taken = {}
  BY <1>1 DEF Queued, Taken
<1>3. PlaceInv
  <2>1. waiting \in Seq(Jobs) /\ DOMAIN waiting = {}
    BY <1>1
  <2> QED
    BY <1>1, <1>2, <2>1 DEF PlaceInv
<1>4. ASSUME NEW j \in Jobs PROVE ReplyInv(j) /\ Tokens(j, 0)
  <2>1. reply[j] = <<>> /\ Len(reply[j]) = 0 /\ owed[j] = {}
    BY <1>1
  <2>2. Tokens(j, 0) /\ Speaking(j, 0) /\ 0 \in Nat /\ 0 <= MaxTokens
    BY <2>1, Bounds DEF Tokens, Speaking
  <2> QED
    BY <1>1, <2>2 DEF ReplyInv
<1>5. EngineInv
  BY <1>1, <1>3, <1>4 DEF EngineInv
<1>6. Types
  BY Bounds, EmptyFrames DEF Init, Types, Stages
<1>7. HandInv
  <2>1. InHand = {}
    BY DEF Init, InHand
  <2> QED
    BY <2>1, FS_EmptySet, Bounds DEF HandInv
<1>8. ASSUME NEW j \in Jobs PROVE JobInv(j)
  <2>1. /\ stage[j] = "parked" /\ lane[j] = <<>> /\ todo[j] = <<>> /\ text[j] = <<>>
        /\ read[j] = 0 /\ closed = {}
    BY DEF Init
  <2>2. Untried(j) /\ Passing(j) /\ Ending(j) /\ Ended(j) /\ Hung(j)
    BY <1>1, <1>2, <2>1 DEF Untried, Passing, Ending, Ended, Hung
  <2>3. Len(text[j]) <= MaxTokens
    BY <2>1, Bounds
  <2> QED
    BY <2>2, <2>3 DEF JobInv
<1> QED
  BY <1>5, <1>6, <1>7, <1>8 DEF WorkerInv

LEMMA WorkerStep == WorkerInv /\ [Next]_vars => WorkerInv'
<1> SUFFICES ASSUME WorkerInv, [Next]_vars PROVE WorkerInv'
  OBVIOUS
<1>1. ASSUME NEW j \in Jobs, Served(j) PROVE WorkerInv'
  <2>1. EngineInv' /\ Types' /\ JobInv(j)'
    BY <1>1 DEF Served
  <2>2. \A k \in Jobs \ {j} : JobInv(k)'
    BY <1>1, <2>1, OthersKeep DEF Served, WorkerInv
  <2> QED
    BY <2>1, <2>2, HandKeeps DEF WorkerInv
<1>2. ASSUME EngineInv', \A j \in Jobs : KeptFor(j), UNCHANGED <<jobVars, laneVars>>
      PROVE  WorkerInv'
  <2>1. UNCHANGED <<streams, closed, stage, read, seen, text, todo, final, lane>>
    BY <1>2 DEF jobVars, laneVars
  <2>2. Types' /\ \A j \in Jobs : SameJob(j)
    BY <2>1 DEF WorkerInv, Types, SameJob
  <2>3. \A j \in Jobs : JobInv(j)'
    BY <1>2, <2>2, OthersKeep DEF WorkerInv
  <2> QED
    BY <1>2, <2>2, <2>3, HandKeeps DEF WorkerInv
<1>3. CASE EngineStep
  BY <1>2, <1>3, WorkKeeps, KeptForAll DEF EngineStep, WorkerInv
<1>4. CASE UNCHANGED vars
  BY <1>2, <1>4, IdleKeeps DEF vars, WorkerInv
<1>5. ASSUME NEW j \in Jobs, Claim(j) \/ HangUp(j) \/ Serve(j) PROVE WorkerInv'
  <2>1. Served(j)
    BY <1>5, ClaimKeeps, HangUpKeeps, ReadHeadKeeps, ReadFailKeeps, SubmitJobKeeps,
       SubmitRefusedKeeps, RecvTokenKeeps, RecvDoneKeeps, RecvFailedKeeps, WriteKeeps,
       WriteFailedKeeps DEF Serve
  <2> QED
    BY <1>1, <2>1
<1> QED
  BY <1>3, <1>4, <1>5 DEF Next

\* The inductive invariant of the worker: what each job has passed on is what
\* it has received, and what it has yet to write completes one answer.
THEOREM WorkerInvariant == Spec => []WorkerInv
  BY WorkerInit, WorkerStep, PTL DEF Spec

\* Every variable of the worker has its type, and no answer is longer than the
\* tokens of its reply and four frames more.
THEOREM WorkerTypes == Spec => []TypeOK
<1>1. WorkerInv => TypeOK
  <2> SUFFICES ASSUME WorkerInv PROVE TypeOK
    OBVIOUS
  <2>1. Types
    BY DEF WorkerInv
  <2>2. ASSUME NEW j \in Jobs
        PROVE  /\ Len(text[j]) <= MaxTokens
               /\ stage[j] = "writing" => todo[j] # <<>>
               /\ Len(lane[j]) <= MaxTokens + 4
    <3>1. Len(text[j]) <= MaxTokens /\ (stage[j] = "writing" => todo[j] # <<>>)
      BY DEF WorkerInv, JobInv, Passing, Ending
    <3>2. \E a \in Full(j), u \in Seq(Frame) : lane[j] \o u = a
      BY LaneCompletes
    <3>3. PICK a \in Full(j), u \in Seq(Frame) : lane[j] \o u = a
      BY <3>2
    <3>4. PICK s \in Seq(Frame) : s = lane[j] /\ Len(s) \in Nat
      BY <2>1, LenProperties DEF Types
    <3>5. Len(s) <= Len(s \o u) /\ s \o u = a
      BY <3>3, <3>4, PrefixOfConcat
    <3>6. Len(a) <= MaxTokens + 4 /\ Len(a) \in Nat
      BY AnswerShape, LenProperties DEF WorkerInv, EngineInv
    <3>7. Len(s) <= Len(a)
      BY <3>5
    <3> QED
      BY <3>1, <3>4, <3>6, <3>7, Bounds
  <2> QED
    BY <2>1, <2>2 DEF Types, TypeOK, Stages
<1> QED
  BY <1>1, WorkerInvariant, PTL

\* A response lane is one answer or a beginning of it, of the status its request
\* deserves: the tokens of its own generation, in order and from the first, at
\* most the last of those it counts missing, one ending and nothing after it.
THEOREM WorkerLaneIsOneAnswer == Spec => []LaneIsOneAnswer
<1>1. WorkerInv => LaneIsOneAnswer
  <2> SUFFICES ASSUME WorkerInv, NEW j \in Jobs
               PROVE  \E a \in Answers(j) : Counted(a) /\ IsPrefix(lane[j], a)
    BY DEF LaneIsOneAnswer
  <2>1. PICK a \in Full(j), u \in Seq(Frame) : lane[j] \o u = a
    BY LaneCompletes
  <2>2. lane[j] \in Seq(Frame)
    BY DEF WorkerInv, Types
  <2>3. IsPrefix(lane[j], lane[j] \o u)
    BY <2>2, PrefixOfConcat
  <2>4. IsPrefix(lane[j], a)
    BY <2>1, <2>3
  <2> QED
    BY <2>4 DEF Full
<1> QED
  BY <1>1, WorkerInvariant, PTL

\* serve returns with a finished answer whichever call failed, unless the
\* client has left.
THEOREM WorkerAnswersUnlessGone == Spec => []AnsweredUnlessGone
<1>1. WorkerInv => AnsweredUnlessGone
  <2> SUFFICES ASSUME WorkerInv, NEW j \in Jobs, stage[j] = "returned", j \notin closed
               PROVE  lane[j] # <<>> /\ Last(lane[j]) = End
    BY DEF AnsweredUnlessGone
  <2>1. lane[j] \in Seq(Frame) /\ lane[j] \o <<>> \in Full(j)
    BY DEF WorkerInv, Types, JobInv, Ended
  <2>2. PICK a \in Full(j) : a = lane[j]
    BY <2>1, EmptyFrames
  <2>3. a # <<>> /\ a[Len(a)] = End
    BY AnswerShape DEF WorkerInv, EngineInv
  <2> QED
    BY <2>2, <2>3 DEF Last
<1> QED
  BY <1>1, WorkerInvariant, PTL

\* serve never hears the end of a reply that has not been ended.
THEOREM WorkerNeverSilent == Spec => []NeverSilent
<1>1. WorkerInv => NeverSilent
  <2> SUFFICES ASSUME WorkerInv, NEW j \in Jobs, HearsNothing(j) PROVE FALSE
    BY DEF NeverSilent
  <2>1. stage[j] = "receiving" /\ read[j] = Len(reply[j]) /\ j \in settled /\ owed[j] = {}
    BY DEF HearsNothing
  <2>2. PICK r \in Nat : r = read[j] /\ r = Len(reply[j])
    BY <2>1, Bounds DEF WorkerInv, Types
  <2>3. j \notin gone /\ Tokens(j, r)
    BY <2>1, <2>2 DEF WorkerInv, JobInv, Passing
  <2> QED
    BY <2>1, <2>2, <2>3, HeardOut DEF WorkerInv
<1> QED
  BY <1>1, WorkerInvariant, PTL

\* A job that counts against the engine is in hand, or its client left halfway.
THEOREM WorkerOccupancyIsClaimed == Spec => []OccupancyIsClaimed
<1>1. WorkerInv => OccupancyIsClaimed
  <2> SUFFICES ASSUME WorkerInv, NEW j \in Queued \cup serving
               PROVE  j \in InHand \cup closed
    BY DEF OccupancyIsClaimed, Queued
  <2>1. j \in Jobs /\ j \notin settled /\ j \in Taken
    <3>1. Queued \subseteq Jobs
      BY ElementOfSeq, LenProperties DEF WorkerInv, EngineInv, PlaceInv, Queued
    <3> QED
      BY <3>1 DEF WorkerInv, EngineInv, PlaceInv, Taken
  <2>2. stage[j] # "parked" /\ (stage[j] = "returned" => j \in closed)
    BY <2>1 DEF WorkerInv, JobInv, Untried, Ended
  <2> QED
    BY <2>1, <2>2 DEF InHand
<1> QED
  BY <1>1, WorkerInvariant, PTL

\* ingress.rs:151-153: a streaming client that leaves makes the next write fail,
\* so that serve takes at most one more event for it.
THEOREM WorkerHangupCancels == Spec => []HangupCancels
<1>1. WorkerInv => HangupCancels
  <2> SUFFICES ASSUME WorkerInv, NEW j \in closed \cap streams PROVE read[j] <= seen[j] + 1
    BY DEF HangupCancels
  <2>1. j \in Jobs
    BY DEF WorkerInv, Types
  <2> QED
    BY <2>1 DEF WorkerInv, JobInv, Hung
<1> QED
  BY <1>1, WorkerInvariant, PTL

\* A submission is refused only when the queue holds jobs of clients that left:
\* those of other clients are in hand, of which there are at most Claims, and
\* the one that is refused is in hand too.
THEOREM WorkerRefusedOnlyByDepartures == Spec => RefusedOnlyByDepartures
<1> DEFINE Departed == {i \in DOMAIN waiting : waiting[i] \in gone}
<1> DEFINE Present  == {i \in DOMAIN waiting : waiting[i] \notin gone}
<1>1. ASSUME WorkerInv, NEW j \in Jobs, SubmitRefused(j)
      PROVE  MaxWaiting < Claims + Cardinality(Departed)
  <2>1. stage[j] = "reading" /\ Len(waiting) >= MaxWaiting /\ j \notin Taken
    BY <1>1, AcceptedTaken DEF SubmitRefused, E!Refuse
  <2>2. PICK n \in Nat : n = Len(waiting) /\ DOMAIN waiting = 1 .. n
    BY <1>1, LenProperties DEF WorkerInv, EngineInv, PlaceInv
  <2>3. IsFiniteSet(1 .. n) /\ Cardinality(1 .. n) = n
    BY FS_Interval
  <2>4. IsFiniteSet(Departed) /\ IsFiniteSet(Present)
    BY <2>2, <2>3, FS_Subset
  <2>5. Cardinality(Departed) \in Nat /\ Cardinality(Present) \in Nat
    BY <2>4, FS_CardinalityType
  <2>6. n = Cardinality(Departed) + Cardinality(Present)
    <3>1. Departed \cup Present = 1 .. n /\ Departed \cap Present = {}
      BY <2>2
    <3>2. Cardinality(Departed \cap Present) = 0
      BY <3>1, FS_EmptySet
    <3> HIDE DEF Departed, Present
    <3>3. Cardinality(Departed \cup Present) =
             Cardinality(Departed) + Cardinality(Present) - Cardinality(Departed \cap Present)
      BY <2>4, FS_Union
    <3>4. Cardinality(Departed \cup Present) = n
      BY <2>3, <3>1, Zenon
    <3> QED
      BY <2>5, <3>2, <3>3, <3>4
  <2>7. ASSUME NEW i \in Present PROVE waiting[i] \in InHand \ {j}
    <3>1. waiting[i] \in Jobs /\ waiting[i] \in Queued
      BY <1>1, <2>2, ElementOfSeq DEF WorkerInv, EngineInv, PlaceInv, Queued
    <3>2. waiting[i] \in Taken \ gone
      BY <3>1 DEF Taken
    <3>3. stage[waiting[i]] \notin {"parked", "returned"}
      BY <1>1, <3>1, <3>2 DEF WorkerInv, JobInv, Untried, Ended
    <3> QED
      BY <2>1, <3>1, <3>2, <3>3 DEF InHand
  <2>8. Cardinality(Present) <= Cardinality(InHand \ {j})
    <3> DEFINE f == [i \in Present |-> waiting[i]]
    <3>1. f \in [Present -> InHand \ {j}]
      BY <2>7
    <3>2. \A i, k \in Present : f[i] = f[k] => i = k
      BY <1>1 DEF WorkerInv, EngineInv, PlaceInv
    <3>3. f \in Injection(Present, InHand \ {j})
      BY <3>1, <3>2 DEF Injection, IsInjective
    <3>4. IsFiniteSet(InHand \ {j})
      BY <1>1, FS_RemoveElement DEF WorkerInv, HandInv
    <3> HIDE DEF f, Present
    <3> QED
      BY <3>3, <3>4, FS_Injection
  <2>9. Cardinality(InHand \ {j}) < Claims /\ Cardinality(InHand \ {j}) \in Nat
    <3>1. j \in InHand
      BY <2>1 DEF InHand
    <3>2. /\ Cardinality(InHand \ {j}) = Cardinality(InHand) - 1
          /\ IsFiniteSet(InHand \ {j})
      BY <1>1, <3>1, FS_RemoveElement DEF WorkerInv, HandInv
    <3>3. Cardinality(InHand) \in Nat /\ Cardinality(InHand) <= Claims
      BY <1>1, FS_CardinalityType DEF WorkerInv, HandInv
    <3>4. Cardinality(InHand \ {j}) \in Nat
      BY <3>2, FS_CardinalityType
    <3> QED
      BY <3>2, <3>3, <3>4, Bounds
  <2> HIDE DEF Departed, Present
  <2> QED
    BY <2>1, <2>2, <2>5, <2>6, <2>8, <2>9, Bounds
<1>2. ASSUME WorkerInv, [Next]_vars, refused' # refused
      PROVE  \E j \in Jobs : SubmitRefused(j)
  <2>1. ~UNCHANGED engineVars
    BY <1>2 DEF engineVars
  <2>2. ~EngineStep
    BY <1>2, WorkKeeps DEF EngineStep, WorkerInv, Kept
  <2>3. ASSUME NEW j \in Jobs, Claim(j) \/ HangUp(j) \/ Serve(j) PROVE SubmitRefused(j)
    <3>1. ~(Submit(j) \/ Write(j) \/ WriteFailed(j))
      <4>1. ~E!Submit(j)
        BY <1>2 DEF E!Submit
      <4>2. ~LetGo(j)
        BY <1>2, LetGoKeeps DEF WorkerInv
      <4> QED
        BY <2>1, <4>1, <4>2 DEF Submit, Write, WriteFailed
    <3>2. ~(Claim(j) \/ HangUp(j) \/ ReadHead(j) \/ ReadFail(j) \/ RecvToken(j)
              \/ RecvDone(j) \/ RecvFailed(j))
      BY <2>1 DEF Claim, HangUp, ReadHead, ReadFail, RecvToken, RecvDone, RecvFailed
    <3> QED
      BY <2>3, <3>1, <3>2 DEF Serve
  <2> QED
    BY <1>2, <2>1, <2>2, <2>3 DEF Next, vars
<1>3. WorkerInv /\ [Next]_vars =>
        [refused' # refused =>
           MaxWaiting < Claims + Cardinality({i \in DOMAIN waiting : waiting[i] \in gone})]_vars
  BY <1>1, <1>2
<1> QED
  BY <1>3, WorkerInvariant, PTL DEF Spec, RefusedOnlyByDepartures
=============================================================================

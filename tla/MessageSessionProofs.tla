------------------------ MODULE MessageSessionProofs ------------------------
(* The message session is correct for any number of jobs, messages and failures.

   The inductive invariant follows a message from GitHub to the disk.  Numbered and
   InHand: messages are taken and deleted in the order of their numbers, so the one
   in hand is the first one queued until it is deleted, and no request repeats a
   number.  Lifecycle and EndsLast: a job's start is never delivered after its end was
   deleted.  Index: every patch merges.  SavedFirst and Remembered: the disk and the
   active-job map have what was deleted and what is about to be. *)
EXTENDS MessageSession, TLAPS

\* Zenon proves most leaves; a leaf that needs arithmetic or case splits cites SMT.
USE Zenon

\* The events of a job, the messages that carry them and the life of a job.
Ends     == {"completed", "anonymous"}
Events   == [kind : {"available", "started"} \cup Ends, job : Jobs]
Lives    == {"new", "offered", "acquired", "running", "done"}
Counts   == {0} \cup {Assigned(s) : s \in [Jobs -> Lives]}
Messages == [id : Nat, events : SUBSET Events, stats : Counts]

Typed ==
    /\ scaleSets \subseteq [id : Nat, named : BOOLEAN, good : BOOLEAN]
    /\ queue \in Seq(Messages) /\ state \in [Jobs -> Lives]
    /\ sent \in Nat /\ created \in Nat /\ opened \in Nat
    /\ target \in [set : Nat, session : Nat, stats : Counts, last : Nat]
    /\ pc \in {"idle", "validate", "persist", "acknowledge", "acquire"}
    /\ current \in Messages /\ (pc = "idle" => current = NoMessage)
    /\ active \subseteq Jobs /\ acked \subseteq Events /\ ackedHere \subseteq acked
    /\ requests \in Seq(Nat)

(* Messages are numbered in the order they are sent, and everything that was deleted or
   requested has a smaller number than what is still queued. *)
Numbered ==
    /\ target.last <= sent
    /\ \A i \in DOMAIN queue : target.last < queue[i].id /\ queue[i].id <= sent
    /\ \A i, k \in DOMAIN queue : i < k => queue[i].id < queue[k].id
    /\ \A a \in DOMAIN requests :
          requests[a] <= sent /\ \A i \in DOMAIN queue : requests[a] < queue[i].id
    /\ \A a, b \in DOMAIN requests : a < b => requests[a] < requests[b]

(* The message in hand is the first one queued, until it is deleted. *)
InHand ==
    /\ pc # "idle" => /\ 0 < current.id /\ current.id <= sent
                      /\ \A a \in DOMAIN requests : requests[a] < current.id
    /\ pc \in {"validate", "persist", "acknowledge"} =>
          \A i \in DOMAIN queue :
             /\ current.id <= queue[i].id
             /\ queue[i].id = current.id => queue[i].events = current.events
    /\ pc = "acquire" => \A i \in DOMAIN queue : current.id < queue[i].id

\* An event that is queued, in hand or deleted.
Somewhere(e) ==
    e \in acked \/ e \in current.events \/ \E i \in DOMAIN queue : e \in queue[i].events

(* GitHub reports a start only of a job that runs or ran, and an end only of one that
   is over. *)
Lifecycle ==
    \A j \in Jobs :
       /\ state[j] \notin {"running", "done"} => ~Somewhere(Event("started", j))
       /\ state[j] # "done" => \A kind \in Ends : ~Somewhere(Event(kind, j))

(* A start is never taken after the end of its job. *)
EndsLast ==
    \A j \in Jobs, kind \in Ends :
       /\ Event(kind, j) \in acked =>
             /\ \A i \in DOMAIN queue : Event("started", j) \notin queue[i].events
             /\ pc \in {"validate", "persist"} => Event("started", j) \notin current.events
       /\ \A i, k \in DOMAIN queue :
             i < k /\ Event(kind, j) \in queue[i].events =>
                Event("started", j) \notin queue[k].events

(* A record carries its own job, no tombstone and the one result there is, so that
   every later patch merges. *)
Ended == CHOOSE x \in Results : TRUE

Filed(record, j) ==
    record.job \in {None, j} /\ record.tomb = 0 /\ record.result \in {None, Ended}

Index == DOMAIN disk \subseteq Jobs /\ \A j \in DOMAIN disk : Filed(disk[j], j)

\* What the index says of a job.
HasStarted(j)   == j \in DOMAIN disk /\ disk[j].job = j /\ disk[j].started # 0
HasCompleted(j) == j \in DOMAIN disk /\ disk[j].completed # 0

OnDisk(e) == /\ e.kind = "started" => HasStarted(e.job)
             /\ e.kind = "completed" => HasCompleted(e.job)

(* What was deleted, and what is about to be, is on disk. *)
SavedFirst == /\ \A e \in acked : OnDisk(e)
              /\ pc = "acknowledge" => \A e \in current.events : OnDisk(e)

(* The active-job map follows what was deleted, and what is about to be. *)
Follows(events) ==
    \A j \in Jobs :
       /\ Event("started", j) \in events => j \in active \/ HasCompleted(j)
       /\ \A kind \in Ends : Event(kind, j) \in events => j \notin active

Remembered == /\ Follows(ackedHere)
              /\ pc = "persist" => ValidBatch
              /\ pc = "acknowledge" => Follows(current.events)

(* At most one scale set has the configured name. *)
OneNamed == \A s, t \in scaleSets : s.named /\ t.named => s = t

Rest == Numbered /\ InHand /\ Lifecycle /\ EndsLast /\ Index /\ SavedFirst /\ Remembered

IInv == Typed /\ Rest /\ OneNamed

-----------------------------------------------------------------------------
(* A sequence is indexed from 1 to its length. *)
LEMMA SeqElements ==
  ASSUME NEW S, NEW q \in Seq(S)
  PROVE  /\ Len(q) \in Nat /\ DOMAIN q = 1..Len(q) /\ DOMAIN q \subseteq Nat
         /\ \A i \in DOMAIN q : q[i] \in S
BY SMT

(* A queue that GitHub drops with its scale set is empty. *)
LEMMA SeqEmpty == \A S : <<>> \in Seq(S) /\ DOMAIN <<>> = {}
BY SMT

(* A new message goes behind the others. *)
LEMMA SeqAppend ==
  ASSUME NEW S, NEW q \in Seq(S), NEW m \in S
  PROVE  /\ Append(q, m) \in Seq(S) /\ DOMAIN Append(q, m) = 1..(Len(q) + 1)
         /\ \A i \in 1..Len(q) : Append(q, m)[i] = q[i]
         /\ Append(q, m)[Len(q) + 1] = m
BY SMT

(* One message of a queue may change in place. *)
LEMMA SeqExcept ==
  ASSUME NEW S, NEW q \in Seq(S), NEW n \in 1..Len(q), NEW m \in S
  PROVE  /\ [q EXCEPT ![n] = m] \in Seq(S) /\ DOMAIN [q EXCEPT ![n] = m] = DOMAIN q
         /\ [q EXCEPT ![n] = m][n] = m
         /\ \A i \in DOMAIN q : i # n => [q EXCEPT ![n] = m][i] = q[i]
BY SMT

(* Numbers of messages and requests are naturals. *)
LEMMA Numbers ==
  ASSUME Typed
  PROVE  /\ sent \in Nat /\ target.last \in Nat
         /\ current.id \in Nat /\ current.stats \in Counts /\ current.events \subseteq Events
         /\ queue \in Seq(Messages) /\ DOMAIN queue \subseteq Nat
         /\ \A i \in DOMAIN queue : queue[i] \in Messages /\ queue[i].id \in Nat
         /\ requests \in Seq(Nat) /\ DOMAIN requests \subseteq Nat
         /\ \A a \in DOMAIN requests : requests[a] \in Nat
<1>1. \A m \in Messages : m.id \in Nat /\ m.stats \in Counts /\ m.events \subseteq Events
  BY DEF Messages
<1>2. queue \in Seq(Messages) /\ requests \in Seq(Nat) BY DEF Typed
<1>3. DOMAIN queue \subseteq Nat /\ \A i \in DOMAIN queue : queue[i] \in Messages
  BY <1>2, SeqElements
<1>4. DOMAIN requests \subseteq Nat /\ \A a \in DOMAIN requests : requests[a] \in Nat
  BY <1>2, SeqElements
<1> QED BY <1>1, <1>2, <1>3, <1>4 DEF Typed

(* Of: the jobs of one kind of event in the message in hand. *)
LEMMA OfMember ==
  ASSUME Typed, NEW kind
  PROVE  /\ Of(kind) \subseteq Jobs
         /\ \A j \in Jobs : j \in Of(kind) <=> Event(kind, j) \in current.events
<1>1. current.events \subseteq Events BY DEF Typed, Messages
<1>2. ASSUME NEW e \in current.events, e.kind = kind PROVE e.job \in Jobs /\ e = Event(kind, e.job)
  BY <1>1, <1>2 DEF Events, Event
<1>3. \A j : Event(kind, j).kind = kind /\ Event(kind, j).job = j BY DEF Event
<1> QED BY <1>2, <1>3 DEF Of

(* No message and no target. *)
LEMMA Blanks ==
  /\ NoMessage \in Messages /\ NoMessage.id = 0 /\ NoMessage.events = {}
  /\ NoTarget \in [set : Nat, session : Nat, stats : Counts, last : Nat] /\ NoTarget.last = 0
BY DEF NoMessage, NoTarget, Messages, Counts

(* An event is known by its kind and its job. *)
LEMMA EventKinds ==
  /\ \A kind \in {"available", "started"} \cup Ends, j \in Jobs : Event(kind, j) \in Events
  /\ \A k, m, j, i : Event(k, j) = Event(m, i) => k = m /\ j = i
<1>1. \A kind \in {"available", "started"} \cup Ends, j \in Jobs : Event(kind, j) \in Events
  BY DEF Events, Event
<1>2. \A k, j : Event(k, j).kind = k /\ Event(k, j).job = j BY DEF Event
<1> QED BY SMT, <1>1, <1>2

(* A target that was never ensured, with nothing sent or deleted, satisfies the invariant. *)
LEMMA InitInv == Init => IInv
<1> SUFFICES ASSUME NEW over \in SUBSET Jobs, NEW messages \in Nat, NEW failures \in Nat,
                    NEW changes \in BOOLEAN, InitWith(over, messages, failures, changes)
             PROVE  IInv
  BY DEF Init
<1>1. /\ queue = <<>> /\ requests = <<>> /\ scaleSets = {} /\ target = NoTarget
      /\ pc = "idle" /\ current = NoMessage /\ active = {} /\ disk = <<>>
      /\ acked = {} /\ ackedHere = {} /\ sent = messages /\ created = 0 /\ opened = 0
      /\ state = [j \in Jobs |-> IF j \in over THEN "done" ELSE "new"]
  BY DEF InitWith
<1>2. DOMAIN queue = {} /\ DOMAIN requests = {} /\ DOMAIN disk = {}
  BY SMT, <1>1
<1>3. Typed BY <1>1, Blanks, SeqEmpty DEF Typed, Lives
<1>4. Numbered /\ InHand BY SMT, <1>1, <1>2 DEF Numbered, InHand, NoTarget
<1>5. Lifecycle /\ EndsLast BY <1>1, <1>2, Blanks DEF Lifecycle, EndsLast, Somewhere
<1>6. Index /\ SavedFirst /\ Remembered /\ OneNamed
  BY <1>1, <1>2 DEF Index, SavedFirst, Remembered, Follows, OneNamed
<1> QED BY <1>3, <1>4, <1>5, <1>6 DEF IInv, Rest

-----------------------------------------------------------------------------
\* i is the last message of the queue after the step.
Newest(i) == \A k \in DOMAIN queue' : k <= i

(* An event goes into the last message, if that one is not in hand, or into a new one with
   the next number; the rest of the queue stays. *)
LEMMA EmitShape ==
  ASSUME Typed, NEW e \in Events, NEW s \in [Jobs -> Lives], Emit(e, s)
  PROVE  /\ queue' \in Seq(Messages) /\ state' = s /\ sent' \in Nat /\ sent <= sent'
         /\ \A i \in DOMAIN queue' :
              \/ /\ i \in DOMAIN queue /\ queue'[i].id = queue[i].id
                 /\ queue'[i].events = queue[i].events
              \/ /\ i \in DOMAIN queue /\ queue'[i].id = queue[i].id
                 /\ queue[i].id # current.id /\ Newest(i)
                 /\ queue'[i].events = queue[i].events \cup {e}
              \/ /\ i \notin DOMAIN queue /\ Newest(i)
                 /\ queue'[i].id = sent + 1 /\ sent' = sent + 1 /\ queue'[i].events = {e}
         /\ scaleSets' = scaleSets /\ created' = created /\ opened' = opened
         /\ target' = target /\ pc' = pc /\ current' = current /\ active' = active
         /\ disk' = disk /\ acked' = acked /\ ackedHere' = ackedHere /\ requests' = requests
<1>0. queue \in Seq(Messages) /\ sent \in Nat /\ Assigned(s) \in Counts
  BY DEF Typed, Counts
<1>1. /\ state' = s
      /\ scaleSets' = scaleSets /\ created' = created /\ opened' = opened
      /\ target' = target /\ pc' = pc /\ current' = current /\ active' = active
      /\ disk' = disk /\ acked' = acked /\ ackedHere' = ackedHere /\ requests' = requests
  BY DEF Emit, processVars, history
<1>2. ASSUME sent' = sent + 1,
             queue' = Append(queue, [id |-> sent + 1, events |-> {e}, stats |-> Assigned(s)])
      PROVE  /\ queue' \in Seq(Messages) /\ sent' \in Nat /\ sent <= sent'
             /\ \A i \in DOMAIN queue' :
                  \/ /\ i \in DOMAIN queue /\ queue'[i].id = queue[i].id
                     /\ queue'[i].events = queue[i].events
                  \/ /\ i \notin DOMAIN queue /\ Newest(i)
                     /\ queue'[i].id = sent + 1 /\ sent' = sent + 1 /\ queue'[i].events = {e}
  <2> DEFINE m == [id |-> sent + 1, events |-> {e}, stats |-> Assigned(s)]
  <2>1. m \in Messages /\ m.id = sent + 1 /\ m.events = {e} BY SMT, <1>0 DEF Messages
  <2>3. queue' = Append(queue, m) BY <1>2
  <2> HIDE DEF m
  <2>2. /\ queue' \in Seq(Messages) /\ DOMAIN queue' = 1..(Len(queue) + 1)
        /\ DOMAIN queue = 1..Len(queue) /\ Len(queue) \in Nat
        /\ \A i \in 1..Len(queue) : queue'[i] = queue[i]
        /\ queue'[Len(queue) + 1] = m
    <3>1. DOMAIN queue = 1..Len(queue) /\ Len(queue) \in Nat BY <1>0, SeqElements
    <3>2. /\ Append(queue, m) \in Seq(Messages)
          /\ DOMAIN Append(queue, m) = 1..(Len(queue) + 1)
          /\ \A i \in 1..Len(queue) : Append(queue, m)[i] = queue[i]
          /\ Append(queue, m)[Len(queue) + 1] = m
      BY SMT, <1>0, <2>1, SeqAppend
    <3> QED BY <2>3, <3>1, <3>2
  <2> QED BY SMT, <1>0, <1>2, <2>1, <2>2 DEF Newest
<1>3. ASSUME queue # <<>>, queue[Len(queue)].id # current.id, sent' = sent,
             queue' = [queue EXCEPT ![Len(queue)].events = @ \cup {e},
                                    ![Len(queue)].stats = Assigned(s)]
      PROVE  /\ queue' \in Seq(Messages)
             /\ \A i \in DOMAIN queue' :
                  \/ /\ i \in DOMAIN queue /\ queue'[i].id = queue[i].id
                     /\ queue'[i].events = queue[i].events
                  \/ /\ i \in DOMAIN queue /\ queue'[i].id = queue[i].id
                     /\ queue[i].id # current.id /\ Newest(i)
                     /\ queue'[i].events = queue[i].events \cup {e}
  <2> DEFINE n == Len(queue)
             m == [queue[n] EXCEPT !.events = @ \cup {e}, !.stats = Assigned(s)]
  <2>1. /\ n \in Nat /\ n \in 1..Len(queue) /\ n \in DOMAIN queue /\ DOMAIN queue = 1..n
        /\ queue[n] \in Messages
    BY SMT, <1>0, <1>3
  <2>2. m \in Messages /\ m.id = queue[n].id /\ m.events = queue[n].events \cup {e}
    BY <1>0, <2>1 DEF Messages
  <2>3. queue' = [queue EXCEPT ![n] = m] BY <1>3, <2>1 DEF Messages
  <2>4. queue[n].id # current.id BY <1>3
  <2> HIDE DEF m
  <2>5. /\ queue' \in Seq(Messages) /\ DOMAIN queue' = 1..n /\ queue'[n] = m
        /\ \A i \in 1..n : i # n => queue'[i] = queue[i]
    BY <1>0, <2>1, <2>2, <2>3, SeqExcept
  <2> HIDE DEF n
  <2>6. \A k \in 1..n : k <= n BY SMT, <2>1
  <2>7. Newest(n) BY <2>5, <2>6 DEF Newest
  <2> QED BY <2>1, <2>2, <2>4, <2>5, <2>7
<1>4. \/ /\ sent' = sent + 1
         /\ queue' = Append(queue, [id |-> sent + 1, events |-> {e}, stats |-> Assigned(s)])
      \/ /\ queue # <<>> /\ queue[Len(queue)].id # current.id /\ sent' = sent
         /\ queue' = [queue EXCEPT ![Len(queue)].events = @ \cup {e},
                                    ![Len(queue)].stats = Assigned(s)]
  BY DEF Emit
<1>5. CASE sent' = sent + 1
           /\ queue' = Append(queue, [id |-> sent + 1, events |-> {e}, stats |-> Assigned(s)])
  BY <1>1, <1>2, <1>5
<1>6. CASE /\ queue # <<>> /\ queue[Len(queue)].id # current.id /\ sent' = sent
           /\ queue' = [queue EXCEPT ![Len(queue)].events = @ \cup {e},
                                    ![Len(queue)].stats = Assigned(s)]
  <2>1. sent' \in Nat /\ sent <= sent' BY SMT, <1>0, <1>6
  <2> QED BY <1>1, <1>3, <1>6, <2>1
<1> QED BY <1>4, <1>5, <1>6

(* An event keeps the invariant if it fits the life of its job: a start only of a job that
   is not over, and an end only with the job over. *)
LEMMA EmitInv ==
  ASSUME IInv, NEW e \in Events, NEW s \in [Jobs -> Lives], Emit(e, s),
         \A j \in Jobs : s[j] \notin {"running", "done"} =>
            state[j] \notin {"running", "done"} /\ e # Event("started", j),
         \A j \in Jobs : s[j] # "done" =>
            state[j] # "done" /\ \A kind \in Ends : e # Event(kind, j),
         \A j \in Jobs : e = Event("started", j) => state[j] # "done"
  PROVE  IInv'
<1>0. Typed /\ Numbered /\ InHand /\ Lifecycle /\ EndsLast /\ Index /\ SavedFirst /\ Remembered
      /\ OneNamed
  BY DEF IInv, Rest
<1>1. /\ queue' \in Seq(Messages) /\ state' = s /\ sent' \in Nat /\ sent <= sent'
      /\ scaleSets' = scaleSets /\ created' = created /\ opened' = opened
      /\ target' = target /\ pc' = pc /\ current' = current /\ active' = active
      /\ disk' = disk /\ acked' = acked /\ ackedHere' = ackedHere /\ requests' = requests
  BY <1>0, EmitShape
<1>2. \A i \in DOMAIN queue' :
        \/ /\ i \in DOMAIN queue /\ queue'[i].id = queue[i].id
           /\ queue'[i].events = queue[i].events
        \/ /\ i \in DOMAIN queue /\ queue'[i].id = queue[i].id
           /\ queue[i].id # current.id /\ Newest(i)
           /\ queue'[i].events = queue[i].events \cup {e}
        \/ /\ i \notin DOMAIN queue /\ Newest(i)
           /\ queue'[i].id = sent + 1 /\ sent' = sent + 1 /\ queue'[i].events = {e}
  BY <1>0, EmitShape
<1>3. Typed' BY <1>0, <1>1 DEF Typed
<1>4. /\ sent \in Nat /\ target.last \in Nat /\ current.id \in Nat
      /\ DOMAIN queue \subseteq Nat /\ DOMAIN queue' \subseteq Nat
      /\ \A i \in DOMAIN queue : queue[i].id \in Nat
      /\ \A a \in DOMAIN requests : requests[a] \in Nat
  BY <1>0, <1>1, Numbers, SeqElements
<1>5. Numbered'
  <2>1. ASSUME NEW i \in DOMAIN queue'
        PROVE  target.last < queue'[i].id /\ queue'[i].id <= sent'
    <3>1. CASE i \in DOMAIN queue /\ queue'[i].id = queue[i].id
      <4>1. target.last < queue[i].id /\ queue[i].id <= sent /\ queue[i].id \in Nat
        BY <1>0, <1>4, <3>1 DEF Numbered
      <4>2. sent \in Nat /\ sent' \in Nat /\ sent <= sent' BY <1>1, <1>4
      <4> QED BY SMT, <3>1, <4>1, <4>2
    <3>2. CASE queue'[i].id = sent + 1 /\ sent' = sent + 1
      <4>1. target.last <= sent /\ target.last \in Nat /\ sent \in Nat
        BY <1>0, <1>4 DEF Numbered
      <4> QED BY SMT, <3>2, <4>1
    <3> QED BY <1>2, <3>1, <3>2
  <2>2. \A i, k \in DOMAIN queue' : i < k => queue'[i].id < queue'[k].id
    BY SMT, <1>0, <1>2, <1>4 DEF Numbered, Newest
  <2>3. \A a \in DOMAIN requests :
           requests[a] <= sent' /\ \A i \in DOMAIN queue' : requests[a] < queue'[i].id
    BY SMT, <1>0, <1>1, <1>2, <1>4 DEF Numbered
  <2> QED BY SMT, <1>0, <1>1, <1>4, <2>1, <2>2, <2>3 DEF Numbered
<1>6. InHand'
  <2>1. pc # "idle" => current.id <= sent' BY SMT, <1>0, <1>1, <1>4 DEF InHand
  <2>2. pc \in {"validate", "persist", "acknowledge"} =>
          \A i \in DOMAIN queue' :
             /\ current.id <= queue'[i].id
             /\ queue'[i].id = current.id => queue'[i].events = current.events
    BY SMT, <1>0, <1>1, <1>2, <1>4 DEF InHand
  <2>3. pc = "acquire" => \A i \in DOMAIN queue' : current.id < queue'[i].id
    BY SMT, <1>0, <1>1, <1>2, <1>4 DEF InHand
  <2> QED BY <1>0, <1>1, <2>1, <2>2, <2>3 DEF InHand
<1>7. ASSUME NEW f, f # e, Somewhere(f)' PROVE Somewhere(f)
  BY SMT, <1>1, <1>2, <1>7 DEF Somewhere
<1>8. Lifecycle' BY <1>0, <1>1, <1>7 DEF Lifecycle
<1>9. EndsLast'
  <2> SUFFICES ASSUME NEW j \in Jobs, NEW kind \in Ends
               PROVE  /\ Event(kind, j) \in acked =>
                          \A i \in DOMAIN queue' : Event("started", j) \notin queue'[i].events
                      /\ \A i, k \in DOMAIN queue' :
                            i < k /\ Event(kind, j) \in queue'[i].events =>
                               Event("started", j) \notin queue'[k].events
    BY <1>0, <1>1 DEF EndsLast
  <2>1. e = Event("started", j) => ~Somewhere(Event(kind, j)) BY <1>0 DEF Lifecycle
  <2>2. ASSUME Event(kind, j) \in acked, NEW i \in DOMAIN queue'
        PROVE  Event("started", j) \notin queue'[i].events
    BY <1>0, <1>2, <2>1, <2>2 DEF EndsLast, Somewhere
  <2>3. ASSUME NEW i \in DOMAIN queue', NEW k \in DOMAIN queue', i < k,
               Event(kind, j) \in queue'[i].events
        PROVE  Event("started", j) \notin queue'[k].events
    <3>1. i \in DOMAIN queue /\ queue'[i].events = queue[i].events
      BY SMT, <1>2, <1>4, <2>3 DEF Newest
    <3>2. e # Event("started", j) BY <2>1, <2>3, <3>1 DEF Somewhere
    <3> QED BY ZenonT(60), <1>0, <1>2, <2>3, <3>1, <3>2 DEF EndsLast
  <2> QED BY <2>2, <2>3
<1>10. Index' /\ SavedFirst' /\ Remembered' /\ OneNamed'
  BY <1>0, <1>1 DEF Index, SavedFirst, OnDisk, HasStarted, HasCompleted, Remembered, Follows,
                    ValidBatch, Of, OneNamed
<1> QED BY <1>3, <1>5, <1>6, <1>8, <1>9, <1>10 DEF IInv, Rest

(* The events of GitHub fit the life of their jobs. *)
LEMMA EmitSteps ==
  ASSUME IInv, NEW j \in Jobs, Offer(j) \/ Assign(j) \/ Complete(j) \/ Cancel(j)
  PROVE  IInv'
<1>0. state \in [Jobs -> Lives] BY DEF IInv, Typed
<1>1. CASE Offer(j)
  <2> DEFINE s == [state EXCEPT ![j] = "offered"]
             e == Event("available", j)
  <2>1. s \in [Jobs -> Lives] /\ s[j] = "offered" /\ \A i \in Jobs : i # j => s[i] = state[i]
    BY <1>0 DEF Lives
  <2>2. e \in Events /\ \A kind, i : e = Event(kind, i) => kind = "available" /\ i = j
    BY EventKinds
  <2>3. Emit(e, s) /\ state[j] \notin {"running", "done"} BY <1>1 DEF Offer
  <2> HIDE DEF s, e
  <2>4. \A i \in Jobs : s[i] \notin {"running", "done"} =>
           state[i] \notin {"running", "done"} /\ e # Event("started", i)
    BY SMT, <2>1, <2>2, <2>3
  <2>5. \A i \in Jobs : s[i] # "done" =>
           state[i] # "done" /\ \A kind \in Ends : e # Event(kind, i)
    BY <2>1, <2>2, <2>3 DEF Ends
  <2>6. \A i \in Jobs : e = Event("started", i) => state[i] # "done" BY <2>2, <2>3
  <2> QED BY <2>1, <2>2, <2>3, <2>4, <2>5, <2>6, EmitInv
<1>2. CASE Assign(j)
  <2> DEFINE s == [state EXCEPT ![j] = "running"]
             e == Event("started", j)
  <2>1. s \in [Jobs -> Lives] /\ s[j] = "running" /\ \A i \in Jobs : i # j => s[i] = state[i]
    BY <1>0 DEF Lives
  <2>2. e \in Events /\ \A kind, i : e = Event(kind, i) => kind = "started" /\ i = j
    BY EventKinds
  <2>3. Emit(e, s) /\ state[j] \notin {"running", "done"} BY <1>2 DEF Assign
  <2> HIDE DEF s, e
  <2>4. \A i \in Jobs : s[i] \notin {"running", "done"} =>
           state[i] \notin {"running", "done"} /\ e # Event("started", i)
    BY <2>1, <2>2, <2>3
  <2>5. \A i \in Jobs : s[i] # "done" =>
           state[i] # "done" /\ \A kind \in Ends : e # Event(kind, i)
    BY <2>1, <2>2, <2>3 DEF Ends
  <2>6. \A i \in Jobs : e = Event("started", i) => state[i] # "done" BY <2>2, <2>3
  <2> QED BY <2>1, <2>2, <2>3, <2>4, <2>5, <2>6, EmitInv
<1>3. ASSUME NEW kind \in Ends, state[j] # "done",
             Emit(Event(kind, j), [state EXCEPT ![j] = "done"])
      PROVE  IInv'
  <2> DEFINE s == [state EXCEPT ![j] = "done"]
             e == Event(kind, j)
  <2>1. s \in [Jobs -> Lives] /\ s[j] = "done" /\ \A i \in Jobs : i # j => s[i] = state[i]
    BY <1>0 DEF Lives
  <2>2. e \in Events /\ \A k, i : e = Event(k, i) => k = kind /\ i = j
    BY EventKinds
  <2>3. Emit(e, s) BY <1>3
  <2> HIDE DEF s, e
  <2>4. \A i \in Jobs : s[i] \notin {"running", "done"} =>
           state[i] \notin {"running", "done"} /\ e # Event("started", i)
    BY <2>1, <2>2
  <2>5. \A i \in Jobs : s[i] # "done" =>
           state[i] # "done" /\ \A k \in Ends : e # Event(k, i)
    BY <2>1, <2>2
  <2>6. \A i \in Jobs : e = Event("started", i) => state[i] # "done" BY <1>3, <2>2 DEF Ends
  <2> QED BY <2>1, <2>2, <2>3, <2>4, <2>5, <2>6, EmitInv
<1>4. CASE Complete(j) BY <1>3, <1>4 DEF Complete, Ends
<1>5. CASE Cancel(j) BY <1>3, <1>5 DEF Cancel, Ends
<1> QED BY <1>1, <1>2, <1>4, <1>5

-----------------------------------------------------------------------------
(* A step that leaves Statistics alone keeps the invariant: the queue stays or is emptied,
   and the session stays or starts over. *)
LEMMA Withdrawn ==
  ASSUME Typed, Rest, queue' \in {queue, <<>>},
         target' \in [set : Nat, session : Nat, stats : Counts, last : Nat],
         target'.last \in {target.last, 0},
         scaleSets' \subseteq [id : Nat, named : BOOLEAN, good : BOOLEAN],
         created' \in Nat, opened' \in Nat,
         state' = state, sent' = sent, pc' = pc, current' = current, active' = active,
         disk' = disk, acked' = acked, ackedHere' = ackedHere, requests' = requests
  PROVE  Typed' /\ Rest'
<1>0. Numbered /\ InHand /\ Lifecycle /\ EndsLast /\ Index /\ SavedFirst /\ Remembered
  BY DEF Rest
<1>1. queue' \in Seq(Messages) /\ DOMAIN queue' \subseteq DOMAIN queue
      /\ \A i \in DOMAIN queue' : queue'[i] = queue[i]
  <2>1. CASE queue' = queue BY <2>1 DEF Typed
  <2>2. CASE queue' = <<>> BY <2>2, SeqEmpty
  <2> QED BY <2>1, <2>2
<1>2. Typed' BY <1>1 DEF Typed
<1>3. sent \in Nat /\ target.last \in Nat /\ \A i \in DOMAIN queue : queue[i].id \in Nat
  BY Numbers
<1>4. Numbered'
  <2>1. target'.last \in Nat /\ target'.last <= target.last BY SMT, <1>3
  <2>2. target.last <= sent BY <1>0 DEF Numbered
  <2>3. target'.last <= sent BY SMT, <1>3, <2>1, <2>2
  <2>4. ASSUME NEW i \in DOMAIN queue'
        PROVE  target'.last < queue'[i].id /\ queue'[i].id <= sent
    <3>1. /\ queue'[i].id = queue[i].id /\ queue[i].id \in Nat
          /\ target.last < queue[i].id /\ queue[i].id <= sent
      BY <1>0, <1>1, <1>3 DEF Numbered
    <3> QED BY SMT, <1>3, <2>1, <3>1
  <2> QED BY <1>0, <1>1, <2>3, <2>4 DEF Numbered
<1>5. InHand' BY <1>0, <1>1 DEF InHand
<1>6. Lifecycle' BY <1>0, <1>1 DEF Lifecycle, Somewhere
<1>7. EndsLast' BY <1>0, <1>1 DEF EndsLast
<1>8. Index' /\ SavedFirst' /\ Remembered'
  BY <1>0 DEF Index, SavedFirst, OnDisk, HasStarted, HasCompleted, Remembered, Follows,
              ValidBatch, Of
<1> QED BY <1>2, <1>4, <1>5, <1>6, <1>7, <1>8 DEF Rest

(* Ensure, in every way it may fail: what carries the name afterwards is the scale set that
   was found, or a new one if none had the name. *)
LEMMA EnsureSteps ==
  ASSUME IInv, EnsureFrame, NEW done \in {"set", "closed", "all"}, NEW previous,
         NEW answered \in BOOLEAN, EnsureUpTo(done, previous, answered)
  PROVE  IInv'
<1>0. Typed /\ Rest /\ OneNamed BY DEF IInv
<1> DEFINE found == Resolved(previous, answered)
           chosen == CHOOSE s \in found : TRUE
           id == IF found = {} THEN created + 1 ELSE chosen.id
           new == [id |-> id, named |-> TRUE, good |-> TRUE]
<1>1. /\ \A s \in found : s.named
      /\ scaleSets' = {s \in scaleSets : s.id # id} \cup {new}
      /\ created' \in {created, created + 1}
  BY DEF EnsureUpTo
<1>2. \/ target' = target /\ opened' = opened
      \/ /\ opened' = opened + 1
         /\ target' = [set |-> id, session |-> opened + 1, stats |-> Assigned(state), last |-> 0]
      \/ target' = [target EXCEPT !.set = id] /\ opened' = opened
  BY DEF EnsureUpTo
<1>3. found \subseteq scaleSets BY DEF Resolved, Named
<1>4. found # {} => chosen \in found OBVIOUS
<1>5. id \in Nat /\ created \in Nat /\ opened \in Nat BY SMT, <1>0, <1>3, <1>4 DEF Typed
<1>6. new \in [id : Nat, named : BOOLEAN, good : BOOLEAN] BY <1>5
<1>7. scaleSets' \subseteq [id : Nat, named : BOOLEAN, good : BOOLEAN]
  BY <1>0, <1>1, <1>6 DEF Typed
<1>8. \A s \in scaleSets : s.named => s.id = id
  <2>1. CASE found = {} BY <1>3, <2>1 DEF Resolved, Named
  <2>2. CASE found # {}
    <3>1. chosen \in scaleSets /\ chosen.named BY <1>1, <1>3, <1>4, <2>2
    <3> QED BY <1>0, <2>2, <3>1 DEF OneNamed
  <2> QED BY <2>1, <2>2
<1> HIDE DEF new, id, chosen, found
<1>9. OneNamed' BY <1>1, <1>8 DEF OneNamed
<1>10. /\ target' \in [set : Nat, session : Nat, stats : Counts, last : Nat]
       /\ target'.last \in {target.last, 0} /\ opened' \in Nat /\ created' \in Nat
  <2>0. target \in [set : Nat, session : Nat, stats : Counts, last : Nat] BY <1>0 DEF Typed
  <2>1. opened' \in Nat /\ created' \in Nat /\ opened + 1 \in Nat /\ 0 \in Nat
    BY SMT, <1>1, <1>2, <1>5
  <2>2. Assigned(state) \in Counts BY <1>0 DEF Typed, Counts
  <2>3. CASE target' = target BY <2>0, <2>1, <2>3
  <2>4. CASE target' = [set |-> id, session |-> opened + 1, stats |-> Assigned(state), last |-> 0]
    BY <1>5, <2>1, <2>2, <2>4
  <2>5. CASE target' = [target EXCEPT !.set = id] BY <1>5, <2>0, <2>1, <2>5
  <2> QED BY <1>2, <2>1, <2>3, <2>4, <2>5
<1>11. Typed' /\ Rest'
  BY <1>0, <1>7, <1>10, Withdrawn DEF EnsureFrame, history
<1> QED BY <1>9, <1>11 DEF IInv

(* Others delete or change the scale set, and GitHub ends the session. *)
LEMMA OutsideSteps ==
  ASSUME IInv, Interfere \/ SessionExpires \/ DeleteScaleSet \/ UNCHANGED vars
  PROVE  IInv'
<1>0. Typed /\ Rest /\ OneNamed BY DEF IInv
<1>1. /\ queue' \in {queue, <<>>} /\ target' = target /\ created' = created /\ opened' = opened
      /\ state' = state /\ sent' = sent /\ pc' = pc /\ current' = current /\ active' = active
      /\ disk' = disk /\ acked' = acked /\ ackedHere' = ackedHere /\ requests' = requests
  BY DEF Interfere, SessionExpires, DeleteScaleSet, vars, serverVars, processVars, history
<1> DEFINE Sets == [id : Nat, named : BOOLEAN, good : BOOLEAN]
<1>2. scaleSets \subseteq Sets BY <1>0 DEF Typed
<1>3. scaleSets' \subseteq Sets /\ OneNamed'
  <2>1. CASE Interfere
    <3>1. PICK s \in scaleSets :
            \/ scaleSets' = scaleSets \ {s}
            \/ scaleSets' = (scaleSets \ {s}) \cup {[s EXCEPT !.good = FALSE]}
            \/ scaleSets' = (scaleSets \ {s}) \cup {[s EXCEPT !.named = FALSE]}
      BY <2>1 DEF Interfere
    <3>2. /\ [s EXCEPT !.good = FALSE] \in Sets /\ [s EXCEPT !.good = FALSE].named = s.named
          /\ [s EXCEPT !.named = FALSE] \in Sets /\ [s EXCEPT !.named = FALSE].named = FALSE
      BY <1>2
    <3>3. scaleSets' \subseteq Sets BY <1>2, <3>1, <3>2
    <3>4. OneNamed' BY <1>0, <3>1, <3>2 DEF OneNamed
    <3> QED BY <3>3, <3>4
  <2>2. CASE scaleSets' \subseteq scaleSets BY <1>0, <1>2, <2>2 DEF OneNamed
  <2> QED BY <2>1, <2>2 DEF SessionExpires, DeleteScaleSet, vars, serverVars
<1>4. Typed' /\ Rest' BY <1>0, <1>1, <1>3, Withdrawn DEF Typed
<1> QED BY <1>3, <1>4 DEF IInv

(* The process ends: what it knew is gone, and GitHub and the disk stay. *)
LEMMA ResetSteps ==
  ASSUME IInv, Crash \/ Close
  PROVE  IInv'
<1>0. Typed /\ Numbered /\ InHand /\ Lifecycle /\ EndsLast /\ Index /\ SavedFirst /\ Remembered
      /\ OneNamed
  BY DEF IInv, Rest
<1>1. /\ pc' = "idle" /\ current' = NoMessage /\ target' = NoTarget /\ active' = {}
      /\ ackedHere' = {} /\ scaleSets' = scaleSets /\ created' = created /\ opened' = opened
      /\ queue' = queue /\ state' = state /\ sent' = sent /\ disk' = disk /\ acked' = acked
      /\ requests' = requests
  BY <1>0 DEF Crash, Close, Drop, serverVars, Typed
<1>2. NoTarget.last = 0 BY Blanks
<1>3. Typed' BY <1>0, <1>1, <1>2, Blanks DEF Typed
<1>4. sent \in Nat /\ target.last \in Nat /\ \A i \in DOMAIN queue : queue[i].id \in Nat
  BY <1>0, Numbers
<1>5. Numbered' BY SMT, <1>0, <1>1, <1>2, <1>4 DEF Numbered
<1>6. InHand' BY <1>1 DEF InHand
<1>7. Lifecycle' BY <1>0, <1>1, Blanks DEF Lifecycle, Somewhere
<1>8. EndsLast' BY <1>0, <1>1 DEF EndsLast
<1>9. Index' /\ SavedFirst' /\ Remembered' /\ OneNamed'
  BY <1>0, <1>1 DEF Index, SavedFirst, OnDisk, HasStarted, HasCompleted, Remembered, Follows,
                    OneNamed
<1> QED BY ZenonT(60), <1>3, <1>5, <1>6, <1>7, <1>8, <1>9 DEF IInv, Rest

-----------------------------------------------------------------------------
(* GetMessage delivers the first message queued. *)
LEMMA FetchStep ==
  ASSUME IInv, Fetch
  PROVE  IInv'
<1>0. Typed /\ Numbered /\ InHand /\ Lifecycle /\ EndsLast /\ Index /\ SavedFirst /\ Remembered
      /\ OneNamed
  BY DEF IInv, Rest
<1>1. /\ pc = "idle" /\ pc' = "validate" /\ target' = target /\ active' = active
      /\ ackedHere' = ackedHere /\ scaleSets' = scaleSets /\ created' = created
      /\ opened' = opened /\ queue' = queue /\ state' = state /\ sent' = sent
      /\ disk' = disk /\ acked' = acked /\ requests' = requests
  BY DEF Fetch, serverVars, history
<1>2. PICK i \in DOMAIN queue :
        (\A k \in DOMAIN queue : queue[k].id > target.last => i <= k) /\ current' = queue[i]
  BY DEF Fetch, Waiting
<1>3. queue[i] \in Messages /\ DOMAIN queue \subseteq Nat /\ sent \in Nat /\ target.last \in Nat
      /\ \A k \in DOMAIN queue : queue[k].id \in Nat
  BY <1>0, Numbers
<1>4. \A k \in DOMAIN queue : i <= k BY <1>0, <1>2, <1>3 DEF Numbered
<1>5. Typed' BY <1>0, <1>1, <1>2, <1>3 DEF Typed
<1>6. Numbered' BY <1>0, <1>1 DEF Numbered
<1>7. InHand'
  <2>1. /\ 0 < queue[i].id /\ queue[i].id <= sent
        /\ \A a \in DOMAIN requests : requests[a] < queue[i].id
    BY SMT, <1>0, <1>3 DEF Numbered
  <2>2. \A k \in DOMAIN queue : /\ queue[i].id <= queue[k].id
                                /\ queue[k].id = queue[i].id => queue[k].events = queue[i].events
    BY SMT, <1>0, <1>3, <1>4 DEF Numbered
  <2> QED BY <1>1, <1>2, <2>1, <2>2 DEF InHand
<1>8. Lifecycle' BY <1>0, <1>1, <1>2 DEF Lifecycle, Somewhere
<1>9. EndsLast' BY <1>0, <1>1, <1>2 DEF EndsLast
<1>10. Index' /\ SavedFirst' /\ Remembered' /\ OneNamed'
  BY <1>0, <1>1 DEF Index, SavedFirst, OnDisk, HasStarted, HasCompleted, Remembered, Follows,
                    OneNamed
<1> QED BY ZenonT(60), <1>5, <1>6, <1>7, <1>8, <1>9, <1>10 DEF IInv, Rest

(* The batch is validated against the active-job map, or dropped. *)
LEMMA ValidateStep ==
  ASSUME IInv, ValidateBatch
  PROVE  IInv'
<1>0. Typed /\ Numbered /\ InHand /\ Lifecycle /\ EndsLast /\ Index /\ SavedFirst /\ Remembered
      /\ OneNamed
  BY DEF IInv, Rest
<1>1. /\ pc = "validate" /\ target' = target /\ active' = active
      /\ ackedHere' = ackedHere /\ scaleSets' = scaleSets /\ created' = created
      /\ opened' = opened /\ queue' = queue /\ state' = state /\ sent' = sent
      /\ disk' = disk /\ acked' = acked /\ requests' = requests
  BY DEF ValidateBatch, serverVars, history
<1>2. \/ ValidBatch /\ pc' = "persist" /\ current' = current
      \/ pc' = "idle" /\ current' = NoMessage
  BY DEF ValidateBatch, Drop
<1>3. Typed' BY <1>0, <1>1, <1>2, Blanks DEF Typed
<1>4. Numbered' BY <1>0, <1>1 DEF Numbered
<1>5. InHand' BY <1>0, <1>1, <1>2 DEF InHand
<1>6. Lifecycle' BY ZenonT(60), <1>0, <1>1, <1>2, Blanks DEF Lifecycle, Somewhere
<1>7. EndsLast' BY <1>0, <1>1, <1>2 DEF EndsLast
<1>8. Remembered'
  <2>1. Follows(ackedHere)' BY <1>0, <1>1 DEF Remembered, Follows, HasCompleted
  <2>2. pc' = "persist" => ValidBatch' BY <1>1, <1>2 DEF ValidBatch, Of
  <2>3. pc' # "acknowledge" BY <1>2
  <2> QED BY <2>1, <2>2, <2>3 DEF Remembered
<1>9. Index' /\ SavedFirst' /\ OneNamed'
  BY <1>0, <1>1, <1>2 DEF Index, SavedFirst, OnDisk, HasStarted, HasCompleted, OneNamed
<1> QED BY ZenonT(60), <1>3, <1>4, <1>5, <1>6, <1>7, <1>8, <1>9 DEF IInv, Rest

-----------------------------------------------------------------------------
(* The two patches Statistics sends. *)
LEMMA PatchFields ==
  ASSUME NEW j
  PROVE  /\ JobStarted(j).job = j /\ JobStarted(j).result = None
         /\ JobStarted(j).started = 1 /\ JobStarted(j).completed = 0 /\ JobStarted(j).tomb = 0
         /\ JobCompleted(j).job = j /\ JobCompleted(j).result = Ended
         /\ JobCompleted(j).started = 0 /\ JobCompleted(j).completed = 1
         /\ JobCompleted(j).tomb = 0
BY DEF JobStarted, JobCompleted, Patch, Ended

(* The patch of a start merges into a record of its runner, and keeps its completion. *)
LEMMA MergeStarted ==
  ASSUME NEW j \in Jobs, NEW record, Filed(record, j)
  PROVE  /\ Mergeable(record, JobStarted(j))
         /\ Filed(Merge(record, JobStarted(j)), j) /\ Merge(record, JobStarted(j)).job = j
         /\ Merge(record, JobStarted(j)).started # 0
         /\ Merge(record, JobStarted(j)).completed = record.completed
<1>1. j # None BY RecordAssumption
<1>2. Mergeable(record, JobStarted(j))
  BY PatchFields DEF Mergeable, CompatibleImmutable, Filed
<1>3. /\ Merge(record, JobStarted(j)).job = j /\ Merge(record, JobStarted(j)).tomb = 0
      /\ Merge(record, JobStarted(j)).result = record.result
      /\ Merge(record, JobStarted(j)).started = FirstTime(record.started, 1)
      /\ Merge(record, JobStarted(j)).completed = FirstTime(record.completed, 0)
  BY ZenonT(60), <1>1, PatchFields DEF Merge, MergeImmutable, Filed
<1> QED BY SMT, <1>2, <1>3 DEF FirstTime, Filed

(* The patch of a completion merges into a record of its runner, and keeps its start. *)
LEMMA MergeCompleted ==
  ASSUME NEW j \in Jobs, NEW record, Filed(record, j)
  PROVE  /\ Mergeable(record, JobCompleted(j))
         /\ Filed(Merge(record, JobCompleted(j)), j) /\ Merge(record, JobCompleted(j)).job = j
         /\ Merge(record, JobCompleted(j)).completed # 0
         /\ Merge(record, JobCompleted(j)).started = record.started
<1>1. j # None BY RecordAssumption
<1>2. Mergeable(record, JobCompleted(j))
  BY PatchFields DEF Mergeable, CompatibleImmutable, Filed
<1>3. /\ Merge(record, JobCompleted(j)).job = j /\ Merge(record, JobCompleted(j)).tomb = 0
      /\ Merge(record, JobCompleted(j)).result = MergeImmutable(record.result, Ended)
      /\ Merge(record, JobCompleted(j)).started = FirstTime(record.started, 0)
      /\ Merge(record, JobCompleted(j)).completed = FirstTime(record.completed, 1)
  BY <1>1, PatchFields DEF Merge, MergeImmutable, Filed
<1> QED BY SMT, <1>2, <1>3 DEF FirstTime, Filed, MergeImmutable

(* UpsertMany puts every start and completion on disk and takes none away. *)
LEMMA Recording ==
  ASSUME Index, NEW starts \in SUBSET Jobs, NEW ends \in SUBSET Jobs,
         disk' = Recorded(starts, ends)
  PROVE  /\ Index'
         /\ \A j \in starts : HasStarted(j)'
         /\ \A j \in ends : HasCompleted(j)'
         /\ \A j : (HasStarted(j) => HasStarted(j)') /\ (HasCompleted(j) => HasCompleted(j)')
<1> DEFINE mid == UpsertEach(disk, [j \in starts |-> JobStarted(j)])
<1>0. \A j : Filed(Blank, j) BY DEF Filed, Blank
<1>1. /\ DOMAIN mid = DOMAIN disk \cup starts
      /\ \A j \in DOMAIN mid :
            mid[j] = IF j \in starts /\ Mergeable(Current(disk, j), JobStarted(j))
                     THEN Merge(Current(disk, j), JobStarted(j)) ELSE Current(disk, j)
  BY DEF UpsertEach
<1>2. /\ DOMAIN disk' = DOMAIN mid \cup ends
      /\ \A j \in DOMAIN disk' :
            disk'[j] = IF j \in ends /\ Mergeable(Current(mid, j), JobCompleted(j))
                       THEN Merge(Current(mid, j), JobCompleted(j)) ELSE Current(mid, j)
  BY DEF UpsertEach, Recorded
<1> HIDE DEF mid
<1>3. \A j \in Jobs : Filed(Current(disk, j), j) BY <1>0 DEF Current, Index
<1>4. ASSUME NEW j \in DOMAIN mid
      PROVE  /\ j \in Jobs /\ Filed(mid[j], j)
             /\ j \in starts => mid[j].job = j /\ mid[j].started # 0
             /\ j \in DOMAIN disk => /\ disk[j].job = j => mid[j].job = j
                                     /\ disk[j].started # 0 /\ disk[j].job = j
                                          => mid[j].started # 0
                                     /\ mid[j].completed = disk[j].completed
  <2>1. j \in Jobs BY <1>1 DEF Index
  <2>2. CASE j \in starts
    <3>1. mid[j] = Merge(Current(disk, j), JobStarted(j)) BY <1>1, <1>3, <2>1, <2>2, MergeStarted
    <3> QED BY SMT, <1>3, <2>1, <2>2, <3>1, MergeStarted DEF Current
  <2>3. CASE j \notin starts
    <3>1. mid[j] = disk[j] /\ j \in DOMAIN disk BY <1>1, <2>3 DEF Current
    <3> QED BY <2>1, <2>3, <3>1 DEF Index
  <2> QED BY <2>2, <2>3
<1>5. \A j \in Jobs : Filed(Current(mid, j), j) BY <1>0, <1>4 DEF Current
<1>6. ASSUME NEW j \in DOMAIN disk'
      PROVE  /\ j \in Jobs /\ Filed(disk'[j], j)
             /\ j \in ends => disk'[j].completed # 0
             /\ j \in DOMAIN mid => /\ mid[j].job = j => disk'[j].job = j
                                    /\ disk'[j].started = mid[j].started
                                    /\ mid[j].completed # 0 => disk'[j].completed # 0
  <2>1. j \in Jobs BY <1>2, <1>4
  <2>2. CASE j \in ends
    <3>1. disk'[j] = Merge(Current(mid, j), JobCompleted(j))
      BY <1>2, <1>5, <2>1, <2>2, MergeCompleted
    <3> QED BY SMT, <1>5, <2>1, <2>2, <3>1, MergeCompleted DEF Current
  <2>3. CASE j \notin ends
    <3>1. disk'[j] = mid[j] /\ j \in DOMAIN mid BY <1>2, <2>3 DEF Current
    <3> QED BY <1>4, <2>1, <2>3, <3>1
  <2> QED BY <2>2, <2>3
<1>7. Index' BY <1>6 DEF Index
<1>8. \A j \in starts : HasStarted(j)' BY <1>1, <1>2, <1>4, <1>6 DEF HasStarted
<1>9. \A j \in ends : HasCompleted(j)' BY <1>2, <1>6 DEF HasCompleted
<1>10. ASSUME NEW j
       PROVE  (HasStarted(j) => HasStarted(j)') /\ (HasCompleted(j) => HasCompleted(j)')
  BY ZenonT(60), <1>1, <1>2, <1>4, <1>6 DEF HasStarted, HasCompleted
<1> QED BY ZenonT(60), <1>7, <1>8, <1>9, <1>10

(* Persisting a batch, in full or up to a write that fails. *)
LEMMA PersistSteps ==
  ASSUME IInv, Persist \/ PersistFails
  PROVE  IInv'
<1>0. Typed /\ Numbered /\ InHand /\ Lifecycle /\ EndsLast /\ Index /\ SavedFirst /\ Remembered
      /\ OneNamed
  BY DEF IInv, Rest
<1>1. /\ pc = "persist" /\ target' = target
      /\ ackedHere' = ackedHere /\ scaleSets' = scaleSets /\ created' = created
      /\ opened' = opened /\ queue' = queue /\ state' = state /\ sent' = sent
      /\ acked' = acked /\ requests' = requests
  BY DEF Persist, PersistFails, serverVars, history
<1>2. PICK starts \in SUBSET Of("started"), ends \in SUBSET Of("completed") :
        /\ disk' = Recorded(starts, ends)
        /\ \/ /\ pc' = "acknowledge" /\ current' = current
              /\ starts = Of("started") /\ ends = Of("completed")
              /\ active' = (active \cup Of("started")) \ Of("completed")
           \/ pc' = "idle" /\ current' = NoMessage /\ active' = active
  BY DEF Persist, PersistFails, Drop
<1>3. /\ Of("started") \subseteq Jobs /\ Of("completed") \subseteq Jobs
      /\ \A kind : \A j \in Jobs : j \in Of(kind) <=> Event(kind, j) \in current.events
  BY <1>0, OfMember
<1>4. /\ Index'
      /\ \A j \in starts : HasStarted(j)'
      /\ \A j \in ends : HasCompleted(j)'
      /\ \A j : (HasStarted(j) => HasStarted(j)') /\ (HasCompleted(j) => HasCompleted(j)')
  BY ZenonT(60), <1>0, <1>2, <1>3, Recording
<1>5. Typed' BY ZenonT(60), <1>0, <1>1, <1>2, <1>3, Blanks DEF Typed
<1>6. Numbered' BY <1>0, <1>1 DEF Numbered
<1>7. InHand' BY <1>0, <1>1, <1>2 DEF InHand
<1>8. Lifecycle' BY ZenonT(60), <1>0, <1>1, <1>2, Blanks DEF Lifecycle, Somewhere
<1>9. EndsLast' BY <1>0, <1>1, <1>2 DEF EndsLast
<1>10. SavedFirst'
  <2>1. \A e \in acked : OnDisk(e)' BY <1>0, <1>4 DEF SavedFirst, OnDisk
  <2>2. ASSUME pc' = "acknowledge", NEW e \in current.events PROVE OnDisk(e)'
    <3>1. e.kind \in {"started", "completed"} => e.job \in Of(e.kind)
      BY DEF Of
    <3> QED BY ZenonT(60), <1>2, <1>4, <2>2, <3>1 DEF OnDisk
  <2> QED BY ZenonT(60), <1>1, <1>2, <2>1, <2>2 DEF SavedFirst
<1>11. Remembered'
  <2>1. CASE pc' = "idle" /\ current' = NoMessage /\ active' = active
    <3>1. Follows(ackedHere)' BY <1>0, <1>1, <1>4, <2>1 DEF Remembered, Follows
    <3> QED BY <2>1, <3>1 DEF Remembered
  <2>2. CASE /\ pc' = "acknowledge" /\ current' = current
             /\ starts = Of("started") /\ ends = Of("completed")
             /\ active' = (active \cup Of("started")) \ Of("completed")
    <3>1. ASSUME NEW j \in Jobs, j \in active \/ HasCompleted(j) \/ j \in Of("started")
          PROVE  j \in active' \/ HasCompleted(j)'
      BY <1>4, <2>2, <3>1
    <3>2. ASSUME NEW j \in Jobs, NEW kind \in Ends, Event(kind, j) \in ackedHere
          PROVE  j \notin active'
      <4>1. j \notin active BY <1>0, <3>2 DEF Remembered, Follows
      <4>2. j \notin Of("started") BY <1>0, <1>1, <1>3, <3>2 DEF EndsLast, Typed
      <4> QED BY <2>2, <4>1, <4>2
    <3>3. ASSUME NEW j \in Jobs, NEW kind \in Ends, Event(kind, j) \in current.events
          PROVE  j \notin active'
      <4>1. CASE kind = "completed" BY ZenonT(60), <1>3, <2>2, <3>3, <4>1
      <4>2. CASE kind = "anonymous"
        BY ZenonT(60), <1>0, <1>1, <1>3, <2>2, <3>3, <4>2 DEF Remembered, ValidBatch
      <4> QED BY <4>1, <4>2 DEF Ends
    <3>4. Follows(ackedHere)' BY ZenonT(60), <1>0, <1>1, <3>1, <3>2 DEF Remembered, Follows
    <3>5. Follows(current.events)' BY ZenonT(60), <1>3, <2>2, <3>1, <3>3 DEF Follows
    <3> QED BY <2>2, <3>4, <3>5 DEF Remembered
  <2> QED BY <1>2, <2>1, <2>2
<1>12. OneNamed' BY <1>0, <1>1 DEF OneNamed
<1> QED BY ZenonT(60), <1>4, <1>5, <1>6, <1>7, <1>8, <1>9, <1>10, <1>11, <1>12 DEF IInv, Rest

-----------------------------------------------------------------------------
(* DeleteMessage, with and without effect: what is deleted was the first message queued,
   and was persisted. *)
LEMMA DeleteSteps ==
  ASSUME IInv, DeleteMessage \/ DeleteFails
  PROVE  IInv'
<1>0. Typed /\ Numbered /\ InHand /\ Lifecycle /\ EndsLast /\ Index /\ SavedFirst /\ Remembered
      /\ OneNamed
  BY DEF IInv, Rest
<1>1. /\ pc = "acknowledge" /\ target' = target /\ active' = active
      /\ scaleSets' = scaleSets /\ created' = created
      /\ opened' = opened /\ state' = state /\ sent' = sent
      /\ disk' = disk /\ requests' = requests
  BY DEF DeleteMessage, DeleteFails
<1>2. \/ Deleted /\ pc' = "acquire" /\ current' = current
      \/ Deleted /\ pc' = "idle" /\ current' = NoMessage
      \/ /\ pc' = "idle" /\ current' = NoMessage
         /\ queue' = queue /\ acked' = acked /\ ackedHere' = ackedHere
  BY DEF DeleteMessage, DeleteFails, Drop
<1>3. /\ sent \in Nat /\ target.last \in Nat /\ current.id \in Nat /\ queue \in Seq(Messages)
      /\ \A i \in DOMAIN queue : queue[i].id \in Nat
      /\ current.events \subseteq Events
  BY <1>0, Numbers
<1>4. OneNamed' /\ Index' BY <1>0, <1>1 DEF OneNamed, Index, Filed
<1>5. CASE Deleted
  <2>1. /\ queue # <<>> /\ Head(queue).id = current.id /\ queue' = Tail(queue)
        /\ acked' = acked \cup current.events /\ ackedHere' = ackedHere \cup current.events
    BY <1>5 DEF Deleted
  <2>2. /\ queue' \in Seq(Messages) /\ 1 \in DOMAIN queue /\ queue[1].id = current.id
        /\ \A i \in DOMAIN queue' : /\ i \in Nat /\ i > 0 /\ i + 1 \in DOMAIN queue
                                    /\ queue'[i] = queue[i + 1]
    BY SMT, <1>3, <2>1
  <2>3. queue[1].events = current.events BY <1>0, <1>1, <2>2 DEF InHand
  <2>4. \A i \in DOMAIN queue' : current.id < queue'[i].id
    BY SMT, <1>0, <1>3, <2>2 DEF Numbered
  <2>5. (pc' = "acquire" /\ current' = current) \/ (pc' = "idle" /\ current' = NoMessage)
    BY <1>2
  <2>6. Typed' BY <1>0, <1>1, <1>3, <2>1, <2>2, <2>5, Blanks DEF Typed
  <2>7. Numbered' BY SMT, <1>0, <1>1, <2>2 DEF Numbered
  <2>8. InHand' BY <1>0, <1>1, <2>4, <2>5 DEF InHand
  <2>9. \A f : Somewhere(f)' => Somewhere(f) BY <2>1, <2>2, <2>5, Blanks DEF Somewhere
  <2>10. Lifecycle' BY <1>0, <1>1, <2>9 DEF Lifecycle
  <2>11. EndsLast'
    <3> SUFFICES ASSUME NEW j \in Jobs, NEW kind \in Ends
                 PROVE  /\ Event(kind, j) \in acked' =>
                            \A i \in DOMAIN queue' : Event("started", j) \notin queue'[i].events
                        /\ \A i, k \in DOMAIN queue' :
                              i < k /\ Event(kind, j) \in queue'[i].events =>
                                 Event("started", j) \notin queue'[k].events
      BY <2>5 DEF EndsLast
    <3>1. ASSUME Event(kind, j) \in acked', NEW i \in DOMAIN queue'
          PROVE  Event("started", j) \notin queue'[i].events
      <4>1. CASE Event(kind, j) \in acked BY <1>0, <2>2, <4>1 DEF EndsLast
      <4>2. CASE Event(kind, j) \in queue[1].events
        <5>1. 1 < i + 1 /\ i + 1 \in DOMAIN queue BY SMT, <2>2
        <5> QED BY ZenonT(60), <1>0, <2>2, <4>2, <5>1 DEF EndsLast
      <4> QED BY ZenonT(60), <2>1, <2>3, <3>1, <4>1, <4>2
    <3>2. ASSUME NEW i \in DOMAIN queue', NEW k \in DOMAIN queue', i < k,
                 Event(kind, j) \in queue'[i].events
          PROVE  Event("started", j) \notin queue'[k].events
      <4>1. i + 1 \in DOMAIN queue /\ k + 1 \in DOMAIN queue /\ i + 1 < k + 1
        BY SMT, <2>2, <3>2
      <4> QED BY ZenonT(60), <1>0, <2>2, <3>2, <4>1 DEF EndsLast
    <3> QED BY <3>1, <3>2
  <2>12. SavedFirst'
    BY <1>0, <1>1, <2>1, <2>5 DEF SavedFirst, OnDisk, HasStarted, HasCompleted
  <2>13. Remembered'
    BY ZenonT(60), <1>0, <1>1, <2>1, <2>5 DEF Remembered, Follows, HasCompleted
  <2> QED BY <1>4, <2>6, <2>7, <2>8, <2>10, <2>11, <2>12, <2>13 DEF IInv, Rest
<1>6. CASE /\ pc' = "idle" /\ current' = NoMessage
           /\ queue' = queue /\ acked' = acked /\ ackedHere' = ackedHere
  <2>1. Typed' BY <1>0, <1>1, <1>6, Blanks DEF Typed
  <2>2. Numbered' /\ InHand' BY <1>0, <1>1, <1>6 DEF Numbered, InHand
  <2>3. Lifecycle' BY ZenonT(60), <1>0, <1>1, <1>6, Blanks DEF Lifecycle, Somewhere
  <2>4. EndsLast' BY <1>0, <1>1, <1>6 DEF EndsLast
  <2>5. SavedFirst' /\ Remembered'
    BY <1>0, <1>1, <1>6 DEF SavedFirst, OnDisk, HasStarted, HasCompleted, Remembered, Follows
  <2> QED BY ZenonT(60), <1>4, <2>1, <2>2, <2>3, <2>4, <2>5 DEF IInv, Rest
<1> QED BY <1>2, <1>5, <1>6

(* AcquireJobs is asked for a number above all earlier ones. *)
LEMMA AcquireSteps ==
  ASSUME IInv, AcquireJobs \/ AcquireFails
  PROVE  IInv'
<1>0. Typed /\ Numbered /\ InHand /\ Lifecycle /\ EndsLast /\ Index /\ SavedFirst /\ Remembered
      /\ OneNamed
  BY DEF IInv, Rest
<1>1. /\ pc = "acquire" /\ pc' = "idle" /\ current' = NoMessage /\ active' = active
      /\ scaleSets' = scaleSets /\ created' = created /\ opened' = opened
      /\ queue' = queue /\ sent' = sent /\ disk' = disk /\ acked' = acked
      /\ ackedHere' = ackedHere /\ state' \in {state, AcquiredState}
      /\ requests' \in {requests, Append(requests, current.id)}
      /\ \/ target' = target
         \/ target' = [target EXCEPT !.last = current.id, !.stats = current.stats]
  BY DEF AcquireJobs, AcquireFails, Drop, Requested
<1>2. /\ sent \in Nat /\ current.id \in Nat /\ current.stats \in Counts /\ requests \in Seq(Nat)
      /\ target \in [set : Nat, session : Nat, stats : Counts, last : Nat]
      /\ \A i \in DOMAIN queue : queue[i].id \in Nat
      /\ state \in [Jobs -> Lives]
  BY <1>0, Numbers DEF Typed
<1>3. /\ state' \in [Jobs -> Lives]
      /\ \A j \in Jobs : state'[j] = state[j] \/ (state[j] = "offered" /\ state'[j] = "acquired")
  BY <1>1, <1>2 DEF AcquiredState, Lives
<1>4. /\ target' \in [set : Nat, session : Nat, stats : Counts, last : Nat]
      /\ target'.last \in {target.last, current.id}
  BY <1>1, <1>2
<1>5. /\ requests' \in Seq(Nat) /\ DOMAIN requests \subseteq Nat
      /\ \A a \in DOMAIN requests' :
            \/ a \in DOMAIN requests /\ requests'[a] = requests[a]
            \/ /\ a \notin DOMAIN requests /\ requests'[a] = current.id
               /\ \A b \in DOMAIN requests' : b <= a
  <2>1. CASE requests' = requests BY SMT, <1>2, <2>1
  <2>2. CASE requests' = Append(requests, current.id) BY SMT, <1>2, <2>2
  <2> QED BY <1>1, <2>1, <2>2
<1>6. Typed' BY ZenonT(60), <1>0, <1>1, <1>3, <1>4, <1>5, Blanks DEF Typed
<1>7. /\ current.id <= sent /\ \A a \in DOMAIN requests : requests[a] < current.id
      /\ \A i \in DOMAIN queue : current.id < queue[i].id
  BY <1>0, <1>1 DEF InHand
<1>8. Numbered'
  <2>1. /\ target'.last <= sent
        /\ \A i \in DOMAIN queue : target'.last < queue[i].id /\ queue[i].id <= sent
    BY <1>0, <1>4, <1>7 DEF Numbered
  <2>2. \A a \in DOMAIN requests' :
          requests'[a] <= sent /\ \A i \in DOMAIN queue : requests'[a] < queue[i].id
    BY <1>0, <1>5, <1>7 DEF Numbered
  <2>3. \A a, b \in DOMAIN requests' : a < b => requests'[a] < requests'[b]
    <3> SUFFICES ASSUME NEW a \in DOMAIN requests', NEW b \in DOMAIN requests', a < b
                 PROVE  requests'[a] < requests'[b]
      OBVIOUS
    <3>1. a \in Nat /\ b \in Nat BY SMT, <1>5
    <3>2. a \in DOMAIN requests /\ requests'[a] = requests[a] BY SMT, <1>5, <3>1
    <3> QED BY ZenonT(60), <1>0, <1>5, <1>7, <3>2 DEF Numbered
  <2> QED BY ZenonT(60), <1>0, <1>1, <2>1, <2>2, <2>3 DEF Numbered
<1>9. InHand' BY <1>1 DEF InHand
<1>10. Lifecycle' BY <1>0, <1>1, <1>3, Blanks DEF Lifecycle, Somewhere
<1>11. EndsLast' BY <1>0, <1>1 DEF EndsLast
<1>12. Index' /\ SavedFirst' /\ Remembered' /\ OneNamed'
  BY <1>0, <1>1 DEF Index, Filed, SavedFirst, OnDisk, HasStarted, HasCompleted, Remembered,
                    Follows, OneNamed
<1> QED BY ZenonT(60), <1>6, <1>8, <1>9, <1>10, <1>11, <1>12 DEF IInv, Rest

-----------------------------------------------------------------------------
(* The invariant holds in every state of the session. *)
LEMMA Invariance == Spec => []IInv
<1>1. IInv /\ [Next]_vars => IInv'
  <2> SUFFICES ASSUME IInv, [Next]_vars PROVE IInv'
    OBVIOUS
  <2>1. CASE PollEmpty \/ UNCHANGED vars BY <2>1, OutsideSteps DEF PollEmpty
  <2>2. CASE Fetch \/ ValidateBatch BY <2>2, FetchStep, ValidateStep
  <2>3. CASE Persist \/ PersistFails BY <2>3, PersistSteps
  <2>4. CASE DeleteMessage \/ DeleteFails BY <2>4, DeleteSteps
  <2>5. CASE AcquireJobs \/ AcquireFails BY <2>5, AcquireSteps
  <2>6. CASE Ensure BY <2>6, EnsureSteps DEF Ensure
  <2>7. CASE Reconnect BY <2>7, EnsureSteps DEF Reconnect
  <2>8. CASE EnsureFails BY <2>8, EnsureSteps DEF EnsureFails
  <2>9. CASE Crash \/ Close BY <2>9, ResetSteps
  <2>10. CASE \E j \in Jobs : Offer(j) \/ Assign(j) \/ Complete(j) \/ Cancel(j)
    BY <2>10, EmitSteps
  <2>11. CASE Interfere \/ SessionExpires \/ DeleteScaleSet BY <2>11, OutsideSteps
  <2> QED BY ZenonT(60), <2>1, <2>2, <2>3, <2>4, <2>5, <2>6, <2>7, <2>8, <2>9, <2>10, <2>11
          DEF Next, Statistics
<1> QED BY <1>1, InitInv, PTL DEF Spec

(* OfficialClient.Statistics deletes a message only when nothing of it can be lost, for
   every number of jobs, messages and failures: its events are on disk, its starts are in
   the active-job map, and a completion that names no runner ends no job known to run. *)
THEOREM DeletionIsSafe == Spec => []DeletionLosesNothing
<1>1. IInv => DeletionLosesNothing
  <2> SUFFICES ASSUME IInv PROVE DeletionLosesNothing
    OBVIOUS
  <2>0. Typed /\ SavedFirst /\ Follows(ackedHere) BY DEF IInv, Rest, Remembered
  <2>1. AckedIsRecorded
    BY <2>0 DEF AckedIsRecorded, SavedFirst, OnDisk, HasStarted, HasCompleted
  <2>2. ActiveRemembered BY <2>0 DEF ActiveRemembered, Follows, HasCompleted, Ends
  <2>3. AnonymousHeldBack BY <2>0 DEF AnonymousHeldBack, Follows, Ends, Typed
  <2> QED BY <2>1, <2>2, <2>3 DEF DeletionLosesNothing
<1> QED BY <1>1, Invariance, PTL

(* What OfficialClient tries again after a lost answer is not done twice: no message's jobs
   are acquired twice, and Ensure never leaves two scale sets with the configured name. *)
THEOREM RetriesAreSafe == Spec => []RetriesAreIdempotent
<1>1. IInv => RetriesAreIdempotent
  <2> SUFFICES ASSUME IInv PROVE RetriesAreIdempotent
    OBVIOUS
  <2>0. Typed /\ Numbered /\ OneNamed BY DEF IInv, Rest
  <2>1. AcquiredOnce
    <3>1. /\ \A a \in DOMAIN requests : a \in Nat /\ requests[a] \in Nat
          /\ \A i \in DOMAIN queue : queue[i].id \in Nat
      BY <2>0, Numbers
    <3> QED BY SMT, <2>0, <3>1 DEF Numbered, AcquiredOnce
  <2>2. OneScaleSet BY <2>0 DEF OneNamed, OneScaleSet, Named
  <2> QED BY <2>1, <2>2 DEF RetriesAreIdempotent
<1> QED BY <1>1, Invariance, PTL
=============================================================================

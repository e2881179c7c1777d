---------------------------- MODULE ControlProofs ---------------------------
(* Two parts of the controller that serve its operators are correct for any number
   of callers, commands and containers.

   The log queue.  QueueInv adds to the queue's properties where an accepted call is
   to be found, and what the writer's place says of the queue.

   The forced stop, whatever the reconciler, the workers, other commands and failures
   do meanwhile.  Three facts are carried from step to step.  PoolInv: what is saved
   about the pool is overtaken only by a step that loses its writes.  StaysDrained: as
   long as nobody saves another mode, the pool stays as a command's checks found it.
   KillsShown: what a command has killed, still has to kill and may report. *)
EXTENDS LogQueue, ForceStop, SequenceTheorems, TLAPS

\* Zenon proves most leaves; a leaf that needs arithmetic or case splits cites SMT.
USE Zenon

(* Only an accepted call is queued, with the writer or answered. *)
Admitted ==
    \A c \in Calls : Queued(c) \/ current = c \/ answer[c] # NoAnswer =>
                        pc[c] \in {"accepted", "write timeout", "written", "failed"}

(* An accepted call without answer is queued or with the writer. *)
Accounted ==
    \A c \in Calls : pc[c] \in {"accepted", "write timeout"} /\ answer[c] = NoAnswer =>
                        Queued(c) \/ current = c

(* The writer leaves its loop only with the queue closed and empty. *)
WorkerPlace ==
    /\ writer = "range" => current = NoAnswer
    /\ writer \in {"offer", "write"} => current \in Calls
    /\ writer \in {"closing file", "done"} => closed /\ requests = <<>> /\ current = NoAnswer
    /\ closing = "drained" => writer = "done"

QueueInv == QueueTypeOK /\ NoSendOnClosed /\ NoLostWakeup /\ Admitted /\ Accounted /\ WorkerPlace

(* The sink starts with no call, an empty queue and an idle writer. *)
LEMMA QueueInitHolds == QueueInit => QueueInv
  <1> SUFFICES ASSUME QueueInit PROVE QueueInv
    OBVIOUS
  <1>1. requests \in Seq(Calls) /\ Len(requests) = 0
    BY EmptySeq DEF QueueInit
  <1>2. QueueTypeOK
    <2>1. Len(requests) <= Capacity
      BY SMT, <1>1, CapacityAssumption
    <2> QED  BY <1>1, <2>1 DEF QueueInit, QueueTypeOK, Places, Returned
  <1>3. NoSendOnClosed /\ NoLostWakeup /\ WorkerPlace
    BY DEF QueueInit, NoSendOnClosed, Holding, NoLostWakeup, WorkerPlace
  <1>4. Admitted /\ Accounted
    BY SMT, <1>1, NoAnswerAssumption DEF QueueInit, Admitted, Accounted, Queued
  <1> QED  BY <1>2, <1>3, <1>4 DEF QueueInv

(* The queue has a length, within the capacity. *)
LEMMA QueueLength == QueueTypeOK => Len(requests) \in Nat /\ Len(requests) <= Capacity
  <1>1. QueueTypeOK => requests \in Seq(Calls) /\ Len(requests) <= Capacity
    BY DEF QueueTypeOK
  <1> QED  BY <1>1, LenProperties

(* A send adds its call to the queue and nothing else. *)
LEMMA SendQueues ==
    ASSUME QueueTypeOK, NEW c \in Calls, requests' = Append(requests, c), NEW d \in Calls
    PROVE  /\ Queued(d)' <=> Queued(d) \/ d = c
           /\ requests' # <<>>
           /\ Len(requests') = Len(requests) + 1 /\ requests' \in Seq(Calls)
  <1>1. /\ requests' \in Seq(Calls) /\ requests' # <<>>
        /\ Len(requests') = Len(requests) + 1 /\ Len(requests) \in Nat
        /\ \A i \in 1..Len(requests) : requests'[i] = requests[i]
        /\ requests'[Len(requests) + 1] = c
    <2>1. requests \in Seq(Calls)
      BY DEF QueueTypeOK
    <2> QED  BY SMT, <2>1, AppendProperties, LenProperties
  <1>2. Queued(d)' <=> \E i \in 1..Len(requests) + 1 : requests'[i] = d
    BY <1>1 DEF Queued
  <1>3. Queued(d)' <=> Queued(d) \/ d = c
    BY SMT, <1>1, <1>2 DEF Queued
  <1> QED  BY <1>1, <1>3

(* The writer takes the first call out of the queue and nothing else. *)
LEMMA TakeFirstTakesOne ==
    ASSUME QueueTypeOK, requests # <<>>, TakeFirst, NEW d \in Calls
    PROVE  /\ Queued(d) <=> Queued(d)' \/ d = current'
           /\ current' \in Calls
           /\ Len(requests') = Len(requests) - 1 /\ requests' \in Seq(Calls)
  <1>1. /\ requests' \in Seq(Calls) /\ Len(requests') = Len(requests) - 1
        /\ current' = requests[1] /\ current' \in Calls /\ Len(requests) \in Nat \ {0}
        /\ \A i \in 1..Len(requests') : requests'[i] = requests[i + 1]
    <2>1. requests \in Seq(Calls)
      BY DEF QueueTypeOK
    <2> QED  BY SMT, <2>1, HeadTailProperties, EmptySeq DEF TakeFirst
  <1>2. ASSUME Queued(d) PROVE Queued(d)' \/ d = current'
    <2>1. PICK i \in 1..Len(requests) : requests[i] = d
      BY <1>2 DEF Queued
    <2>2. CASE i = 1
      BY <1>1, <2>1, <2>2
    <2>3. CASE i # 1
      <3>1. i - 1 \in 1..Len(requests') /\ requests'[i - 1] = d
        BY SMT, <1>1, <2>1, <2>3
      <3> QED  BY <3>1 DEF Queued
    <2> QED  BY <2>2, <2>3
  <1>3. ASSUME Queued(d)' PROVE Queued(d)
    <2>1. PICK i \in 1..Len(requests') : requests'[i] = d
      BY <1>3 DEF Queued
    <2>2. i + 1 \in 1..Len(requests) /\ requests[i + 1] = d
      BY SMT, <1>1, <2>1
    <2> QED  BY <2>2 DEF Queued
  <1>4. ASSUME d = current' PROVE Queued(d)
    BY SMT, <1>1, <1>4 DEF Queued
  <1> QED  BY <1>1, <1>2, <1>3, <1>4

(* A step of a caller keeps the invariant. *)
LEMMA CallerKeeps ==
    ASSUME QueueInv, NEW c \in Calls, Caller(c)
    PROVE  QueueInv'
  <1> USE CapacityAssumption, NoAnswerAssumption
  <1> USE DEF QueueInv, Holding, Go, Places, Returned
  <1>1. CASE Write(c)
    BY ZenonT(60), <1>1 DEF Write, QueueTypeOK, NoSendOnClosed, NoLostWakeup, Admitted, Accounted,
                WorkerPlace, Queued
  <1>2. CASE Check(c)
    BY ZenonT(60), <1>2 DEF Check, QueueTypeOK, NoSendOnClosed, NoLostWakeup, Admitted, Accounted,
                WorkerPlace, Queued
  <1>3. CASE Send(c)
    <2>1. CASE HasPlace /\ requests' = Append(requests, c) /\ Go(c, "accepted")
      <3>1. \A d \in Calls : Queued(d)' <=> Queued(d) \/ d = c
        BY <2>1, SendQueues
      <3>2. requests' # <<>> /\ Len(requests') = Len(requests) + 1
            /\ requests' \in Seq(Calls)
        BY <2>1, SendQueues
      <3>3. ~closed
        BY <1>3 DEF Send, NoSendOnClosed
      <3>4. QueueTypeOK'
        <4>1. Len(requests') <= Capacity
          BY SMT, <2>1, <3>2, QueueLength DEF HasPlace
        <4> QED  BY <1>3, <2>1, <3>2, <4>1 DEF Send, QueueTypeOK
      <3>5. NoSendOnClosed' /\ NoLostWakeup'
        BY <1>3, <2>1, <3>2, <3>3 DEF Send, NoSendOnClosed, NoLostWakeup, QueueTypeOK
      <3>6. Admitted' /\ Accounted'
        BY <1>3, <2>1, <3>1 DEF Send, Admitted, Accounted, QueueTypeOK
      <3>7. WorkerPlace'
        BY <1>3, <3>3 DEF Send, WorkerPlace
      <3> QED  BY <3>4, <3>5, <3>6, <3>7
    <2>2. CASE ~HasPlace /\ Go(c, "wait") /\ UNCHANGED requests
      <3>1. requests # <<>>
        BY SMT, <2>2, QueueLength, EmptySeq DEF HasPlace
      <3> QED
        BY <1>3, <2>2, <3>1 DEF Send, QueueTypeOK, NoSendOnClosed, NoLostWakeup, Admitted,
                                Accounted, WorkerPlace, Queued
    <2> QED  BY <1>3, <2>1, <2>2 DEF Send
  <1>4. CASE TakeToken(c)
    BY ZenonT(60), <1>4 DEF TakeToken, QueueTypeOK, NoSendOnClosed, NoLostWakeup, Admitted, Accounted,
                WorkerPlace, Queued
  <1>5. CASE Expire(c)
    BY ZenonT(60), <1>5 DEF Expire, QueueTypeOK, NoSendOnClosed, NoLostWakeup, Admitted, Accounted,
                WorkerPlace, Queued
  <1>6. CASE Receive(c)
    BY ZenonT(60), <1>6 DEF Receive, QueueTypeOK, NoSendOnClosed, NoLostWakeup, Admitted, Accounted,
                WorkerPlace, Queued
  <1> QED  BY <1>1, <1>2, <1>3, <1>4, <1>5, <1>6 DEF Caller

(* A step of the writer keeps the invariant. *)
LEMMA WorkerKeeps ==
    ASSUME QueueInv, Worker
    PROVE  QueueInv'
  <1> USE CapacityAssumption, NoAnswerAssumption
  <1>0. QueueTypeOK /\ NoSendOnClosed /\ NoLostWakeup /\ Admitted /\ Accounted /\ WorkerPlace
    BY DEF QueueInv
  <1> USE DEF Holding, Places, Returned
  <1>1. CASE NextRequest /\ requests # <<>>
    <2>1. TakeFirst /\ writer = "range" /\ writer' = "offer" /\ current = NoAnswer
          /\ UNCHANGED <<pc, answer, token, closed, closing>>
      BY <1>0, <1>1 DEF NextRequest, Dequeue, WorkerPlace
    <2>2. \A d \in Calls : Queued(d) <=> Queued(d)' \/ d = current'
      BY <1>0, <1>1, <2>1, TakeFirstTakesOne
    <2>3. current' \in Calls
      BY <1>0, <1>1, <2>1, HeadTailProperties DEF TakeFirst, QueueTypeOK
    <2>4. Len(requests') = Len(requests) - 1 /\ requests' \in Seq(Calls)
      BY <1>0, <1>1, <2>1, HeadTailProperties DEF TakeFirst, QueueTypeOK
    <2>5. QueueTypeOK'
      <3>1. Len(requests') <= Capacity
        BY SMT, <1>0, <2>4, QueueLength
      <3> QED  BY <1>0, <2>1, <2>3, <2>4, <3>1 DEF QueueTypeOK
    <2>6. NoSendOnClosed' /\ NoLostWakeup' /\ WorkerPlace'
      BY <1>0, <2>1, <2>3 DEF NoSendOnClosed, NoLostWakeup, WorkerPlace
    <2>7. Admitted' /\ Accounted'
      BY <1>0, <2>1, <2>2 DEF Admitted, Accounted
    <2> QED  BY <2>5, <2>6, <2>7 DEF QueueInv
  <1>2. CASE NextRequest /\ requests = <<>>
    BY ZenonT(60), <1>0, <1>2 DEF QueueInv, NextRequest, Dequeue, QueueTypeOK, NoSendOnClosed, NoLostWakeup, Admitted,
                Accounted, WorkerPlace, Queued
  <1>3. CASE Offer
    BY <1>0, <1>3 DEF QueueInv, Offer, OfferToken, QueueTypeOK, NoSendOnClosed, NoLostWakeup, Admitted,
                Accounted, WorkerPlace, Queued
  <1>4. CASE Hang
    BY <1>0, <1>4 DEF QueueInv, Hang, QueueTypeOK, NoSendOnClosed, NoLostWakeup, Admitted, Accounted,
                WorkerPlace, Queued
  <1>5. CASE CloseFile
    BY <1>0, <1>5 DEF QueueInv, CloseFile, QueueTypeOK, NoSendOnClosed, NoLostWakeup, Admitted, Accounted,
                WorkerPlace, Queued
  <1>6. ASSUME NEW result \in {"written", "failed"}, Answered(result) PROVE QueueInv'
    <2>1. current \in Calls
      BY <1>0, <1>6 DEF Answered, WorkerPlace
    <2>2. QueueTypeOK'
      BY <1>0, <1>6, <2>1 DEF Answered, QueueTypeOK
    <2>3. NoSendOnClosed' /\ NoLostWakeup' /\ WorkerPlace'
      BY <1>0, <1>6 DEF Answered, NoSendOnClosed, NoLostWakeup, WorkerPlace
    <2>4. Admitted' /\ Accounted'
      BY <1>0, <1>6, <2>1 DEF Answered, Admitted, Accounted, Queued, QueueTypeOK
    <2> QED  BY <2>2, <2>3, <2>4 DEF QueueInv
  <1> QED  BY <1>1, <1>2, <1>3, <1>4, <1>5, <1>6 DEF Worker

(* Every step keeps the invariant. *)
LEMMA QueueStepKeeps == QueueInv /\ [QueueNext]_logVars => QueueInv'
  <1> SUFFICES ASSUME QueueInv, [QueueNext]_logVars PROVE QueueInv'
    OBVIOUS
  <1>1. CASE CloseSink
    BY <1>1 DEF CloseSink, CloseRequests, QueueInv, Holding, QueueTypeOK, NoSendOnClosed,
                NoLostWakeup, Admitted, Accounted, WorkerPlace, Queued
  <1>2. CASE CloseReturns
    BY <1>2 DEF CloseReturns, QueueInv, Holding, QueueTypeOK, NoSendOnClosed, NoLostWakeup,
                Admitted, Accounted, WorkerPlace, Queued
  <1>3. CASE UNCHANGED logVars
    BY ZenonT(60), <1>3 DEF logVars, QueueInv, Holding, QueueTypeOK, NoSendOnClosed, NoLostWakeup, Admitted,
                Accounted, WorkerPlace, Queued
  <1> QED  BY <1>1, <1>2, <1>3, CallerKeeps, WorkerKeeps DEF QueueNext

(* The invariant holds in every reachable state. *)
LEMMA QueueInvariance == QueueSpec => []QueueInv
  BY QueueInitHolds, QueueStepKeeps, PTL DEF QueueSpec

(* Write never sends on the closed channel, whatever the number of callers. *)
THEOREM SendsAreSafe == QueueSpec => []NoSendOnClosed
  <1>1. QueueInv => NoSendOnClosed
    BY DEF QueueInv
  <1> QED  BY <1>1, QueueInvariance, PTL

(* The single token of queueSpace strands no caller of Write, for any number of
   callers and any capacity of the queue. *)
THEOREM OneTokenSuffices == QueueSpec => []NoLostWakeup
  <1>1. QueueInv => NoLostWakeup
    BY DEF QueueInv
  <1> QED  BY <1>1, QueueInvariance, PTL

(* A Close that did not time out has drained every accepted call. *)
THEOREM CloseDrains == QueueSpec => []ClosedIsDrained
  <1>1. QueueInv => ClosedIsDrained
    <2> SUFFICES ASSUME QueueInv, closing = "drained"
                 PROVE  /\ requests = <<>> /\ writer = "done"
                        /\ \A c \in Calls : pc[c] \in {"accepted", "write timeout"} =>
                                             answer[c] # NoAnswer
      BY DEF ClosedIsDrained
    <2>1. writer = "done" /\ requests = <<>> /\ current = NoAnswer /\ Len(requests) = 0
      BY EmptySeq DEF QueueInv, WorkerPlace
    <2>2. \A c \in Calls : ~Queued(c) /\ current # c
      BY SMT, <2>1, NoAnswerAssumption DEF Queued
    <2> QED  BY <2>1, <2>2 DEF QueueInv, Accounted
  <1> QED  BY <1>1, QueueInvariance, PTL

(* A refused call of Write is never written. *)
THEOREM RefusalIsFinal == QueueSpec => []RefusedIsUnwritten
  <1>1. QueueInv => RefusedIsUnwritten
    BY DEF QueueInv, RefusedIsUnwritten, Admitted
  <1> QED  BY <1>1, QueueInvariance, PTL

(* What Write and Close report is true, for any number of callers. *)
THEOREM ReportsHold == QueueSpec => []ReportsAreTrue
  <1>1. ClosedIsDrained /\ RefusedIsUnwritten => ReportsAreTrue
    BY DEF ReportsAreTrue
  <1> QED  BY <1>1, CloseDrains, RefusalIsFinal, PTL

-----------------------------------------------------------------------------
Stages  == {"start", "stamp", "drain", "preview", "check preview", "list", "confirm", "execute",
            "check execute", "relist", "kill", "await", "end"}
Results == Harmless \cup {"pending", "error", "stopped"}

\* What is known of some containers.
Views == UNION {[D -> States] : D \in SUBSET Containers}

Commands == [pc : Stages, asked : Nat, shown : Views, seen : Views, todo : SUBSET Containers,
             failed : BOOLEAN, result : Results]

Kinds ==
    /\ desired \in [mode : {"enabled", "disabled"}, at : Nat]
    /\ observed \in [phase : {"active", "draining", "degraded"}, acked : BOOLEAN,
                     capacity : {0, 1}, at : Nat]
    /\ step \in [mode : {"none", "enabled", "disabled"},
                 at : {"idle", "loaded", "checked", "polled", "unpolled"}, lost : BOOLEAN]
    /\ assigned \in BOOLEAN /\ offered \in BOOLEAN /\ unsaved \in BOOLEAN
    /\ worker \in [Containers -> States]
    /\ op \in [Operators -> Commands]
    /\ killed \in [Operators -> SUBSET Containers]

(* A request starts with an empty inventory. *)
LEMMA EmptyView == <<>> \in Views /\ DOMAIN <<>> = {}
<1>1. <<>> \in [{} -> States] BY SMT
<1>2. DOMAIN <<>> = {} BY SMT
<1> QED BY <1>1, <1>2 DEF Views

(* Runtime.List adds one container after the other to an inventory. *)
LEMMA ViewGrows ==
  ASSUME NEW v \in Views, NEW c \in Containers, NEW s \in States
  PROVE  [d \in DOMAIN v \cup {c} |-> IF d = c THEN s ELSE v[d]] \in Views
<1>1. PICK D \in SUBSET Containers : v \in [D -> States] BY DEF Views
<1>2. [d \in DOMAIN v \cup {c} |-> IF d = c THEN s ELSE v[d]] \in [D \cup {c} -> States]
  BY <1>1
<1>3. D \cup {c} \in SUBSET Containers BY <1>1
<1> QED BY <1>2, <1>3 DEF Views

(* forceStopTargets keeps a part of the inventory: the workers that are active. *)
LEMMA TargetsType ==
  ASSUME NEW v \in Views
  PROVE  ForceStopTargets(v) \in Views /\ DOMAIN ForceStopTargets(v) \in SUBSET Containers
<1>1. PICK D \in SUBSET Containers : v \in [D -> States] BY DEF Views
<1> DEFINE E == {d \in DOMAIN v : v[d] \in Active}
<1>2. E \in SUBSET Containers /\ DOMAIN v = D BY <1>1
<1>3. ForceStopTargets(v) \in [E -> States] BY <1>1 DEF ForceStopTargets
<1>4. DOMAIN ForceStopTargets(v) = E BY DEF ForceStopTargets
<1> QED BY <1>2, <1>3, <1>4 DEF Views

\* A command past its wait for zero capacity, and one about to kill.
Past    == {"preview", "check preview", "list", "confirm", "execute", "check execute", "relist",
            "kill", "await"}
Killing == {"kill", "await"}

\* What the saved state says of the pool: an acknowledged zero is overtaken only by a
\* step whose checkpoint was lost, and once that step has ended only while its poll is
\* unsaved; a drained pool saved for the mode requested is not enabled by the step.
PoolInv ==
    /\ observed.at <= desired.at
    /\ step.at = "idle" => ~step.lost
    /\ observed.acked /\ observed.capacity = 0 =>
         /\ step.at \in {"checked", "polled", "unpolled"} /\ step.mode = "enabled" => step.lost
         /\ offered => unsaved \/ (step.lost /\ step.mode = "enabled")
    /\ step.at = "polled" => (offered <=> step.mode = "enabled")
    /\ desired.mode = "disabled" /\ observed.phase = "draining" /\ observed.at = desired.at
         => step.mode # "enabled"

\* While the mode is the one the command asked for, the pool stays as it was checked.
StaysDrained(o) ==
    /\ op[o].asked <= desired.at
    /\ op[o].pc \in Past => op[o].asked <= observed.at
    /\ op[o].pc \in Past \ {"preview"} /\ desired.at = op[o].asked => desired.mode = "disabled"
    /\ op[o].pc \in Killing \cup {"relist"} /\ desired.at = op[o].asked =>
         step.mode # "enabled" /\ (offered => unsaved)

\* What a command has killed, and what it may say.
KillsShown(o) ==
    /\ op[o].pc # "end" => op[o].result = "pending"
    /\ op[o].pc \in Killing =>
         /\ ForceStopTargets(op[o].seen) = op[o].shown /\ op[o].todo \subseteq DOMAIN op[o].shown
         /\ \A c \in DOMAIN op[o].shown : c \in op[o].todo \/ op[o].failed \/ worker[c] = "gone"
    /\ killed[o] # {} =>
         /\ killed[o] \subseteq DOMAIN op[o].shown
         /\ ForceStopTargets(op[o].seen) = op[o].shown
         /\ op[o].pc \in Killing \/ (op[o].pc = "end" /\ op[o].result \in {"error", "stopped"})
    /\ op[o].result = "stopped" => \A c \in DOMAIN op[o].shown : worker[c] = "gone"

ForceInv == /\ Kinds /\ PoolInv
            /\ \A o \in Operators : StaysDrained(o) /\ KillsShown(o)

-----------------------------------------------------------------------------
(* A pool that serves jobs, with no command begun, satisfies the invariant. *)
LEMMA ForceInitHolds == ForceStopInit => ForceInv
<1> SUFFICES ASSUME NEW mode \in {"enabled", "disabled"}, NEW workers \in [Containers -> States],
                    NEW silent \in SUBSET Operators, NEW toggles \in Nat, NEW failures \in Nat,
                    InitWith(mode, workers, silent, toggles, failures)
             PROVE  ForceInv
  BY DEF ForceStopInit
<1>1. ASSUME NEW o \in Operators
      PROVE  /\ op[o] \in Commands /\ op[o].pc \in {"start", "end"} /\ op[o].asked = 0
             /\ op[o].result = "pending" /\ killed[o] = {}
  <2> DEFINE r == [pc |-> IF o \in silent THEN "end" ELSE "start", asked |-> 0,
                   shown |-> <<>>, seen |-> <<>>, todo |-> {}, failed |-> FALSE,
                   result |-> "pending"]
  <2>1. op[o] = r /\ killed[o] = {} BY DEF InitWith
  <2>2. r \in Commands /\ r.pc \in {"start", "end"} /\ r.asked = 0 /\ r.result = "pending"
    BY EmptyView DEF Commands, Stages, Results
  <2> HIDE DEF r
  <2> QED BY <2>1, <2>2
<1>2. Kinds
  <2>1. op \in [Operators -> Commands]
    <3>1. op = [o \in Operators |-> op[o]] BY DEF InitWith
    <3> QED BY <3>1, <1>1
  <2> QED BY <2>1 DEF Kinds, InitWith, Idle
<1>3. PoolInv
  <2>1. /\ desired.at = 0 /\ observed.at = 0 /\ step.at = "idle" /\ ~step.lost
        /\ step.mode = "none" /\ desired.mode = mode /\ (offered <=> mode = "enabled")
    BY DEF InitWith, Idle
  <2>2. observed.capacity = 0 => mode # "enabled" BY SMT DEF InitWith
  <2>3. observed.at <= desired.at BY SMT, <2>1
  <2> QED BY <2>1, <2>2, <2>3 DEF PoolInv
<1>4. ASSUME NEW o \in Operators PROVE StaysDrained(o) /\ KillsShown(o)
  <2>1. op[o].pc \notin Past /\ op[o].pc \notin Killing /\ op[o].pc # "relist"
    BY <1>1 DEF Past, Killing
  <2>2. desired.at = 0 BY DEF InitWith
  <2>3. StaysDrained(o) BY SMT, <1>1, <2>1, <2>2 DEF StaysDrained, Killing
  <2>4. KillsShown(o) BY <1>1, <2>1 DEF KillsShown
  <2> QED BY <2>3, <2>4
<1> QED BY <1>2, <1>3, <1>4 DEF ForceInv

\* How the pool may move while a command looks on.
Moves ==
    /\ desired' = desired \/ desired'.at = desired.at + 1
    /\ observed.at <= observed'.at
    /\ desired' = desired /\ desired.mode = "disabled" /\ step.mode # "enabled"
         /\ (offered => unsaved) => step'.mode # "enabled" /\ (offered' => unsaved')
    /\ \A c \in Containers : worker[c] = "gone" => worker'[c] = "gone"

PoolKinds == /\ desired \in [mode : {"enabled", "disabled"}, at : Nat]
             /\ observed \in [phase : {"active", "draining", "degraded"}, acked : BOOLEAN,
                              capacity : {0, 1}, at : Nat]
             /\ step \in [mode : {"none", "enabled", "disabled"},
                          at : {"idle", "loaded", "checked", "polled", "unpolled"},
                          lost : BOOLEAN]
             /\ assigned \in BOOLEAN /\ offered \in BOOLEAN /\ unsaved \in BOOLEAN
             /\ worker \in [Containers -> States]

\* The steps of the pool, of workers and of other commands.
PoolStep == \/ Enable \/ LoadDesired \/ PollCheckpoint \/ Heartbeat \/ Cancel \/ Poll
            \/ SaveObserved \/ Abandon \/ AssignJob \/ \E c \in Containers : StartWorker(c) \/ WorkerMoves(c)

(* A checkpoint that lands keeps an acknowledged zero only for a step that is not
   enabled: in a pool that is offered jobs, only over an unsaved poll. *)
LEMMA CheckpointLands ==
  ASSUME PoolKinds, PoolInv, NEW phase \in {Phase, "degraded"}, observed' = Checkpoint(phase)
  PROVE  /\ observed' \in [phase : {"active", "draining", "degraded"}, acked : BOOLEAN,
                            capacity : {0, 1}, at : Nat]
         /\ observed'.at = desired.at /\ observed.at <= observed'.at
         /\ observed'.acked /\ observed'.capacity = 0 =>
              (offered => unsaved) /\ step.mode # "enabled"
         /\ observed'.phase = "draining" => step.mode # "enabled"
<1>1. /\ observed'.at = desired.at /\ observed'.capacity = observed.capacity
      /\ observed'.acked = (observed.acked /\ observed.capacity = Planned)
      /\ observed'.phase = phase
  BY DEF Checkpoint, PoolKinds
<1>2. observed' \in [phase : {"active", "draining", "degraded"}, acked : BOOLEAN,
                     capacity : {0, 1}, at : Nat]
  BY DEF Checkpoint, Phase, PoolKinds
<1>3. observed'.acked /\ observed'.capacity = 0 => (offered => unsaved) /\ step.mode # "enabled"
  <2>1. observed'.acked => observed.acked /\ observed.capacity = Planned BY Zenon, <1>1
  <2>2. Planned = 0 => step.mode # "enabled" BY SMT DEF Planned
  <2>3. observed'.acked /\ observed'.capacity = 0 => observed.acked /\ observed.capacity = 0
    BY Zenon, <1>1, <2>1
  <2>4. observed.acked /\ observed.capacity = 0 /\ step.mode # "enabled" => (offered => unsaved)
    BY DEF PoolInv
  <2> QED BY Zenon, <1>1, <2>1, <2>2, <2>3, <2>4
<1>4. observed'.phase = "draining" => step.mode # "enabled" BY <1>1 DEF Phase
<1> QED BY <1>1, <1>2, <1>3, <1>4 DEF PoolInv

(* The reconciler's steps, enable commands and the workers keep PoolInv and move the
   pool only as Moves says: a drained pool is offered jobs again only after a new mode. *)
LEMMA PoolSteps ==
  ASSUME PoolKinds, PoolInv, PoolStep
  PROVE  PoolKinds' /\ PoolInv' /\ Moves /\ op' = op /\ killed' = killed
<1>1. CASE Enable
  BY SMT, <1>1 DEF Enable, Save, PoolKinds, PoolInv, Moves
<1>2. CASE LoadDesired
  <2>1. /\ step.at = "idle" /\ step'.mode = desired.mode /\ step'.at = "loaded" /\ ~step'.lost
        /\ desired' = desired /\ observed' = observed /\ assigned' = assigned
        /\ offered' = offered /\ unsaved' = unsaved /\ worker' = worker
        /\ op' = op /\ killed' = killed
    BY <1>2 DEF LoadDesired, Idle
  <2>2. PoolKinds' BY <1>2, <2>1 DEF LoadDesired, Idle, PoolKinds
  <2>3. PoolInv' BY <2>1 DEF PoolInv
  <2>4. Moves BY SMT, <2>1 DEF Moves, PoolKinds
  <2> QED BY <2>1, <2>2, <2>3, <2>4
<1>3. CASE PollCheckpoint
  <2>1. /\ step.at = "loaded" /\ step'.at = "checked" /\ step'.mode = step.mode
        /\ desired' = desired /\ offered' = offered /\ assigned' = assigned /\ worker' = worker
        /\ unsaved' = unsaved /\ op' = op /\ killed' = killed
    BY <1>3 DEF PollCheckpoint, PoolKinds
  <2>2. CASE step' = [step EXCEPT !.at = "checked"]
             /\ observed' = Checkpoint(Phase)
    <3>1. step'.lost = step.lost BY <2>2 DEF PoolKinds
    <3>2. PoolKinds' BY <2>1, <2>2, CheckpointLands DEF PoolKinds
    <3>3. PoolInv' BY SMT, <2>1, <2>2, <3>1, CheckpointLands DEF PoolInv, PoolKinds
    <3>4. Moves BY <2>1, <2>2, CheckpointLands DEF Moves
    <3> QED BY <2>1, <3>2, <3>3, <3>4
  <2>3. CASE step' = [step EXCEPT !.at = "checked", !.lost = TRUE] /\ observed' = observed
    <3>1. step'.lost /\ observed'.at = observed.at BY <2>3 DEF PoolKinds
    <3>2. PoolKinds' BY <2>1, <2>3 DEF PoolKinds
    <3>3. PoolInv' BY <2>1, <2>3, <3>1 DEF PoolInv
    <3>4. Moves BY SMT, <2>1, <2>3 DEF Moves, PoolKinds
    <3> QED BY <2>1, <3>2, <3>3, <3>4
  <2> QED BY <1>3, <2>2, <2>3 DEF PollCheckpoint
<1>10. CASE Heartbeat
  <2>1. /\ step.at = "checked" /\ step'.at = "checked" /\ step'.mode = step.mode /\ ~step'.lost
        /\ desired' = desired /\ offered' = offered /\ assigned' = assigned /\ worker' = worker
        /\ unsaved' = unsaved /\ op' = op /\ killed' = killed
    BY <1>10 DEF Heartbeat, PoolKinds
  <2>2. observed' = Checkpoint(Phase) BY <1>10 DEF Heartbeat
  <2>3. PoolKinds' BY <1>10, <2>1, <2>2, CheckpointLands DEF Heartbeat, PoolKinds
  <2>4. PoolInv' BY SMT, <2>1, <2>2, CheckpointLands DEF PoolInv, PoolKinds
  <2>5. Moves BY <2>1, <2>2, CheckpointLands DEF Moves
  <2> QED BY <2>1, <2>3, <2>4, <2>5
<1>11. CASE Cancel
  <2>1. /\ step.at = "checked" /\ step' = Idle
        /\ offered' = offered \/ offered' = (Planned = 1)
        /\ desired' = desired /\ assigned' = assigned /\ worker' = worker
        /\ unsaved' = unsaved /\ op' = op /\ killed' = killed
    BY <1>11 DEF Cancel
  <2>2. observed' = Checkpoint("degraded") BY <1>11 DEF Cancel
  <2>3. Planned = 1 <=> step.mode = "enabled" BY SMT DEF Planned
  <2>4. offered' => offered \/ step.mode = "enabled" BY Zenon, <2>1, <2>3
  <2>5. step'.at = "idle" /\ step'.mode = "none" /\ ~step'.lost BY <2>1 DEF Idle
  <2>6. observed'.phase = "degraded" BY <2>2 DEF Checkpoint, PoolKinds
  <2>7. PoolKinds'
    <3>1. offered' \in BOOLEAN BY <2>1 DEF PoolKinds
    <3> QED BY <2>1, <2>2, <3>1, CheckpointLands DEF Idle, PoolKinds
  <2>8. PoolInv' BY SMT, <2>1, <2>2, <2>4, <2>5, <2>6, CheckpointLands DEF PoolInv, PoolKinds
  <2>9. Moves BY <2>1, <2>2, <2>4, <2>5, CheckpointLands DEF Moves
  <2> QED BY <2>1, <2>7, <2>8, <2>9
<1>4. CASE Poll
  <2>1. /\ step.at = "checked" /\ step'.at \in {"polled", "unpolled"} /\ step'.mode = step.mode
        /\ step'.lost = step.lost /\ unsaved' = unsaved
        /\ step'.at = "polled" => offered' = (Planned = 1)
        /\ offered' = offered \/ offered' = (Planned = 1)
        /\ desired' = desired /\ observed' = observed /\ assigned' = assigned
        /\ worker' = worker /\ op' = op /\ killed' = killed
    BY <1>4 DEF Poll, PoolKinds
  <2>2. Planned = 1 <=> step.mode = "enabled" BY SMT DEF Planned
  <2>3. PoolKinds' BY <1>4 DEF Poll, PoolKinds
  <2>6. /\ step'.at = "polled" => (offered' <=> step.mode = "enabled")
        /\ offered' => offered \/ step.mode = "enabled"
    <3>1. CASE offered' = (Planned = 1) BY Zenon, <3>1, <2>2
    <3>2. CASE offered' = offered BY Zenon, <2>1, <2>2, <3>2
    <3> QED BY <2>1, <3>1, <3>2
  <2>4. PoolInv' BY <2>1, <2>6 DEF PoolInv
  <2>5. Moves BY SMT, <2>1, <2>2 DEF Moves, PoolKinds
  <2> QED BY <2>1, <2>3, <2>4, <2>5
<1>5. CASE SaveObserved
  BY SMT, <1>5 DEF SaveObserved, Idle, Acknowledgement, Planned, Phase, PoolKinds, PoolInv, Moves
<1>9. CASE Abandon
  <2>1. /\ step' = Idle /\ unsaved' = (unsaved \/ step.lost)
        /\ offered' = offered \/ (step.at = "checked" /\ offered' = (Planned = 1))
        /\ desired' = desired /\ observed' = observed /\ assigned' = assigned
        /\ worker' = worker /\ op' = op /\ killed' = killed
    BY <1>9 DEF Abandon
  <2>2. Planned = 1 <=> step.mode = "enabled" BY SMT DEF Planned
  <2>3. offered' => offered \/ (step.at = "checked" /\ step.mode = "enabled")
    BY Zenon, <2>1, <2>2
  <2>4. step'.at = "idle" /\ step'.mode = "none" /\ ~step'.lost BY <2>1 DEF Idle
  <2>5. PoolKinds'
    <3>1. offered' \in BOOLEAN /\ unsaved' \in BOOLEAN BY <2>1 DEF PoolKinds
    <3> QED BY <2>1, <3>1 DEF Idle, PoolKinds
  <2>6. PoolInv' BY <2>1, <2>3, <2>4 DEF PoolInv
  <2>7. Moves BY SMT, <2>1, <2>3, <2>4 DEF Moves, PoolKinds
  <2> QED BY <2>1, <2>5, <2>6, <2>7
<1>6. CASE AssignJob
  BY SMT, <1>6 DEF AssignJob, PoolKinds, PoolInv, Moves
<1>7. ASSUME NEW c \in Containers, StartWorker(c)
      PROVE  PoolKinds' /\ PoolInv' /\ Moves /\ op' = op /\ killed' = killed
  BY SMT, <1>7 DEF StartWorker, PoolKinds, PoolInv, Moves, States, Active
<1>8. ASSUME NEW c \in Containers, WorkerMoves(c)
      PROVE  PoolKinds' /\ PoolInv' /\ Moves /\ op' = op /\ killed' = killed
  <2>1. /\ \E s \in {"idle", "busy", "exited", "gone"} :
             worker[c] # "gone" /\ worker' = [worker EXCEPT ![c] = s]
        /\ assigned' \in BOOLEAN
        /\ desired' = desired /\ observed' = observed /\ step' = step /\ offered' = offered /\ unsaved' = unsaved
        /\ op' = op /\ killed' = killed
    BY <1>8 DEF WorkerMoves, PoolKinds
  <2>2. PoolKinds' BY SMT, <2>1 DEF PoolKinds, States, Active
  <2>3. PoolInv' BY <2>1 DEF PoolInv
  <2>4. Moves BY SMT, <2>1 DEF Moves, PoolKinds
  <2> QED BY <2>1, <2>2, <2>3, <2>4
<1> QED BY <1>1, <1>2, <1>3, <1>4, <1>5, <1>6, <1>7, <1>8, <1>9, <1>10, <1>11 DEF PoolStep

(* A command that does not step keeps its checks and its kills while the pool moves. *)
LEMMA Onlooker ==
  ASSUME Kinds, NEW o \in Operators, StaysDrained(o), KillsShown(o), Moves,
         op'[o] = op[o], killed'[o] = killed[o], PoolKinds'
  PROVE  StaysDrained(o)' /\ KillsShown(o)'
<1>0. op[o] \in Commands /\ desired.at \in Nat /\ op[o].asked \in Nat /\ observed.at \in Nat
      /\ DOMAIN op[o].shown \subseteq Containers
  BY SMT DEF Kinds, Commands, Views
<1>1. StaysDrained(o)'
  <2>1. CASE desired' = desired
    <3>1. op'[o].pc \in Past => op'[o].asked <= observed'.at
      <4>1. observed'.at \in Nat /\ observed.at <= observed'.at BY DEF Moves, PoolKinds
      <4>2. op[o].pc \in Past => op[o].asked <= observed.at BY DEF StaysDrained
      <4> QED BY SMT, <1>0, <4>1, <4>2
    <3>2. op'[o].pc \in Killing \cup {"relist"} /\ desired'.at = op'[o].asked =>
            step'.mode # "enabled" /\ (offered' => unsaved')
      <4> SUFFICES ASSUME op[o].pc \in Killing \cup {"relist"}, desired.at = op[o].asked
                   PROVE  step'.mode # "enabled" /\ (offered' => unsaved')
        BY <2>1
      <4>1. desired.mode = "disabled" /\ step.mode # "enabled" /\ (offered => unsaved)
        BY DEF StaysDrained, Past, Killing
      <4> QED BY <2>1, <4>1 DEF Moves
    <3> QED BY <2>1, <3>1, <3>2 DEF StaysDrained
  <2>2. CASE desired'.at = desired.at + 1
    BY SMT, <1>0, <2>2 DEF StaysDrained, Moves, PoolKinds
  <2> QED BY <2>1, <2>2 DEF Moves
<1>2. KillsShown(o)'
  BY <1>0 DEF KillsShown, Moves
<1> QED BY <1>1, <1>2

(* A command's own step, in the record it keeps. *)
LEMMA OwnFrame ==
  ASSUME Kinds, NEW o \in Operators, NEW r \in Commands, op' = [op EXCEPT ![o] = r]
  PROVE  /\ op' \in [Operators -> Commands] /\ op'[o] = r
         /\ \A p \in Operators : p # o => op'[p] = op[p]
BY DEF Kinds

(* A command that moves to its next stage changes nothing else of its record. *)
LEMMA Placed ==
  ASSUME Kinds, NEW o \in Operators, NEW place \in Stages
  PROVE  /\ At(o, place) => op' = [op EXCEPT ![o] = [op[o] EXCEPT !.pc = place]]
         /\ [op[o] EXCEPT !.pc = place] \in Commands
BY ZenonT(60) DEF Kinds, At, Commands

(* A command that answers its operator changes its place and its result only. *)
LEMMA Replied ==
  ASSUME Kinds, NEW o \in Operators, NEW result \in Results
  PROVE  /\ Reply(o, result) => op' = [op EXCEPT ![o] = [op[o] EXCEPT !.pc = "end",
                                                                    !.result = result]]
         /\ [op[o] EXCEPT !.pc = "end", !.result = result] \in Commands
<1>0. op[o] \in Commands BY DEF Kinds
<1>1. [op[o] EXCEPT !.pc = "end", !.result = result] \in Commands
  BY <1>0 DEF Commands, Stages
<1>2. Reply(o, result) => op' = [op EXCEPT ![o] = [op[o] EXCEPT !.pc = "end", !.result = result]]
  BY <1>0 DEF Kinds, Reply, Commands
<1> QED BY <1>1, <1>2

\* Only a kill changes more than the command's record and the mode it requests.
Quiet(o) ==
    /\ UNCHANGED <<observed, step, assigned, offered, worker, killed, unsaved>>
    /\ desired' = desired \/ (op[o].pc = "start" /\ Save("disabled"))

(* A command that only reads, or requests disabled mode, moves the pool as Moves says. *)
LEMMA QuietMoves ==
  ASSUME Kinds, PoolInv, NEW o \in Operators, Quiet(o)
  PROVE  PoolKinds' /\ PoolInv' /\ Moves /\ killed' = killed
<1>1. CASE desired' = desired
  BY SMT, <1>1 DEF Kinds, Quiet, PoolKinds, PoolInv, Moves
<1>2. CASE Save("disabled")
  BY SMT, <1>2 DEF Kinds, Quiet, Save, PoolKinds, PoolInv, Moves
<1> QED BY <1>1, <1>2 DEF Quiet

(* A command that has not come to its kills has killed nothing. *)
LEMMA EarlyKills ==
  ASSUME NEW o \in Operators, KillsShown(o), op[o].pc \notin Killing \cup {"end"},
         killed' = killed, op'[o].pc \notin Killing, op'[o].result # "stopped",
         op'[o].pc # "end" => op'[o].result = "pending"
  PROVE  KillsShown(o)'
<1>1. killed[o] = {} BY DEF KillsShown
<1> QED BY <1>1 DEF KillsShown

(* A command at its end claims nothing more of the pool. *)
LEMMA EndDrained ==
  ASSUME Kinds, NEW o \in Operators, StaysDrained(o), desired' = desired,
         op'[o].pc = "end", op'[o].asked = op[o].asked
  PROVE  StaysDrained(o)'
BY DEF StaysDrained, Past, Killing

\* What a step of a command leaves: its own record, its checks and its kills.
Stepped(o) == /\ PoolKinds' /\ PoolInv' /\ Moves
              /\ op' \in [Operators -> Commands] /\ killed' \in [Operators -> SUBSET Containers]
              /\ \A p \in Operators : p # o => op'[p] = op[p] /\ killed'[p] = killed[p]
              /\ StaysDrained(o)' /\ KillsShown(o)'

(* A step that kills nothing keeps the pool's part of the invariant. *)
LEMMA QuietStep ==
  ASSUME Kinds, PoolInv, NEW o \in Operators, Quiet(o), NEW r \in Commands,
         op' = [op EXCEPT ![o] = r], StaysDrained(o)', KillsShown(o)'
  PROVE  Stepped(o)
<1>1. PoolKinds' /\ PoolInv' /\ Moves /\ killed' = killed BY QuietMoves
<1>2. killed' \in [Operators -> SUBSET Containers] BY <1>1 DEF Kinds
<1> QED BY <1>1, <1>2, OwnFrame DEF Stepped

(* A refusal, a decline or an empty inventory ends the command with nothing killed. *)
LEMMA Dismissed ==
  ASSUME Kinds, PoolInv, NEW o \in Operators, StaysDrained(o), KillsShown(o), Quiet(o),
         desired' = desired, NEW result \in Harmless, Reply(o, result),
         op[o].pc \notin Killing \cup {"end"}
  PROVE  Stepped(o)
<1> DEFINE r == [op[o] EXCEPT !.pc = "end", !.result = result]
<1>1. result \in Results /\ result # "stopped" BY DEF Results, Harmless
<1>2. op' = [op EXCEPT ![o] = r] /\ r \in Commands BY <1>1, Replied
<1>3. op[o] \in Commands BY DEF Kinds
<1>4. r.pc = "end" /\ r.result = result /\ r.asked = op[o].asked BY <1>3 DEF Commands
<1> HIDE DEF r
<1>5. op'[o] = r BY <1>2, OwnFrame
<1>6. StaysDrained(o)' BY <1>4, <1>5, EndDrained
<1>7. KillsShown(o)'
  <2>1. killed' = killed /\ op'[o].pc \notin Killing BY <1>4, <1>5 DEF Quiet, Killing
  <2> QED BY <2>1, <1>1, <1>4, <1>5, EarlyKills
<1> QED BY <1>2, <1>6, <1>7, QuietStep

(* A check passed before the kills leaves the kills as they were: none. *)
LEMMA Passed ==
  ASSUME Kinds, PoolInv, NEW o \in Operators, KillsShown(o), Quiet(o), NEW place \in Stages,
         At(o, place), op[o].pc \notin Killing \cup {"end"}, place \notin Killing \cup {"end"},
         op'[o].pc = place /\ op'[o].asked = op[o].asked => StaysDrained(o)'
  PROVE  Stepped(o)
<1> DEFINE r == [op[o] EXCEPT !.pc = place]
<1>2. op' = [op EXCEPT ![o] = r] /\ r \in Commands BY Placed
<1>3. op[o] \in Commands BY DEF Kinds
<1>4. r.pc = place /\ r.result = op[o].result /\ r.asked = op[o].asked BY <1>3 DEF Commands
<1> HIDE DEF r
<1>5. op'[o] = r BY <1>2, OwnFrame
<1>6. StaysDrained(o)' BY <1>4, <1>5
<1>7. KillsShown(o)'
  <2>1. op[o].result = "pending" BY DEF KillsShown
  <2>2. killed' = killed BY DEF Quiet
  <2> QED BY <2>1, <2>2, <1>4, <1>5, EarlyKills
<1> QED BY <1>2, <1>6, <1>7, QuietStep

(* RequestDisabled, the stamp read back and the wait for zero capacity: a command goes on
   only over an observation saved at its own request or later. *)
LEMMA RequestSteps ==
  ASSUME Kinds, PoolInv, NEW o \in Operators, StaysDrained(o), KillsShown(o),
         RequestDisabled(o) \/ ReadStamp(o) \/ WaitForZeroCapacity(o)
  PROVE  Stepped(o)
<1>0. /\ desired.at \in Nat /\ observed.at \in Nat /\ op[o] \in Commands /\ op[o].asked \in Nat
      /\ op[o].asked <= desired.at
  BY DEF Kinds, Commands, StaysDrained
<1>1. CASE RequestDisabled(o)
  <2>1. op[o].pc = "start" /\ At(o, "stamp") /\ Quiet(o) /\ Save("disabled")
    BY <1>1 DEF RequestDisabled, Quiet
  <2>2. op'[o].pc = "stamp" /\ op'[o].asked = op[o].asked => StaysDrained(o)'
    BY SMT, <1>0, <2>1 DEF Save, StaysDrained, Past, Killing
  <2> QED BY <2>1, <2>2, Passed DEF Stages, Killing
<1>2. CASE ReadStamp(o)
  <2> DEFINE r == [op[o] EXCEPT !.pc = "drain", !.asked = desired.at]
  <2>1. op[o].pc = "stamp" /\ Quiet(o) /\ desired' = desired
    BY Zenon, <1>2 DEF ReadStamp, Quiet
  <2>2. op' = [op EXCEPT ![o] = r] BY <1>2 DEF ReadStamp, Kinds, Commands
  <2>3. r \in Commands /\ r.pc = "drain" /\ r.asked = desired.at /\ r.result = op[o].result
    BY <1>0 DEF Commands, Stages
  <2> HIDE DEF r
  <2>4. op'[o] = r BY <2>2, <2>3, OwnFrame
  <2>5. StaysDrained(o)'
    <3>1. op'[o].pc = "drain" /\ op'[o].asked <= desired'.at BY SMT, <1>0, <2>1, <2>3, <2>4
    <3> QED BY <3>1 DEF StaysDrained, Past, Killing
  <2>6. op[o].result = "pending" BY <2>1 DEF KillsShown
  <2>7. KillsShown(o)' BY <2>1, <2>3, <2>4, <2>6, EarlyKills DEF Quiet, Killing
  <2> QED BY <2>1, <2>2, <2>3, <2>5, <2>7, QuietStep
<1>3. CASE WaitForZeroCapacity(o)
  <2>1. op[o].pc = "drain" /\ Quiet(o) /\ desired' = desired /\ observed' = observed
    BY Zenon, <1>3 DEF WaitForZeroCapacity, Quiet
  <2>2. CASE observed.at >= op[o].asked /\ At(o, "preview")
    <3>1. op'[o].pc = "preview" /\ op'[o].asked = op[o].asked => StaysDrained(o)'
      BY <1>0, <2>1, <2>2 DEF StaysDrained, Past, Killing
    <3> QED BY <2>1, <2>2, <3>1, Passed DEF Stages, Killing
  <2>3. CASE Reply(o, "problems")
    BY <2>1, <2>3, Dismissed DEF Harmless, Killing
  <2> QED BY <1>3, <2>2, <2>3 DEF WaitForZeroCapacity
<1> QED BY <1>1, <1>2, <1>3

(* forceStopAllowed: disabled mode and an acknowledged zero, saved at the command's stamp,
   leave no step under way that could offer jobs again. *)
LEMMA CheckSteps ==
  ASSUME Kinds, PoolInv, NEW o \in Operators, StaysDrained(o), KillsShown(o),
         Allowed(o) \/ Acknowledged(o)
  PROVE  Stepped(o)
<1>0. /\ desired.at \in Nat /\ observed.at \in Nat /\ op[o] \in Commands /\ op[o].asked \in Nat
      /\ op[o].asked <= desired.at /\ observed.at <= desired.at
  BY DEF Kinds, Commands, StaysDrained, PoolInv
<1>1. CASE Allowed(o)
  <2>1. op[o].pc \in {"preview", "execute"} /\ Quiet(o) /\ desired' = desired
        /\ observed' = observed
    BY Zenon, <1>1 DEF Allowed, Quiet
  <2>2. CASE desired.mode = "disabled"
    <3> DEFINE place == IF op[o].pc = "preview" THEN "check preview" ELSE "check execute"
    <3>1. At(o, place) BY <1>1, <2>2 DEF Allowed
    <3>2. place \in {"check preview", "check execute"} OBVIOUS
    <3> HIDE DEF place
    <3>3. op'[o].pc = place /\ op'[o].asked = op[o].asked => StaysDrained(o)'
      BY <1>0, <2>1, <2>2, <3>2 DEF StaysDrained, Past, Killing
    <3> QED BY <2>1, <3>1, <3>2, <3>3, Passed DEF Stages, Killing
  <2>3. CASE desired.mode # "disabled"
    BY <1>1, <2>1, <2>3, Dismissed DEF Allowed, Harmless, Killing
  <2> QED BY <2>2, <2>3
<1>2. CASE Acknowledged(o)
  <2>1. /\ op[o].pc \in {"check preview", "check execute"} /\ Quiet(o) /\ desired' = desired
        /\ observed' = observed /\ step' = step /\ offered' = offered /\ unsaved' = unsaved
    BY Zenon, <1>2 DEF Acknowledged, Quiet
  <2>2. CASE AtZero /\ observed.acked
    <3> DEFINE place == IF op[o].pc = "check preview" THEN "list" ELSE "relist"
               r == [op[o] EXCEPT !.pc = place, !.seen = <<>>, !.todo = Containers]
    <3>1. op' = [op EXCEPT ![o] = r]
      BY <1>2, <2>2 DEF Acknowledged, Kinds, Commands
    <3>2. place \in {"list", "relist"} /\ place \in Stages BY DEF Stages
    <3>3. place = "relist" => op[o].pc = "check execute" BY <2>1
    <3> HIDE DEF place
    <3>4. r \in Commands /\ r.pc = place /\ r.asked = op[o].asked /\ r.result = op[o].result
      BY <1>0, <3>2, EmptyView DEF Commands
    <3> HIDE DEF r
    <3>5. op'[o] = r BY <3>1, <3>4, OwnFrame
    <3>6. op[o].asked <= observed.at
          /\ (desired.at = op[o].asked => desired.mode = "disabled")
      BY <2>1 DEF StaysDrained, Past
    <3>7. desired.at = op[o].asked => step.mode # "enabled" /\ (offered => unsaved)
      <4>1. desired.at = op[o].asked => observed.at = desired.at BY SMT, <1>0, <3>6
      <4> QED BY <4>1, <3>6, <2>2 DEF AtZero, PoolInv
    <3>8. StaysDrained(o)' BY <1>0, <2>1, <3>2, <3>4, <3>5, <3>6, <3>7 DEF StaysDrained
    <3>9. op[o].result = "pending" BY <2>1 DEF KillsShown
    <3>10. KillsShown(o)'
      BY <2>1, <3>2, <3>4, <3>5, <3>9, EarlyKills DEF Quiet, Killing
    <3> QED BY <2>1, <3>1, <3>4, <3>8, <3>10, QuietStep
  <2>3. CASE ~(AtZero /\ observed.acked)
    BY <1>2, <2>1, <2>3, Dismissed DEF Acknowledged, Harmless, Killing
  <2> QED BY <2>2, <2>3
<1> QED BY <1>1, <1>2

(* The inventories, what is shown and the confirmation. *)
LEMMA ListSteps ==
  ASSUME Kinds, PoolInv, NEW o \in Operators, StaysDrained(o), KillsShown(o),
         Inspect(o) \/ Show(o) \/ Confirm(o)
  PROVE  Stepped(o)
<1>0. /\ op[o] \in Commands /\ op[o].seen \in Views /\ op[o].todo \in SUBSET Containers
      /\ worker \in [Containers -> States]
  BY DEF Kinds, Commands
<1>1. CASE Inspect(o)
  <2>1. /\ op[o].pc \in {"list", "relist"} /\ Quiet(o) /\ desired' = desired
        /\ observed' = observed /\ step' = step /\ offered' = offered /\ unsaved' = unsaved
    BY Zenon, <1>1 DEF Inspect, Quiet
  <2>2. PICK c \in First(op[o].todo), unread \in BOOLEAN :
          op' = [op EXCEPT ![o].todo = @ \ {c},
                           ![o].seen = [d \in DOMAIN @ \cup {c} |->
                                          IF d = c THEN (IF unread THEN "starting" ELSE worker[c])
                                                   ELSE @[d]]]
    BY Zenon, <1>1 DEF Inspect
  <2> DEFINE state == IF unread THEN "starting" ELSE worker[c]
             seen == [d \in DOMAIN op[o].seen \cup {c} |->
                        IF d = c THEN state ELSE op[o].seen[d]]
             r == [op[o] EXCEPT !.todo = @ \ {c}, !.seen = seen]
  <2>3. c \in Containers BY <1>0 DEF First
  <2>4. state \in States BY <1>0, <2>3 DEF States, Active
  <2>5. op' = [op EXCEPT ![o] = r] BY <2>2 DEF Kinds, Commands
  <2>6. seen \in Views
    <3> HIDE DEF state
    <3> QED BY <1>0, <2>3, <2>4, ViewGrows
  <2> HIDE DEF seen
  <2>7. r \in Commands /\ r.pc = op[o].pc /\ r.asked = op[o].asked /\ r.result = op[o].result
    BY <1>0, <2>6 DEF Commands
  <2> HIDE DEF r
  <2>8. op'[o] = r BY <2>5, <2>7, OwnFrame
  <2>9. StaysDrained(o)' BY <2>1, <2>7, <2>8 DEF StaysDrained
  <2>10. op[o].result = "pending" BY <2>1 DEF KillsShown
  <2>11. KillsShown(o)'
    BY <2>1, <2>7, <2>8, <2>10, EarlyKills DEF Quiet, Killing
  <2> QED BY <2>1, <2>5, <2>7, <2>9, <2>11, QuietStep
<1>2. CASE Show(o)
  <2>1. /\ op[o].pc = "list" /\ Quiet(o) /\ desired' = desired
        /\ observed' = observed /\ step' = step /\ offered' = offered /\ unsaved' = unsaved
    BY Zenon, <1>2 DEF Show, Quiet
  <2> DEFINE targets == ForceStopTargets(op[o].seen)
  <2>2. targets \in Views BY <1>0, TargetsType
  <2>3. CASE targets = <<>>
    BY <1>2, <2>1, <2>3, Dismissed DEF Show, Harmless, Killing
  <2>4. CASE targets # <<>>
    <3> DEFINE r == [op[o] EXCEPT !.pc = "confirm", !.shown = targets]
    <3>1. op' = [op EXCEPT ![o] = r] BY <1>2, <2>4 DEF Show, Kinds, Commands
    <3> HIDE DEF targets
    <3>2. /\ r \in Commands /\ r.pc = "confirm" /\ r.asked = op[o].asked
          /\ r.result = op[o].result
      BY <1>0, <2>2 DEF Commands, Stages
    <3> HIDE DEF r
    <3>3. op'[o] = r BY <3>1, <3>2, OwnFrame
    <3>4. StaysDrained(o)' BY <2>1, <3>2, <3>3 DEF StaysDrained, Past, Killing
    <3>5. op[o].result = "pending" BY <2>1 DEF KillsShown
    <3>6. KillsShown(o)' BY <2>1, <3>2, <3>3, <3>5, EarlyKills DEF Quiet, Killing
    <3> QED BY <2>1, <3>1, <3>2, <3>4, <3>6, QuietStep
  <2> QED BY <2>3, <2>4
<1>3. CASE Confirm(o)
  <2>1. /\ op[o].pc = "confirm" /\ Quiet(o) /\ desired' = desired
        /\ observed' = observed
    BY Zenon, <1>3 DEF Confirm, Quiet
  <2>2. CASE At(o, "execute")
    <3>1. op'[o].pc = "execute" /\ op'[o].asked = op[o].asked => StaysDrained(o)'
      BY <2>1 DEF StaysDrained, Past, Killing
    <3> QED BY <2>1, <2>2, <3>1, Passed DEF Stages, Killing
  <2>3. CASE Reply(o, "declined")
    BY <2>1, <2>3, Dismissed DEF Harmless, Killing
  <2> QED BY <1>3, <2>2, <2>3 DEF Confirm
<1> QED BY <1>1, <1>2, <1>3

(* ExecuteForceStop goes on only with the inventory that was confirmed. *)
LEMMA CompareStep ==
  ASSUME Kinds, PoolInv, NEW o \in Operators, StaysDrained(o), KillsShown(o), Compare(o)
  PROVE  Stepped(o)
<1>0. op[o] \in Commands /\ op[o].seen \in Views BY DEF Kinds, Commands
<1>1. /\ op[o].pc = "relist" /\ Quiet(o) /\ desired' = desired
      /\ observed' = observed /\ step' = step /\ offered' = offered /\ unsaved' = unsaved /\ killed' = killed
  BY Zenon DEF Compare, Quiet
<1> DEFINE actual == ForceStopTargets(op[o].seen)
<1>2. actual \in Views /\ DOMAIN actual \in SUBSET Containers BY <1>0, TargetsType
<1>3. CASE op[o].shown = actual
  <2> DEFINE r == [op[o] EXCEPT !.pc = "kill", !.todo = DOMAIN actual]
  <2>1. op' = [op EXCEPT ![o] = r] BY <1>3 DEF Compare, SameForceStopTargets, Kinds, Commands
  <2> HIDE DEF actual
  <2>2. /\ r \in Commands /\ r.pc = "kill" /\ r.asked = op[o].asked /\ r.todo = DOMAIN actual
        /\ r.result = op[o].result /\ r.seen = op[o].seen /\ r.shown = op[o].shown
    BY <1>0, <1>2 DEF Commands, Stages
  <2> HIDE DEF r
  <2>3. op'[o] = r BY <2>1, <2>2, OwnFrame
  <2>4. StaysDrained(o)' BY <1>1, <2>2, <2>3 DEF StaysDrained, Past, Killing
  <2>5. op[o].result = "pending" /\ killed[o] = {} BY <1>1 DEF KillsShown, Killing
  <2>6. KillsShown(o)'
    BY <1>1, <1>3, <2>2, <2>3, <2>5 DEF KillsShown, Killing, actual
  <2> QED BY <1>1, <2>1, <2>2, <2>4, <2>6, QuietStep
<1>4. CASE op[o].shown # actual
  BY <1>1, <1>4, Dismissed DEF Compare, SameForceStopTargets, Harmless, Killing
<1> QED BY <1>3, <1>4

(* What a command that kills relies on. *)
LEMMA KillerFacts ==
  ASSUME Kinds, NEW o \in Operators, KillsShown(o), op[o].pc \in Killing
  PROVE  /\ op[o] \in Commands /\ op[o].result = "pending" /\ op[o].failed \in BOOLEAN
         /\ ForceStopTargets(op[o].seen) = op[o].shown
         /\ op[o].todo \subseteq DOMAIN op[o].shown /\ DOMAIN op[o].shown \subseteq Containers
         /\ killed[o] \subseteq DOMAIN op[o].shown
         /\ \A c \in DOMAIN op[o].shown : c \in op[o].todo \/ op[o].failed \/ worker[c] = "gone"
<1>1. op[o] \in Commands /\ op[o].failed \in BOOLEAN /\ op[o].seen \in Views
  BY DEF Kinds, Commands
<1>2. DOMAIN ForceStopTargets(op[o].seen) \in SUBSET Containers BY <1>1, TargetsType
<1> QED BY <1>1, <1>2 DEF KillsShown, Killing

(* The record after a target is done with. *)
LEMMA TargetDone ==
  ASSUME Kinds, NEW o \in Operators, NEW c, NEW failed \in BOOLEAN, NextTarget(o, c, failed)
  PROVE  \E r \in Commands :
           /\ op' = [op EXCEPT ![o] = r] /\ r.pc = "kill" /\ r.todo = op[o].todo \ {c}
           /\ r.failed = (op[o].failed \/ failed)
           /\ r.asked = op[o].asked /\ r.seen = op[o].seen /\ r.shown = op[o].shown
           /\ r.result = op[o].result
<1> DEFINE r == [op[o] EXCEPT !.pc = "kill", !.todo = @ \ {c}, !.failed = @ \/ failed]
<1>0. op[o] \in Commands BY DEF Kinds
<1>1. op' = [op EXCEPT ![o] = r] BY DEF NextTarget, Kinds, Commands
<1>2. /\ r \in Commands /\ r.pc = "kill" /\ r.todo = op[o].todo \ {c}
      /\ r.failed = (op[o].failed \/ failed)
      /\ r.asked = op[o].asked /\ r.seen = op[o].seen /\ r.shown = op[o].shown
      /\ r.result = op[o].result
  BY <1>0 DEF Commands, Stages
<1> HIDE DEF r
<1> QED BY <1>1, <1>2

(* The wait for a watch: the next target is taken when this one is gone, or with an error noted. *)
LEMMA AwaitStep ==
  ASSUME Kinds, PoolInv, NEW o \in Operators, StaysDrained(o), KillsShown(o), AwaitWatch(o)
  PROVE  Stepped(o)
<1>1. /\ op[o].pc = "await" /\ Quiet(o) /\ desired' = desired /\ worker' = worker
      /\ observed' = observed /\ step' = step /\ offered' = offered /\ unsaved' = unsaved /\ killed' = killed
  BY Zenon DEF AwaitWatch, Quiet
<1>2. PICK c \in First(op[o].todo), failed \in BOOLEAN :
        NextTarget(o, c, failed) /\ (worker[c] = "gone" \/ failed)
  BY DEF AwaitWatch
<1>3. PICK r \in Commands :
           /\ op' = [op EXCEPT ![o] = r] /\ r.pc = "kill" /\ r.todo = op[o].todo \ {c}
           /\ r.failed = (op[o].failed \/ failed)
           /\ r.asked = op[o].asked /\ r.seen = op[o].seen /\ r.shown = op[o].shown
           /\ r.result = op[o].result
  BY SMT, <1>2, TargetDone
<1>4. op'[o] = r BY <1>3, OwnFrame
<1>5. StaysDrained(o)' BY <1>1, <1>3, <1>4 DEF StaysDrained, Past, Killing
<1>6. KillsShown(o)'
  <2>1. op[o].pc \in Killing BY <1>1 DEF Killing
  <2>2. ASSUME NEW d \in DOMAIN r.shown PROVE d \in r.todo \/ r.failed \/ worker[d] = "gone"
    BY <1>2, <1>3, <2>1, KillerFacts
  <2>3. r.todo \subseteq DOMAIN r.shown BY <1>3, <2>1, KillerFacts
  <2> QED BY <1>1, <1>3, <1>4, <2>1, <2>2, <2>3, KillerFacts DEF KillsShown, Killing
<1> QED BY <1>1, <1>3, <1>5, <1>6, QuietStep

(* A broken request is an error; a finished one reports success only if nothing failed. *)
LEMMA EndSteps ==
  ASSUME Kinds, PoolInv, NEW o \in Operators, StaysDrained(o), KillsShown(o),
         Break(o) \/ Finish(o)
  PROVE  Stepped(o)
<1>1. /\ op[o].pc \in Killing /\ Quiet(o) /\ desired' = desired /\ worker' = worker
      /\ killed' = killed
  BY Zenon DEF Break, Finish, Quiet, Killing
<1>2. PICK result \in {"error", "stopped"} :
        Reply(o, result) /\ (result = "stopped" => op[o].todo = {} /\ ~op[o].failed)
  BY DEF Break, Finish
<1> DEFINE r == [op[o] EXCEPT !.pc = "end", !.result = result]
<1>3. op' = [op EXCEPT ![o] = r] /\ r \in Commands BY <1>2, Replied DEF Results
<1>4. op[o] \in Commands BY DEF Kinds
<1>5. /\ r.pc = "end" /\ r.result = result /\ r.asked = op[o].asked
      /\ r.shown = op[o].shown /\ r.seen = op[o].seen
  BY <1>4 DEF Commands
<1> HIDE DEF r
<1>6. op'[o] = r BY <1>3, OwnFrame
<1>7. StaysDrained(o)' BY <1>1, <1>5, <1>6, EndDrained
<1>8. KillsShown(o)'
  <2>1. result = "stopped" => \A c \in DOMAIN op[o].shown : worker[c] = "gone"
    BY <1>1, <1>2, KillerFacts
  <2> QED BY <1>1, <1>2, <1>5, <1>6, <2>1, KillerFacts DEF KillsShown, Killing
<1> QED BY <1>1, <1>3, <1>7, <1>8, QuietStep

(* ContainerKill ends a container that was shown, or notes an error. *)
LEMMA KillStep ==
  ASSUME Kinds, PoolInv, NEW o \in Operators, StaysDrained(o), KillsShown(o), ContainerKill(o)
  PROVE  Stepped(o)
<1>0. worker \in [Containers -> States] /\ op[o] \in Commands
      /\ killed \in [Operators -> SUBSET Containers]
  BY DEF Kinds
<1>1. /\ op[o].pc = "kill" /\ op[o].pc \in Killing
      /\ UNCHANGED <<desired, observed, step, assigned, offered, unsaved>>
  BY Zenon DEF ContainerKill, Killing
<1>2. PICK c \in First(op[o].todo) :
        /\ \/ worker' = worker
           \/ worker[c] \in Active /\ worker' = [worker EXCEPT ![c] = "exited"]
        /\ killed' = killed \/ killed' = [killed EXCEPT ![o] = @ \cup {c}]
        /\ At(o, "await") \/ NextTarget(o, c, TRUE)
  <2>1. PICK c \in First(op[o].todo) :
       \/ /\ worker[c] \in Active /\ At(o, "await")
          /\ worker' = [worker EXCEPT ![c] = "exited"]
          /\ killed' = [killed EXCEPT ![o] = @ \cup {c}]
       \/ worker[c] = "gone" /\ At(o, "await") /\ UNCHANGED <<worker, killed>>
       \/ /\ worker[c] = "exited" /\ NextTarget(o, c, TRUE)
          /\ UNCHANGED <<worker, killed>>
       \/ /\ NextTarget(o, c, TRUE)
          /\ worker' \in {worker, [worker EXCEPT ![c] = IF @ \in Active THEN "exited" ELSE @]}
          /\ killed' = [killed EXCEPT ![o] = IF worker' # worker THEN @ \cup {c} ELSE @]
    BY Zenon DEF ContainerKill
  <2>2. worker[c] \notin Active =>
          [worker EXCEPT ![c] = IF @ \in Active THEN "exited" ELSE @] = worker
    BY <1>0
  <2>3. [killed EXCEPT ![o] = @] = killed BY <1>0
  <2> QED BY <2>1, <2>2, <2>3
<1>3. c \in op[o].todo /\ c \in DOMAIN op[o].shown /\ c \in Containers
  BY <1>1, <1>2, KillerFacts DEF First
<1>4. /\ worker' \in [Containers -> States]
      /\ \A d \in Containers : worker[d] = "gone" => worker'[d] = "gone"
  BY <1>0, <1>2, <1>3 DEF States, Active
<1>5. PoolKinds' /\ PoolInv' /\ Moves
  <2>1. PoolKinds' BY ZenonT(60), <1>1, <1>4 DEF Kinds, PoolKinds
  <2>2. PoolInv' BY <1>1 DEF PoolInv
  <2>3. Moves BY SMT, <1>1, <1>4 DEF Moves, Kinds
  <2> QED BY <2>1, <2>2, <2>3
<1>6. /\ killed' \in [Operators -> SUBSET Containers]
      /\ \A p \in Operators : p # o => killed'[p] = killed[p]
      /\ killed'[o] \subseteq DOMAIN op[o].shown
  <2>1. killed[o] \subseteq DOMAIN op[o].shown BY <1>1, KillerFacts
  <2> QED BY SMT, <1>0, <1>2, <1>3, <2>1
<1>7. PICK r \in Commands :
        /\ op' = [op EXCEPT ![o] = r] /\ r.pc \in Killing
        /\ r.todo = op[o].todo \/ (r.todo = op[o].todo \ {c} /\ r.failed)
        /\ op[o].failed => r.failed
        /\ r.asked = op[o].asked /\ r.seen = op[o].seen /\ r.shown = op[o].shown
        /\ r.result = op[o].result
  <2>1. CASE At(o, "await")
    <3> DEFINE r == [op[o] EXCEPT !.pc = "await"]
    <3>1. op' = [op EXCEPT ![o] = r] /\ r \in Commands BY <2>1, Placed DEF Stages
    <3>2. /\ r.pc \in Killing /\ r.todo = op[o].todo /\ r.failed = op[o].failed
          /\ r.asked = op[o].asked /\ r.seen = op[o].seen /\ r.shown = op[o].shown
          /\ r.result = op[o].result
      BY <1>0 DEF Commands, Killing
    <3> HIDE DEF r
    <3> QED BY <3>1, <3>2
  <2>2. CASE NextTarget(o, c, TRUE)
    <3>1. PICK failed \in BOOLEAN : failed /\ NextTarget(o, c, failed) BY <2>2
    <3>2. NextTarget(o, c, failed) BY <3>1
    <3>3. PICK r \in Commands :
           /\ op' = [op EXCEPT ![o] = r] /\ r.pc = "kill" /\ r.todo = op[o].todo \ {c}
           /\ r.failed = (op[o].failed \/ failed)
           /\ r.asked = op[o].asked /\ r.seen = op[o].seen /\ r.shown = op[o].shown
           /\ r.result = op[o].result
      BY SMT, <3>2, TargetDone
    <3> QED BY <3>1, <3>3 DEF Killing
  <2> QED BY <1>2, <2>1, <2>2
<1>8. /\ op' \in [Operators -> Commands] /\ op'[o] = r
      /\ \A p \in Operators : p # o => op'[p] = op[p]
  BY <1>7, OwnFrame
<1>9. StaysDrained(o)' BY <1>1, <1>7, <1>8 DEF StaysDrained, Past, Killing
<1>10. KillsShown(o)'
  <2>1. ASSUME NEW d \in DOMAIN r.shown PROVE d \in r.todo \/ r.failed \/ worker'[d] = "gone"
    <3>1. d \in Containers /\ (d \in op[o].todo \/ op[o].failed \/ worker[d] = "gone")
      BY <1>1, <1>7, KillerFacts
    <3> QED BY <3>1, <1>4, <1>7
  <2>2. /\ ForceStopTargets(r.seen) = r.shown /\ r.todo \subseteq DOMAIN r.shown
        /\ r.result = "pending" /\ r.pc # "end"
    BY <1>1, <1>7, KillerFacts DEF Killing
  <2> QED BY <1>6, <1>7, <1>8, <2>1, <2>2 DEF KillsShown
<1> QED BY <1>5, <1>6, <1>8, <1>9, <1>10 DEF Stepped

(* The invariant holds in every state a forced stop can be in. *)
LEMMA ForceInvariance == ForceStopSpec => []ForceInv
<1>1. ForceStopInit => ForceInv BY ForceInitHolds
<1>2. ForceInv /\ [ForceStopNext]_forceVars => ForceInv'
  <2> SUFFICES ASSUME ForceInv, [ForceStopNext]_forceVars PROVE ForceInv'
    OBVIOUS
  <2>0. Kinds /\ PoolKinds /\ PoolInv BY DEF ForceInv, Kinds, PoolKinds
  <2>1. CASE PoolStep
    <3>1. PoolKinds' /\ PoolInv' /\ Moves /\ op' = op /\ killed' = killed
      BY <2>0, <2>1, PoolSteps
    <3>2. Kinds' BY <2>0, <3>1 DEF Kinds, PoolKinds
    <3>3. ASSUME NEW o \in Operators PROVE StaysDrained(o)' /\ KillsShown(o)'
      BY <2>0, <3>1, Onlooker DEF ForceInv
    <3> QED BY <3>1, <3>2, <3>3 DEF ForceInv
  <2>2. ASSUME NEW o \in Operators, Operate(o) PROVE ForceInv'
    <3>1. Stepped(o)
      <4>1. StaysDrained(o) /\ KillsShown(o) BY DEF ForceInv
      <4> QED BY <2>0, <2>2, <4>1, RequestSteps, CheckSteps, ListSteps, CompareStep, KillStep,
                 AwaitStep, EndSteps DEF Operate
    <3>2. Kinds' BY <3>1 DEF Stepped, Kinds, PoolKinds
    <3>3. ASSUME NEW p \in Operators PROVE StaysDrained(p)' /\ KillsShown(p)'
      <4>1. CASE p = o BY <3>1, <4>1 DEF Stepped
      <4>2. CASE p # o BY <2>0, <3>1, <4>2, Onlooker DEF ForceInv, Stepped
      <4> QED BY <4>1, <4>2
    <3> QED BY <3>1, <3>2, <3>3 DEF ForceInv, Stepped
  <2>3. CASE UNCHANGED forceVars
    BY SMT, <2>3 DEF ForceInv, Kinds, PoolInv, StaysDrained, KillsShown, forceVars
  <2> QED BY <2>1, <2>2, <2>3 DEF ForceStopNext, PoolStep
<1> QED BY <1>1, <1>2, PTL DEF ForceStopSpec

(* ExecuteForceStop kills nothing its operator did not confirm, for every number of
   containers and commands: what is killed was shown, and was shown again unchanged. *)
THEOREM KillsAreConfirmed == ForceStopSpec => []OnlyConfirmedStopped
<1>1. ForceInv => OnlyConfirmedStopped BY DEF ForceInv, KillsShown, OnlyConfirmedStopped
<1> QED BY <1>1, ForceInvariance, PTL

(* host force-stop reports the truth: after "stopped" every worker shown is gone, and
   after a refusal, a decline or a change nothing was killed. *)
THEOREM ForceStopReportsHold == ForceStopSpec => []ReportIsTrue
<1>1. ForceInv => ReportIsTrue
  <2> SUFFICES ASSUME ForceInv PROVE ReportIsTrue
    OBVIOUS
  <2>1. StoppedIsGone BY DEF ForceInv, KillsShown, StoppedIsGone
  <2>2. NothingStopped
    BY DEF ForceInv, KillsShown, NothingStopped, Harmless, Killing
  <2> QED BY <2>1, <2>2 DEF ReportIsTrue
<1> QED BY <1>1, ForceInvariance, PTL

(* Kills meet a drained pool: as long as no other command has saved a mode since the
   force stop read its stamp, and no step has lost both its checkpoint and its closing
   save since the last poll that was saved, GitHub may assign no job to the pool being
   killed. *)
THEOREM KillsMeetADrainedPool == ForceStopSpec => KillsAreDrained
<1>1. ForceInv /\ [ForceStopNext]_forceVars =>
        [\A o \in Operators :
           killed'[o] # killed[o] /\ desired.at = op[o].asked /\ ~unsaved => ~offered]_forceVars
  <2> SUFFICES ASSUME ForceInv, ForceStopNext, NEW o \in Operators, killed'[o] # killed[o],
                      desired.at = op[o].asked, ~unsaved
               PROVE  ~offered
    OBVIOUS
  <2>1. CASE PoolStep
    <3>1. PoolKinds /\ PoolInv BY DEF ForceInv, Kinds, PoolKinds
    <3> QED BY <2>1, <3>1, PoolSteps
  <2>2. ASSUME NEW p \in Operators, Operate(p) PROVE ~offered
    <3>1. CASE ContainerKill(p)
      <4>1. Kinds /\ PoolInv /\ StaysDrained(p) /\ KillsShown(p) /\ op[p].pc = "kill"
        BY <3>1 DEF ForceInv, ContainerKill
      <4>2. p = o BY <4>1, <3>1, KillStep DEF Stepped
      <4> QED BY <4>1, <4>2 DEF StaysDrained, Killing
    <3>2. CASE ~ContainerKill(p)
      <4>1. killed' = killed
        BY <2>2, <3>2 DEF Operate, RequestDisabled, ReadStamp, WaitForZeroCapacity, Allowed,
           Acknowledged, Inspect, Show, Confirm, Compare, AwaitWatch, Break, Finish
      <4> QED BY <4>1
    <3> QED BY <3>1, <3>2
  <2> QED BY <2>1, <2>2 DEF ForceStopNext, PoolStep
<1> QED BY <1>1, ForceInvariance, PTL DEF ForceStopSpec, KillsAreDrained
=============================================================================

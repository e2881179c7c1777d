--------------------------- MODULE MessageSession ---------------------------
(***************************************************************************)
(* The scale-set client of one target: OfficialClient.Ensure, which keeps  *)
(* one scale set and one message session, and OfficialClient.Statistics,   *)
(* which takes a message, persists its job events in the job index,        *)
(* deletes it and acquires the jobs it offers.  GitHub is external: it     *)
(* runs jobs, puts their events into messages and delivers the first       *)
(* message until it is deleted.  A registration takes one job, so the      *)
(* runner of job j is named j.  Calls may fail, and may fail after they    *)
(* took effect; the controller may die between any two steps.              *)
(***************************************************************************)
EXTENDS JobRecords

CONSTANTS MaxMessages,  \* bound on the messages GitHub sends
          MaxFaults     \* bound on failed calls, deaths and outside changes

ASSUME SessionAssumption ==
    /\ Jobs = Runners /\ Results # {}
    /\ MaxMessages \in Nat /\ MaxFaults \in Nat

VARIABLES
  scaleSets,  \* GitHub: [id, named, good] with the configured name and labels
  server,     \* GitHub: the live message session, 0 if there is none
  queue,      \* GitHub: messages not deleted yet
  state,      \* GitHub: life cycle of each job
  sent,       \* number of messages sent so far
  created,    \* number of scale sets created so far
  opened,     \* number of sessions opened so far
  target,     \* officialTarget: [set, session, stats, last], session 0 if nil
  pc,         \* where Statistics stands
  current,    \* the message Statistics works on
  active,     \* activeJobs
  disk,       \* the job index
  saved,      \* scale set of the persisted identity, 0 if there is none
  acked,      \* events of deleted messages
  ackedHere,  \* the same, since the process started
  requests,   \* identifiers of the messages whose jobs were requested
  outside,    \* whether others touch the scale set or GitHub cancels a running
              \* job without naming its runner; chosen once
  faults

serverVars  == <<scaleSets, server, queue, state, sent, created, opened>>
processVars == <<target, pc, current, active>>
history     == <<acked, ackedHere, requests, outside>>
vars == <<serverVars, processVars, disk, saved, history, faults>>

NoMessage == [id |-> 0, events |-> {}, stats |-> 0]
NoTarget  == [set |-> 0, session |-> 0, stats |-> 0, last |-> 0]
Event(kind, j) == [kind |-> kind, job |-> j]
Fault == faults < MaxFaults /\ faults' = faults + 1
-----------------------------------------------------------------------------
(* GitHub.  An event goes into a new message, or into the last one if nobody
   has seen that one yet. *)
Assigned(s) == Cardinality({j \in Jobs : s[j] \in {"acquired", "running"}})

Emit(e, s) ==
    /\ state' = s
    /\ \/ /\ sent < MaxMessages /\ sent' = sent + 1
          /\ queue' = Append(queue, [id |-> sent + 1, events |-> {e},
                                     stats |-> Assigned(s)])
       \/ /\ queue # <<>> /\ queue[Len(queue)].id # current.id
          /\ queue' = [queue EXCEPT ![Len(queue)].events = @ \cup {e},
                                    ![Len(queue)].stats = Assigned(s)]
          /\ UNCHANGED sent
    /\ UNCHANGED <<scaleSets, server, created, opened, processVars, disk, saved,
                   history, faults>>

Offer(j) == /\ state[j] \in {"new", "offered"}
            /\ Emit(Event("available", j), [state EXCEPT ![j] = "offered"])

Assign(j) == /\ state[j] = "acquired"
             /\ Emit(Event("started", j), [state EXCEPT ![j] = "running"])

Complete(j) == /\ state[j] = "running"
               /\ Emit(Event("completed", j), [state EXCEPT ![j] = "done"])

\* A job cancelled before it has a runner completes without a runner identity.
Cancel(j) == /\ \/ state[j] \in {"offered", "acquired"}
                \/ outside /\ state[j] = "running"
             /\ Emit(Event("anonymous", j), [state EXCEPT ![j] = "done"])

Interfere ==
    /\ outside /\ Fault
    /\ \E s \in scaleSets :
          \/ /\ scaleSets' = scaleSets \ {s}
             /\ server' = 0 /\ queue' = <<>>
          \/ /\ scaleSets' \in {(scaleSets \ {s}) \cup {[s EXCEPT !.good = FALSE]},
                                (scaleSets \ {s}) \cup {[s EXCEPT !.named = FALSE]}}
             /\ UNCHANGED <<server, queue>>
    /\ UNCHANGED <<state, sent, created, opened, processVars, disk, saved,
                   history>>

\* GitHub ends a message session on its own.
SessionExpires ==
    /\ server # 0 /\ server' = 0 /\ Fault
    /\ UNCHANGED <<scaleSets, queue, state, sent, created, opened, processVars, disk,
                   saved, history>>
-----------------------------------------------------------------------------
Connected == target.session # 0 /\ server = target.session

Named == {s \in scaleSets : s.named}

CreatesOnFailedLookup(previous, answered) ==
    IF previous # 0 THEN {s \in scaleSets : s.id = previous /\ answered} ELSE Named

\* A failed lookup by identifier is followed by one by name.
Resolved(previous, answered) ==
    LET byID == {s \in scaleSets : s.id = previous /\ answered}
    IN IF previous # 0 /\ byID # {} THEN byID ELSE Named

KeepsOldSession(id, previous) == target.session = 0 \/ target.set # id

\* forceNewSession and the conditions beside it.
NewSession(id, previous) ==
    target.session = 0 \/ target.set # id \/ (previous = 0 /\ target.session # 0)

\* The scale set is looked up, created or put right; then a session is opened if
\* there is none for it, or if the caller knows of none.  done is how far the
\* call gets: a call that fails may have changed the scale set and may have
\* closed the old session, which then stays the target's session.  answered is
\* FALSE if the lookup by identifier or the later save of the identity fails.
EnsureUpTo(done, previous, answered) ==
    LET found == Resolved(previous, answered)
        id    == IF found = {} THEN created + 1 ELSE (CHOOSE s \in found : TRUE).id
        fresh == NewSession(id, previous)
    IN /\ \A s \in found : s.named
       /\ scaleSets' = {s \in scaleSets : s.id # id}
                       \cup {[id |-> id, named |-> TRUE, good |-> TRUE]}
       /\ created' = IF found = {} THEN created + 1 ELSE created
       /\ CASE done = "set" -> UNCHANGED <<server, opened, target, saved>>
            [] done = "closed" ->
                 /\ fresh /\ Connected /\ server' = 0
                 /\ UNCHANGED <<opened, target, saved>>
            [] done = "all" /\ fresh ->
                 /\ opened' = opened + 1 /\ server' = opened + 1
                 /\ target' = [set |-> id, session |-> opened + 1,
                               stats |-> Assigned(state), last |-> 0]
                 /\ saved' \in (IF answered THEN {id} ELSE {saved, id})
            [] done = "all" /\ ~fresh ->
                 /\ target' = [target EXCEPT !.set = id]
                 /\ saved' \in (IF answered THEN {id} ELSE {saved, id})
                 /\ UNCHANGED <<server, opened>>

EnsureFrame == UNCHANGED <<queue, state, sent, pc, current, active, disk, history>>

\* The reconciler ensures every target with the persisted identity.
Ensure ==
    /\ pc = "idle" /\ EnsureUpTo("all", saved, TRUE)
    /\ EnsureFrame /\ UNCHANGED faults

\* A poll that finds no session makes it ensure the target without identity.
Reconnect ==
    /\ pc = "idle" /\ ~Connected /\ EnsureUpTo("all", 0, TRUE)
    /\ EnsureFrame /\ UNCHANGED faults

EnsureFails ==
    /\ pc = "idle" /\ Fault
    /\ \E previous \in {0, saved}, answered \in BOOLEAN,
          done \in {"set", "closed", "all"} : EnsureUpTo(done, previous, answered)
    /\ EnsureFrame

\* Close deletes the session and keeps the scale set; the process then ends.
Close == /\ pc = "idle" /\ Fault
         /\ server' = IF Connected THEN 0 ELSE server
         /\ target' = NoTarget /\ active' = {} /\ ackedHere' = {}
         /\ UNCHANGED <<scaleSets, queue, state, sent, created, opened, pc, current,
                        disk, saved, acked, requests, outside>>

\* DeleteScaleSet, the explicit uninstall.
DeleteScaleSet ==
    /\ outside /\ pc = "idle" /\ Fault
    /\ target.set # 0 /\ \E s \in scaleSets : s.id = target.set
    /\ scaleSets' = {s \in scaleSets : s.id # target.set}
    /\ server' = 0 /\ queue' = <<>>
    /\ UNCHANGED <<state, sent, created, opened, processVars, disk, saved, history>>
-----------------------------------------------------------------------------
Of(kind) == {e.job : e \in {d \in current.events : d.kind = kind}}

\* What GetMessage is asked for: the messages after lastID.
Waiting == {i \in DOMAIN queue : queue[i].id > target.last}

\* GetMessage answers with nothing: the statistics of the last message stand.
PollEmpty ==
    /\ pc = "idle" /\ Connected /\ Waiting = {}
    /\ UNCHANGED vars

Fetch ==
    /\ pc = "idle" /\ Connected
    /\ \E i \in Waiting : (\A k \in Waiting : i <= k) /\ current' = queue[i]
    /\ pc' = "validate"
    /\ UNCHANGED <<serverVars, target, active, disk, saved, history, faults>>

ValidatesBatchOnly == Of("anonymous") \cap Of("started") = {}

\* A completion without a runner must not be of a job that starts in the same
\* message or that this process knows to be running.
ValidBatch == Of("anonymous") \cap (Of("started") \cup active) = {}

Drop == pc' = "idle" /\ current' = NoMessage

ValidateBatch ==
    /\ pc = "validate"
    /\ IF ValidBatch THEN pc' = "persist" /\ UNCHANGED current ELSE Drop
    /\ UNCHANGED <<serverVars, target, active, disk, saved, history, faults>>

JobStarted(j) == [Patch EXCEPT !.job = j, !.assigned = 1, !.started = 1]

JobCompleted(j) == [Patch EXCEPT !.job = j, !.assigned = 1, !.completed = 1,
                                 !.result = CHOOSE x \in Results : TRUE]

\* Starts are persisted before completions; anonymous completions are not.
Recorded(starts, ends) ==
    UpsertEach(UpsertEach(disk, [j \in starts |-> JobStarted(j)]),
               [j \in ends |-> JobCompleted(j)])

ClearsBeforeSets ==
    /\ pc = "persist" /\ pc' = "acknowledge"
    /\ disk' = Recorded(Of("started"), Of("completed"))
    /\ active' = (active \ Of("completed")) \cup Of("started")
    /\ UNCHANGED <<serverVars, target, current, saved, history,
                   faults>>

Persist ==
    /\ pc = "persist" /\ pc' = "acknowledge"
    /\ disk' = Recorded(Of("started"), Of("completed"))
    /\ active' = (active \cup Of("started")) \ Of("completed")
    /\ UNCHANGED <<serverVars, target, current, saved, history,
                   faults>>

IgnoresSinkError ==
    /\ pc = "persist" /\ pc' = "acknowledge" /\ Fault
    /\ \E starts \in SUBSET Of("started"), ends \in SUBSET Of("completed") :
         /\ ends # {} => starts = Of("started")
         /\ disk' = Recorded(starts, ends)
    /\ UNCHANGED <<serverVars, target, current, active, saved, history>>

\* One write fails, with or without effect; the ones before it stay.
PersistFails ==
    /\ pc = "persist" /\ Drop /\ Fault
    /\ \E starts \in SUBSET Of("started"), ends \in SUBSET Of("completed") :
         /\ ends # {} => starts = Of("started")
         /\ disk' = Recorded(starts, ends)
    /\ UNCHANGED <<serverVars, target, active, saved, history>>

Deleted ==
    /\ queue # <<>> /\ Head(queue).id = current.id
    /\ queue' = Tail(queue)
    /\ acked' = acked \cup current.events
    /\ ackedHere' = ackedHere \cup current.events

DeleteMessage ==
    /\ pc = "acknowledge" /\ pc' = "acquire" /\ Connected /\ Deleted
    /\ UNCHANGED <<scaleSets, server, state, sent, created, opened, target, current,
                   active, disk, saved, requests, outside, faults>>

AcquiresAnyway ==
    /\ pc = "acknowledge" /\ pc' = "acquire" /\ Fault
    /\ UNCHANGED <<serverVars, target, current, active, disk, saved, history>>

\* The deletion fails, with or without effect: nothing is acquired.
DeleteFails ==
    /\ pc = "acknowledge" /\ Drop
    /\ \/ Fault /\ Deleted
       \/ Fault /\ UNCHANGED <<queue, acked, ackedHere>>
       \/ ~Connected /\ UNCHANGED <<queue, acked, ackedHere, faults>>
    /\ UNCHANGED <<scaleSets, server, state, sent, created, opened, target,
                   active, disk, saved, requests, outside>>

Requested == IF Of("available") = {} THEN requests ELSE Append(requests, current.id)

AcquiredState == [j \in Jobs |-> IF j \in Of("available") /\ state[j] = "offered"
                                 THEN "acquired" ELSE state[j]]

AcquireJobs ==
    /\ pc = "acquire" /\ Drop
    /\ state' = AcquiredState /\ requests' = Requested
    /\ target' = [target EXCEPT !.last = current.id, !.stats = current.stats]
    /\ UNCHANGED <<scaleSets, server, queue, sent, created, opened, active, disk,
                   saved, acked, ackedHere, outside, faults>>

\* The request fails, with or without effect: lastID and statistics stay.
AcquireFails ==
    /\ pc = "acquire" /\ Of("available") # {} /\ Drop /\ Fault
    /\ state' \in {state, AcquiredState} /\ requests' = Requested
    /\ UNCHANGED <<scaleSets, server, queue, sent, created, opened, target, active,
                   disk, saved, acked, ackedHere, outside>>

Crash == /\ Fault /\ Drop
         /\ target' = NoTarget /\ active' = {} /\ ackedHere' = {}
         /\ UNCHANGED <<serverVars, disk, saved, acked, requests, outside>>
-----------------------------------------------------------------------------
\* Jobs in over ended earlier; messages and failures of the bounds may be spent.
InitWith(over, messages, failures, changes) ==
    /\ scaleSets = {} /\ server = 0 /\ queue = <<>>
    /\ state = [j \in Jobs |-> IF j \in over THEN "done" ELSE "new"]
    /\ sent = messages /\ created = 0 /\ opened = 0
    /\ target = NoTarget /\ pc = "idle" /\ current = NoMessage /\ active = {}
    /\ disk = <<>> /\ saved = 0 /\ acked = {} /\ ackedHere = {} /\ requests = <<>>
    /\ outside = changes /\ faults = failures

Init == \E over \in SUBSET Jobs, messages, failures \in Nat, changes \in BOOLEAN :
            InitWith(over, messages, failures, changes)

Statistics == \/ PollEmpty \/ Fetch \/ ValidateBatch \/ Persist \/ DeleteMessage
              \/ AcquireJobs \/ DeleteFails

Next == \/ Statistics \/ Ensure \/ Reconnect
        \/ EnsureFails \/ PersistFails \/ AcquireFails \/ Crash \/ Close
        \/ \E j \in Jobs : Offer(j) \/ Assign(j) \/ Complete(j) \/ Cancel(j)
        \/ Interfere \/ SessionExpires \/ DeleteScaleSet

Spec == Init /\ [][Next]_vars

\* The reconciler steps in a loop, so it keeps polling and reconnecting.
FairSpec == Spec /\ WF_vars(Statistics) /\ WF_vars(Reconnect)
-----------------------------------------------------------------------------
(* Statistics persists before it deletes: whatever fails or dies between the
   two, every start and completion of a deleted message is in the index, and
   the record of a start carries the job. *)
AckedIsRecorded ==
    \A e \in acked :
       /\ e.kind = "started" => /\ e.job \in DOMAIN disk
                                /\ disk[e.job].job = e.job /\ disk[e.job].started # 0
       /\ e.kind = "completed" => e.job \in DOMAIN disk /\ disk[e.job].completed # 0

(* The active-job map is updated before the deletion, so a failed acquisition
   cannot lose a start: in the process that deleted the message, the map holds
   exactly the started jobs whose completion it has not taken, plus what the
   message in hand or a redelivered one has already put there. *)
ActiveRemembered ==
    pc = "idle" =>
      \A j \in Jobs :
        /\ Event("started", j) \in ackedHere /\ Event("completed", j) \notin ackedHere
             /\ (j \in DOMAIN disk => disk[j].completed = 0)
           => j \in active
        /\ Event("completed", j) \in ackedHere => j \notin active

(* Jobs are acquired at most once for a message and only after its deletion: a
   failed acknowledgement acquires nothing, and a redelivered message is not
   acquired twice. *)
AcquiredOnce ==
    /\ \A a, b \in DOMAIN requests : a # b => requests[a] # requests[b]
    /\ \A a \in DOMAIN requests, i \in DOMAIN queue : queue[i].id # requests[a]

(* Ensure looks a scale set up by name before it creates one, also after a
   failed lookup by identifier and after a creation whose answer was lost:
   there are never two with the configured name. *)
OneScaleSet == \A s, t \in Named : s = t

(* A completion that names no runner does not end a job this process knows to be
   running on one: its message is rejected and stays at GitHub. *)
AnonymousHeldBack ==
    \A j \in active : Event("anonymous", j) \notin ackedHere

(* Deleting a message loses nothing of it: its events are on disk, its starts are
   in the active-job map, and one that would end a running job unnamed stays. *)
DeletionLosesNothing == AckedIsRecorded /\ ActiveRemembered /\ AnonymousHeldBack

(* What is tried again after a lost answer is not done twice: neither the
   acquisition of a message's jobs nor the creation of the scale set. *)
RetriesAreIdempotent == AcquiredOnce /\ OneScaleSet

(* Nothing but failures and outside changes keeps an event from the disk: the
   start and the completion of a job reach the index. *)
EventsRecordedFor(j) ==
    /\ (state[j] = "running" /\ ~outside) ~> (j \in DOMAIN disk /\ disk[j].started # 0)
    /\ (~outside /\ \E i \in DOMAIN queue : Event("completed", j) \in queue[i].events)
         ~> (j \in DOMAIN disk /\ disk[j].completed # 0)
=============================================================================

---------------------------- MODULE WorkersProofs ---------------------------
(* No job is stopped, no evidence is lost, no runner that may run is deregistered
   by a failed start, and no registration is left behind without a failure, for any
   number of workers, jobs and failures. *)
EXTENDS Workers, FiniteSetTheorems, TLAPS

\* Zenon proves most leaves; a leaf that needs arithmetic or case splits cites SMT.
USE Zenon

Seen == {"none", "exited", "starting", "idle", "busy"}

\* Each worker has its part of every variable.
Kinds ==
    /\ reg \in [Worker -> {"none", "live", "gone"}]
    /\ job \in [Worker -> {"none", "running", "done", "lost"}]
    /\ box \in [Worker -> {"none", "created", "running", "exited", "removed"}]
    /\ hook \in [Worker -> {"", "idle", "busy", "completed"}]
    /\ record \in [Worker -> {"none", "open", "finalized"}]
    /\ watch \in [Worker -> {"none", "next", "waiting", "saved", "recorded"}]
    /\ view \in [Worker -> Seen \cup {"unregistered"}]

\* The inventory of a step stays true in what a removal relies on: a container that
\* did not run does not run, and a registration that was gone is gone.
ViewHolds(w) ==
    /\ view[w] = "exited" => box[w] \in {"created", "exited", "removed"}
    /\ view[w] = "unregistered" => reg[w] = "gone"

\* The runner of a worker about to be stopped can take no job, or is not running.
RemovalIsSafe(w) ==
    /\ pc \in {"first", "second", "stop"} /\ w \in cur => view[w] = "exited" \/ reg[w] = "gone"
    /\ pc \in {"second", "stop"} /\ w \in cur => box[w] # "none"

\* A start works on a container of its own, which has never run.
StartIsFresh(w) ==
    /\ pc \in {"recheck", "create"} /\ w \in cur => box[w] = "none"
    /\ pc \in {"attach", "start"} /\ w \in cur => box[w] = "created"
    /\ pc \in {"recheck", "create", "attach", "start"} /\ w \in cur =>
          view[w] # "exited" /\ hook[w] = "" /\ record[w] = "none" /\ watch[w] = "none"
    /\ pc = "cleanup" /\ w \in cur => box[w] \in {"none", "created", "removed"}

\* A container comes before its evidence, and the evidence before its removal.
EvidenceFirst(w) ==
    /\ box[w] = "none" => hook[w] = "" /\ record[w] = "none" /\ watch[w] = "none"
    /\ watch[w] \in {"saved", "recorded"} => w \in saved
    /\ watch[w] = "recorded" => record[w] = "finalized"
    /\ box[w] = "removed" => /\ watch[w] \in {"none", "waiting"}
                             /\ \/ w \in saved /\ record[w] = "finalized"
                                \/ hook[w] = "" /\ record[w] = "none"

\* A runner with a job is registered: GitHub forgets none of them.
JobIsRegistered(w) == job[w] = "running" => reg[w] = "live"

Safe(w) == /\ ViewHolds(w) /\ RemovalIsSafe(w) /\ StartIsFresh(w) /\ EvidenceFirst(w)
           /\ JobIsRegistered(w) /\ job[w] # "lost"

IInv == Kinds /\ \A w \in Worker : Safe(w)
-----------------------------------------------------------------------------
\* A host without workers, or with artifacts of past ones only, satisfies the invariant.
LEMMA InitInv == Init => IInv
<1> SUFFICES ASSUME Init PROVE IInv
  OBVIOUS
<1>0. PICK past \in SUBSET Worker, spent \in 0..MaxFaults : InitWith(past, spent)
  BY DEF Init
<1>1. Kinds
  <2>1. /\ reg \in [Worker -> {"none", "live", "gone"}]
        /\ box \in [Worker -> {"none", "created", "running", "exited", "removed"}]
        /\ record \in [Worker -> {"none", "open", "finalized"}]
    <3>1. reg \in [Worker -> {"none", "live", "gone"}]  BY <1>0 DEF InitWith
    <3>2. box \in [Worker -> {"none", "created", "running", "exited", "removed"}]
      BY <1>0 DEF InitWith
    <3>3. record \in [Worker -> {"none", "open", "finalized"}]  BY <1>0 DEF InitWith
    <3> QED  BY <3>1, <3>2, <3>3
  <2>2. /\ job \in [Worker -> {"none", "running", "done", "lost"}]
        /\ hook \in [Worker -> {"", "idle", "busy", "completed"}]
        /\ watch \in [Worker -> {"none", "next", "waiting", "saved", "recorded"}]
        /\ view \in [Worker -> Seen \cup {"unregistered"}]
    BY <1>0 DEF InitWith, Seen
  <2> QED  BY <2>1, <2>2 DEF Kinds
<1>2. ASSUME NEW w \in Worker PROVE Safe(w)
  <2>1. /\ job[w] = "none" /\ watch[w] = "none" /\ hook[w] = "" /\ view[w] = "none"
        /\ pc = "poll"
    BY <1>0 DEF InitWith
  <2>2. \/ reg[w] = "none" /\ box[w] = "none" /\ record[w] = "none"
        \/ reg[w] = "gone" /\ box[w] = "removed" /\ record[w] = "finalized" /\ w \in saved
    <3>1. /\ reg[w] = IF w \in past THEN "gone" ELSE "none"
          /\ box[w] = IF w \in past THEN "removed" ELSE "none"
          /\ record[w] = IF w \in past THEN "finalized" ELSE "none"
          /\ saved = past
      BY <1>0 DEF InitWith
    <3> QED  BY <3>1
  <2> QED
    BY <2>1, <2>2
       DEF Safe, ViewHolds, RemovalIsSafe, StartIsFresh, EvidenceFirst, JobIsRegistered
<1> QED  BY <1>1, <1>2 DEF IInv

\* GitHub and the runner keep the invariant.
LEMMA InsideStep ==
  ASSUME IInv, NEW w \in Worker, Inside(w)
  PROVE  IInv'
<1>1. UNCHANGED <<record, saved, watch, pc, view, cur>>
  BY DEF Inside, PickUp, Entrypoint, JobStarted, JobCompleted, Hook, Finish, Leave, Die,
         store, control
<1>2. box' = box \/ (box[w] = "running" /\ box' = On(box, w, "exited"))
  BY DEF Inside, PickUp, Entrypoint, JobStarted, JobCompleted, Hook, Finish, Leave, Die
<1>6. \/ hook' = hook
      \/ \E to \in {"idle", "busy", "completed"} : box[w] = "running" /\ hook' = On(hook, w, to)
  BY DEF Inside, PickUp, Entrypoint, JobStarted, JobCompleted, Hook, Finish, Leave, Die, inside
<1>3. \/ job' = job /\ reg' = reg
      \/ job' = On(job, w, "running") /\ reg' = reg /\ reg[w] = "live"
      \/ job' = On(job, w, "done") /\ reg' = On(reg, w, "gone")
  BY DEF Inside, PickUp, Entrypoint, JobStarted, JobCompleted, Hook, Finish, Leave, Die, github
<1>4. Kinds'
  <2>1. /\ job' \in [Worker -> {"none", "running", "done", "lost"}]
        /\ reg' \in [Worker -> {"none", "live", "gone"}]
    BY ZenonT(60), <1>3 DEF IInv, Kinds, On
  <2>2. box' \in [Worker -> {"none", "created", "running", "exited", "removed"}]
    <3>1. box \in [Worker -> {"none", "created", "running", "exited", "removed"}]
      BY DEF IInv, Kinds
    <3> QED  BY <1>2, <3>1 DEF On
  <2>3. hook' \in [Worker -> {"", "idle", "busy", "completed"}]
    BY ZenonT(60), <1>6 DEF IInv, Kinds, On
  <2> QED  BY <1>1, <2>1, <2>2, <2>3 DEF IInv, Kinds
<1>5. ASSUME NEW v \in Worker PROVE Safe(v)'
  <2>1. Safe(v) /\ Kinds
    BY DEF IInv
  <2>2. JobIsRegistered(v)' /\ job'[v] # "lost"
    <3>1. job \in [Worker -> {"none", "running", "done", "lost"}]
          /\ reg \in [Worker -> {"none", "live", "gone"}]
      BY <2>1 DEF Kinds
    <3>2. \/ job'[v] = job[v] /\ reg'[v] = reg[v]
          \/ job'[v] = "running" /\ reg'[v] = "live"
          \/ job'[v] = "done"
      BY <1>3, <3>1 DEF On
    <3> QED  BY <2>1, <3>2 DEF Safe, JobIsRegistered
  <2>3. ViewHolds(v)' /\ RemovalIsSafe(v)' /\ StartIsFresh(v)'
    <3>1. /\ box'[v] = box[v] \/ (box[v] = "running" /\ box'[v] = "exited")
          /\ hook'[v] = hook[v] \/ box[v] = "running"
      BY ZenonT(60), <1>2, <1>6, <2>1 DEF Kinds, On
    <3>2. reg'[v] = reg[v] \/ reg'[v] = "gone"
      BY ZenonT(60), <1>3, <2>1 DEF Kinds, On
    <3> QED  BY <1>1, <2>1, <3>1, <3>2 DEF Safe, ViewHolds, RemovalIsSafe, StartIsFresh
  <2>4. EvidenceFirst(v)'
    <3>1. /\ box'[v] = box[v] \/ (box[v] = "running" /\ box'[v] = "exited")
          /\ hook'[v] = hook[v] \/ box[v] = "running"
      BY ZenonT(60), <1>2, <1>6, <2>1 DEF Kinds, On
    <3> QED  BY <1>1, <2>1, <3>1 DEF Safe, EvidenceFirst
  <2> QED  BY <2>2, <2>3, <2>4 DEF Safe
<1> QED  BY <1>4, <1>5 DEF IInv

\* The watch of a container keeps the invariant.
LEMMA WatchStep ==
  ASSUME IInv, NEW w \in Worker, Watch(w)
  PROVE  IInv'
<1>1. UNCHANGED <<reg, job, hook, pc, view, cur>>
  BY DEF Watch, SaveArtifacts, SaveFails, FinalizeRecord, FinalizeFails, RemoveContainer,
         RemoveContainerFails, WaitFails, WaitFindsNothing, WatchFrame, github, inside, control
<1>2. \/ /\ watch' = On(watch, w, "none") /\ UNCHANGED <<box, record, saved>>
      \/ /\ watch[w] \in {"next", "waiting"} /\ box[w] \in {"created", "exited"}
         /\ watch' = On(watch, w, "saved") /\ saved' = saved \cup {w}
         /\ UNCHANGED <<box, record>>
      \/ /\ watch[w] = "saved" /\ watch' = On(watch, w, "recorded")
         /\ record' = On(record, w, "finalized") /\ UNCHANGED <<box, saved>>
      \/ /\ watch[w] = "recorded" /\ watch' = On(watch, w, "none")
         /\ box' = On(box, w, "removed") /\ UNCHANGED <<record, saved>>
  BY DEF Watch, SaveArtifacts, SaveFails, FinalizeRecord, FinalizeFails, RemoveContainer,
         RemoveContainerFails, WaitFails, WaitFindsNothing, Stopped, EndWatch, store
<1>3. Kinds'
  BY ZenonT(60), <1>1, <1>2 DEF IInv, Kinds, On
<1>4. ASSUME NEW v \in Worker PROVE Safe(v)'
  <2>1. Safe(v) /\ Kinds
    BY DEF IInv
  <2>2. JobIsRegistered(v)' /\ job'[v] # "lost"
    BY <1>1, <2>1 DEF Safe, JobIsRegistered
  <2>3. ViewHolds(v)' /\ StartIsFresh(v)' /\ RemovalIsSafe(v)'
    <3>1. /\ watch \in [Worker -> {"none", "next", "waiting", "saved", "recorded"}]
          /\ record \in [Worker -> {"none", "open", "finalized"}]
          /\ box \in [Worker -> {"none", "created", "running", "exited", "removed"}]
      BY <2>1 DEF Kinds
    <3>2. box'[v] = box[v] \/ (box'[v] = "removed" /\ watch[v] = "recorded")
      BY <1>2, <3>1 DEF On
    <3>3. record'[v] = record[v] \/ watch[v] = "saved"
      BY <1>2, <3>1 DEF On
    <3>4. watch[v] = "none" => watch'[v] = "none"
      BY <1>2, <3>1 DEF On
    <3> QED
      BY <1>1, <2>1, <3>2, <3>3, <3>4
         DEF Safe, ViewHolds, StartIsFresh, RemovalIsSafe, EvidenceFirst
  <2>4. EvidenceFirst(v)'
    <3>1. /\ watch \in [Worker -> {"none", "next", "waiting", "saved", "recorded"}]
          /\ record \in [Worker -> {"none", "open", "finalized"}]
          /\ box \in [Worker -> {"none", "created", "running", "exited", "removed"}]
      BY <2>1 DEF Kinds
    <3>2. CASE v # w
      <4>1. watch'[v] = watch[v]
        BY <1>2, <3>1, <3>2 DEF On
      <4>2. box'[v] = box[v] /\ record'[v] = record[v]
        BY <1>2, <3>1, <3>2 DEF On
      <4>3. v \in saved' <=> v \in saved
        BY <1>2, <3>2
      <4> QED  BY <1>1, <2>1, <4>1, <4>2, <4>3 DEF Safe, EvidenceFirst
    <3>3. CASE v = w
      <4>1. CASE watch' = On(watch, w, "none") /\ UNCHANGED <<box, record, saved>>
        BY <1>1, <2>1, <3>1, <3>3, <4>1 DEF Safe, EvidenceFirst, On
      <4>2. CASE /\ box[w] \in {"created", "exited"} /\ watch' = On(watch, w, "saved")
                 /\ saved' = saved \cup {w} /\ UNCHANGED <<box, record>>
        BY <1>1, <2>1, <3>1, <3>3, <4>2 DEF Safe, EvidenceFirst, On
      <4>3. CASE /\ watch[w] = "saved" /\ watch' = On(watch, w, "recorded")
                 /\ record' = On(record, w, "finalized") /\ UNCHANGED <<box, saved>>
        BY <1>1, <2>1, <3>1, <3>3, <4>3 DEF Safe, EvidenceFirst, On
      <4>4. CASE /\ watch[w] = "recorded" /\ watch' = On(watch, w, "none")
                 /\ box' = On(box, w, "removed") /\ UNCHANGED <<record, saved>>
        BY <1>1, <2>1, <3>1, <3>3, <4>4 DEF Safe, EvidenceFirst, On
      <4> QED  BY <1>2, <4>1, <4>2, <4>3, <4>4
    <3> QED  BY <3>2, <3>3
  <2> QED  BY <2>2, <2>3, <2>4 DEF Safe
<1> QED  BY <1>3, <1>4 DEF IInv
-----------------------------------------------------------------------------
\* What the reconciler remembers of v fits the state of v.
Fits(w) == ViewHolds(w) /\ RemovalIsSafe(w) /\ StartIsFresh(w)

\* A step that ends forgets its inventory and its worker.
LEMMA EndStepFits ==
  ASSUME EndStep, NEW v \in Worker
  PROVE  Fits(v)' /\ view' \in [Worker -> Seen \cup {"unregistered"}]
  BY DEF EndStep, Go, Fits, ViewHolds, RemovalIsSafe, StartIsFresh, Seen

\* Going on to the next removal keeps the inventory.
LEMMA NextRemovalFits ==
  ASSUME IInv, NextRemoval, UNCHANGED <<reg, box>>, NEW v \in Worker
  PROVE  Fits(v)' /\ view' \in [Worker -> Seen \cup {"unregistered"}]
  BY DEF IInv, Kinds, Safe, NextRemoval, Go, Fits, ViewHolds, RemovalIsSafe, StartIsFresh

\* A step that leaves GitHub, the containers and the store alone keeps the invariant
\* if what the reconciler remembers still fits.
LEMMA QuietStep ==
  ASSUME IInv, UNCHANGED <<reg, job, box, hook, record, saved, watch>>,
         view' \in [Worker -> Seen \cup {"unregistered"}],
         \A v \in Worker : Fits(v)'
  PROVE  IInv'
<1>1. Kinds'
  BY DEF IInv, Kinds
<1>2. ASSUME NEW v \in Worker PROVE Safe(v)'
  BY DEF IInv, Safe, Fits, EvidenceFirst, JobIsRegistered
<1> QED  BY <1>1, <1>2 DEF IInv

\* The poll of a step keeps the invariant.
LEMMA PollStep ==
  ASSUME IInv, NEW c, Poll(c) \/ EmptyPoll(c) \/ PollFails(c)
  PROVE  IInv'
<1>1. UNCHANGED <<reg, job, box, hook, record, saved, watch, view, cur>> /\ pc' = "list"
  BY DEF Poll, EmptyPoll, PollFails, Go, inside, store
<1>2. ASSUME NEW v \in Worker PROVE Fits(v)'
  BY <1>1 DEF IInv, Safe, Fits, ViewHolds, RemovalIsSafe, StartIsFresh
<1>3. view' \in [Worker -> Seen \cup {"unregistered"}]
  BY <1>1 DEF IInv, Kinds
<1> QED  BY <1>1, <1>2, <1>3, QuietStep

\* So do the steps that end without touching a worker.
LEMMA EndingStep ==
  ASSUME IInv, ListFails \/ StepDone \/ \E w \in Worker : WriteJITConfiguration(w)
  PROVE  IInv'
<1>1. UNCHANGED <<reg, job, box, hook, record, saved, watch>>
  BY DEF ListFails, StepDone, WriteJITConfiguration, github, inside, store
<1>2. EndStep \/ (pc' = "starts" /\ cur' = {} /\ view' = view)
  BY DEF ListFails, StepDone, WriteJITConfiguration, Go
<1>3. ASSUME NEW v \in Worker
      PROVE  Fits(v)' /\ view' \in [Worker -> Seen \cup {"unregistered"}]
  <2>1. CASE EndStep
    BY <2>1, EndStepFits
  <2>2. CASE pc' = "starts" /\ cur' = {} /\ view' = view
    BY <1>1, <2>2 DEF IInv, Kinds, Safe, Fits, ViewHolds, RemovalIsSafe, StartIsFresh
  <2> QED  BY <1>2, <2>1, <2>2
<1>4. view' \in [Worker -> Seen \cup {"unregistered"}]
  BY ZenonT(60), <1>2 DEF EndStep, IInv, Kinds, Seen
<1> QED  BY <1>1, <1>3, <1>4, QuietStep

\* The registration checks mark only workers whose registration is gone.
LEMMA VerifyStep ==
  ASSUME IInv, NEW missed, Verify(missed)
  PROVE  IInv'
<1>1. UNCHANGED <<reg, job, box, hook, record, saved, watch, cur>> /\ pc' = "retire"
  BY DEF Verify, Go, github, inside, store
<1>2. view' \in [Worker -> Seen \cup {"unregistered"}]
  BY DEF Verify, IInv, Kinds
<1>3. ASSUME NEW v \in Worker PROVE Fits(v)'
  BY <1>1 DEF Verify, IInv, Safe, Fits, ViewHolds, RemovalIsSafe, StartIsFresh
<1> QED  BY <1>1, <1>2, <1>3, QuietStep

\* A worker the loop takes up for its container not running, or its registration
\* being gone, is safe to stop.
LEMMA RetireStep ==
  ASSUME IInv, NEW w \in Worker, Retire(w)
  PROVE  IInv'
<1>1. UNCHANGED <<reg, job, box, hook, record, saved, watch, view>> /\ cur' = {w}
  BY DEF Retire, Go, github, inside, store
<1>2. \/ view[w] \in {"unregistered", "exited"} /\ pc' = "first"
      \/ pc' = "deregister"
  BY DEF Retire, Go
<1>3. view' \in [Worker -> Seen \cup {"unregistered"}]
  BY <1>1 DEF IInv, Kinds
<1>4. ASSUME NEW v \in Worker PROVE Fits(v)'
  BY <1>1, <1>2 DEF IInv, Safe, Fits, ViewHolds, RemovalIsSafe, StartIsFresh
<1> QED  BY <1>1, <1>3, <1>4, QuietStep

\* The two readings keep the invariant; what was read idle has a container.
LEMMA ReadStep ==
  ASSUME IInv, NEW w \in Worker, ReadFirst(w) \/ ReadSecond(w) \/ WaitForWatch(w)
  PROVE  IInv'
<1>1. UNCHANGED <<reg, job, box, hook, record, saved, watch>>
  BY DEF ReadFirst, ReadSecond, WaitForWatch, github, inside, store
<1>2. \/ NextRemoval
      \/ /\ pc \in {"first", "second"} /\ pc' \in {"second", "stop"} /\ hook[w] = "idle"
         /\ cur = {w} /\ UNCHANGED <<cur, view>>
  BY DEF ReadFirst, ReadSecond, WaitForWatch, Read, Go
<1>3. ASSUME NEW v \in Worker
      PROVE  Fits(v)' /\ view' \in [Worker -> Seen \cup {"unregistered"}]
  <2>1. CASE NextRemoval
    BY <1>1, <2>1, NextRemovalFits
  <2>2. CASE /\ pc \in {"first", "second"} /\ pc' \in {"second", "stop"} /\ hook[w] = "idle"
             /\ cur = {w} /\ UNCHANGED <<cur, view>>
    BY <1>1, <2>2
       DEF IInv, Kinds, Safe, Fits, ViewHolds, RemovalIsSafe, StartIsFresh, EvidenceFirst
  <2> QED  BY <1>2, <2>1, <2>2
<1>4. view' = view
  BY <1>2 DEF NextRemoval
<1>5. view' \in [Worker -> Seen \cup {"unregistered"}]
  BY <1>4 DEF IInv, Kinds
<1> QED  BY <1>1, <1>3, <1>5, QuietStep
-----------------------------------------------------------------------------
\* Watching existing containers opens their records and disturbs nothing else.
LEMMA EnsureWatchKeeps ==
  ASSUME IInv, NEW W, \A w \in W : box[w] \notin {"none", "removed"}, EnsureWatch(W)
  PROVE  /\ watch' \in [Worker -> {"none", "next", "waiting", "saved", "recorded"}]
         /\ record' \in [Worker -> {"none", "open", "finalized"}]
         /\ \A v \in Worker : box[v] \in {"none", "removed"} =>
                                 watch'[v] = watch[v] /\ record'[v] = record[v]
         /\ \A v \in Worker : \/ watch'[v] = watch[v] /\ record'[v] = record[v]
                              \/ watch'[v] = "waiting"
<1>1. /\ watch \in [Worker -> {"none", "next", "waiting", "saved", "recorded"}]
      /\ record \in [Worker -> {"none", "open", "finalized"}]
  BY DEF IInv, Kinds
<1>2. watch' \in [Worker -> {"none", "next", "waiting", "saved", "recorded"}]
  BY <1>1 DEF EnsureWatch
<1>3. record' \in [Worker -> {"none", "open", "finalized"}]
  BY <1>1 DEF EnsureWatch
<1>4. ASSUME NEW v \in Worker
      PROVE  /\ watch'[v] = IF v \in W /\ watch[v] = "none" THEN "waiting" ELSE watch[v]
             /\ record'[v] = IF v \in W /\ watch[v] = "none" THEN "open" ELSE record[v]
  BY DEF EnsureWatch
<1> QED  BY <1>2, <1>3, <1>4

\* A step that watches containers, and otherwise changes registrations at most,
\* keeps the invariant if what the reconciler remembers still fits.
LEMMA WatchingStep ==
  ASSUME IInv, NEW W, \A w \in W : box[w] \notin {"none", "removed"}, EnsureWatch(W),
         UNCHANGED <<job, box, hook, saved>>,
         reg' \in [Worker -> {"none", "live", "gone"}],
         view' \in [Worker -> Seen \cup {"unregistered"}],
         \A v \in Worker : Fits(v)' /\ JobIsRegistered(v)'
  PROVE  IInv'
<1>1. Kinds'
  BY EnsureWatchKeeps DEF IInv, Kinds
<1>2. ASSUME NEW v \in Worker PROVE Safe(v)'
  <2>1. \/ watch'[v] = watch[v] /\ record'[v] = record[v]
        \/ watch'[v] = "waiting" /\ box[v] \notin {"none", "removed"}
    BY EnsureWatchKeeps
  <2>2. EvidenceFirst(v)'
    BY <2>1 DEF IInv, Safe, EvidenceFirst
  <2> QED  BY <2>2 DEF IInv, Safe, Fits
<1> QED  BY <1>1, <1>2 DEF IInv

\* An inventory sees as exited only a container that does not run.
LEMMA ListStep ==
  ASSUME IInv, List \/ \E w \in Worker : ReadFails(w)
  PROVE  IInv'
<1>1. UNCHANGED <<reg, job, box, hook, saved, cur>> /\ pc' = "verify"
  BY DEF List, ReadFails, Go, github, inside
<1>2. EnsureWatch(Boxes)
  BY DEF List, ReadFails, Inventory
<1>3. \A w \in Boxes : box[w] \notin {"none", "removed"}
  BY DEF Boxes
<1>4. PICK u \in [Worker -> Seen] : /\ \A w \in Worker : u[w] \in States(w)
                                    /\ \/ view' = u
                                       \/ \E w \in Worker : view' = [u EXCEPT ![w] = "starting"]
  BY DEF List, ReadFails, Inventory, Seen
<1>5. view' \in [Worker -> Seen \cup {"unregistered"}]
  BY <1>4 DEF Seen
<1>6. ASSUME NEW v \in Worker PROVE Fits(v)' /\ JobIsRegistered(v)'
  <2>1. u[v] = "exited" => box[v] \in {"created", "exited"}
    BY <1>4 DEF States, IInv, Kinds
  <2>2. view'[v] # "unregistered" /\ (view'[v] = "exited" => u[v] = "exited")
    BY <1>4 DEF Seen
  <2> QED
    BY <1>1, <2>1, <2>2
       DEF IInv, Safe, Fits, ViewHolds, RemovalIsSafe, StartIsFresh, JobIsRegistered
<1> QED  BY <1>1, <1>2, <1>3, <1>5, <1>6, WatchingStep DEF IInv, Kinds

\* GitHub removes a runner only without a job, so the worker is safe to stop.
LEMMA DeregisterStep ==
  ASSUME IInv, NEW w \in Worker, Deregister(w) \/ DeregisterFails(w)
  PROVE  IInv'
<1>1. UNCHANGED <<job, box, hook, record, saved, watch, view>> /\ cur = {w}
  BY DEF Deregister, DeregisterFails, NextRemoval, inside, store
<1>2. \/ reg' = reg
      \/ job[w] # "running" /\ \E r \in {reg[w], "gone"} : reg' = On(reg, w, r)
  BY DEF Deregister, DeregisterFails
<1>3. \/ pc' = "first" /\ cur' = cur /\ reg' = On(reg, w, "gone")
      \/ pc' = "retire" /\ cur' = {}
  BY DEF Deregister, DeregisterFails, NextRemoval, Go
<1>4. reg \in [Worker -> {"none", "live", "gone"}]
  BY DEF IInv, Kinds
<1>5. reg' \in [Worker -> {"none", "live", "gone"}]
  BY <1>2, <1>4 DEF On
<1>6. Kinds'
  BY <1>1, <1>5 DEF IInv, Kinds
<1>7. ASSUME NEW v \in Worker PROVE Safe(v)'
  <2>1. reg'[v] = reg[v] \/ (reg'[v] = "gone" /\ job[v] # "running")
    BY <1>2, <1>4 DEF On
  <2>2. pc' = "first" /\ v \in cur' => reg'[v] = "gone"
    BY <1>1, <1>3, <1>4 DEF On
  <2>3. Fits(v)'
    BY <1>1, <1>3, <2>1, <2>2 DEF IInv, Safe, Fits, ViewHolds, RemovalIsSafe, StartIsFresh
  <2> QED  BY <1>1, <2>1, <2>3 DEF IInv, Safe, Fits, EvidenceFirst, JobIsRegistered
<1> QED  BY <1>6, <1>7 DEF IInv

\* A stop reaches no runner with a job: the container does not run, or GitHub has
\* forgotten the runner, which it does to none that has one.
LEMMA StopStep ==
  ASSUME IInv, NEW w \in Worker, ContainerStop(w) \/ StopFails(w)
  PROVE  IInv'
<1>1. /\ UNCHANGED <<reg, hook, saved, view>> /\ pc = "stop" /\ cur = {w}
      /\ pc' \in {"wait", "retire"} /\ WatchAgain(w)
  BY DEF ContainerStop, StopFails, NextRemoval, Go, github, inside
<1>2. box' = box \/ (box[w] = "running" /\ box' = On(box, w, "exited"))
  BY DEF ContainerStop, StopFails
<1>3. Kinds /\ Safe(w) /\ box[w] # "none"
  BY <1>1 DEF IInv, Safe, RemovalIsSafe
<1>4. job' = job
  <2>1. box[w] = "running" => job[w] # "running"
    BY <1>1, <1>3 DEF Safe, ViewHolds, RemovalIsSafe, JobIsRegistered
  <2> QED  BY <2>1 DEF ContainerStop, StopFails, github
<1>5. /\ watch' \in [Worker -> {"none", "next", "waiting", "saved", "recorded"}]
      /\ record' \in [Worker -> {"none", "open", "finalized"}]
      /\ \A v \in Worker : \/ watch'[v] = watch[v] /\ record'[v] = record[v]
                           \/ /\ watch'[v] = "waiting" /\ v = w
                              /\ box[v] = "removed" => record'[v] = record[v]
  <2>1. CASE box[w] = "removed"
    BY ZenonT(60), <1>1, <1>3, <2>1 DEF WatchAgain, On, Kinds
  <2>2. CASE box[w] # "removed"
    <3>1. EnsureWatch({w}) /\ \A x \in {w} : box[x] \notin {"none", "removed"}
      BY <1>1, <1>3, <2>2 DEF WatchAgain
    <3>2. \A v \in Worker : v # w => watch'[v] = watch[v] /\ record'[v] = record[v]
      BY <3>1 DEF EnsureWatch
    <3> QED  BY <3>1, <3>2, <2>2, EnsureWatchKeeps
  <2> QED  BY <2>1, <2>2
<1>6. box' \in [Worker -> {"none", "created", "running", "exited", "removed"}]
  <2>1. box \in [Worker -> {"none", "created", "running", "exited", "removed"}]
    BY <1>3 DEF Kinds
  <2> QED  BY <1>2, <2>1 DEF On
<1>7. Kinds'
  BY <1>1, <1>3, <1>4, <1>5, <1>6 DEF Kinds
<1>8. ASSUME NEW v \in Worker PROVE Safe(v)'
  <2>1. Safe(v)
    BY DEF IInv
  <2>2. box'[v] = box[v] \/ (box[v] = "running" /\ box'[v] = "exited")
    BY ZenonT(60), <1>2, <1>3 DEF Kinds, On
  <2>3. Fits(v)'
    BY <1>1, <2>1, <2>2 DEF Safe, Fits, ViewHolds, RemovalIsSafe, StartIsFresh
  <2>4. EvidenceFirst(v)'
    BY <1>1, <1>3, <1>5, <2>1, <2>2 DEF Safe, EvidenceFirst
  <2> QED  BY <1>1, <1>4, <2>1, <2>3, <2>4 DEF Safe, Fits, JobIsRegistered
<1> QED  BY <1>7, <1>8 DEF IInv

\* A runner is registered for a worker without a container.
LEMMA RegisterStep ==
  ASSUME IInv, NEW w \in Worker, CreateJITConfig(w) \/ CreateJITConfigFails(w) \/ Recheck(w)
  PROVE  IInv'
<1>1. UNCHANGED <<job, box, hook, saved>> /\ EnsureWatch(Boxes)
  BY DEF CreateJITConfig, CreateJITConfigFails, Recheck, StartFrame, inside
<1>2. \A x \in Boxes : box[x] \notin {"none", "removed"}
  BY DEF Boxes
<1>3. \/ reg' = reg
      \/ reg[w] = "none" /\ \E r \in {"live", "gone"} : reg' = On(reg, w, r)
  BY DEF CreateJITConfig, CreateJITConfigFails, Recheck
<1>4. \/ EndStep
      \/ /\ cur' = {w} /\ view' = view /\ box[w] = "none" /\ pc' \in {"recheck", "create", "cleanup"}
  BY DEF CreateJITConfig, CreateJITConfigFails, Recheck, StartFrame, Go, IInv, Safe, StartIsFresh
<1>5. reg \in [Worker -> {"none", "live", "gone"}]
  BY DEF IInv, Kinds
<1>6. reg' \in [Worker -> {"none", "live", "gone"}]
  BY <1>3, <1>5 DEF On
<1>7. view' \in [Worker -> Seen \cup {"unregistered"}]
  BY ZenonT(60), <1>4 DEF EndStep, IInv, Kinds, Seen
<1>8. ASSUME NEW v \in Worker PROVE Fits(v)' /\ JobIsRegistered(v)'
  <2>1. Safe(v)
    BY DEF IInv
  <2>2. reg'[v] = reg[v] \/ reg[v] = "none"
    BY <1>3, <1>5 DEF On
  <2>3. JobIsRegistered(v)'
    BY <1>1, <2>1, <2>2 DEF Safe, JobIsRegistered
  <2>4. CASE EndStep
    BY <2>3, <2>4, EndStepFits
  <2>5. CASE /\ cur' = {w} /\ view' = view /\ box[w] = "none"
             /\ pc' \in {"recheck", "create", "cleanup"}
    <3>1. ViewHolds(v)'
      BY <1>1, <2>1, <2>2, <2>5 DEF Safe, ViewHolds
    <3>2. RemovalIsSafe(v)'
      BY <2>5 DEF RemovalIsSafe
    <3>3. box[v] = "none" => watch'[v] = watch[v] /\ record'[v] = record[v]
      BY <1>1, <1>2, EnsureWatchKeeps
    <3>4. StartIsFresh(v)'
      BY <1>1, <2>1, <2>5, <3>3 DEF Safe, StartIsFresh, EvidenceFirst, ViewHolds
    <3> QED  BY <2>3, <3>1, <3>2, <3>4 DEF Fits
  <2> QED  BY <1>4, <2>4, <2>5
<1> QED  BY <1>1, <1>2, <1>6, <1>7, <1>8, WatchingStep

\* A container is created for a worker that has none, and one that cannot be
\* attached is removed before anything ran in it.
LEMMA CreateStep ==
  ASSUME IInv, NEW w \in Worker, Create(w) \/ Attach(w)
  PROVE  IInv'
<1>1. /\ UNCHANGED <<reg, job, hook, record, saved, watch, view, cur>> /\ cur = {w}
      /\ pc \in {"create", "attach"}
  BY DEF Create, Attach, StartFrame, inside, store
<1>2. \/ /\ pc' = "attach" /\ box' = On(box, w, "created")
      \/ /\ pc' = "start" /\ box' = box /\ box[w] = "created"
      \/ /\ pc' = "cleanup" /\ box' = box
      \/ /\ pc' = "cleanup" /\ \E b \in {"created", "removed"} : box' = On(box, w, b)
  BY DEF Create, Attach, Go, IInv, Safe, StartIsFresh
<1>3. box \in [Worker -> {"none", "created", "running", "exited", "removed"}]
  BY DEF IInv, Kinds
<1>4. box' \in [Worker -> {"none", "created", "running", "exited", "removed"}]
  BY <1>2, <1>3 DEF On
<1>5. Kinds'
  BY <1>1, <1>4 DEF IInv, Kinds
<1>6. ASSUME NEW v \in Worker PROVE Safe(v)'
  <2>1. Safe(v)
    BY DEF IInv
  <2>2. CASE v # w
    <3>1. box'[v] = box[v]
      BY <1>2, <1>3, <2>2 DEF On
    <3>2. Fits(v)'
      BY <1>1, <2>1, <2>2, <3>1 DEF Safe, Fits, ViewHolds, RemovalIsSafe, StartIsFresh
    <3> QED  BY <1>1, <2>1, <3>1, <3>2 DEF Safe, Fits, EvidenceFirst, JobIsRegistered
  <2>3. CASE v = w
    <3>1. /\ box[v] \in {"none", "created"} /\ view[v] # "exited" /\ hook[v] = ""
          /\ record[v] = "none" /\ watch[v] = "none"
      BY <1>1, <2>1, <2>3 DEF Safe, StartIsFresh
    <3>2. \/ pc' \in {"attach", "start"} /\ box'[v] = "created"
          \/ pc' = "cleanup" /\ box'[v] \in {"none", "created", "removed"}
      BY <1>2, <1>3, <2>3, <3>1 DEF On
    <3>3. Fits(v)'
      BY <1>1, <2>1, <3>1, <3>2 DEF Safe, Fits, ViewHolds, RemovalIsSafe, StartIsFresh
    <3>4. EvidenceFirst(v)'
      BY <1>1, <2>1, <3>1, <3>2 DEF Safe, EvidenceFirst
    <3> QED  BY <1>1, <2>1, <3>3, <3>4 DEF Safe, Fits, JobIsRegistered
  <2> QED  BY <2>2, <2>3
<1> QED  BY <1>5, <1>6 DEF IInv

\* A started container is watched, and so is one that may have started.
LEMMA StartStep ==
  ASSUME IInv, NEW w \in Worker, ContainerStart(w) \/ ContainerStartFails(w)
  PROVE  IInv'
<1>1. /\ UNCHANGED <<reg, job, hook, saved>> /\ cur = {w} /\ pc = "start" /\ WatchStart(w)
  BY DEF ContainerStart, ContainerStartFails, StartFrame, inside, github
<1>2. \E b \in {"created", "running"} : box' = On(box, w, b)
  BY DEF ContainerStart, ContainerStartFails
<1>3. EndStep \/ (pc' = "send" /\ UNCHANGED <<view, cur>>)
  BY DEF ContainerStart, ContainerStartFails, StartFrame, Go
<1>4. /\ box \in [Worker -> {"none", "created", "running", "exited", "removed"}]
      /\ record \in [Worker -> {"none", "open", "finalized"}]
      /\ watch \in [Worker -> {"none", "next", "waiting", "saved", "recorded"}]
  BY DEF IInv, Kinds
<1>5. /\ box' \in [Worker -> {"none", "created", "running", "exited", "removed"}]
      /\ record' \in [Worker -> {"none", "open", "finalized"}]
      /\ watch' \in [Worker -> {"none", "next", "waiting", "saved", "recorded"}]
  BY ZenonT(60), <1>1, <1>2, <1>4 DEF WatchStart, On
<1>8. view' \in [Worker -> Seen \cup {"unregistered"}]
  BY ZenonT(60), <1>3 DEF IInv, Kinds, EndStep, Seen
<1>6. Kinds'
  BY <1>1, <1>5, <1>8 DEF IInv, Kinds
<1>7. ASSUME NEW v \in Worker PROVE Safe(v)'
  <2>1. Safe(v)
    BY DEF IInv
  <2>2. \/ v # w /\ box'[v] = box[v] /\ record'[v] = record[v] /\ watch'[v] = watch[v]
        \/ v = w /\ box'[v] \in {"created", "running"} /\ watch'[v] = "next"
    BY <1>1, <1>2, <1>4 DEF WatchStart, On
  <2>3. EvidenceFirst(v)'
    BY <1>1, <2>1, <2>2 DEF Safe, EvidenceFirst
  <2>4. Fits(v)'
    <3>1. CASE EndStep
      BY <3>1, EndStepFits
    <3>2. CASE pc' = "send" /\ UNCHANGED <<view, cur>>
      BY <1>1, <2>1, <2>2, <3>2 DEF Safe, Fits, ViewHolds, RemovalIsSafe, StartIsFresh
    <3> QED  BY <1>3, <3>1, <3>2
  <2> QED  BY <1>1, <2>1, <2>3, <2>4 DEF Safe, Fits, JobIsRegistered
<1> QED  BY <1>6, <1>7 DEF IInv

\* A failed start deregisters a runner without a job.
LEMMA CleanupStep ==
  ASSUME IInv, NEW w \in Worker, Cleanup(w)
  PROVE  IInv'
<1>1. UNCHANGED <<job, box, hook, record, saved, watch>> /\ EndStep
  BY DEF Cleanup, inside, store
<1>2. reg' = reg \/ (job[w] # "running" /\ reg' = On(reg, w, "gone"))
  BY DEF Cleanup
<1>3. reg \in [Worker -> {"none", "live", "gone"}]
  BY DEF IInv, Kinds
<1>4. reg' \in [Worker -> {"none", "live", "gone"}]
  BY <1>2, <1>3 DEF On
<1>5. Kinds'
  BY <1>1, <1>4 DEF IInv, Kinds, EndStep, Seen
<1>6. ASSUME NEW v \in Worker PROVE Safe(v)'
  <2>1. reg'[v] = reg[v] \/ job[v] # "running"
    BY <1>2, <1>3 DEF On
  <2>2. Fits(v)'
    BY <1>1, EndStepFits
  <2> QED  BY <1>1, <2>1, <2>2 DEF IInv, Safe, Fits, EvidenceFirst, JobIsRegistered
<1> QED  BY <1>5, <1>6 DEF IInv

\* A death forgets the watches; a start in flight may still take effect.
LEMMA CrashStep ==
  ASSUME IInv, Crash
  PROVE  IInv'
<1>1. UNCHANGED <<reg, job, hook, record, saved>> /\ EndStep /\ watch' = [w \in Worker |-> "none"]
  BY DEF Crash, github, inside, store
<1>2. PICK late \in BOOLEAN :
         box' = [w \in Worker |-> IF late /\ pc = "start" /\ w \in cur THEN "running" ELSE box[w]]
  BY DEF Crash
<1>3. box \in [Worker -> {"none", "created", "running", "exited", "removed"}]
  BY DEF IInv, Kinds
<1>4. box' \in [Worker -> {"none", "created", "running", "exited", "removed"}]
  BY <1>2, <1>3
<1>5. watch' \in [Worker -> {"none", "next", "waiting", "saved", "recorded"}]
  BY <1>1
<1>6. Kinds'
  BY <1>1, <1>4, <1>5 DEF IInv, Kinds, EndStep, Seen
<1>7. ASSUME NEW v \in Worker PROVE Safe(v)'
  <2>1. watch'[v] = "none" /\ (box'[v] = box[v] \/ box'[v] = "running")
    BY <1>1, <1>2
  <2>2. Fits(v)'
    BY <1>1, EndStepFits
  <2> QED  BY <1>1, <2>1, <2>2 DEF IInv, Safe, Fits, EvidenceFirst, JobIsRegistered
<1> QED  BY <1>6, <1>7 DEF IInv
-----------------------------------------------------------------------------
\* Every step keeps the invariant.
LEMMA InvStep == IInv /\ [Next]_vars => IInv'
<1> SUFFICES ASSUME IInv, [Next]_vars PROVE IInv'
  OBVIOUS
<1>1. ASSUME UNCHANGED <<reg, job, box, hook, record, saved, watch, pc, view, cur>> PROVE IInv'
  <2>1. Kinds'
    BY <1>1 DEF IInv, Kinds
  <2>2. ASSUME NEW v \in Worker PROVE Safe(v)'
    BY <1>1 DEF IInv, Safe, ViewHolds, RemovalIsSafe, StartIsFresh, EvidenceFirst, JobIsRegistered
  <2> QED  BY <2>1, <2>2 DEF IInv
<1>2. CASE Offer \/ UNCHANGED vars
  BY <1>1, <1>2 DEF Offer, vars, github, inside, store, control
<1>3. CASE Crash
  BY <1>3, CrashStep
<1>4. CASE \E w \in Worker : Inside(w) \/ Watch(w)
  BY <1>4, InsideStep, WatchStep
<1>5. CASE Step
  <2>1. CASE \E c \in Capacities : Poll(c) \/ EmptyPoll(c) \/ PollFails(c)
    BY <2>1, PollStep
  <2>2. CASE ListFails \/ StepDone \/ \E w \in Worker : WriteJITConfiguration(w)
    BY <2>2, EndingStep
  <2>3. CASE \E missed \in SUBSET Worker : Verify(missed)
    BY <2>3, VerifyStep
  <2>4. CASE List \/ \E w \in Worker : ReadFails(w)
    BY <2>4, ListStep
  <2>5. CASE \E w \in Worker : \/ Retire(w) \/ Deregister(w) \/ DeregisterFails(w)
                               \/ ReadFirst(w) \/ ReadSecond(w) \/ WaitForWatch(w)
                               \/ ContainerStop(w) \/ StopFails(w)
    BY <2>5, RetireStep, DeregisterStep, ReadStep, StopStep
  <2>6. CASE \E w \in Worker : \/ CreateJITConfig(w) \/ CreateJITConfigFails(w) \/ Recheck(w)
                               \/ Create(w) \/ Attach(w)
                               \/ ContainerStart(w) \/ ContainerStartFails(w) \/ Cleanup(w)
    BY <2>6, RegisterStep, CreateStep, StartStep, CleanupStep
  <2> QED  BY <1>5, <2>1, <2>2, <2>3, <2>4, <2>5, <2>6 DEF Step
<1> QED  BY <1>2, <1>3, <1>4, <1>5 DEF Next

\* The invariant holds for any number of workers, jobs and failures.
THEOREM Invariance == Spec => []IInv
  BY InitInv, InvStep, PTL DEF Spec

\* RemoveIfIdle stops no container whose runner has a job: what makes a worker a
\* candidate (not running, or forgotten by GitHub) lasts until the stop.
THEOREM JobsAreSpared == Spec => []NoJobStopped
<1>1. IInv => NoJobStopped
  BY DEF IInv, Safe, NoJobStopped
<1> QED  BY <1>1, Invariance, PTL

\* finalize and the failed attachment remove no container before its evidence.
THEOREM EvidenceIsKept == Spec => []SavedBeforeRemoval
<1>1. IInv => SavedBeforeRemoval
  BY DEF IInv, Safe, EvidenceFirst, SavedBeforeRemoval
<1> QED  BY <1>1, Invariance, PTL

\* The reconciler handles one worker at a time.
Handled == cur = {} \/ \E w \in Worker : cur = {w}

\* What a step takes up is a worker.
LEMMA CurStep == Handled /\ [Next]_vars => Handled'
<1> SUFFICES ASSUME Handled, [Next]_vars PROVE cur' \in {cur, {}} \cup {{w} : w \in Worker}
  BY DEF Handled
<1>1. CASE Offer \/ Crash \/ UNCHANGED vars
  BY <1>1 DEF Offer, Crash, EndStep, vars, control
<1>2. CASE \E w \in Worker : Inside(w) \/ Watch(w)
  BY ZenonT(60), <1>2 DEF Inside, PickUp, Entrypoint, JobStarted, JobCompleted, Hook, Finish, Leave, Die,
              Watch, SaveArtifacts, SaveFails, FinalizeRecord, FinalizeFails, RemoveContainer,
              RemoveContainerFails, WaitFails, WaitFindsNothing, WatchFrame, control
<1>3. CASE Step
  <2>1. CASE \/ \E c \in Capacities : Poll(c) \/ EmptyPoll(c) \/ PollFails(c)
             \/ List \/ ListFails \/ StepDone \/ \E missed \in SUBSET Worker : Verify(missed)
    BY <2>1 DEF Poll, EmptyPoll, PollFails, List, ListFails, StepDone, Verify, EndStep
  <2>2. CASE \E w \in Worker : \/ ReadFails(w) \/ Retire(w) \/ Deregister(w) \/ DeregisterFails(w)
                               \/ ReadFirst(w) \/ ReadSecond(w) \/ WaitForWatch(w)
                               \/ ContainerStop(w) \/ StopFails(w)
    BY <2>2 DEF ReadFails, Retire, Deregister, DeregisterFails, ReadFirst, ReadSecond, Read,
                WaitForWatch, ContainerStop, StopFails, NextRemoval
  <2>3. CASE \E w \in Worker : \/ CreateJITConfig(w) \/ CreateJITConfigFails(w) \/ Recheck(w)
                               \/ Create(w) \/ Attach(w) \/ WriteJITConfiguration(w)
                               \/ ContainerStart(w) \/ ContainerStartFails(w) \/ Cleanup(w)
    BY <2>3 DEF CreateJITConfig, CreateJITConfigFails, Recheck, Create, Attach, EndStep,
                WriteJITConfiguration, ContainerStart, ContainerStartFails, Cleanup
  <2> QED  BY <1>3, <2>1, <2>2, <2>3 DEF Step
<1> QED  BY <1>1, <1>2, <1>3 DEF Next

\* The cleanup of a failed start deregisters no runner whose container runs.
THEOREM FailedStartIsSafe == Spec => CleanupIsSafe
<1>1. Init => Handled
  BY DEF Handled, Init, InitWith
<1>2. ASSUME IInv, Handled
      PROVE  [\A w \in cur : pc = "cleanup" /\ reg[w] = "live" /\ reg'[w] = "gone"
                             => box[w] # "running"]_vars
  BY <1>2 DEF IInv, Safe, StartIsFresh, Handled
<1>3. Spec => []Handled
  BY <1>1, CurStep, PTL DEF Spec
<1> QED  BY <1>2, <1>3, Invariance, PTL DEF CleanupIsSafe
-----------------------------------------------------------------------------
\* A start in progress still answers for its registration: it carries it out or goes
\* to the cleanup.  After the container is started that takes a container that runs.
InStart(w) == /\ pc \in {"recheck", "create", "attach", "start", "send", "cleanup"}
              /\ w \in cur /\ (pc = "send" => box[w] = "running")

\* A registration nobody answers for: no start is at work on it, and no runner that
\* has its configuration runs.
IsStray(w) == reg[w] = "live" /\ ~InStart(w) /\ ~(box[w] = "running" /\ w \in jit)

Stray == {w \in Worker : IsStray(w)}

\* A runner that did its job is forgotten, and what is being removed does not run.
Settled(w) == /\ job[w] = "done" => reg[w] = "gone"
              /\ watch[w] \in {"saved", "recorded"} => box[w] # "running"

\* Each stray registration took a failure.
Accounted == faults \in Nat /\ Cardinality(Stray) <= faults

\* The step makes no registration stray, or one at the price of a failure.
Charged == \/ /\ faults' \in {faults, faults + 1}
              /\ \A v \in Worker : IsStray(v)' => IsStray(v)
           \/ /\ faults' = faults + 1
              /\ \E w \in Worker : \A v \in Worker : IsStray(v)' => IsStray(v) \/ v = w

\* Counting: what is charged stays accounted for.
LEMMA ChargedIsAccounted == Accounted /\ Charged => Accounted'
<1> SUFFICES ASSUME Accounted, Charged PROVE Accounted'
  OBVIOUS
<1>1. IsFiniteSet(Stray) /\ IsFiniteSet(Stray') /\ Cardinality(Stray) \in Nat
  <2>1. Stray \in SUBSET Worker /\ Stray' \in SUBSET Worker /\ IsFiniteSet(Worker)
    BY WorkersAssumption DEF Stray
  <2>2. IsFiniteSet(Stray) /\ IsFiniteSet(Stray')
    BY <2>1, FS_Subset
  <2> QED  BY <2>2, FS_CardinalityType
<1>2. faults \in Nat /\ Cardinality(Stray) <= faults
  BY DEF Accounted
<1>3. CASE faults' \in {faults, faults + 1} /\ \A v \in Worker : IsStray(v)' => IsStray(v)
  <2>1. Stray' \in SUBSET Stray
    BY <1>3 DEF Stray
  <2>2. Cardinality(Stray') <= Cardinality(Stray) /\ Cardinality(Stray') \in Nat
    BY <1>1, <2>1, FS_Subset, FS_CardinalityType
  <2>3. faults' \in Nat /\ Cardinality(Stray') <= faults'
    BY SMT, <1>1, <1>2, <1>3, <2>2
  <2> QED  BY <2>3 DEF Accounted
<1>4. CASE /\ faults' = faults + 1
           /\ \E w \in Worker : \A v \in Worker : IsStray(v)' => IsStray(v) \/ v = w
  <2>1. PICK w \in Worker : \A v \in Worker : IsStray(v)' => IsStray(v) \/ v = w
    BY <1>4
  <2>2. Stray' \in SUBSET (Stray \cup {w})
    BY <2>1 DEF Stray
  <2>3. /\ IsFiniteSet(Stray \cup {w})
        /\ Cardinality(Stray \cup {w}) = IF w \in Stray THEN Cardinality(Stray)
                                          ELSE Cardinality(Stray) + 1
    BY <1>1, FS_AddElement
  <2>4. /\ Cardinality(Stray') <= Cardinality(Stray \cup {w}) /\ Cardinality(Stray') \in Nat
        /\ Cardinality(Stray \cup {w}) \in Nat
    BY <1>1, <2>2, <2>3, FS_Subset, FS_CardinalityType
  <2>5. faults' \in Nat /\ Cardinality(Stray') <= faults'
    BY SMT, <1>1, <1>2, <1>4, <2>3, <2>4
  <2> QED  BY <2>5 DEF Accounted
<1> QED  BY <1>3, <1>4 DEF Charged

\* A step that ends or goes on where no start is in progress makes nothing stray.
LEMMA QuietIsCharged ==
  ASSUME UNCHANGED <<reg, box, jit>>, faults' \in {faults, faults + 1},
         pc \notin {"recheck", "create", "attach", "start", "send", "cleanup"}
  PROVE  Charged
  BY DEF Charged, IsStray, InStart

\* The runner: it leaves with its registration gone, or dies, which is a failure.
LEMMA InsideIsCharged ==
  ASSUME IInv, NEW w \in Worker, Settled(w), Inside(w)
  PROVE  Charged
<1>1. UNCHANGED <<jit, pc, cur>>
  BY DEF Inside, PickUp, Entrypoint, JobStarted, JobCompleted, Hook, Finish, Leave, Die,
         inside, control
<1>2. /\ reg \in [Worker -> {"none", "live", "gone"}]
      /\ box \in [Worker -> {"none", "created", "running", "exited", "removed"}]
  BY DEF IInv, Kinds
<1>3. CASE PickUp(w) \/ Entrypoint(w) \/ JobStarted(w) \/ JobCompleted(w)
  <2>1. UNCHANGED <<reg, box, faults>>
    BY <1>3 DEF PickUp, Entrypoint, JobStarted, JobCompleted, Hook, github
  <2> QED  BY <1>1, <2>1 DEF Charged, IsStray, InStart
<1>4. CASE Finish(w)
  <2>1. UNCHANGED <<box, faults>> /\ reg' = On(reg, w, "gone")
    BY <1>4 DEF Finish
  <2>2. \A v \in Worker : reg'[v] = "live" => reg[v] = "live"
    BY <1>2, <2>1 DEF On
  <2> QED  BY <1>1, <2>1, <2>2 DEF Charged, IsStray, InStart
<1>5. CASE Leave(w)
  <2>1. UNCHANGED <<reg, faults>> /\ box' = On(box, w, "exited")
    BY <1>5 DEF Leave, github
  <2>2. \A v \in Worker : v # w => box'[v] = box[v]
    BY <1>2, <2>1 DEF On
  <2>3. reg[w] = "live" => w \notin jit /\ w \notin cur
    BY <1>5 DEF Leave, Settled
  <2>4. ASSUME NEW v \in Worker, IsStray(v)' PROVE IsStray(v)
    BY <1>1, <2>1, <2>2, <2>3, <2>4 DEF IsStray, InStart
  <2> QED  BY <2>1, <2>4 DEF Charged
<1>6. CASE Die(w)
  <2>1. UNCHANGED reg /\ box' = On(box, w, "exited") /\ faults' = faults + 1
    BY <1>6 DEF Die, github, Fault
  <2>2. \A v \in Worker : v # w => box'[v] = box[v]
    BY <1>2, <2>1 DEF On
  <2>3. \A v \in Worker : IsStray(v)' => IsStray(v) \/ v = w
    BY <1>1, <2>1, <2>2 DEF IsStray, InStart
  <2> QED  BY <2>1, <2>3 DEF Charged
<1> QED  BY <1>3, <1>4, <1>5, <1>6 DEF Inside

\* The watch removes only a container that no longer runs.
LEMMA WatchIsCharged ==
  ASSUME IInv, NEW w \in Worker, Settled(w), Watch(w)
  PROVE  Charged
<1>1. UNCHANGED <<reg, jit, pc, cur>> /\ faults' \in {faults, faults + 1}
  BY DEF Watch, SaveArtifacts, SaveFails, FinalizeRecord, FinalizeFails, RemoveContainer,
         RemoveContainerFails, WaitFails, WaitFindsNothing, WatchFrame, github, inside, control,
         Fault
<1>2. box' = box \/ (box[w] # "running" /\ box' = On(box, w, "removed"))
  BY DEF Watch, SaveArtifacts, SaveFails, FinalizeRecord, FinalizeFails, RemoveContainer,
         RemoveContainerFails, WaitFails, WaitFindsNothing, Settled
<1>3. box \in [Worker -> {"none", "created", "running", "exited", "removed"}]
  BY DEF IInv, Kinds
<1>4. \A v \in Worker : box[v] = "running" => box'[v] = "running"
  BY <1>2, <1>3 DEF On
<1> QED  BY <1>1, <1>4 DEF Charged, IsStray, InStart

\* A retirement stops a container only when its registration is gone.
LEMMA RemovalIsCharged ==
  ASSUME IInv, NEW w \in Worker,
         \/ Retire(w) \/ Deregister(w) \/ DeregisterFails(w) \/ ReadFirst(w) \/ ReadSecond(w)
         \/ WaitForWatch(w) \/ ContainerStop(w) \/ StopFails(w)
  PROVE  Charged
<1>1. /\ reg \in [Worker -> {"none", "live", "gone"}]
      /\ box \in [Worker -> {"none", "created", "running", "exited", "removed"}]
  BY DEF IInv, Kinds
<1>2. CASE Retire(w) \/ ReadFirst(w) \/ ReadSecond(w) \/ WaitForWatch(w) \/ StopFails(w)
  <2>1. UNCHANGED <<reg, box, jit>> /\ faults' \in {faults, faults + 1}
    BY <1>2 DEF Retire, ReadFirst, ReadSecond, Read, WaitForWatch, StopFails, github, inside, Fault
  <2>2. pc \in {"retire", "first", "second", "wait", "stop"}
    BY <1>2 DEF Retire, ReadFirst, ReadSecond, WaitForWatch, StopFails
  <2> QED  BY <2>1, <2>2, QuietIsCharged
<1>3. CASE Deregister(w) \/ DeregisterFails(w)
  <2>1. UNCHANGED <<box, jit>> /\ pc = "deregister" /\ faults' \in {faults, faults + 1}
    BY <1>3 DEF Deregister, DeregisterFails, inside, Fault
  <2>2. reg' = reg \/ \E r \in {reg[w], "gone"} : reg' = On(reg, w, r)
    BY <1>3 DEF Deregister, DeregisterFails
  <2>3. \A v \in Worker : reg'[v] = "live" => reg[v] = "live"
    BY <1>1, <2>2 DEF On
  <2> QED  BY <2>1, <2>3 DEF Charged, IsStray, InStart
<1>4. CASE ContainerStop(w)
  <2>1. UNCHANGED <<reg, jit, faults>> /\ pc = "stop" /\ w \in cur
    BY <1>4 DEF ContainerStop, inside
  <2>2. box' = box \/ (box[w] = "running" /\ box' = On(box, w, "exited"))
    BY <1>4 DEF ContainerStop
  <2>3. box[w] = "running" => reg[w] = "gone"
    BY <2>1 DEF IInv, Safe, ViewHolds, RemovalIsSafe
  <2>4. \A v \in Worker : box'[v] = box[v] \/ reg[v] = "gone"
    BY <1>1, <2>2, <2>3 DEF On
  <2> QED  BY <2>1, <2>4 DEF Charged, IsStray, InStart
<1> QED  BY <1>2, <1>3, <1>4

\* A start: its registration is carried out or cleaned up unless a call fails.
LEMMA StartIsCharged ==
  ASSUME IInv, NEW w \in Worker,
         \/ CreateJITConfig(w) \/ CreateJITConfigFails(w) \/ Recheck(w) \/ Create(w) \/ Attach(w)
         \/ ContainerStart(w) \/ ContainerStartFails(w) \/ WriteJITConfiguration(w) \/ Cleanup(w)
  PROVE  Charged
<1>1. /\ reg \in [Worker -> {"none", "live", "gone"}]
      /\ box \in [Worker -> {"none", "created", "running", "exited", "removed"}]
  BY DEF IInv, Kinds
<1>2. CASE CreateJITConfig(w) \/ CreateJITConfigFails(w)
  <2>1. UNCHANGED <<box, jit>> /\ pc \in {"starts", "retire"}
    BY <1>2 DEF CreateJITConfig, CreateJITConfigFails, inside
  <2>2. \A v \in Worker : v # w => reg'[v] = reg[v]
    BY <1>1, <1>2 DEF CreateJITConfig, CreateJITConfigFails, On
  <2>3. \A v \in Worker : v # w => (IsStray(v)' => IsStray(v))
    BY <2>1, <2>2 DEF IsStray, InStart
  <2>4. CASE CreateJITConfig(w)
    <3>1. pc' = "recheck" /\ cur' = {w} /\ faults' = faults
      BY <2>4 DEF CreateJITConfig, Go
    <3>2. ~IsStray(w)'
      BY <3>1 DEF IsStray, InStart
    <3> QED  BY <2>3, <3>1, <3>2 DEF Charged
  <2>5. CASE CreateJITConfigFails(w)
    <3>1. faults' = faults + 1
      BY <2>5 DEF CreateJITConfigFails, Fault
    <3> QED  BY <2>3, <3>1 DEF Charged
  <2> QED  BY <1>2, <2>4, <2>5
<1>3. CASE Recheck(w) \/ Create(w) \/ Attach(w) \/ ContainerStart(w)
  <2>1. /\ UNCHANGED <<reg, jit, cur>> /\ cur = {w} /\ faults' \in {faults, faults + 1}
        /\ pc \in {"recheck", "create", "attach", "start"}
    BY <1>3 DEF Recheck, Create, Attach, ContainerStart, inside, Fault
  <2>2. \A v \in Worker : v # w => box'[v] = box[v]
    BY <1>1, <1>3 DEF Recheck, Create, Attach, ContainerStart, On
  <2>3. \/ pc' \in {"create", "cleanup", "attach", "start"}
        \/ pc' = "send" /\ box'[w] = "running"
    BY <1>1, <1>3 DEF Recheck, Create, Attach, ContainerStart, Go, On
  <2>4. ~IsStray(w)'
    BY <2>1, <2>3 DEF IsStray, InStart
  <2>5. \A v \in Worker : v # w => (IsStray(v)' => IsStray(v))
    BY <2>1, <2>2 DEF IsStray, InStart
  <2> QED  BY <2>1, <2>4, <2>5 DEF Charged
<1>4. CASE ContainerStartFails(w)
  <2>1. UNCHANGED <<reg, jit>> /\ cur = {w} /\ faults' = faults + 1
    BY <1>4 DEF ContainerStartFails, github, inside, Fault
  <2>2. \A v \in Worker : v # w => box'[v] = box[v]
    BY <1>1, <1>4 DEF ContainerStartFails, On
  <2>3. \A v \in Worker : IsStray(v)' => IsStray(v) \/ v = w
    BY <2>1, <2>2 DEF IsStray, InStart
  <2> QED  BY <2>1, <2>3 DEF Charged
<1>5. CASE WriteJITConfiguration(w)
  <2>1. UNCHANGED <<reg, box>> /\ cur = {w} /\ pc = "send"
    BY <1>5 DEF WriteJITConfiguration, github
  <2>2. jit \subseteq jit'
    BY <1>5 DEF WriteJITConfiguration
  <2>3. \A v \in Worker : IsStray(v)' => IsStray(v) \/ v = w
    BY <2>1, <2>2 DEF IsStray, InStart
  <2>4. \/ faults' = faults + 1
        \/ faults' = faults /\ w \in jit'
    BY <1>5 DEF WriteJITConfiguration, Fault
  <2>5. w \in jit' => (IsStray(w)' => IsStray(w))
    BY <2>1 DEF IsStray, InStart
  <2> QED  BY <2>3, <2>4, <2>5 DEF Charged
<1>6. CASE Cleanup(w)
  <2>1. UNCHANGED <<box, jit>> /\ cur = {w}
    BY <1>6 DEF Cleanup, inside
  <2>2. \/ reg' = On(reg, w, "gone") /\ faults' = faults
        \/ reg' = reg /\ faults' = faults + 1
    BY <1>6 DEF Cleanup, Fault
  <2>3. \A v \in Worker : v # w => reg'[v] = reg[v]
    BY <1>1, <2>2 DEF On
  <2>4. \A v \in Worker : v # w => (IsStray(v)' => IsStray(v))
    BY <2>1, <2>3 DEF IsStray, InStart
  <2>5. faults' = faults + 1 \/ (faults' = faults /\ ~IsStray(w)')
    BY <1>1, <2>2 DEF IsStray, On
  <2> QED  BY <2>4, <2>5 DEF Charged
<1> QED  BY <1>2, <1>3, <1>4, <1>5, <1>6

\* A death gives up the start in progress, if any.
LEMMA CrashIsCharged ==
  ASSUME IInv, Handled, Crash
  PROVE  Charged
<1>1. UNCHANGED <<reg, jit>> /\ faults' = faults + 1
  BY DEF Crash, github, inside, Fault
<1>2. \A v \in Worker : v \notin cur => box'[v] = box[v]
  BY DEF Crash
<1>3. \A v \in Worker : IsStray(v)' => IsStray(v) \/ v \in cur
  BY <1>1, <1>2 DEF IsStray, InStart
<1>4. CASE cur = {}
  BY <1>1, <1>3, <1>4 DEF Charged
<1>5. CASE \E w \in Worker : cur = {w}
  BY <1>1, <1>3, <1>5 DEF Charged
<1> QED  BY <1>4, <1>5 DEF Handled

\* Every step is charged.
LEMMA StepIsCharged ==
  ASSUME IInv, Handled, \A w \in Worker : Settled(w), [Next]_vars
  PROVE  Charged
<1>1. CASE Offer \/ UNCHANGED vars
  <2>1. UNCHANGED <<reg, box, jit, pc, cur, faults>>
    BY <1>1 DEF Offer, vars, github, inside, control
  <2> QED  BY <2>1 DEF Charged, IsStray, InStart
<1>2. CASE Crash
  BY <1>2, CrashIsCharged
<1>3. CASE \E w \in Worker : Inside(w) \/ Watch(w)
  BY <1>3, InsideIsCharged, WatchIsCharged
<1>4. CASE Step
  <2>1. CASE \/ \E c \in Capacities : Poll(c) \/ EmptyPoll(c) \/ PollFails(c)
             \/ List \/ ListFails \/ StepDone \/ \E missed \in SUBSET Worker : Verify(missed)
             \/ \E w \in Worker : ReadFails(w)
    <3>1. UNCHANGED <<reg, box, jit>> /\ faults' \in {faults, faults + 1}
      BY <2>1 DEF Poll, EmptyPoll, PollFails, List, ListFails, StepDone, Verify, ReadFails,
                  github, inside, Fault
    <3>2. pc \in {"poll", "list", "verify", "starts", "retire"}
      BY <2>1 DEF Poll, EmptyPoll, PollFails, List, ListFails, StepDone, Verify, ReadFails
    <3> QED  BY <3>1, <3>2, QuietIsCharged
  <2>2. CASE \E w \in Worker : \/ Retire(w) \/ Deregister(w) \/ DeregisterFails(w)
                               \/ ReadFirst(w) \/ ReadSecond(w) \/ WaitForWatch(w)
                               \/ ContainerStop(w) \/ StopFails(w)
    BY <2>2, RemovalIsCharged
  <2>3. CASE \E w \in Worker : \/ CreateJITConfig(w) \/ CreateJITConfigFails(w) \/ Recheck(w)
                               \/ Create(w) \/ Attach(w) \/ WriteJITConfiguration(w)
                               \/ ContainerStart(w) \/ ContainerStartFails(w) \/ Cleanup(w)
    BY <2>3, StartIsCharged
  <2> QED  BY <1>4, <2>1, <2>2, <2>3 DEF Step
<1> QED  BY <1>1, <1>2, <1>3, <1>4 DEF Next
-----------------------------------------------------------------------------
\* A registration that is gone stays gone, and with a job done it is.
Forgets == \A v \in Worker : /\ reg[v] = "gone" => reg'[v] = "gone"
                             /\ job'[v] = "done" => job[v] = "done" \/ reg'[v] = "gone"

\* Nothing starts a container that is being removed or removes one that runs.
LeavesAlone == \A v \in Worker : watch'[v] \in {"saved", "recorded"} =>
                  \/ /\ watch[v] \in {"saved", "recorded"}
                     /\ box'[v] = "running" => box[v] = "running"
                  \/ box'[v] # "running"

\* The two facts keep every worker settled.
LEMMA SettledFrom ==
  ASSUME \A v \in Worker : Settled(v), Forgets, LeavesAlone
  PROVE  \A v \in Worker : Settled(v)'
  BY DEF Settled, Forgets, LeavesAlone

\* GitHub forgets a runner for good, and every runner that did its job.
LEMMA StepForgets == ASSUME IInv, [Next]_vars PROVE Forgets
<1>1. /\ reg \in [Worker -> {"none", "live", "gone"}]
      /\ job \in [Worker -> {"none", "running", "done", "lost"}]
  BY DEF IInv, Kinds
<1>2. CASE UNCHANGED <<reg, job>>
  BY <1>2 DEF Forgets
<1>3. ASSUME NEW w \in Worker, NEW r \in {"live", "gone"}, UNCHANGED job, reg' = On(reg, w, r),
             r = "gone" \/ reg[w] # "gone"
      PROVE  Forgets
  BY <1>1, <1>3 DEF Forgets, On
<1>4. CASE Offer \/ Crash \/ UNCHANGED vars
  BY <1>2, <1>4 DEF Offer, Crash, vars, github
<1>5. ASSUME NEW w \in Worker, Inside(w) \/ Watch(w) PROVE Forgets
  <2>1. CASE Watch(w)
    BY <1>2, <2>1 DEF Watch, SaveArtifacts, SaveFails, FinalizeRecord, FinalizeFails,
         RemoveContainer, RemoveContainerFails, WaitFails, WaitFindsNothing, WatchFrame, github
  <2>2. CASE PickUp(w)
    <3>1. reg' = reg /\ job' = On(job, w, "running")
      BY <2>2 DEF PickUp
    <3> QED  BY <1>1, <3>1 DEF Forgets, On
  <2>3. CASE Finish(w)
    <3>1. reg' = On(reg, w, "gone") /\ job' = On(job, w, "done")
      BY <2>3 DEF Finish
    <3> QED  BY <1>1, <3>1 DEF Forgets, On
  <2>4. CASE Entrypoint(w) \/ JobStarted(w) \/ JobCompleted(w) \/ Leave(w) \/ Die(w)
    BY <1>2, <2>4 DEF Entrypoint, JobStarted, JobCompleted, Hook, Leave, Die, github
  <2> QED  BY <1>5, <2>1, <2>2, <2>3, <2>4 DEF Inside
<1>6. CASE Step
  <2>1. CASE \/ \E c \in Capacities : Poll(c) \/ EmptyPoll(c) \/ PollFails(c)
             \/ List \/ ListFails \/ StepDone \/ \E missed \in SUBSET Worker : Verify(missed)
    BY <1>2, <2>1 DEF Poll, EmptyPoll, PollFails, List, ListFails, StepDone, Verify, github
  <2>2. ASSUME NEW w \in Worker,
               \/ ReadFails(w) \/ Retire(w) \/ ReadFirst(w) \/ ReadSecond(w) \/ WaitForWatch(w)
               \/ StopFails(w) \/ Recheck(w) \/ Create(w) \/ Attach(w) \/ WriteJITConfiguration(w)
               \/ ContainerStart(w) \/ ContainerStartFails(w)
        PROVE  Forgets
    BY <1>2, <2>2 DEF ReadFails, Retire, ReadFirst, ReadSecond, WaitForWatch, StopFails, Recheck,
         Create, Attach, WriteJITConfiguration, ContainerStart, ContainerStartFails, StartFrame,
         github
  <2>3. ASSUME NEW w \in Worker, Deregister(w) \/ DeregisterFails(w) \/ Cleanup(w) PROVE Forgets
    <3>1. /\ UNCHANGED job
          /\ reg' = reg \/ \E r \in {reg[w], "gone"} : reg' = On(reg, w, r)
      BY <2>3 DEF Deregister, DeregisterFails, Cleanup
    <3> QED  BY <1>1, <3>1 DEF Forgets, On
  <2>4. ASSUME NEW w \in Worker, CreateJITConfig(w) \/ CreateJITConfigFails(w) PROVE Forgets
    BY <1>3, <2>4 DEF CreateJITConfig, CreateJITConfigFails, StartFrame
  <2>5. ASSUME NEW w \in Worker, ContainerStop(w) PROVE Forgets
    <3>1. reg' = reg /\ (job' = job \/ job' = On(job, w, "lost"))
      BY <2>5 DEF ContainerStop
    <3> QED  BY <1>1, <3>1 DEF Forgets, On
  <2> QED  BY <1>6, <2>1, <2>2, <2>3, <2>4, <2>5 DEF Step
<1> QED  BY <1>4, <1>5, <1>6 DEF Next

\* Saving and removing happen to containers that have stopped, and only a start, whose
\* container nothing watches yet, makes one run.
LEMMA StepLeavesAlone == ASSUME IInv, [Next]_vars PROVE LeavesAlone
<1>1. /\ box \in [Worker -> {"none", "created", "running", "exited", "removed"}]
      /\ watch \in [Worker -> {"none", "next", "waiting", "saved", "recorded"}]
  BY DEF IInv, Kinds
<1>2. CASE UNCHANGED <<box, watch>>
  BY <1>2 DEF LeavesAlone
<1>3. ASSUME NEW W, EnsureWatch(W), \A v \in Worker : box'[v] = "running" => box[v] = "running"
      PROVE  LeavesAlone
  <2>1. \A v \in Worker : watch'[v] = watch[v] \/ watch'[v] = "waiting"
    BY <1>3 DEF EnsureWatch
  <2> QED  BY <1>3, <2>1 DEF LeavesAlone
<1>4. CASE Offer \/ Crash \/ UNCHANGED vars
  <2>1. CASE Crash
    BY <2>1 DEF Crash, LeavesAlone
  <2> QED  BY <1>2, <1>4, <2>1 DEF Offer, vars
<1>5. ASSUME NEW w \in Worker, Inside(w) PROVE LeavesAlone
  <2>1. watch' = watch /\ (box' = box \/ box' = On(box, w, "exited"))
    BY <1>5 DEF Inside, PickUp, Entrypoint, JobStarted, JobCompleted, Hook, Finish, Leave, Die
  <2>2. \A v \in Worker : box'[v] = "running" => box[v] = "running"
    BY <1>1, <2>1 DEF On
  <2> QED  BY <2>1, <2>2 DEF LeavesAlone
<1>6. ASSUME NEW w \in Worker, Watch(w) PROVE LeavesAlone
  <2>1. \/ watch' = On(watch, w, "none") /\ (box' = box \/ box' = On(box, w, "removed"))
        \/ watch' = On(watch, w, "saved") /\ box' = box /\ box[w] # "running"
        \/ watch[w] = "saved" /\ watch' = On(watch, w, "recorded") /\ box' = box
    BY <1>6 DEF Watch, SaveArtifacts, SaveFails, FinalizeRecord, FinalizeFails, RemoveContainer,
         RemoveContainerFails, WaitFails, WaitFindsNothing, Stopped, EndWatch
  <2>2. \A v \in Worker : v # w => watch'[v] = watch[v] /\ box'[v] = box[v]
    BY <1>1, <2>1 DEF On
  <2>3. \/ watch'[w] = "none"
        \/ box'[w] = box[w] /\ (watch[w] = "saved" \/ box[w] # "running")
    BY <1>1, <2>1 DEF On
  <2> QED  BY <2>2, <2>3 DEF LeavesAlone
<1>7. CASE Step
  <2>1. CASE \/ \E c \in Capacities : Poll(c) \/ EmptyPoll(c) \/ PollFails(c)
             \/ ListFails \/ StepDone \/ \E missed \in SUBSET Worker : Verify(missed)
    BY <1>2, <2>1 DEF Poll, EmptyPoll, PollFails, ListFails, StepDone, Verify
  <2>2. ASSUME NEW w \in Worker,
               \/ Retire(w) \/ Deregister(w) \/ DeregisterFails(w) \/ ReadFirst(w)
               \/ ReadSecond(w) \/ WaitForWatch(w) \/ WriteJITConfiguration(w) \/ Cleanup(w)
        PROVE  LeavesAlone
    BY <1>2, <2>2 DEF Retire, Deregister, DeregisterFails, ReadFirst, ReadSecond, WaitForWatch,
         WriteJITConfiguration, Cleanup
  <2>3. CASE List \/ \E w \in Worker : ReadFails(w) \/ CreateJITConfig(w)
                                         \/ CreateJITConfigFails(w) \/ Recheck(w)
    <3>1. box' = box /\ EnsureWatch(Boxes)
      BY <2>3 DEF List, ReadFails, Inventory, CreateJITConfig, CreateJITConfigFails, Recheck
    <3> QED  BY <1>3, <3>1
  <2>4. ASSUME NEW w \in Worker, ContainerStop(w) \/ StopFails(w) PROVE LeavesAlone
    <3>1. WatchAgain(w) /\ (box' = box \/ box' = On(box, w, "exited"))
      BY <2>4 DEF ContainerStop, StopFails
    <3>2. \A v \in Worker : box'[v] = "running" => box[v] = "running"
      BY <1>1, <3>1 DEF On
    <3>3. CASE watch' = On(watch, w, "waiting")
      <4>1. \A v \in Worker : watch'[v] = watch[v] \/ watch'[v] = "waiting"
        BY <1>1, <3>3 DEF On
      <4> QED  BY <3>2, <4>1 DEF LeavesAlone
    <3>4. CASE EnsureWatch({w})
      BY <1>3, <3>2, <3>4
    <3> QED  BY <3>1, <3>3, <3>4 DEF WatchAgain
  <2>5. ASSUME NEW w \in Worker, Create(w) \/ Attach(w) PROVE LeavesAlone
    <3>1. watch' = watch /\ (box' = box \/ \E b \in {"created", "removed"} : box' = On(box, w, b))
      BY <2>5 DEF Create, Attach
    <3>2. \A v \in Worker : box'[v] = "running" => box[v] = "running"
      BY <1>1, <3>1 DEF On
    <3> QED  BY <3>1, <3>2 DEF LeavesAlone
  <2>6. ASSUME NEW w \in Worker, ContainerStart(w) \/ ContainerStartFails(w) PROVE LeavesAlone
    <3>1. watch' = On(watch, w, "next") /\ \E b \in {"created", "running"} : box' = On(box, w, b)
      BY <2>6 DEF ContainerStart, ContainerStartFails, WatchStart
    <3>2. \A v \in Worker : watch'[v] = "next" \/ (watch'[v] = watch[v] /\ box'[v] = box[v])
      BY <1>1, <3>1 DEF On
    <3> QED  BY <3>2 DEF LeavesAlone
  <2> QED  BY <1>7, <2>1, <2>2, <2>3, <2>4, <2>5, <2>6 DEF Step
<1> QED  BY <1>4, <1>5, <1>6, <1>7 DEF Next

\* What counting the stray registrations needs, together.
AccountInv == IInv /\ Handled /\ (\A w \in Worker : Settled(w)) /\ Accounted

\* At first there is no registration and nothing is at work.
LEMMA AccountInit == Init => AccountInv
<1> SUFFICES ASSUME Init PROVE AccountInv
  OBVIOUS
<1>1. PICK past \in SUBSET Worker, spent \in 0..MaxFaults : InitWith(past, spent)
  BY DEF Init
<1>2. Handled /\ \A w \in Worker : job[w] = "none" /\ watch[w] = "none" /\ reg[w] # "live"
  <2>1. \A w \in Worker : reg[w] = IF w \in past THEN "gone" ELSE "none"
    BY <1>1 DEF InitWith
  <2> QED  BY <1>1, <2>1 DEF InitWith, Handled
<1>3. Stray = {}
  BY <1>2 DEF Stray, IsStray
<1>4. spent \in Nat /\ faults = spent
  <2>1. spent \in Nat
    BY SMT, <1>1, WorkersAssumption
  <2> QED  BY <1>1, <2>1 DEF InitWith
<1>5. faults \in Nat /\ Cardinality(Stray) <= faults
  <2>1. Cardinality(Stray) = 0
    BY <1>3, FS_EmptySet
  <2> QED  BY SMT, <1>4, <2>1
<1> QED  BY <1>2, <1>5, InitInv DEF AccountInv, Accounted, Settled

\* It holds for any number of workers, jobs and failures.
THEOREM AccountInvariance == Spec => []AccountInv
<1>1. AccountInv /\ [Next]_vars => AccountInv'
  <2> SUFFICES ASSUME AccountInv, [Next]_vars PROVE AccountInv'
    OBVIOUS
  <2>1. IInv /\ Handled /\ (\A w \in Worker : Settled(w)) /\ Accounted
    BY DEF AccountInv
  <2>2. IInv' /\ Handled'
    BY <2>1, InvStep, CurStep
  <2>3. \A w \in Worker : Settled(w)'
    BY <2>1, SettledFrom, StepForgets, StepLeavesAlone
  <2>4. Accounted'
    BY <2>1, StepIsCharged, ChargedIsAccounted
  <2> QED  BY <2>2, <2>3, <2>4 DEF AccountInv
<1> QED  BY <1>1, AccountInit, PTL DEF Spec

\* GitHub keeps no registration without a container that no failed call or death left
\* behind: a start that is merely not carried out takes its registration back.
THEOREM RegistrationsAreAccounted == Spec => []RegistrationsAccounted
<1>1. AccountInv => RegistrationsAccounted
  <2> SUFFICES ASSUME AccountInv PROVE RegistrationsAccounted
    OBVIOUS
  <2> DEFINE Left == {w \in Worker \ cur : reg[w] = "live" /\ box[w] \in {"none", "removed"}}
  <2>1. faults \in Nat /\ Cardinality(Stray) <= faults
    BY DEF AccountInv, Accounted
  <2>2. Left \in SUBSET Stray
    BY DEF Stray, IsStray, InStart
  <2>3. Stray \in SUBSET Worker /\ IsFiniteSet(Worker)
    BY WorkersAssumption DEF Stray
  <2>4. IsFiniteSet(Stray)
    BY <2>3, FS_Subset
  <2>5. /\ Cardinality(Left) <= Cardinality(Stray)
        /\ Cardinality(Left) \in Nat /\ Cardinality(Stray) \in Nat
    <3> HIDE DEF Left
    <3> QED  BY <2>2, <2>4, FS_Subset, FS_CardinalityType
  <2>6. Cardinality(Left) <= faults
    <3> HIDE DEF Left
    <3> QED  BY SMT, <2>1, <2>5
  <2> QED  BY <2>6 DEF RegistrationsAccounted
<1> QED  BY <1>1, AccountInvariance, PTL
=============================================================================

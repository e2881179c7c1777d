------------------------------- MODULE MCJobs -------------------------------
(* What the controller remembers of jobs: the message session of one target, the
   job index, the catalogues a save compacts, and the worker artifacts.  The parts
   meet in the job index only, whose operations JobRecords shares; part says which
   of them moves in a behaviour. *)
EXTENDS MessageSession, JobIndex, Artifacts

VARIABLE part

MCJobSet == 1..2
-----------------------------------------------------------------------------
(* Two jobs in two messages with one failure or in three with none, one job in four
   messages with two failures, or in three with two failures and outside changes. *)
SessionInit ==
    IF part # "session" THEN InitWith(Jobs, MaxMessages, MaxFaults, FALSE)
    ELSE \/ InitWith({}, 2, 1, FALSE) \/ InitWith({}, 1, 2, FALSE)
         \/ InitWith({2}, 0, 0, FALSE)
         \/ InitWith({2}, 1, 0, TRUE)

(* Every catalogue of three runners over the shapes of record that compaction
   tells apart: tombstones and terminal records of two ages, with and without
   paths, and records that must stay. *)
Shapes == {[Blank EXCEPT !.tomb = t, !.finalized = 1, !.log = l] :
              t \in 1..2, l \in BOOLEAN}
     \cup {[Blank EXCEPT !.finalized = t, !.log = TRUE, !.diag = TRUE] : t \in 1..2}
     \cup {[Blank EXCEPT !.job = 1, !.started = 1, !.completed = t] : t \in 0..2}
     \cup {[Blank EXCEPT !.job = 2, !.started = 1, !.finalized = 1],
           [Blank EXCEPT !.completed = 1, !.open = TRUE]}

CatalogInit ==
    IF part = "compact"
    THEN /\ jobsFile \in UNION {[S -> Shapes] : S \in SUBSET (1..3)}
         /\ times = {} /\ journal = <<>> /\ now = 1 /\ promised = {}
    ELSE IndexInit /\ (part # "index" => jobsFile = <<>>)

(* The two jobs being interchangeable, only the first runner is given either.  The
   first runner meets every order of events and artifacts; the record of the second
   begins with its log, as that of a worker the engine started without trouble does. *)
OneSided == 2 \in DOMAIN jobsFile' => jobsFile'[2].job # 1 /\ jobsFile'[2].log

(* A worker beside the evidence of an earlier one, with a failure or with a sweep of
   another sweeper, or the evidence of two earlier ones, the record of one of which
   may have been shed, with both. *)
FileInit ==
    IF part # "files" THEN ArtifactsInitWith(<<>>, {}, 2, 0, 0)
    ELSE \/ ArtifactsInitWith([w \in {2} |-> 1], {}, 2, 0, 1)
         \/ ArtifactsInitWith([w \in {2} |-> 2], {}, 3, 1, 0)
         \/ \E shed \in SUBSET {2} : ArtifactsInitWith(<<1, 2>>, shed, 2, 0, 0)

MCInit == /\ part \in {"session", "index", "compact", "files"}
          /\ SessionInit /\ CatalogInit /\ FileInit

InSession(action) ==
    part = "session" /\ action /\ UNCHANGED <<part, indexVars, artifactVars>>

MCNext ==
    \/ InSession(Next)
    \/ part = "index" /\ IndexNext /\ OneSided /\ UNCHANGED <<part, vars, artifactVars>>
    \/ part = "compact" /\ UNCHANGED <<part, vars, indexVars, artifactVars>>
    \/ part = "files" /\ ArtifactsNext /\ UNCHANGED <<part, vars, indexVars>>

MCSpec == /\ MCInit /\ [][MCNext]_<<part, vars, indexVars, artifactVars>>
          /\ WF_vars(InSession(Statistics)) /\ WF_vars(InSession(Reconnect))
-----------------------------------------------------------------------------
(* MessageSession: nothing but failures and outside changes keeps the start and the
   completion of a job from the index.  The two jobs are interchangeable, and a job
   that is over has no event left: it is asked of the first. *)
EventsRecorded == EventsRecordedFor(1)
=============================================================================

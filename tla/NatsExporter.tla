---------------------------- MODULE NatsExporter ----------------------------
(***************************************************************************)
(* The publishing end: unbatchprocessor splits a batch into single-item    *)
(* batches and hands them one by one to natsexporter, whose exporterhelper *)
(* queues them, sends them from several workers and retries.  Logs, traces *)
(* and metrics go the same way; a group below is a ScopeLogs, a ScopeSpans *)
(* or a Metric, and an item a record, a span or a data point.              *)
(***************************************************************************)
EXTENDS NatsServer, SequencesExt

CONSTANTS
    Tenants,         \* values of the subject_from_attribute attribute
    NoTenant,        \* the attribute is absent
    DefaultSubject,  \* the configured subject
    Batches,         \* batches that may arrive
    Workers,         \* consumers of the sending queue
    NoBatch,         \* a worker that sends nothing
    QueueSize        \* bound of the sending queue

\* A batch is a sequence of resources, each with its attribute and its groups.
Resource == [tenant : Tenants \cup {NoTenant}, groups : Seq(Seq(Items))]
Batch == Seq(Resource)

\* No two places of a batch hold the same item.
Distinct(ld) ==
    \A i1, i2 \in DOMAIN ld :
        \A j1 \in DOMAIN ld[i1].groups, j2 \in DOMAIN ld[i2].groups :
            \A k1 \in DOMAIN ld[i1].groups[j1], k2 \in DOMAIN ld[i2].groups[j2] :
                ld[i1].groups[j1][k1] = ld[i2].groups[j2][k2]
                  => i1 = i2 /\ j1 = j2 /\ k1 = k2

ASSUME ExporterAssumption ==
    /\ Subjects = Tenants \cup {DefaultSubject}
    /\ NoTenant \notin Tenants
    /\ QueueSize \in Nat
    /\ NoBatch \notin Batch
    /\ Batches \subseteq Batch
    /\ \A ld \in Batches : Distinct(ld)

VARIABLES
    exporterMode,  \* is the exporter's stream configured?
    given,         \* items of the batches that arrived
    ahead,         \* single batches that the unbatch loop still has to hand on
    queue,         \* the sending queue
    sending,       \* sending[w]: the batch worker w sends
    lost           \* items that a failure or a refusal has taken

exporterVars == <<exporterMode, given, ahead, queue, sending, lost>>

\* The items of a batch, in the order of its resources and their groups.
itemsOf(ld) == FlattenSeq([i \in DOMAIN ld |-> FlattenSeq(ld[i].groups)])
itemsIn(batches) == UNION {ToSet(itemsOf(batches[i])) : i \in DOMAIN batches}

\* A batch of one item under a copy of its resource.
newMetricContainer(resource, x) == <<[tenant |-> resource.tenant, groups |-> <<<<x>>>>]>>

\* One batch for each data point of a metric, and none for an empty one.
explodeMetric(resource, group) ==
    [k \in DOMAIN group |-> newMetricContainer(resource, group[k])]

\* Mutant: the first group of every resource only.
splitFirstGroups(ld) ==
    FlattenSeq([i \in DOMAIN ld |->
        IF ld[i].groups = <<>> THEN <<>> ELSE explodeMetric(ld[i], ld[i].groups[1])])

\* splitLogs, splitTraces and splitMetrics: nothing for an empty batch, the
\* batch itself if it has one item, else one batch for each item.
splitLogs(ld) ==
    CASE Len(itemsOf(ld)) = 0 -> <<>>
      [] Len(itemsOf(ld)) = 1 -> <<ld>>
      [] OTHER -> FlattenSeq([i \in DOMAIN ld |->
                    FlattenSeq([j \in DOMAIN ld[i].groups |->
                                  explodeMetric(ld[i], ld[i].groups[j])])])

\* subjectFor: the attribute of the first resource overrides the subject.
subjectFor(ld) ==
    IF ld[1].tenant = NoTenant THEN DefaultSubject ELSE ld[1].tenant

\* pushLogs, pushMetrics and pushTraces marshal the batch for its subject.
messageOf(ld) == [payload |-> Head(itemsOf(ld)), subject |-> subjectFor(ld)]

ExporterTypeOK ==
    /\ exporterMode \in Modes
    /\ given \subseteq Items
    /\ itemsIn(ahead) \cup itemsIn(queue) \subseteq given
    /\ Len(queue) <= QueueSize
    /\ \A w \in Workers : sending[w] # NoBatch => ToSet(itemsOf(sending[w])) \subseteq given
    /\ lost \subseteq given

ExporterInit ==
    /\ exporterMode \in Modes
    /\ given = {}
    /\ ahead = <<>>
    /\ queue = <<>>
    /\ sending = [w \in Workers |-> NoBatch]
    /\ lost = {}
-----------------------------------------------------------------------------
\* The batch processor calls ConsumeLogs, one batch at a time.
Consume(ld) ==
    /\ ahead = <<>>
    /\ given \cap ToSet(itemsOf(ld)) = {}
    /\ given' = given \cup ToSet(itemsOf(ld))
    /\ ahead' = splitLogs(ld)
    /\ UNCHANGED <<exporterMode, queue, sending, lost, serverVars, faults>>

\* The loop hands on a single batch.  A full queue refuses it, and the loop
\* returns the error; the batch processor logs it and drops what is left.
HandOn ==
    /\ ahead # <<>>
    /\ \/ /\ Len(queue) < QueueSize
          /\ queue' = Append(queue, Head(ahead))
          /\ ahead' = Tail(ahead)
          /\ UNCHANGED lost
       \/ /\ Len(queue) = QueueSize
          /\ ahead' = <<>>
          /\ lost' = lost \cup itemsIn(ahead)
          /\ UNCHANGED queue
    /\ UNCHANGED <<exporterMode, given, sending, serverVars, faults>>

TakeBatch(w) ==
    /\ sending[w] = NoBatch
    /\ queue # <<>>
    /\ sending' = [sending EXCEPT ![w] = Head(queue)]
    /\ queue' = Tail(queue)
    /\ UNCHANGED <<exporterMode, given, ahead, lost, serverVars, faults>>

\* publish returns nil: with JetStream the message is stored and its ack has
\* come, with core NATS it has left the client.
Publish(w) ==
    /\ sending[w] # NoBatch
    /\ Store(messageOf(sending[w]))
    /\ sending' = [sending EXCEPT ![w] = NoBatch]
    /\ UNCHANGED <<exporterMode, given, ahead, queue, lost, faults>>

\* Mutant: an error of the JetStream publish is not returned.
PublishFailsUnnoticed(w) ==
    /\ sending[w] # NoBatch
    /\ exporterMode = "jetstream"
    /\ Fault
    /\ sending' = [sending EXCEPT ![w] = NoBatch]
    /\ UNCHANGED <<exporterMode, given, ahead, queue, lost, serverVars>>

\* publish returns an error, and exporterhelper sends the message again.  When
\* the ack of a JetStream publish is late the message may be stored all the
\* same; a core publish that fails has sent nothing.
PublishFails(w) ==
    /\ sending[w] # NoBatch
    /\ Fault
    /\ \/ exporterMode = "jetstream" /\ Store(messageOf(sending[w]))
       \/ UNCHANGED serverVars
    /\ UNCHANGED exporterVars

\* A core publish reports success and the message is gone: the connection
\* breaks, or the server denies the subject.
PublishVanishes(w) ==
    /\ sending[w] # NoBatch
    /\ exporterMode = "core"
    /\ Fault
    /\ lost' = lost \cup ToSet(itemsOf(sending[w]))
    /\ sending' = [sending EXCEPT ![w] = NoBatch]
    /\ UNCHANGED <<exporterMode, given, ahead, queue, serverVars>>

\* exporterhelper gives up after its maximum elapsed time.
GiveUp(w) ==
    /\ sending[w] # NoBatch
    /\ Fault
    /\ lost' = lost \cup ToSet(itemsOf(sending[w]))
    /\ sending' = [sending EXCEPT ![w] = NoBatch]
    /\ UNCHANGED <<exporterMode, given, ahead, queue, serverVars>>

\* The publishing collector is killed: its queue is in memory.
CrashExporter ==
    /\ Fault
    /\ lost' = lost \cup itemsIn(ahead) \cup itemsIn(queue)
                    \cup UNION {ToSet(itemsOf(sending[w])) : w \in {v \in Workers : sending[v] # NoBatch}}
    /\ ahead' = <<>>
    /\ queue' = <<>>
    /\ sending' = [w \in Workers |-> NoBatch]
    /\ UNCHANGED <<exporterMode, given, serverVars>>

\* A message of another publisher that does not unmarshal.
PublishMalformed(x) ==
    /\ \A i \in DOMAIN stream : stream[i].payload # x
    /\ Store([payload |-> x, subject |-> DefaultSubject])
    /\ UNCHANGED <<exporterVars, faults>>

ExporterStep == HandOn \/ \E w \in Workers : TakeBatch(w) \/ Publish(w)

ExporterNext ==
    \/ \E ld \in Batches : Consume(ld)
    \/ ExporterStep
    \/ \E w \in Workers : PublishFails(w) \/ PublishVanishes(w) \/ GiveUp(w)
    \/ CrashExporter
    \/ \E x \in Malformed : PublishMalformed(x)
=============================================================================

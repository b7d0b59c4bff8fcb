--------------------------- MODULE EventPublisher ---------------------------
(***************************************************************************)
(* Publishing cloud events (events/events.go): the list that is posted is  *)
(* made from the events, upstream answers with a list of results, and the  *)
(* results are matched with the events by their position.                  *)
(*                                                                         *)
(* The caller, a Sender of the monitor service, and upstream are not part  *)
(* of the repository: the caller publishes a batch at a time, and keeps    *)
(* the events for which there is an error, or all when the request failed, *)
(* in front of those that came up meanwhile.                               *)
(***************************************************************************)
EXTENDS Integers, Sequences, Functions

CONSTANT MaxEvents      \* Bound: events, numbered as they are created

ASSUME EventsAssumption == MaxEvents \in Nat

VARIABLES
    created,        \* how many there are
    broken,         \* those that do not marshal
    pending,        \* to be published
    cloudEvents,    \* the batch that is being published
    sourced,        \* the events that have their source
    inputs,         \* the list that was posted for the batch
    results,        \* <<>>, or <<the results>>
    accepted,       \* the events that upstream accepted
    skipped         \* history: a batch had an event that did not marshal

vars == <<created, broken, pending, cloudEvents, sourced, inputs, results, accepted, skipped>>

Events == 1 .. MaxEvents

Init ==
    /\ created = 0
    /\ broken \in SUBSET Events
    /\ pending = <<>> /\ cloudEvents = <<>>
    /\ sourced = {}
    /\ inputs = <<>> /\ results = <<>>
    /\ accepted = {}
    /\ skipped = FALSE

-----------------------------------------------------------------------------
(* The functions of events.go.                                              *)

\* The loop they have in common: the values that are kept are appended to the list
\* that is returned, one after the other.
Appended(kept, values) ==
    LET list[n \in 0 .. Len(values)] ==
            IF n = 0 THEN <<>>
            ELSE IF kept[n] THEN Append(list[n - 1], values[n]) ELSE list[n - 1]
    IN  list[Len(values)]

\* NewPublishDataInput of an event that marshals: its compressed JSON.
NewPublishDataInput(event) == [Type |-> "event", Compressed |-> TRUE, Payload |-> event]

\* An event that does not marshal has no place in the list.
MapCloudEventsToPublishDataInputs(events) ==
    Appended([n \in DOMAIN events |-> events[n] \notin broken],
             [n \in DOMAIN events |-> NewPublishDataInput(events[n])])

\* The results that are no success.
Failed(publishEventResults) ==
    [n \in DOMAIN publishEventResults |-> ~publishEventResults[n].Success]

\* Faulty variant of FilterCloudEventsWithErrors: looks at the next result.
FilterByNextResult(publishEventResults, events) ==
    Appended([n \in DOMAIN publishEventResults |->
                 n < Len(publishEventResults) /\ ~publishEventResults[n + 1].Success],
             [n \in DOMAIN publishEventResults |-> events[n]])

\* Faulty variant of FilterCloudEventsWithErrors: puts the last one first.
FilterReversed(publishEventResults, events) ==
    LET list == Appended(Failed(publishEventResults),
                         [n \in DOMAIN publishEventResults |-> events[n]])
    IN  [i \in DOMAIN list |-> list[Len(list) + 1 - i]]

FilterCloudEventsWithErrors(publishEventResults, events) ==
    Appended(Failed(publishEventResults), [n \in DOMAIN publishEventResults |-> events[n]])

CreateCloudEventErrorList(publishEventErrorList, events) ==
    Appended(Failed(publishEventErrorList),
             [n \in DOMAIN publishEventErrorList |->
                 [Event |-> events[n], Error |-> publishEventErrorList[n].Error]])

-----------------------------------------------------------------------------
(* The caller and upstream.                                                 *)

Create ==
    /\ created < MaxEvents
    /\ created' = created + 1
    /\ pending' = Append(pending, created')
    /\ UNCHANGED <<broken, cloudEvents, sourced, inputs, results, accepted, skipped>>

\* The pending events are published, as they are.
Publish ==
    /\ cloudEvents = <<>> /\ pending # <<>>
    /\ cloudEvents' = pending
    /\ pending' = <<>>
    /\ inputs' = MapCloudEventsToPublishDataInputs(pending)
    /\ skipped' = (skipped \/ \E i \in DOMAIN pending : pending[i] \in broken)
    /\ UNCHANGED <<created, broken, results, accepted>>

\* CreatePublishEventList sets their source, of those that it skips too.
CreatePublishEventList == Publish /\ sourced' = sourced \cup Range(pending)

\* Those that have it are published again without.
PublishAgain == Range(pending) \subseteq sourced /\ Publish /\ UNCHANGED sourced

\* Upstream answers with a result for every input.  An error tells the event that
\* it is about; no error is <<>>.
Reply ==
    /\ cloudEvents # <<>> /\ results = <<>>
    /\ \E success \in [DOMAIN inputs -> BOOLEAN] :
          /\ results' = <<[i \in DOMAIN inputs |->
                              [Success |-> success[i],
                               Error |-> IF success[i] THEN <<>> ELSE <<inputs[i].Payload>>]]>>
          /\ accepted' = accepted \cup {inputs[i].Payload : i \in {j \in DOMAIN inputs : success[j]}}
    /\ UNCHANGED <<created, broken, pending, cloudEvents, sourced, inputs, skipped>>

Published == cloudEvents' = <<>> /\ inputs' = <<>> /\ results' = <<>>

\* The request failed, before upstream accepted anything.
RequestFails ==
    /\ cloudEvents # <<>> /\ results = <<>>
    /\ pending' = cloudEvents \o pending
    /\ Published
    /\ UNCHANGED <<created, broken, sourced, accepted, skipped>>

Filtered ==
    /\ results # <<>>
    /\ pending' = FilterCloudEventsWithErrors(results[1], cloudEvents) \o pending
    /\ Published
    /\ UNCHANGED <<created, broken, sourced, accepted, skipped>>

Next == Create \/ CreatePublishEventList \/ PublishAgain \/ Reply \/ RequestFails \/ Filtered

Spec == Init /\ [][Next]_vars

\* The caller goes on, and upstream accepts all it is sent again and again.
FairSpec ==
    /\ Spec
    /\ WF_vars(CreatePublishEventList \/ PublishAgain)
    /\ SF_vars(Reply /\ \A i \in DOMAIN inputs : results'[1][i].Success)
    /\ WF_vars(Filtered)

-----------------------------------------------------------------------------
(* Properties.                                                              *)

Event(i) == cloudEvents[i]

\* What upstream accepted of this batch.
AcceptedNow == {inputs[i].Payload : i \in {j \in DOMAIN inputs : results[1][j].Success}}
WithErrors == Range(FilterCloudEventsWithErrors(results[1], cloudEvents))

\* An event is returned with an error exactly when upstream did not accept it, and
\* the error is the one about it, for every event of the batch that has none
\* before it, or is none, that does not marshal.  (From the first one on that does
\* not, the results are those of the events after.)  CreateCloudEventErrorList and
\* FilterCloudEventsWithErrors return the same events, in their order.
ErrorsAreTheirs ==
    results # <<>> =>
        LET list == CreateCloudEventErrorList(results[1], cloudEvents)
        IN  /\ \A i \in DOMAIN cloudEvents :
                   (\A j \in 1 .. i : Event(j) \notin broken) =>
                       /\ Event(i) \in WithErrors <=> Event(i) \notin AcceptedNow
                       /\ \A k \in DOMAIN list :
                             list[k].Event = Event(i) => list[k].Error = <<Event(i)>>
            /\ [i \in DOMAIN list |-> list[i].Event]
                   = FilterCloudEventsWithErrors(results[1], cloudEvents)

held == Range(pending) \cup (Range(cloudEvents) \ IF results = <<>> THEN {} ELSE AcceptedNow)
Outbox == INSTANCE EventOutbox WITH LostReplies <- FALSE

\* As long as all events marshal every step is one of the abstract outbox: an
\* event is held from its creation until upstream has accepted it, over any
\* failures, and not published again after.
OutboxSteps == Outbox!Init /\ [][skipped' \/ Outbox!Next]_<<held, accepted>>

Increasing(list) == \A i, j \in DOMAIN list : i < j => list[i] < list[j]

\* Retries go out in the order in which the events were created, whatever fails
\* and whatever does not marshal, none twice; and what is posted are all of the
\* batch that marshal, in this order and none twice, each with its source.
InOrder ==
    LET posted == [i \in DOMAIN inputs |-> inputs[i].Payload]
    IN  /\ Increasing(cloudEvents \o pending)
        /\ Increasing(posted) /\ Range(posted) = Range(cloudEvents) \ broken
        /\ Range(cloudEvents) \subseteq sourced

\* Every event is accepted in the end if all of them marshal.
Delivered == \A e \in Events : e <= created ~> e \in accepted \/ skipped
=============================================================================

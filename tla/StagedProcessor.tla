--------------------------- MODULE StagedProcessor ---------------------------
(***************************************************************************)
(* StagedProcessor: one thread (the caller) enqueues events, a consumer    *)
(* thread takes them out of the ring buffer and applies them to the        *)
(* instrument registry.                                                    *)
(*                                                                         *)
(* The caller keeps to the documented protocol: start() once, then         *)
(* enqueue*(), then stop() or the destructor, and nothing after that.      *)
(* Each enqueue*() spins on try_enqueue until the event is in; stop()      *)
(* enqueues a Shutdown event and joins the consumer.  The registry is      *)
(* represented by the operations made on it.                               *)
(***************************************************************************)
EXTENDS SpscQueue

CONSTANT Kinds  \* the kinds of events clients enqueue

Shutdown == [kind |-> "Shutdown", sequence |-> 0]
Event == [kind : Kinds, sequence : 1..MaxItems]

ASSUME EventAssumption == Item = Event \cup {Shutdown}
ASSUME KindsAssumption == "Shutdown" \notin Kinds

VARIABLES
    caller,       \* "new", "ready", "enqueue", "stop", "join", "joined"
    thread,       \* the consumer: "none", "dequeue", "apply", "record", "exited"
    calls,        \* the events of the enqueue*() calls, in order
    registryOps,  \* the events applied to the registry, in order
    applied       \* appliedSequences_

processorVars == <<caller, thread, calls, registryOps, applied>>
vars == <<queueVars, processorVars>>

Init ==
    /\ QueueInit
    /\ caller = "new"
    /\ thread = "none"
    /\ calls = <<>>
    /\ registryOps = <<>>
    /\ applied = <<>>

-----------------------------------------------------------------------------
\* start(): spawns the consumer thread.
Start ==
    /\ caller = "new"
    /\ caller' = "ready"
    /\ thread' = "dequeue"
    /\ UNCHANGED <<queueVars, calls, registryOps, applied>>

\* enqueueSubmit, enqueueCancel, enqueueMatch, enqueueCancelReplace: build the event
\* and hand it to enqueue().  MaxItems leaves room for the Shutdown event.
EnqueueCall(kind) ==
    /\ caller = "ready"
    /\ Len(calls) + 1 < MaxItems
    /\ LET event == [kind |-> kind, sequence |-> Len(calls) + 1]
       IN  Offer(event) /\ calls' = Append(calls, event)
    /\ caller' = "enqueue"
    /\ UNCHANGED <<thread, registryOps, applied>>

\* stop(), called by the client or by the destructor, up to its enqueue().
StopCall ==
    /\ caller = "ready"
    /\ Offer(Shutdown)
    /\ caller' = "stop"
    /\ UNCHANGED <<thread, calls, registryOps, applied>>

\* Mutant: an event that finds the ring full is dropped.
Spin_Drop ==
    /\ caller \in {"enqueue", "stop"}
    /\ \/ EnqueueLoad /\ ppc' = "write" /\ UNCHANGED caller
       \/ EnqueueWrite /\ UNCHANGED caller
       \/ /\ GiveUp
          /\ Advance(tail) = headSeen
          /\ caller' = IF caller = "stop" THEN "join" ELSE "ready"
    /\ UNCHANGED <<thread, calls, registryOps, applied>>

\* enqueue(): spin on try_enqueue until it succeeds.
Spin ==
    /\ caller \in {"enqueue", "stop"}
    /\ EnqueueLoad \/ EnqueueWrite
    /\ UNCHANGED processorVars

EnqueueReturns ==
    /\ caller \in {"enqueue", "stop"}
    /\ EnqueuePublish
    /\ caller' = IF caller = "stop" THEN "join" ELSE "ready"
    /\ UNCHANGED <<thread, calls, registryOps, applied>>

\* Mutant: detach() instead of join().
Join_Detach ==
    /\ caller = "join"
    /\ caller' = "joined"
    /\ UNCHANGED <<queueVars, thread, calls, registryOps, applied>>

\* join(): returns once the consumer thread has ended.
Join ==
    /\ caller = "join"
    /\ thread = "exited"
    /\ caller' = "joined"
    /\ UNCHANGED <<queueVars, thread, calls, registryOps, applied>>

\* The consumer polls the ring buffer.
Poll ==
    /\ thread = "dequeue"
    /\ DequeueLoad \/ DequeueRead
    /\ UNCHANGED processorVars

\* Mutant: the Shutdown event is skipped.
Dequeued_SkipShutdown ==
    /\ thread = "dequeue"
    /\ DequeueFree
    /\ thread' = IF out.kind = "Shutdown" THEN "dequeue" ELSE "apply"
    /\ UNCHANGED <<caller, calls, registryOps, applied>>

\* It has an event; Shutdown ends the loop.
Dequeued ==
    /\ thread = "dequeue"
    /\ DequeueFree
    /\ thread' = IF out.kind = "Shutdown" THEN "exited" ELSE "apply"
    /\ UNCHANGED <<caller, calls, registryOps, applied>>

\* The operation on the registry.
Apply ==
    /\ thread = "apply"
    /\ registryOps' = Append(registryOps, out)
    /\ thread' = "record"
    /\ UNCHANGED <<queueVars, caller, calls, applied>>

\* appliedSequences_.push_back and the callback.
RecordApplied ==
    /\ thread = "record"
    /\ applied' = Append(applied, out.sequence)
    /\ thread' = "dequeue"
    /\ UNCHANGED <<queueVars, caller, calls, registryOps>>

CallerStep == Spin \/ EnqueueReturns \/ Join
ConsumerStep == Poll \/ Dequeued \/ Apply \/ RecordApplied

Next ==
    \/ Start
    \/ \E kind \in Kinds : EnqueueCall(kind)
    \/ StopCall
    \/ CallerStep
    \/ ConsumerStep

Spec == Init /\ [][Next]_vars

\* Both threads are scheduled, and a polling load sees the newest index in the end
\* (a store becomes visible to other threads in a finite time).
Fairness ==
    /\ WF_vars(CallerStep)
    /\ WF_vars(ConsumerStep)
    /\ WF_vars(Spin /\ headSeen' = head)
    /\ WF_vars(Poll /\ tailSeen' = tail)

FairSpec == Spec /\ Fairness

-----------------------------------------------------------------------------
\* Every variable has its type.
TypeOK ==
    /\ QueueTypeOK
    /\ caller \in {"new", "ready", "enqueue", "stop", "join", "joined"}
    /\ thread \in {"none", "dequeue", "apply", "record", "exited"}
    /\ calls \in Seq(Event)
    /\ registryOps \in Seq(Event)
    /\ applied \in Seq(1..MaxItems)

\* The consumer applies the events in the order of the enqueue*() calls, each once,
\* with no gap: what has been applied is always an initial part of what was asked
\* for, and never the Shutdown event.
AppliedInOrder ==
    /\ Len(registryOps) <= Len(calls)
    /\ \A i \in 1..Len(registryOps) : registryOps[i] = calls[i]
    /\ Len(applied) <= Len(registryOps)
    /\ \A i \in 1..Len(applied) : applied[i] = calls[i].sequence

\* When stop() has returned, every event that was enqueued before it is applied and
\* recorded, and no thread writes the results any more ("only safe to read after
\* join()").
NothingLostAtStop ==
    caller = "joined" =>
        /\ thread = "exited"
        /\ registryOps = calls
        /\ Len(applied) = Len(calls)

\* An enqueue*() on a full ring returns once the consumer has made room, and so does
\* stop(), although its event may find the ring full and the consumer busy.
CallsReturn ==
    /\ caller = "enqueue" ~> caller = "ready"
    /\ caller = "stop" ~> caller = "joined"

\* Every event that is enqueued is applied, also if stop() is never called.
EventuallyApplied == \A n \in 1..MaxItems : Len(calls) = n ~> Len(applied) >= n

-----------------------------------------------------------------------------
(***************************************************************************)
(* The inductive invariant behind the two safety properties: how far each  *)
(* thread has come in the script of the run, which is the calls followed   *)
(* by the Shutdown event.                                                  *)
(***************************************************************************)
Script == Append(calls, Shutdown)

\* The caller has published the script up to the call it is in.
CallerPlace ==
    /\ Len(sent) = CASE caller = "enqueue" -> Len(calls) - 1
                     [] caller \in {"join", "joined"} -> Len(calls) + 1
                     [] OTHER -> Len(calls)
    /\ \A i \in 1..Len(sent) : sent[i] = Script[i]
    /\ caller \in {"enqueue", "stop"} => pending = Script[Len(sent) + 1]
    /\ caller \notin {"enqueue", "stop"} => pending = NoItem

\* The consumer has applied what it has received, up to the event it holds.
ConsumerPlace ==
    /\ cpc # "idle" => thread = "dequeue"
    /\ Len(received) = Len(registryOps)
                       + IF cpc = "free" \/ thread \in {"apply", "exited"} THEN 1 ELSE 0
    /\ \A i \in 1..Len(registryOps) : registryOps[i] = calls[i]
    /\ Len(registryOps) <= Len(calls)
    /\ cpc = "free" \/ thread \in {"apply", "record"} => out = Script[Len(received)]
    /\ thread = "apply" => Len(received) <= Len(calls)
    /\ thread = "exited" => Len(registryOps) = Len(calls) /\ caller \in {"join", "joined"}
    /\ Len(applied) = Len(registryOps) - IF thread = "record" THEN 1 ELSE 0
    /\ \A i \in 1..Len(applied) : applied[i] = calls[i].sequence

\* Both threads are where the script says, and the ring buffer between them is intact.
ProcessorInv ==
    /\ QueueInv
    /\ TypeOK
    /\ CallerPlace
    /\ ConsumerPlace
    /\ caller = "new" <=> thread = "none"
    /\ caller = "joined" => thread = "exited"
=============================================================================

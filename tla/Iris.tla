-------------------------------- MODULE Iris --------------------------------
(***************************************************************************)
(* Iris, the conversational agent (agents/iris): one poller that takes     *)
(* events from the pull buffer, and a handler that answers them one after  *)
(* the other.  A turn of the conversation, stored in Postgres, remembers   *)
(* the sequence number of the event it came from, so that a restarted pod, *)
(* which reads the buffer from the start, knows what it has handled.       *)
(***************************************************************************)
EXTENDS PullBuffer

CONSTANTS
  MaxBatch,         \* events per request
  MaxIrisRestarts,  \* bound: restarts of the pod
  MaxFailures       \* bound: calls to Postgres, to Minos or to the model that fail

ASSUME MaxBatchAssumption        == MaxBatch \in Nat \ {0}
ASSUME MaxIrisRestartsAssumption == MaxIrisRestarts \in Nat
ASSUME MaxFailuresAssumption     == MaxFailures \in Nat

VARIABLES
  poller,    \* the poll loop, and where the handler is with the current event
  turns,     \* turns[c]: the message numbers in the stored turns of c
  handed,    \* the messages given to Handle so far
  served,    \* the messages the model (and its tools) was run for, in order
  restarts,  \* how many more times the pod may be restarted
  failures   \* how many more calls may fail

irisVars == <<poller, turns, handed, served, restarts, failures>>
vars     == <<brokerVars, irisVars>>

(***************************************************************************)
(* pc     the next call: poll the buffer, or, for the head of the batch,   *)
(*        check the turns, greet and note it, append it and run the model, *)
(*        post the reply                                                   *)
(* since  the cursor                                                       *)
(* last   the instance id of the last answer (0: none yet)                 *)
(***************************************************************************)
Poller == [pc : {"poll", "check", "greet", "note", "append", "run", "post"},
           since : Messages \cup {0}, last : 0 .. MaxRestarts + 1, batch : Seq(Event)]

Fresh == [pc |-> "poll", since |-> 0, last |-> 0, batch |-> <<>>]

Init ==
  /\ BrokerInit
  /\ poller = Fresh
  /\ turns = [c \in Conversations |-> {}]
  /\ handed = {}
  /\ served = <<>>
  /\ restarts = MaxIrisRestarts
  /\ failures = MaxFailures

Current == Head(poller.batch)

Succeeds == UNCHANGED failures
Fails    == failures > 0 /\ failures' = failures - 1

-----------------------------------------------------------------------------
(***************************************************************************)
(* The poll loop.  A request that finds nothing waits, and answers with no *)
(* events in the end; one that fails changes nothing.                      *)
(***************************************************************************)
After(batch) == IF batch = <<>> THEN "poll" ELSE "check"

\* Variant: the cursor goes to the end of the batch when it arrives.
PollAhead ==
  /\ poller.pc = "poll"
  /\ LET got == Collect(poller.since, MaxBatch)
     IN  poller' = [pc    |-> After(got),
                    since |-> IF got = <<>> THEN poller.since ELSE got[Len(got)].seq,
                    last  |-> broker.instance,
                    batch |-> got]
  /\ UNCHANGED <<brokerVars, turns, handed, served, restarts, failures>>

\* The events were selected with the cursor that the request carried; only
\* then is it reset, if the answer comes from another broker.
Poll ==
  /\ poller.pc = "poll"
  /\ LET got == Collect(poller.since, MaxBatch)
     IN  poller' = [pc    |-> After(got),
                    since |-> IF poller.last \in {0, broker.instance} THEN poller.since ELSE 0,
                    last  |-> broker.instance,
                    batch |-> got]
  /\ UNCHANGED <<brokerVars, turns, handed, served, restarts, failures>>

\* Variant: the first event of a batch takes the cursor to its end.
AdvanceWholeBatch ==
  poller' = [poller EXCEPT !.pc = "poll", !.since = poller.batch[Len(poller.batch)].seq, !.batch = <<>>]

\* Handle has returned, with an error or without.
Advance ==
  poller' = [poller EXCEPT !.pc    = After(Tail(poller.batch)),
                           !.since = IF Current.seq > @ THEN Current.seq ELSE @,
                           !.batch = Tail(@)]

Goto(pc) == poller' = [poller EXCEPT !.pc = pc]

-----------------------------------------------------------------------------
(***************************************************************************)
(* Handle.                                                                 *)
(***************************************************************************)
Record == turns' = [turns EXCEPT ![Current.conv] = @ \cup {Current.seq}]

\* AlreadyHandled.
Check ==
  /\ poller.pc = "check"
  /\ handed' = handed \cup {Current.msg}
  /\ \/ Fails /\ Advance
     \/ /\ Succeeds
        /\ IF Current.seq \in turns[Current.conv] THEN Advance
           ELSE Goto(IF Current.bare THEN "greet" ELSE "append")
  /\ UNCHANGED <<brokerVars, turns, served, restarts>>

\* A bare mention is greeted, then noted.  A call that fails may have been
\* committed.
Greet ==
  /\ poller.pc = "greet"
  /\ \/ Fails /\ Advance
     \/ Succeeds /\ Goto("note")
  /\ UNCHANGED <<brokerVars, turns, handed, served, restarts>>

Note ==
  /\ poller.pc = "note"
  /\ \/ Fails /\ (Record \/ UNCHANGED turns)
     \/ Succeeds /\ Record
  /\ Advance
  /\ UNCHANGED <<brokerVars, handed, served, restarts>>

\* Variant: the turn is not stored before the model has run.
AppendTurnLate ==
  /\ poller.pc = "append"
  /\ \/ Fails /\ Advance
     \/ Succeeds /\ Goto("run")
  /\ UNCHANGED <<brokerVars, turns, handed, served, restarts>>

\* The user's turn is stored before the model is asked.
AppendTurn ==
  /\ poller.pc = "append"
  /\ \/ Fails /\ (Record \/ UNCHANGED turns) /\ Advance
     \/ Succeeds /\ Record /\ Goto("run")
  /\ UNCHANGED <<brokerVars, handed, served, restarts>>

\* runLoop: the model and the tools it asks for, which may commission tasks.
RunLoop ==
  /\ poller.pc = "run"
  /\ served' = Append(served, Current.msg)
  /\ \/ Fails /\ Advance
     \/ Succeeds /\ Goto("post")
  /\ UNCHANGED <<brokerVars, turns, handed, restarts>>

\* The reply is posted and appended as a turn without a number; an error of
\* either is only logged.
PostReply ==
  /\ poller.pc = "post"
  /\ Advance
  /\ UNCHANGED <<brokerVars, turns, handed, served, restarts, failures>>

\* Another pod takes over; the turns are in Postgres.
IrisRestart ==
  /\ restarts > 0
  /\ restarts' = restarts - 1
  /\ poller' = Fresh
  /\ UNCHANGED <<brokerVars, turns, handed, served, failures>>

IrisStep == Poll \/ Check \/ Greet \/ Note \/ AppendTurn \/ RunLoop \/ PostReply

Next ==
  \/ BrokerNext /\ UNCHANGED irisVars
  \/ IrisStep
  \/ IrisRestart

Spec == Init /\ [][Next]_vars

\* The poll loop keeps running and every call it makes returns: the HTTP
\* clients have timeouts, and Postgres answers or the connection breaks.
\* Nothing is assumed of users, of restarts or of failures.
FairSpec == Spec /\ WF_vars(IrisStep)

-----------------------------------------------------------------------------
IrisTypeOK ==
  /\ arrived \in 0 .. MaxMessages
  /\ broker \in Broker
  /\ Len(broker.events) <= Capacity
  /\ poller \in Poller
  /\ poller.pc # "poll" => poller.batch # <<>>
  /\ turns \in [Conversations -> SUBSET Messages]
  /\ handed \subseteq Messages
  /\ served \in Seq(Messages)
  /\ restarts \in 0 .. MaxIrisRestarts
  /\ failures \in 0 .. MaxFailures

(***************************************************************************)
(* The model is run at most once for a message, whatever restarts and      *)
(* fails: its tools commission tasks, and "the conversation store dedupes  *)
(* by MsgSeq" (handler.go) must keep a re-read message from being          *)
(* commissioned again.                                                     *)
(***************************************************************************)
ServedAtMostOnce ==
  \A i, j \in DOMAIN served : served[i] = served[j] => i = j

Skipped == {e \in Elements(broker.events) :
              poller.last = broker.instance /\ e.seq <= poller.since /\ e.msg \notin handed}

(***************************************************************************)
(* While the broker is the first one Iris meets, the cursor never passes   *)
(* an event that was not given to Handle.                                  *)
(***************************************************************************)
CursorSound == broker.instance = 1 => Skipped = {}

(***************************************************************************)
(* The same after a restart of the broker, which is what the poller's      *)
(* reset of the cursor is for: without it "Hermes silently filters out the *)
(* first N post-restart messages" (poller.go).                             *)
(***************************************************************************)
NothingSkipped == Skipped = {}

Buffered == {e.msg : e \in Elements(broker.events)}

(***************************************************************************)
(* A message in the buffer is given to Handle, unless the ring drops it or *)
(* the broker is restarted: a batch that fails half-way, or a new pod,     *)
(* loses none.                                                             *)
(***************************************************************************)
InboxDrains ==
  \A m \in Messages :
    m \in Buffered ~> m \in handed \/ m \notin Buffered \/ broker.instance > 1
=============================================================================

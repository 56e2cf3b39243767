------------------------------- MODULE Service --------------------------------
(***************************************************************************)
(* fre-service: main() and ServiceHarness around one pipeline.             *)
(*                                                                         *)
(* Actors.  The main thread starts the harness, waits in run() and, once   *)
(* `running' is false, destroys it: the destructor's stop() closes the     *)
(* acceptor, joins the accept loop and drains the pipeline; then the       *)
(* process exits under whatever handlers are left.  The accept loop hands  *)
(* every connection to a detached thread, which reads one request, answers *)
(* it and closes.                                                          *)
(*                                                                         *)
(* The pipeline is what the harness sees of module Pipeline: its state.  A *)
(* handler's drain and the destructor's may overlap.                       *)
(***************************************************************************)
EXTENDS FleetRouter

CONSTANTS
  Conns,      \* client connections, one request each
  Tenants,
  Hash,       \* std::hash of each tenant's name
  InstanceId  \* this instance

ASSUME ServiceAssumption ==
  /\ Hash \in [Tenants -> Hashes]
  /\ InstanceId \in 0..(FleetSize - 1)

VARIABLES
  main,       \* where the main thread is
  io,         \* where the accept loop is
  running,
  listening,  \* the acceptor is open
  pstate,     \* the pipeline's state
  pc,         \* where each connection's handler is
  tenant,     \* the tenant of its event
  answer,     \* what the client got
  late        \* history: requests read after a client was told that the
              \* pipeline no longer runs

lifeVars   == <<main, io, running, listening>>
clientVars == <<pc, tenant, answer>>
vars == <<lifeVars, pstate, clientVars, late>>

Kinds == {"events", "health", "drain", "other"}

Statuses == {"none", "202", "503", "not owner", "health", "drained", "other"}

Status(s) == [status |-> s, state |-> "none", hint |-> {}]

Init ==
  /\ main = "start"
  /\ io = "off"
  /\ running = FALSE
  /\ listening = FALSE
  /\ pstate = "stopped"
  /\ pc = [c \in Conns |-> "unconnected"]
  /\ tenant \in [Conns -> Tenants]
  /\ answer = [c \in Conns |-> Status("none")]
  /\ late = {}

-------------------------------------------------------------------------------
(* The main thread. *)

\* ServiceHarness::start(): the pipeline, the acceptor, the accept loop.
Start ==
  /\ main = "start"
  /\ pstate' = "running"
  /\ running' = TRUE
  /\ listening' = TRUE
  /\ io' = "check"
  /\ main' = "run"
  /\ UNCHANGED <<clientVars, late>>

\* The address cannot be bound: start() returns false, and so does main().
StartFails ==
  /\ main = "start"
  /\ pstate' = "running"
  /\ main' = "join"
  /\ UNCHANGED <<io, running, listening, clientVars, late>>

\* run() sees that running is false; stop() closes the acceptor.
Stop ==
  /\ main = "run"
  /\ ~running
  /\ listening' = FALSE
  /\ main' = "join"
  /\ UNCHANGED <<io, running, pstate, clientVars, late>>

\* stop() has joined the accept loop and calls Pipeline::drain().
JoinAndDrain ==
  /\ main = "join"
  /\ io \in {"off", "ended"}
  /\ main' = "draining"
  /\ pstate' = "draining"
  /\ UNCHANGED <<io, running, listening, clientVars, late>>

\* Nothing is in flight, or the deadline has passed.
Drained ==
  /\ main = "draining"
  /\ main' = "destroyed"
  /\ pstate' = "stopped"
  /\ UNCHANGED <<io, running, listening, clientVars, late>>

\* main() returns; handlers that are still running are cut off.
Exit ==
  /\ main = "destroyed"
  /\ main' = "exited"
  /\ UNCHANGED <<io, running, listening, pstate, clientVars, late>>

-------------------------------------------------------------------------------
(* Clients and the accept loop. *)

Connect(c) ==
  /\ listening
  /\ pc[c] = "unconnected"
  /\ pc' = [pc EXCEPT ![c] = "backlog"]
  /\ UNCHANGED <<lifeVars, pstate, tenant, answer, late>>

\* The loop condition.
IoCheck ==
  /\ io = "check"
  /\ io' = IF running THEN "accept" ELSE "ended"
  /\ UNCHANGED <<main, running, listening, pstate, clientVars, late>>

\* accept() returns a connection, also one made before the acceptor was closed;
\* its detached thread starts.
Accept(c) ==
  /\ io = "accept"
  /\ pc[c] = "backlog"
  /\ pc' = [pc EXCEPT ![c] = "reading"]
  /\ io' = "check"
  /\ UNCHANGED <<main, running, listening, pstate, tenant, answer, late>>

\* accept() fails because the acceptor was closed.
AcceptFails ==
  /\ io = "accept"
  /\ ~listening
  /\ io' = "ended"
  /\ UNCHANGED <<main, running, listening, pstate, clientVars, late>>

-------------------------------------------------------------------------------
(* handle_connection(). *)

Handling(c, p) == main # "exited" /\ pc[c] = p

Reply(c, a) ==
  /\ pc' = [pc EXCEPT ![c] = "closed"]
  /\ answer' = [answer EXCEPT ![c] = a]
  /\ UNCHANGED tenant

\* An answer that changes nothing else.
Answers(c, p, a) == Handling(c, p) /\ Reply(c, a) /\ UNCHANGED <<lifeVars, pstate, late>>

\* The client was told that the pipeline is drained, draining or stopped.
ToldStopped(a) == a.status = "drained" \/ a.state \in {"draining", "stopped"}

\* The request is read and parsed.
ReadRequest(c) ==
  /\ Handling(c, "reading")
  /\ \E kind \in Kinds : pc' = [pc EXCEPT ![c] = kind]
  /\ late' = IF \E d \in Conns : ToldStopped(answer[d]) THEN late \cup {c} ELSE late
  /\ UNCHANGED <<lifeVars, pstate, tenant, answer>>

\* The client goes away before it has sent its request.
ClientGone(c) == Answers(c, "reading", Status("other"))

\* Requests that neither read nor change the pipeline: the topology, an unknown
\* path (404), a body that is not JSON (400), and one whose fields have other
\* types, which ends in the outer catch and is closed without an answer.
Other(c) == Answers(c, "other", Status("other"))

Health(c) == Answers(c, "health", [Status("health") EXCEPT !.state = pstate])

\* The fleet's ownership gate, once owns() has returned; where its draw never ends
\* the handler stays there.
Gate(c) == OwnsReturns(Hash[tenant[c]])

Owned(c) == Owns(InstanceId, Hash[tenant[c]])

NotOwner(c) ==
  /\ Gate(c)
  /\ ~Owned(c)
  /\ Answers(c, "events", [Status("not owner") EXCEPT !.hint = RedirectHint(Hash[tenant[c]])])

\* Pipeline::submit(): the state check ...
SubmitCheck(c) ==
  /\ Gate(c)
  /\ Owned(c)
  /\ Handling(c, "events")
  /\ pstate = "running"
  /\ pc' = [pc EXCEPT ![c] = "submitting"]
  /\ UNCHANGED <<lifeVars, pstate, tenant, answer, late>>

\* Mutant: the refusal waits for the drain.
RefusedOnceStopped(c) ==
  /\ Gate(c)
  /\ Owned(c)
  /\ pstate = "stopped"
  /\ Answers(c, "events", Status("503"))

SubmitRefused(c) ==
  /\ Gate(c)
  /\ Owned(c)
  /\ pstate # "running"
  /\ Answers(c, "events", Status("503"))

\* ... and then the tenant's budget, the count and the spawn.
SubmitAccepted(c) == Answers(c, "submitting", Status("202"))

SubmitLimited(c) == Answers(c, "submitting", Status("503"))

\* Mutant: the answer does not wait for the drain, which the destructor does.
DrainLater(c) ==
  /\ Handling(c, "drain")
  /\ running' = FALSE
  /\ Reply(c, Status("drained"))
  /\ UNCHANGED <<main, io, listening, pstate, late>>

\* The drain command: running is cleared and Pipeline::drain() begins ...
DrainRequest(c) ==
  /\ Handling(c, "drain")
  /\ running' = FALSE
  /\ pstate' = "draining"
  /\ pc' = [pc EXCEPT ![c] = "draining"]
  /\ UNCHANGED <<main, io, listening, tenant, answer, late>>

\* ... and may return when nothing is in flight or at its deadline (see
\* Pipeline!DrainReturns for why it need not).
DrainAnswered(c) ==
  /\ Handling(c, "draining")
  /\ pstate' = "stopped"
  /\ Reply(c, Status("drained"))
  /\ UNCHANGED <<lifeVars, late>>

-------------------------------------------------------------------------------
\* The handler's own steps, from a parsed request to its answer or to the drain.
RequestStep(c) ==
  \/ Other(c) \/ Health(c)
  \/ NotOwner(c) \/ SubmitCheck(c) \/ SubmitRefused(c) \/ SubmitAccepted(c) \/ SubmitLimited(c)
  \/ DrainRequest(c)

\* What waits for somebody else: for the client, without a timeout, or for
\* Pipeline::drain().
WaitStep(c) == ReadRequest(c) \/ ClientGone(c) \/ DrainAnswered(c)

Next ==
  \/ Start \/ StartFails \/ Stop \/ JoinAndDrain \/ Drained \/ Exit
  \/ IoCheck \/ AcceptFails
  \/ \E c \in Conns : Connect(c) \/ Accept(c) \/ RequestStep(c) \/ WaitStep(c)

Spec == Init /\ [][Next]_vars

\* Handler threads are scheduled.  Nothing is assumed of the clients (read_until()
\* has no timeout), of the accept loop or of drain(), which need not return.
FairSpec == Spec /\ \A c \in Conns : WF_vars(RequestStep(c))

-------------------------------------------------------------------------------
(* Properties. *)

\* Type invariant.
TypeOK ==
  /\ main \in {"start", "run", "join", "draining", "destroyed", "exited"}
  /\ io \in {"off", "check", "accept", "ended"}
  /\ running \in BOOLEAN
  /\ listening \in BOOLEAN
  /\ pstate \in {"stopped", "running", "draining"}
  /\ pc \in [Conns -> Kinds \cup {"unconnected", "backlog", "reading", "submitting", "draining",
                                  "closed"}]
  /\ tenant \in [Conns -> Tenants]
  /\ \A c \in Conns :
       /\ answer[c].status \in Statuses
       /\ (pc[c] = "closed") <=> (answer[c].status # "none")
  /\ late \subseteq Conns

\* "Drains the pipeline and stops accepting events" (harness.hpp): once a client
\* was told that the pipeline is drained, draining or stopped, no request read
\* after that is accepted or told that it runs, although two drains may overlap
\* and set the state back from stopped to draining.
DrainedIsFinal ==
  \A c \in late : answer[c].status # "202" /\ answer[c].state # "running"

\* The fleet agrees on who owns a tenant: an instance that refuses an event names
\* only instances that would take it, and all of those its topology lists; an
\* instance that takes it is itself among the owners.
RedirectsToOwners ==
  LET OwnerAt(i, c) == Owns(i, Hash[tenant[c]])
      Addresses == {Topology[i].address : i \in DOMAIN Topology} \ {NoAddress}
  IN  \A c \in Conns :
        /\ answer[c].status = "not owner" =>
             /\ answer[c].hint = {a \in Addresses : OwnerAt(a, c)}
             /\ InstanceId \notin answer[c].hint
        /\ answer[c].status = "202" => OwnerAt(InstanceId, c)

\* Every request for something else than a drain is answered once it was read,
\* unless the process exits: a drain that is under way, and even one that never
\* returns, holds up no other handler, nor does a client that sends nothing.  (An
\* event is answered if the draw of its tenant's owners ends.)
Answered ==
  \A c \in Conns :
    (\/ pc[c] \in {"health", "other", "submitting"}
     \/ pc[c] = "events" /\ Gate(c))
      ~> (pc[c] = "closed" \/ main = "exited")
===============================================================================

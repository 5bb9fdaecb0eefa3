------------------------------ MODULE Throttle ------------------------------
(***************************************************************************)
(* The service of examples/throttle.rs: a middleware that resolves the     *)
(* client IP, asks a rate limiter for it and hands it on to the handler.   *)
(* Several requests are under way at a time and share the limiter.         *)
(***************************************************************************)
EXTENDS IpSpace, FiniteSets

CONSTANTS
  Tasks,     \* requests, each served by a task of its own
  Peers,     \* socket peers, in the form the listener reports them
  NoPeer,    \* the server was started without ConnectInfo
  Burst,     \* allow_burst
  MaxTime    \* seconds that are looked at

ASSUME ThrottleAssumption ==
  /\ IsFiniteSet(Tasks)
  /\ Peers \subseteq IpAddr
  /\ NoPeer \notin IpAddr
  /\ Burst \in Nat \ {0}
  /\ MaxTime \in Nat

VARIABLES
  now,        \* seconds since the start
  tat,        \* of the limiter: when the quota of a key is whole again
  stage,      \* of each task
  peer,       \* its socket peer
  client_ip,  \* what the extractor gave to the middleware
  extension,  \* what the middleware left for the handler
  status,     \* of the response
  checked     \* when its key was checked

task == <<stage, peer, client_ip, extension, status, checked>>
vars == <<now, tat, task>>

TypeOK ==
  /\ now \in 0 .. MaxTime
  /\ tat \in [IpAddr -> 0 .. MaxTime + Burst]
  /\ stage \in [Tasks -> {"new", "extract", "check", "handler", "done"}]
  /\ peer \in [Tasks -> IpAddr \cup {NoPeer}]
  /\ client_ip \in [Tasks -> IpAddr \cup {NoPeer}]
  /\ extension \in [Tasks -> IpAddr \cup {NoPeer}]
  /\ status \in [Tasks -> {0, 200, 429, 500}]
  /\ checked \in [Tasks -> 0 .. MaxTime]

Init ==
  /\ now = 0
  /\ tat = [ip \in IpAddr |-> 0]
  /\ stage = [t \in Tasks |-> "new"]
  /\ peer = [t \in Tasks |-> NoPeer]
  /\ client_ip = [t \in Tasks |-> NoPeer]
  /\ extension = [t \in Tasks |-> NoPeer]
  /\ status = [t \in Tasks |-> 0]
  /\ checked = [t \in Tasks |-> 0]

Goto(t, s) == stage' = [stage EXCEPT ![t] = s]

Respond(t, code) == status' = [status EXCEPT ![t] = code] /\ Goto(t, "done")

-----------------------------------------------------------------------------

Accept(t, p) ==
  /\ stage[t] = "new"
  /\ peer' = [peer EXCEPT ![t] = p]
  /\ Goto(t, "extract")
  /\ UNCHANGED <<now, tat, client_ip, extension, status, checked>>

\* ClientIpRejection::into_response
Reject(t) ==
  /\ stage[t] = "extract" /\ peer[t] = NoPeer
  /\ Respond(t, 500)
  /\ UNCHANGED <<now, tat, peer, client_ip, extension, checked>>

\* Faulty: the address is the one of the connection.
ExtractAsReported(t) ==
  /\ stage[t] = "extract" /\ peer[t] # NoPeer
  /\ client_ip' = [client_ip EXCEPT ![t] = peer[t]]
  /\ Goto(t, "check")
  /\ UNCHANGED <<now, tat, peer, extension, status, checked>>

\* The config trusts no proxy, so the client IP is the socket peer.
Extract(t) ==
  /\ stage[t] = "extract" /\ peer[t] # NoPeer
  /\ client_ip' = [client_ip EXCEPT ![t] = CanonicalIp(peer[t])]
  /\ Goto(t, "check")
  /\ UNCHANGED <<now, tat, peer, extension, status, checked>>

\* Faulty: the limiter has no keys, and all clients share one quota.
ConformsWithAll(ip) == \A any \in IpAddr : tat[any] <= now + Burst - 1

\* Faulty: the burst is one request larger.
ConformsOnceMore(ip) == tat[ip] <= now + Burst

\* check_key: a quota of one per second, of which Burst may be used at once.
Conforms(ip) == tat[ip] <= now + Burst - 1

\* A request that conforms uses up its share and goes on to the handler.
Admit(t) ==
  LET ip == client_ip[t]
  IN  /\ stage[t] = "check" /\ Conforms(ip)
      /\ tat' = [tat EXCEPT ![ip] = (IF @ > now THEN @ ELSE now) + 1]
      /\ extension' = [extension EXCEPT ![t] = ip]
      /\ checked' = [checked EXCEPT ![t] = now]
      /\ Goto(t, "handler")
      /\ UNCHANGED <<now, peer, client_ip, status>>

\* Faulty: a request without quota is not answered.
WaitForQuota(t) ==
  /\ stage[t] = "check" /\ ~Conforms(client_ip[t])
  /\ UNCHANGED vars

TooMany(t) ==
  /\ stage[t] = "check" /\ ~Conforms(client_ip[t])
  /\ Respond(t, 429)
  /\ checked' = [checked EXCEPT ![t] = now]
  /\ UNCHANGED <<now, tat, peer, client_ip, extension>>

Handle(t) ==
  /\ stage[t] = "handler"
  /\ Respond(t, 200)
  /\ UNCHANGED <<now, tat, peer, client_ip, extension, checked>>

Tick ==
  /\ now < MaxTime
  /\ now' = now + 1
  /\ UNCHANGED <<tat, task>>

\* All requests have had their responses and the time is over.
Over == now = MaxTime /\ (\A t \in Tasks : stage[t] = "done") /\ UNCHANGED vars

Work(t) == Reject(t) \/ Extract(t) \/ Admit(t) \/ TooMany(t) \/ Handle(t)

Next ==
  \/ \E t \in Tasks : Work(t) \/ \E p \in Peers \cup {NoPeer} : Accept(t, p)
  \/ Tick
  \/ Over

\* The runtime goes on with a task that can run.
Spec == Init /\ [][Next]_vars /\ \A t \in Tasks : WF_vars(Work(t))

-----------------------------------------------------------------------------
(* Properties.                                                              *)

\* Requests of a client that were let through in a span of time.
Admitted(ip, from, upto) ==
  {t \in Tasks : /\ extension[t] # NoPeer
                 /\ CanonicalIp(peer[t]) = ip
                 /\ checked[t] \in from .. upto}

(***************************************************************************)
(* "Each address may send a burst of 3 requests, and then gets one more    *)
(* request per second" (examples/throttle.rs): however its requests        *)
(* interleave and in whatever form a listener reports its address, no      *)
(* client gets more than that through, in any span of time.                *)
(***************************************************************************)
NoClientExceedsItsQuota ==
  \A ip \in IpAddr : \A from \in 0 .. now : \A upto \in from .. now :
    Cardinality(Admitted(ip, from, upto)) <= Burst + (upto - from)

(***************************************************************************)
(* "The throttle key is the socket address" (examples/throttle.rs): a      *)
(* request is refused only if its own client has used up its quota, and    *)
(* never on account of other clients.                                      *)
(***************************************************************************)
OnlyOwnRequestsCount ==
  \A t \in Tasks : status[t] = 429 =>
    \E from \in 0 .. checked[t] :
      Cardinality(Admitted(CanonicalIp(peer[t]), from, checked[t]))
        >= Burst + (checked[t] - from)

(***************************************************************************)
(* Every request that is accepted gets a response, whatever the limiter    *)
(* and the other requests do.                                              *)
(***************************************************************************)
RequestsAreServed == \A t \in Tasks : (stage[t] = "extract") ~> (stage[t] = "done")

=============================================================================

--------------------------- MODULE ThrottleProofs ---------------------------
(***************************************************************************)
(* Theorems about Throttle, for any number of requests, any addresses and  *)
(* any burst.                                                              *)
(***************************************************************************)
EXTENDS Throttle, IpSpaceProofs, FiniteSetTheorems

(***************************************************************************)
(* Where a request is tells what is known of it: the middleware holds the  *)
(* canonical peer, and only a request that was let through has an          *)
(* extension.                                                              *)
(***************************************************************************)
TaskState ==
  \A t \in Tasks :
    /\ stage[t] = "check" =>
         peer[t] \in IpAddr /\ client_ip[t] = CanonicalIp(peer[t])
    /\ stage[t] \in {"new", "extract", "check"} => extension[t] = NoPeer
    /\ checked[t] <= now

(***************************************************************************)
(* The limiter keeps one time per client, which pays for all requests that *)
(* were let through since any moment.                                      *)
(***************************************************************************)
QuotaState ==
  /\ \A ip \in IpAddr : tat[ip] <= now + Burst
  /\ \A ip \in IpAddr : \A from \in 0 .. now :
       Cardinality(Admitted(ip, from, now))
         <= (IF tat[ip] > from THEN tat[ip] - from ELSE 0)

ThrottleInvariant == TypeOK /\ TaskState /\ QuotaState /\ NoClientExceedsItsQuota

-----------------------------------------------------------------------------

LEMMA CanonicalIpIsAddress ==
  ASSUME NEW ip \in IpAddr
  PROVE  CanonicalIp(ip) \in IpAddr
BY CountsAreNumbers DEF CanonicalIp, IsMapped, IpAddr, MappedFirst

LEMMA AdmittedIsFinite ==
  ASSUME NEW ip, NEW from, NEW upto
  PROVE  /\ IsFiniteSet(Admitted(ip, from, upto))
         /\ Cardinality(Admitted(ip, from, upto)) \in Nat
<1>1. Admitted(ip, from, upto) \in SUBSET Tasks
  BY DEF Admitted
<1>2. IsFiniteSet(Admitted(ip, from, upto))
  BY <1>1, ThrottleAssumption, FS_Subset
<1> QED
  BY <1>2, FS_CardinalityType

(***************************************************************************)
(* A step that lets nothing through and does not pass time keeps the       *)
(* counts.                                                                 *)
(***************************************************************************)
LEMMA NothingAdmitted ==
  ASSUME TypeOK, TaskState, QuotaState, NoClientExceedsItsQuota,
         now' = now, tat' = tat,
         \A ip, from, upto : Admitted(ip, from, upto)' = Admitted(ip, from, upto)
  PROVE  QuotaState' /\ NoClientExceedsItsQuota'
BY DEF QuotaState, NoClientExceedsItsQuota

(***************************************************************************)
(* A step that lets a request through at the present moment.               *)
(***************************************************************************)
LEMMA OneAdmitted ==
  ASSUME ThrottleInvariant, NEW t \in Tasks, Admit(t)
  PROVE  QuotaState' /\ NoClientExceedsItsQuota'
<1> DEFINE key == client_ip[t]
<1>1. /\ key \in IpAddr /\ key # NoPeer /\ key = CanonicalIp(peer[t])
      /\ extension[t] = NoPeer
  BY CanonicalIpIsAddress, ThrottleAssumption DEF ThrottleInvariant, TaskState, Admit
<1>2. /\ now \in Nat /\ Burst \in Nat \ {0} /\ now' = now
      /\ tat \in [IpAddr -> Nat]
      /\ tat[key] <= now + Burst - 1
  BY <1>1, ThrottleAssumption DEF ThrottleInvariant, TypeOK, Admit, Conforms
<1>3. /\ tat' = [tat EXCEPT ![key] = (IF @ > now THEN @ ELSE now) + 1]
      /\ peer' = peer /\ extension' = [extension EXCEPT ![t] = key]
      /\ checked' = [checked EXCEPT ![t] = now]
      /\ extension \in [Tasks -> IpAddr \cup {NoPeer}] /\ checked \in [Tasks -> Nat]
  BY DEF Admit, ThrottleInvariant, TypeOK
<1>4. ASSUME NEW ip, NEW from \in Nat, NEW upto \in Nat
      PROVE  Admitted(ip, from, upto)' =
               IF ip = key /\ from <= now /\ now <= upto
                 THEN Admitted(ip, from, upto) \cup {t} ELSE Admitted(ip, from, upto)
  BY <1>1, <1>2, <1>3, <1>4 DEF Admitted
<1>5. ASSUME NEW ip, NEW from \in Nat, NEW upto \in Nat, ip # key \/ upto < now
      PROVE  Admitted(ip, from, upto)' = Admitted(ip, from, upto)
  <2>1. ~(ip = key /\ from <= now /\ now <= upto)
    BY <1>2, <1>5
  <2> QED
    BY <1>4, <2>1
<1>6. ASSUME NEW from \in Nat, NEW upto \in Nat
      PROVE  Cardinality(Admitted(key, from, upto) \cup {t})
               = Cardinality(Admitted(key, from, upto)) + 1
  <2>1. t \notin Admitted(key, from, upto)
    BY <1>1 DEF Admitted
  <2> QED
    BY <2>1, AdmittedIsFinite, FS_AddElement
<1>7. ASSUME NEW ip \in IpAddr, NEW from \in 0 .. now
      PROVE  /\ Cardinality(Admitted(ip, from, now)')
                  <= (IF tat'[ip] > from THEN tat'[ip] - from ELSE 0)
             /\ tat'[ip] <= now + Burst
  <2>1. /\ Cardinality(Admitted(ip, from, now)) \in Nat
        /\ Cardinality(Admitted(ip, from, now))
             <= (IF tat[ip] > from THEN tat[ip] - from ELSE 0)
        /\ tat[ip] <= now + Burst
    BY AdmittedIsFinite, <1>7 DEF ThrottleInvariant, QuotaState
  <2>2. CASE ip = key
    <3>1. Cardinality(Admitted(ip, from, now)') = Cardinality(Admitted(ip, from, now)) + 1
      BY <1>2, <1>4, <1>6, <1>7, <2>2
    <3>2. tat'[ip] = (IF tat[ip] > now THEN tat[ip] ELSE now) + 1
      BY <1>1, <1>2, <1>3, <2>2
    <3> QED
      BY <1>2, <1>7, <2>1, <2>2, <3>1, <3>2
  <2>3. CASE ip # key
    <3>1. Cardinality(Admitted(ip, from, now)') = Cardinality(Admitted(ip, from, now))
      BY <1>2, <1>7, <1>5, <2>3
    <3>2. tat'[ip] = tat[ip]
      BY <1>2, <1>3, <2>3
    <3> QED
      BY <2>1, <3>1, <3>2
  <2> QED
    BY <2>2, <2>3
<1>8. tat' \in [IpAddr -> Nat]
  <2>1. (IF tat[key] > now THEN tat[key] ELSE now) + 1 \in Nat
    BY <1>1, <1>2
  <2> QED
    BY <1>1, <1>2, <1>3, <2>1
<1>9. QuotaState'
  <2>1. \A ip \in IpAddr : tat'[ip] <= now' + Burst
    BY <1>2, <1>7
  <2>2. ASSUME NEW ip \in IpAddr, NEW from \in 0 .. now'
        PROVE  Cardinality(Admitted(ip, from, now)')
                 <= (IF tat'[ip] > from THEN tat'[ip] - from ELSE 0)
    <3>1. from \in 0 .. now
      BY <1>2, <2>2
    <3> QED
      BY <1>7, <3>1
  <2> QED
    BY <2>1, <2>2 DEF QuotaState
<1>10. ASSUME NEW ip \in IpAddr, NEW from \in 0 .. now, NEW upto \in from .. now
      PROVE  Cardinality(Admitted(ip, from, upto)') <= Burst + (upto - from)
  <2>1. from \in Nat /\ upto \in Nat /\ from <= upto /\ upto <= now
    BY <1>2, <1>10
  <2>2. CASE upto = now
    <3>1. Admitted(ip, from, upto)' = Admitted(ip, from, now)'
      BY <1>2, <2>2 DEF Admitted
    <3>2. /\ Cardinality(Admitted(ip, from, now)')
               <= (IF tat'[ip] > from THEN tat'[ip] - from ELSE 0)
          /\ tat'[ip] <= now + Burst
      BY <1>7, <1>10
    <3>3. (IF tat'[ip] > from THEN tat'[ip] - from ELSE 0) <= Burst + (upto - from)
      BY <1>2, <1>8, <2>1, <2>2, <3>2
    <3>4. /\ (IF tat'[ip] > from THEN tat'[ip] - from ELSE 0) \in Int
          /\ Cardinality(Admitted(ip, from, now)') \in Int
      <4>1. Cardinality(Admitted(ip, from, now)') \in Nat
        BY <1>2, <1>4, <1>6, <2>1, AdmittedIsFinite
      <4> QED
        BY <1>8, <2>1, <4>1
    <3> QED
      BY <1>2, <2>1, <3>1, <3>2, <3>3, <3>4
  <2>3. CASE upto < now
    <3>1. Cardinality(Admitted(ip, from, upto)) <= Burst + (upto - from)
      BY <1>10 DEF ThrottleInvariant, NoClientExceedsItsQuota
    <3>2. Admitted(ip, from, upto)' = Admitted(ip, from, upto)
      BY <1>5, <2>1, <2>3
    <3> QED
      BY <3>1, <3>2
  <2> QED
    BY <1>2, <2>1, <2>2, <2>3
<1> QED
  BY <1>2, <1>9, <1>10 DEF NoClientExceedsItsQuota

(***************************************************************************)
(* When time passes, the new moment has seen no request yet.               *)
(***************************************************************************)
LEMMA TimePasses ==
  ASSUME ThrottleInvariant, Tick
  PROVE  QuotaState' /\ NoClientExceedsItsQuota'
<1>1. /\ now \in Nat /\ now' = now + 1 /\ Burst \in Nat \ {0}
      /\ tat' = tat /\ tat \in [IpAddr -> Nat]
      /\ peer' = peer /\ extension' = extension /\ checked' = checked
      /\ \A t \in Tasks : checked[t] \in Nat /\ checked[t] <= now
  BY ThrottleAssumption DEF ThrottleInvariant, TypeOK, TaskState, Tick, task
<1>2. ASSUME NEW ip, NEW from \in Nat, NEW upto \in Nat
      PROVE  Admitted(ip, from, upto)' = Admitted(ip, from, upto)
  BY <1>1 DEF Admitted
<1>3. ASSUME NEW ip, NEW from \in 0 .. now
      PROVE  Admitted(ip, from, now + 1) = Admitted(ip, from, now)
  BY <1>1, <1>3 DEF Admitted
<1>4. ASSUME NEW ip
      PROVE  Cardinality(Admitted(ip, now + 1, now + 1)) = 0
  <2>1. Admitted(ip, now + 1, now + 1) = {}
    BY <1>1 DEF Admitted
  <2> QED
    BY <2>1, FS_EmptySet
<1>5. ASSUME NEW ip \in IpAddr, NEW from \in 0 .. now + 1
      PROVE  Cardinality(Admitted(ip, from, now + 1))
               <= (IF tat[ip] > from THEN tat[ip] - from ELSE 0)
  <2>1. CASE from = now + 1
    BY <1>1, <1>4, <2>1
  <2>2. CASE from \in 0 .. now
    BY <1>3, <2>2 DEF ThrottleInvariant, QuotaState
  <2> QED
    BY <1>1, <1>5, <2>1, <2>2
<1>6. QuotaState'
  BY <1>1, <1>2, <1>5 DEF QuotaState, ThrottleInvariant
<1>7. ASSUME NEW ip \in IpAddr, NEW from \in 0 .. now + 1, NEW upto \in from .. now + 1
      PROVE  Cardinality(Admitted(ip, from, upto)) <= Burst + (upto - from)
  <2>1. CASE from = now + 1
    BY <1>1, <1>4, <1>7, <2>1
  <2>2. CASE from \in 0 .. now /\ upto = now + 1
    <3>1. Cardinality(Admitted(ip, from, now)) <= Burst + (now - from)
      BY <1>1, <2>2 DEF ThrottleInvariant, NoClientExceedsItsQuota
    <3>2. Cardinality(Admitted(ip, from, now)) \in Nat
      BY AdmittedIsFinite
    <3> QED
      BY <1>1, <1>3, <2>2, <3>1, <3>2
  <2>3. CASE from \in 0 .. now /\ upto <= now
    BY <1>1, <1>7, <2>3 DEF ThrottleInvariant, NoClientExceedsItsQuota
  <2> QED
    BY <1>1, <1>7, <2>1, <2>2, <2>3
<1> QED
  BY <1>1, <1>2, <1>6, <1>7 DEF NoClientExceedsItsQuota

-----------------------------------------------------------------------------

LEMMA InitInvariant == Init => ThrottleInvariant
<1> SUFFICES ASSUME Init PROVE ThrottleInvariant
  OBVIOUS
<1>1. TypeOK /\ TaskState
  BY ThrottleAssumption DEF Init, TypeOK, TaskState
<1>2. \A ip, from, upto : Cardinality(Admitted(ip, from, upto)) = 0
  <2>1. \A ip, from, upto : Admitted(ip, from, upto) = {}
    BY DEF Init, Admitted
  <2> QED
    BY <2>1, FS_EmptySet
<1>3. QuotaState /\ NoClientExceedsItsQuota
  BY <1>2, ThrottleAssumption DEF Init, QuotaState, NoClientExceedsItsQuota
<1> QED
  BY <1>1, <1>3 DEF ThrottleInvariant

LEMMA NextInvariant == ThrottleInvariant /\ [Next]_vars => ThrottleInvariant'
<1> SUFFICES ASSUME ThrottleInvariant, [Next]_vars PROVE ThrottleInvariant'
  OBVIOUS
<1> USE DEF ThrottleInvariant
<1>1. ASSUME NEW t \in Tasks, NEW p \in Peers \cup {NoPeer}, Accept(t, p)
      PROVE  ThrottleInvariant'
  <2>1. TypeOK' /\ TaskState'
    BY <1>1, ThrottleAssumption DEF Accept, Goto, TypeOK, TaskState
  <2>2. \A ip, from, upto : Admitted(ip, from, upto)' = Admitted(ip, from, upto)
    BY <1>1 DEF Accept, Admitted, TypeOK, TaskState
  <2> QED
    BY <1>1, <2>1, <2>2, NothingAdmitted DEF Accept
<1>2. ASSUME NEW t \in Tasks, Reject(t) \/ Extract(t) \/ TooMany(t) \/ Handle(t)
      PROVE  ThrottleInvariant'
  <2>1. TypeOK' /\ TaskState'
    <3>1. peer[t] \in IpAddr /\ peer[t] # NoPeer => CanonicalIp(peer[t]) \in IpAddr
      BY CanonicalIpIsAddress
    <3>2. CASE Reject(t)
      BY <3>2, ThrottleAssumption DEF Reject, Respond, Goto, TypeOK, TaskState
    <3>3. CASE Extract(t)
      BY <3>1, <3>3, ThrottleAssumption DEF Extract, Goto, TypeOK, TaskState
    <3>4. CASE TooMany(t)
      BY <3>4, ThrottleAssumption DEF TooMany, Respond, Goto, TypeOK, TaskState
    <3>5. CASE Handle(t)
      BY <3>5, ThrottleAssumption DEF Handle, Respond, Goto, TypeOK, TaskState
    <3> QED
      BY <1>2, <3>2, <3>3, <3>4, <3>5
  <2>2. \A ip, from, upto : Admitted(ip, from, upto)' = Admitted(ip, from, upto)
    BY <1>2 DEF Reject, Extract, TooMany, Handle, Admitted, TypeOK, TaskState
  <2>3. now' = now /\ tat' = tat
    BY <1>2 DEF Reject, Extract, TooMany, Handle
  <2> QED
    BY <2>1, <2>2, <2>3, NothingAdmitted
<1>3. ASSUME NEW t \in Tasks, Admit(t)
      PROVE  ThrottleInvariant'
  <2>1. client_ip[t] \in IpAddr /\ client_ip[t] # NoPeer
    BY <1>3, CanonicalIpIsAddress, ThrottleAssumption DEF TaskState, Admit
  <2>2. tat' \in [IpAddr -> 0 .. MaxTime + Burst]
    BY <1>3, <2>1, ThrottleAssumption DEF Admit, Conforms, TypeOK
  <2>3. TypeOK' /\ TaskState'
    BY <1>3, <2>1, <2>2, ThrottleAssumption DEF Admit, Goto, TypeOK, TaskState
  <2> QED
    BY <1>3, <2>3, OneAdmitted
<1>4. CASE Tick
  <2>1. TypeOK' /\ TaskState'
    BY <1>4, ThrottleAssumption DEF Tick, task, TypeOK, TaskState
  <2> QED
    BY <1>4, <2>1, TimePasses
<1>5. CASE UNCHANGED vars
  <2>1. TypeOK' /\ TaskState'
    BY <1>5 DEF vars, task, TypeOK, TaskState
  <2>2. \A ip, from, upto : Admitted(ip, from, upto)' = Admitted(ip, from, upto)
    BY <1>5 DEF vars, task, Admitted
  <2> QED
    BY <1>5, <2>1, <2>2, NothingAdmitted DEF vars
<1> QED
  BY <1>1, <1>2, <1>3, <1>4, <1>5 DEF Next, Work, Over

(***************************************************************************)
(* The inductive invariant of the throttled service holds in every state.  *)
(***************************************************************************)
THEOREM InvariantHolds == Spec => []ThrottleInvariant
BY InitInvariant, NextInvariant, PTL DEF Spec

(***************************************************************************)
(* The state of the service and of its limiter has the declared types.     *)
(***************************************************************************)
THEOREM TypeCorrect == Spec => []TypeOK
<1>1. ThrottleInvariant => TypeOK
  BY DEF ThrottleInvariant
<1> QED
  BY <1>1, InvariantHolds, PTL

(***************************************************************************)
(* However many requests run at once, no client gets more of them through  *)
(* than the quota of its one canonical address.                            *)
(***************************************************************************)
THEOREM QuotaHolds == Spec => []NoClientExceedsItsQuota
<1>1. ThrottleInvariant => NoClientExceedsItsQuota
  BY DEF ThrottleInvariant
<1> QED
  BY <1>1, InvariantHolds, PTL

-----------------------------------------------------------------------------
(* Refusals.                                                                *)

(***************************************************************************)
(* The time the limiter keeps is not further ahead than requests of the    *)
(* same client account for, and a refused request is not looked at again.  *)
(***************************************************************************)
Accounted ==
  \A ip \in IpAddr : \E from \in 0 .. now :
    Cardinality(Admitted(ip, from, now)) >= tat[ip] - from

RefusedAreDone == \A t \in Tasks : status[t] = 429 => stage[t] = "done"

RefusalInvariant == Accounted /\ RefusedAreDone /\ OnlyOwnRequestsCount

\* More requests are not fewer.
LEMMA MoreAdmitted ==
  ASSUME NEW ip, NEW from, NEW upto, NEW jp, NEW grom, NEW vpto,
         Admitted(ip, from, upto) \subseteq Admitted(jp, grom, vpto)
  PROVE  Cardinality(Admitted(ip, from, upto)) <= Cardinality(Admitted(jp, grom, vpto))
BY AdmittedIsFinite, FS_Subset

LEMMA InitRefusals == Init => RefusalInvariant
<1> SUFFICES ASSUME Init PROVE RefusalInvariant
  OBVIOUS
<1>1. ASSUME NEW ip \in IpAddr
      PROVE  \E from \in 0 .. now : Cardinality(Admitted(ip, from, now)) >= tat[ip] - from
  <2>1. Cardinality(Admitted(ip, 0, now)) \in Nat
    BY AdmittedIsFinite
  <2>2. tat[ip] = 0 /\ now = 0
    BY DEF Init
  <2> QED
    BY <2>1, <2>2
<1>2. RefusedAreDone /\ OnlyOwnRequestsCount
  BY DEF Init, RefusedAreDone, OnlyOwnRequestsCount
<1> QED
  BY <1>1, <1>2 DEF RefusalInvariant, Accounted

\* A step of another kind than Admit, TooMany and Tick.
LEMMA QuietStep ==
  ASSUME RefusalInvariant, now' = now, tat' = tat,
         \A ip, from, upto : Admitted(ip, from, upto)' = Admitted(ip, from, upto),
         \A t \in Tasks : status'[t] = 429 =>
           status[t] = 429 /\ stage'[t] = "done" /\ peer'[t] = peer[t] /\ checked'[t] = checked[t]
  PROVE  RefusalInvariant'
<1>1. Accounted'
  BY DEF RefusalInvariant, Accounted
<1>2. RefusedAreDone'
  BY DEF RefusedAreDone
<1>3. OnlyOwnRequestsCount'
  BY DEF RefusalInvariant, OnlyOwnRequestsCount
<1> QED
  BY <1>1, <1>2, <1>3 DEF RefusalInvariant

\* One more request is let through: it accounts for its share.
LEMMA AdmitKeepsRefusals ==
  ASSUME ThrottleInvariant, RefusalInvariant, NEW t \in Tasks, Admit(t)
  PROVE  RefusalInvariant'
<1> DEFINE key == client_ip[t]
<1>1. /\ key \in IpAddr /\ key # NoPeer /\ key = CanonicalIp(peer[t])
      /\ extension[t] = NoPeer
  BY CanonicalIpIsAddress, ThrottleAssumption DEF ThrottleInvariant, TaskState, Admit
<1>2. /\ now \in Nat /\ now' = now /\ tat \in [IpAddr -> Nat]
      /\ tat' = [tat EXCEPT ![key] = (IF @ > now THEN @ ELSE now) + 1]
      /\ peer' = peer /\ extension' = [extension EXCEPT ![t] = key]
      /\ checked' = [checked EXCEPT ![t] = now] /\ status' = status
      /\ stage' = [stage EXCEPT ![t] = "handler"]
      /\ stage \in [Tasks -> {"new", "extract", "check", "handler", "done"}]
      /\ stage[t] = "check"
      /\ extension \in [Tasks -> IpAddr \cup {NoPeer}] /\ checked \in [Tasks -> Nat]
  BY ThrottleAssumption DEF ThrottleInvariant, TypeOK, Admit, Goto
<1>3. ASSUME NEW ip, NEW from \in Nat, NEW upto \in Nat
      PROVE  Admitted(ip, from, upto) \subseteq Admitted(ip, from, upto)'
  BY <1>1, <1>2 DEF Admitted
<1>4. ASSUME NEW ip, ip = key, NEW from \in Nat, from <= now
      PROVE  /\ Admitted(ip, from, now)' = Admitted(ip, from, now) \cup {t}
             /\ t \notin Admitted(ip, from, now)
  BY <1>1, <1>2, <1>4 DEF Admitted
<1>5. ASSUME NEW ip, ip = key, NEW from \in Nat, from <= now
      PROVE  Cardinality(Admitted(ip, from, now)') = Cardinality(Admitted(ip, from, now)) + 1
  BY <1>4, <1>5, AdmittedIsFinite, FS_AddElement
<1>6. ASSUME NEW ip, NEW from \in Nat, NEW upto \in Nat
      PROVE  /\ Cardinality(Admitted(ip, from, upto)) <= Cardinality(Admitted(ip, from, upto)')
             /\ Cardinality(Admitted(ip, from, upto)) \in Nat
             /\ Cardinality(Admitted(ip, from, upto)') \in Nat
  <2>1. Admitted(ip, from, upto)' \in SUBSET Tasks
    BY DEF Admitted
  <2>2. IsFiniteSet(Admitted(ip, from, upto)')
    BY <2>1, ThrottleAssumption, FS_Subset
  <2>3. Cardinality(Admitted(ip, from, upto)') \in Nat
    BY <2>2, FS_CardinalityType
  <2> QED
    BY <1>3, <2>2, <2>3, AdmittedIsFinite, FS_Subset
<1>7. ASSUME NEW ip \in IpAddr
      PROVE  \E from \in 0 .. now : Cardinality(Admitted(ip, from, now)') >= tat'[ip] - from
  <2>1. PICK from \in 0 .. now : Cardinality(Admitted(ip, from, now)) >= tat[ip] - from
    BY DEF RefusalInvariant, Accounted
  <2>2. from \in Nat /\ from <= now
    BY <1>2
  <2>3. tat[ip] \in Nat
    BY <1>2
  <2>4. CASE ip # key
    <3>1. Cardinality(Admitted(ip, from, now)) <= Cardinality(Admitted(ip, from, now)')
          /\ Cardinality(Admitted(ip, from, now)) \in Nat
          /\ Cardinality(Admitted(ip, from, now)') \in Nat
      BY <1>2, <1>6, <2>2
    <3>2. tat'[ip] = tat[ip]
      BY <1>2, <2>4
    <3>3. Cardinality(Admitted(ip, from, now)') >= tat'[ip] - from
      BY <2>1, <2>2, <2>3, <3>1, <3>2
    <3> QED
      BY <3>3
  <2>5. CASE ip = key /\ tat[ip] > now
    <3>1. Cardinality(Admitted(ip, from, now)') = Cardinality(Admitted(ip, from, now)) + 1
      BY <1>5, <2>2, <2>5
    <3>2. tat'[ip] = tat[ip] + 1
      BY <1>2, <1>1, <2>5
    <3>3. Cardinality(Admitted(ip, from, now)) \in Nat
      BY AdmittedIsFinite
    <3>4. Cardinality(Admitted(ip, from, now)') >= tat'[ip] - from
      BY <2>1, <2>2, <2>3, <3>1, <3>2, <3>3
    <3> QED
      BY <3>4
  <2>6. CASE ip = key /\ tat[ip] <= now
    <3>1. PICK present \in Nat : present = now
      BY <1>2
    <3>2. Cardinality(Admitted(ip, present, now)') = Cardinality(Admitted(ip, present, now)) + 1
      BY <1>5, <2>6, <3>1
    <3>3. Cardinality(Admitted(ip, present, now)) \in Nat
      BY AdmittedIsFinite
    <3>4. tat'[ip] = present + 1
      BY <1>1, <1>2, <2>3, <2>6, <3>1
    <3>5. Cardinality(Admitted(ip, present, now)') >= tat'[ip] - present
      BY <3>1, <3>2, <3>3, <3>4
    <3> QED
      BY <3>1, <3>5
  <2> QED
    BY <1>2, <2>3, <2>4, <2>5, <2>6
<1>8. Accounted'
  BY <1>2, <1>7 DEF Accounted
<1>9. RefusedAreDone'
  BY <1>2 DEF RefusalInvariant, RefusedAreDone
<1>10. ASSUME NEW u \in Tasks, status'[u] = 429
       PROVE  (\E from \in 0 .. checked[u] :
                 Cardinality(Admitted(CanonicalIp(peer[u]), from, checked[u]))
                   >= Burst + (checked[u] - from))'
  <2>1. u # t /\ status[u] = 429
    BY <1>2, <1>10 DEF RefusalInvariant, RefusedAreDone
  <2>2. PICK from \in 0 .. checked[u] :
          Cardinality(Admitted(CanonicalIp(peer[u]), from, checked[u]))
            >= Burst + (checked[u] - from)
    BY <2>1 DEF RefusalInvariant, OnlyOwnRequestsCount
  <2>3. PICK ip : ip = CanonicalIp(peer[u])
    OBVIOUS
  <2>4. PICK upto \in Nat : upto = checked[u]
    BY <1>2
  <2>5. checked'[u] = upto /\ CanonicalIp(peer[u])' = ip
    <3>1. peer'[u] = peer[u] /\ checked'[u] = checked[u]
      BY <1>2, <2>1
    <3> QED
      BY <2>3, <2>4, <3>1 DEF CanonicalIp, IsMapped
  <2>6. /\ from \in 0 .. upto /\ from \in Nat /\ Burst \in Nat
        /\ Cardinality(Admitted(ip, from, upto)) >= Burst + (upto - from)
    BY <2>2, <2>3, <2>4, ThrottleAssumption
  <2>7. Cardinality(Admitted(ip, from, upto)') >= Burst + (upto - from)
    BY <1>6, <2>6
  <2> QED
    BY <2>5, <2>6, <2>7
<1>11. OnlyOwnRequestsCount'
  BY <1>10 DEF OnlyOwnRequestsCount
<1> QED
  BY <1>8, <1>9, <1>11 DEF RefusalInvariant

\* A request is refused on account of its own client.
LEMMA TooManyKeepsRefusals ==
  ASSUME ThrottleInvariant, RefusalInvariant, NEW t \in Tasks, TooMany(t)
  PROVE  RefusalInvariant'
<1>1. /\ now \in Nat /\ now' = now /\ tat' = tat /\ tat \in [IpAddr -> Nat]
      /\ peer' = peer /\ extension' = extension
      /\ checked' = [checked EXCEPT ![t] = now] /\ checked \in [Tasks -> Nat]
      /\ status' = [status EXCEPT ![t] = 429] /\ stage' = [stage EXCEPT ![t] = "done"]
      /\ stage \in [Tasks -> {"new", "extract", "check", "handler", "done"}]
      /\ status \in [Tasks -> {0, 200, 429, 500}]
      /\ stage[t] = "check" /\ extension[t] = NoPeer
      /\ client_ip[t] \in IpAddr /\ client_ip[t] = CanonicalIp(peer[t])
      /\ Burst \in Nat /\ tat[client_ip[t]] > now + Burst - 1
  BY CanonicalIpIsAddress, ThrottleAssumption
  DEF ThrottleInvariant, TypeOK, TaskState, TooMany, Respond, Goto, Conforms
<1>2. \A ip, from, upto : Admitted(ip, from, upto)' = Admitted(ip, from, upto)
  BY <1>1 DEF Admitted
<1>3. Accounted'
  BY <1>1, <1>2 DEF RefusalInvariant, Accounted
<1>4. RefusedAreDone'
  BY <1>1 DEF RefusalInvariant, RefusedAreDone
<1>5. ASSUME NEW u \in Tasks, status'[u] = 429
      PROVE  \E from \in 0 .. checked'[u] :
               Cardinality(Admitted(CanonicalIp(peer[u]), from, checked'[u]))
                 >= Burst + (checked'[u] - from)
  <2>1. CASE u # t
    BY <1>1, <1>5, <2>1 DEF RefusalInvariant, OnlyOwnRequestsCount
  <2>2. CASE u = t
    <3>1. PICK from \in 0 .. now :
            Cardinality(Admitted(client_ip[t], from, now)) >= tat[client_ip[t]] - from
      BY <1>1 DEF RefusalInvariant, Accounted
    <3>2. Cardinality(Admitted(client_ip[t], from, now)) \in Nat
      BY AdmittedIsFinite
    <3>3. tat[client_ip[t]] \in Nat
      BY <1>1
    <3>4. Cardinality(Admitted(client_ip[t], from, now)) >= Burst + (now - from)
      BY <1>1, <3>1, <3>2, <3>3
    <3>5. checked'[u] = now /\ CanonicalIp(peer[u]) = client_ip[t]
      BY <1>1, <2>2
    <3> QED
      BY <3>1, <3>4, <3>5
  <2> QED
    BY <2>1, <2>2
<1>6. OnlyOwnRequestsCount'
  BY <1>1, <1>2, <1>5 DEF OnlyOwnRequestsCount
<1> QED
  BY <1>3, <1>4, <1>6 DEF RefusalInvariant

\* Time passes: what has been let through since a moment stays so.
LEMMA TickKeepsRefusals ==
  ASSUME ThrottleInvariant, RefusalInvariant, Tick
  PROVE  RefusalInvariant'
<1>1. /\ now \in Nat /\ now' = now + 1 /\ tat' = tat /\ tat \in [IpAddr -> Nat]
      /\ peer' = peer /\ extension' = extension /\ checked' = checked
      /\ status' = status /\ stage' = stage
      /\ checked \in [Tasks -> Nat]
  BY DEF ThrottleInvariant, TypeOK, Tick, task
<1>2. \A ip, from, upto : Admitted(ip, from, upto)' = Admitted(ip, from, upto)
  BY <1>1 DEF Admitted
<1>3. ASSUME NEW ip \in IpAddr
      PROVE  \E from \in 0 .. now + 1 :
               Cardinality(Admitted(ip, from, now + 1)) >= tat[ip] - from
  <2>1. PICK from \in 0 .. now : Cardinality(Admitted(ip, from, now)) >= tat[ip] - from
    BY DEF RefusalInvariant, Accounted
  <2>2. Admitted(ip, from, now) \subseteq Admitted(ip, from, now + 1)
    BY <1>1 DEF Admitted
  <2>3. Cardinality(Admitted(ip, from, now)) <= Cardinality(Admitted(ip, from, now + 1))
    BY <2>2, MoreAdmitted
  <2>4. /\ Cardinality(Admitted(ip, from, now)) \in Nat
        /\ Cardinality(Admitted(ip, from, now + 1)) \in Nat /\ tat[ip] \in Nat
    BY <1>1, AdmittedIsFinite
  <2>5. Cardinality(Admitted(ip, from, now + 1)) >= tat[ip] - from
    BY <1>1, <2>1, <2>3, <2>4
  <2> QED
    BY <1>1, <2>1, <2>5
<1>4. Accounted'
  BY <1>1, <1>2, <1>3 DEF Accounted
<1>5. RefusedAreDone' /\ OnlyOwnRequestsCount'
  BY <1>1, <1>2 DEF RefusalInvariant, RefusedAreDone, OnlyOwnRequestsCount
<1> QED
  BY <1>4, <1>5 DEF RefusalInvariant

LEMMA NextRefusals ==
  ASSUME ThrottleInvariant, RefusalInvariant, [Next]_vars
  PROVE  RefusalInvariant'
<1>1. ASSUME NEW t \in Tasks,
             \/ \E p \in Peers \cup {NoPeer} : Accept(t, p)
             \/ Reject(t) \/ Extract(t) \/ Handle(t)
      PROVE  RefusalInvariant'
  <2>1. /\ now' = now /\ tat' = tat /\ extension' = extension /\ checked' = checked
    BY <1>1 DEF Accept, Reject, Extract, Handle
  <2>2. /\ peer \in [Tasks -> IpAddr \cup {NoPeer}] /\ status \in [Tasks -> {0, 200, 429, 500}]
        /\ stage \in [Tasks -> {"new", "extract", "check", "handler", "done"}]
        /\ stage[t] # "done"
        /\ \A u \in Tasks : u # t => peer'[u] = peer[u] /\ status'[u] = status[u]
                                     /\ stage'[u] = stage[u]
        /\ peer'[t] = peer[t] \/ extension[t] = NoPeer
        /\ status'[t] \in {status[t], 200, 500}
    BY <1>1 DEF Accept, Reject, Extract, Handle, Goto, Respond, ThrottleInvariant, TypeOK, TaskState
  <2>3. \A ip, from, upto : Admitted(ip, from, upto)' = Admitted(ip, from, upto)
    BY <2>1, <2>2 DEF Admitted
  <2>4. status[t] # 429
    BY <2>2 DEF RefusalInvariant, RefusedAreDone
  <2>5. ASSUME NEW u \in Tasks, status'[u] = 429
        PROVE  /\ status[u] = 429 /\ stage'[u] = "done"
               /\ peer'[u] = peer[u] /\ checked'[u] = checked[u]
    BY <2>1, <2>2, <2>4, <2>5 DEF RefusalInvariant, RefusedAreDone
  <2> QED
    BY <2>1, <2>3, <2>5, QuietStep
<1>2. ASSUME NEW t \in Tasks, Admit(t) PROVE RefusalInvariant'
  BY <1>2, AdmitKeepsRefusals
<1>3. ASSUME NEW t \in Tasks, TooMany(t) PROVE RefusalInvariant'
  BY <1>3, TooManyKeepsRefusals
<1>4. CASE Tick
  BY <1>4, TickKeepsRefusals
<1>5. CASE UNCHANGED vars
  <2>1. \A ip, from, upto : Admitted(ip, from, upto)' = Admitted(ip, from, upto)
    BY <1>5 DEF vars, task, Admitted
  <2>2. ASSUME NEW u \in Tasks, status'[u] = 429
        PROVE  /\ status[u] = 429 /\ stage'[u] = "done"
               /\ peer'[u] = peer[u] /\ checked'[u] = checked[u]
    BY <1>5, <2>2 DEF vars, task, RefusalInvariant, RefusedAreDone
  <2> QED
    BY <1>5, <2>1, <2>2, QuietStep DEF vars
<1> QED
  BY <1>1, <1>2, <1>3, <1>4, <1>5 DEF Next, Work, Over

(***************************************************************************)
(* Nobody is refused on account of the requests of others: whoever gets no *)
(* share has let the limiter count that many requests of its own.          *)
(***************************************************************************)
THEOREM RefusalsAreOwn == Spec => []OnlyOwnRequestsCount
<1>1. ThrottleInvariant /\ RefusalInvariant /\ [Next]_vars => RefusalInvariant'
  BY NextRefusals
<1>2. RefusalInvariant => OnlyOwnRequestsCount
  BY DEF RefusalInvariant
<1> QED
  BY <1>1, <1>2, InitRefusals, InvariantHolds, PTL DEF Spec

=============================================================================

------------------------------ MODULE Resolver ------------------------------
(***************************************************************************)
(* _try_resolve_ip of utils.py for one host: a cached address, a slot that *)
(* the callers of a lookup in flight share, and a daemon thread that may   *)
(* hang in getaddrinfo for good.  Callers walk away after their timeout.   *)
(* The cache's clock is left out: an entry may be found expired whenever   *)
(* it is looked at.                                                        *)
(***************************************************************************)
EXTENDS Naturals, FiniteSets

CONSTANTS Askers,      \* threads that resolve the host
          Addresses,   \* what getaddrinfo may answer
          MaxSlots     \* bound: slots made

ASSUME ResolverAssumption == {"none", "failed"} \cap Addresses = {} /\ MaxSlots \in Nat

VARIABLES
  rpc, mine,        \* an asker: its place, and the slot it waits for (0: none)
  inflight,         \* _RESOLVE_IP_INFLIGHT of the host (0: none)
  slots,            \* how many slots were made
  worker, found,    \* a slot's thread, and its "ip"
  cache             \* _RESOLVE_IP_CACHE of the host
rvars == <<rpc, mine, inflight, slots, worker, found, cache>>

Slots == 1 .. MaxSlots
\* The slot's event: set by its thread, or by the owner that could not start one.
Done(s) == worker[s] \in {"set", "gone"}

RTypeOK ==
  /\ rpc \in [Askers -> {"idle", "start", "clean", "wait", "store"}]
  /\ mine \in [Askers -> 0 .. slots] /\ inflight \in 0 .. slots /\ slots \in 0 .. MaxSlots
  /\ worker \in [Slots -> {"none", "looking", "set", "gone"}]
  /\ found \in [Slots -> Addresses \cup {"failed"}]
  /\ cache \in Addresses \cup {"none"}

RInit ==
  /\ rpc = [a \in Askers |-> "idle"] /\ mine = [a \in Askers |-> 0]
  /\ inflight = 0 /\ slots = 0 /\ worker = [s \in Slots |-> "none"]
  /\ found = [s \in Slots |-> "failed"] /\ cache = "none"

RGo(a, from, to) == rpc[a] = from /\ rpc' = [rpc EXCEPT ![a] = to]

-----------------------------------------------------------------------------
\* A fresh entry answers at once.
ResolveCached(a) ==
  /\ rpc[a] = "idle" /\ cache # "none"
  /\ mine' = [mine EXCEPT ![a] = 0]
  /\ UNCHANGED <<rpc, inflight, slots, worker, found, cache>>

\* No entry, or one that has expired: join the slot in flight or own a new one.
Resolve(a) ==
  /\ cache' = "none"
  /\ IF inflight # 0
     THEN RGo(a, "idle", "wait") /\ mine' = [mine EXCEPT ![a] = inflight]
          /\ UNCHANGED <<slots, inflight>>
     ELSE /\ RGo(a, "idle", "start") /\ slots < MaxSlots
          /\ slots' = slots + 1 /\ inflight' = slots' /\ mine' = [mine EXCEPT ![a] = slots']
  /\ UNCHANGED <<worker, found>>

StartWorker(a) ==
  /\ RGo(a, "start", "wait") /\ worker' = [worker EXCEPT ![mine[a]] = "looking"]
  /\ UNCHANGED <<mine, inflight, slots, found, cache>>

\* RuntimeError: no thread can be started, so the owner sets the event itself
CannotStart(a) ==
  /\ RGo(a, "start", "clean") /\ worker' = [worker EXCEPT ![mine[a]] = "gone"]
  /\ UNCHANGED <<mine, inflight, slots, found, cache>>

\* Bug: the owner leaves its slot behind.
CleanNot(a) ==
  /\ RGo(a, "clean", "idle")
  /\ UNCHANGED <<mine, inflight, slots, worker, found, cache>>

\* and drops its slot, unless another has taken its place.
Clean(a) ==
  /\ RGo(a, "clean", "idle")
  /\ inflight' = IF inflight = mine[a] THEN 0 ELSE inflight
  /\ UNCHANGED <<mine, slots, worker, found, cache>>

\* done.wait(timeout): the answer, or None while the lookup hangs on.
WaitDone(a) ==
  /\ RGo(a, "wait", IF Done(mine[a]) THEN "store" ELSE "idle")
  /\ UNCHANGED <<mine, inflight, slots, worker, found, cache>>

\* Only an address is cached.
Store(a) ==
  /\ RGo(a, "store", "idle")
  /\ cache' = IF found[mine[a]] # "failed" THEN found[mine[a]] ELSE cache
  /\ UNCHANGED <<mine, inflight, slots, worker, found>>

\* Another host's entry clears a full cache.
CacheCleared ==
  /\ cache # "none" /\ cache' = "none"
  /\ UNCHANGED <<rpc, mine, inflight, slots, worker, found>>

-----------------------------------------------------------------------------
\* The thread: getaddrinfo answers, fails or never returns; then the event is
\* set, and the slot dropped under the lock.
Answered(s) ==
  /\ worker[s] = "looking" /\ worker' = [worker EXCEPT ![s] = "set"]
  /\ \E ip \in Addresses \cup {"failed"} : found' = [found EXCEPT ![s] = ip]
  /\ UNCHANGED <<rpc, mine, inflight, slots, cache>>
DropSlot(s) ==
  /\ worker[s] = "set" /\ worker' = [worker EXCEPT ![s] = "gone"]
  /\ inflight' = IF inflight = s THEN 0 ELSE inflight
  /\ UNCHANGED <<rpc, mine, slots, found, cache>>

Resolving(a) == StartWorker(a) \/ CannotStart(a) \/ Clean(a) \/ WaitDone(a) \/ Store(a)

RNext == \/ CacheCleared
         \/ \E a \in Askers : ResolveCached(a) \/ Resolve(a) \/ Resolving(a)
         \/ \E s \in Slots : Answered(s) \/ DropSlot(s)
RSpec == RInit /\ [][RNext]_rvars /\ (\A a \in Askers : WF_rvars(Resolving(a)))

-----------------------------------------------------------------------------
\* A slot that later callers would join has somebody who will answer for it: its
\* thread, or the owner who has not started that yet or is dropping the slot.
NoDeadSlot ==
  inflight # 0 => \/ worker[inflight] \in {"looking", "set"}
                  \/ \E a \in Askers : rpc[a] \in {"start", "clean"} /\ mine[a] = inflight

\* However often a dead name server is asked, one thread at most hangs in it.
OneLookup == Cardinality({s \in Slots : worker[s] = "looking"}) <= 1

\* A lookup in flight is the only one, and it is alive.
OneLiveLookup == NoDeadSlot /\ OneLookup

\* Nobody waits for good, not even for a lookup that never ends.
ResolveReturns == \A a \in Askers : rpc[a] # "idle" ~> rpc[a] = "idle"
=============================================================================

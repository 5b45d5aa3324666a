------------------------------ MODULE JwksCache ------------------------------
(***************************************************************************)
(* The signing keys of Clerk as internal/auth keeps them (Verifier.key and *)
(* Verifier.refresh).  Requests look a key up under the read lock, fetch   *)
(* the published set without any lock, and replace the cache under the     *)
(* write lock: several fetches may be on their way, and an older answer    *)
(* may be stored after a newer one.                                        *)
(***************************************************************************)
EXTENDS Integers, FiniteSets

CONSTANTS
  Requests,       \* requests with a token, at any one time
  Kids,           \* key identifiers; a withdrawn one is not used again
  None,
  FreshFor,       \* how long a fetched set answers by itself: five minutes
  Timeout,        \* of the HTTP client, reading the answer included: five seconds
  MaxTime         \* bound of the clock

JwksAssumption ==
  /\ FreshFor \in Nat \ {0} /\ Timeout \in Nat /\ MaxTime \in Nat /\ None \notin Kids

VARIABLES
  now,
  since,          \* key -> when it was published, or Never
  until,          \* key -> when it was withdrawn, or Never
  keys,           \* the cache: keys and time of loading
  loaded,
  call            \* request -> its progress and the answer it fetched

vars == <<now, since, until, keys, loaded, call>>

Never == MaxTime + FreshFor + Timeout + 1
Idle == [at |-> "idle", kid |-> None, fetched |-> {}, time |-> 0]
Published == {k \in Kids : since[k] # Never /\ until[k] = Never}

\* RequireAuth: a token that names the key k arrives.
Arrive(r, k) ==
  /\ call[r].at = "idle"
  /\ call' = [call EXCEPT ![r] = [Idle EXCEPT !.at = "look", !.kid = k]]
  /\ UNCHANGED <<now, since, until, keys, loaded>>

\* Mutant: a key that is known does not age.
KnownIsEnough(r) ==
  /\ call[r].at = "look"
  /\ call' = [call EXCEPT ![r].at = IF call[r].kid \in keys THEN "accepted" ELSE "fetch"]
  /\ UNCHANGED <<now, since, until, keys, loaded>>

\* key, under the first read lock: a known key of a fresh set is taken.
Look(r) ==
  /\ call[r].at = "look"
  /\ call' = [call EXCEPT ![r].at =
       IF call[r].kid \in keys /\ now - loaded < FreshFor THEN "accepted" ELSE "fetch"]
  /\ UNCHANGED <<now, since, until, keys, loaded>>

\* Clerk answers the request of refresh with what is published then.
Answer(r) ==
  /\ call[r].at = "fetch"
  /\ call' = [call EXCEPT ![r].at = "store", ![r].fetched = Published, ![r].time = now]
  /\ UNCHANGED <<now, since, until, keys, loaded>>

\* The fetch fails, times out, or is not what it should be: the token is refused.
Fail(r) ==
  /\ call[r].at \in {"fetch", "store"} /\ call' = [call EXCEPT ![r] = Idle]
  /\ UNCHANGED <<now, since, until, keys, loaded>>

\* The end of refresh, under the write lock.
Store(r) ==
  /\ call[r].at = "store"
  /\ keys' = call[r].fetched /\ loaded' = now
  /\ call' = [call EXCEPT ![r] = [Idle EXCEPT !.at = "again", !.kid = call[r].kid]]
  /\ UNCHANGED <<now, since, until>>

\* key, under the second read lock: whatever is stored by then.
LookAgain(r) ==
  /\ call[r].at = "again"
  /\ call' = [call EXCEPT ![r].at = IF call[r].kid \in keys THEN "accepted" ELSE "missing"]
  /\ UNCHANGED <<now, since, until, keys, loaded>>

\* The answer of the API is written.
Done(r) ==
  /\ call[r].at \in {"accepted", "missing"}
  /\ call' = [call EXCEPT ![r] = Idle]
  /\ UNCHANGED <<now, since, until, keys, loaded>>
-----------------------------------------------------------------------------
(* Clerk and the clock *)

Publish(k) ==
  /\ since[k] = Never /\ since' = [since EXCEPT ![k] = now]
  /\ UNCHANGED <<now, until, keys, loaded, call>>

Withdraw(k) ==
  /\ k \in Published /\ until' = [until EXCEPT ![k] = now]
  /\ UNCHANGED <<now, since, keys, loaded, call>>

\* The client gives up on an answer that takes longer; what comes after the answer takes
\* no time.
Tick ==
  /\ now < MaxTime /\ now' = now + 1
  /\ \A r \in Requests :
       /\ call[r].at \in {"idle", "fetch", "store"}
       /\ call[r].at = "store" => now - call[r].time < Timeout
  /\ UNCHANGED <<since, until, keys, loaded, call>>

\* The process starts with an empty cache and loaded the zero time.
Init ==
  /\ now = 0 /\ since = [k \in Kids |-> Never] /\ until = [k \in Kids |-> Never]
  /\ keys = {} /\ loaded = 0 - FreshFor /\ call = [r \in Requests |-> Idle]

Next ==
  \/ \E r \in Requests :
       \/ \E k \in Kids : Arrive(r, k)
       \/ Look(r) \/ Answer(r) \/ Fail(r) \/ Store(r) \/ LookAgain(r) \/ Done(r)
  \/ \E k \in Kids : Publish(k) \/ Withdraw(k)
  \/ Tick

Spec == Init /\ [][Next]_vars
-----------------------------------------------------------------------------
States == {"idle", "look", "fetch", "store", "again", "accepted", "missing"}

TypeOK ==
  /\ now \in 0..MaxTime /\ keys \subseteq Kids /\ loaded <= now
  /\ \A k \in keys : since[k] <= now
  /\ \A r \in Requests : call[r].at \in States /\ call[r].fetched \subseteq Kids
  /\ \A r \in Requests : call[r].at = "store" => now - call[r].time <= Timeout

\* A token signed with a withdrawn key is refused once the set that had it is stale, also
\* when its answer was stored late or after a newer one.
WithdrawnIsRefused ==
  \A r \in Requests : call[r].at = "accepted" =>
    now - (IF until[call[r].kid] = Never THEN now ELSE until[call[r].kid]) < FreshFor + Timeout

\* A token is not answered "key not found" when its key has been published for longer than
\* an answer can be late: an older answer stored over the one just fetched still has it.
PublishedIsFound ==
  \A r \in Requests :
    call[r].at = "missing" /\ call[r].kid \in Published => now - since[call[r].kid] <= Timeout
=============================================================================

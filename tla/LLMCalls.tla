------------------------------- MODULE LLMCalls -------------------------------
(* Calls of the language model backends (internal/llm): the gate every request *)
(* of a host passes (gate.go: concurrency slots, cooldown, retries), and the   *)
(* leases that decide when an idle model is told to unload (backend.go).       *)
(* A process is a caller (a job or handler that leases a model and sends       *)
(* requests) or a timer goroutine that sends the stop request.  One host.      *)
EXTENDS Naturals, FiniteSets

CONSTANTS
    Callers,        \* goroutines that use a model
    Timers,         \* time.AfterFunc timers that can be outstanding at once
    Models,         \* models served by the host
    NoModel,        \* an STT client with an API key takes no lease
    NoTimer,
    Caps,           \* max_concurrency: 0 is unlimited
    Cooldown,       \* request_cooldown_ms, in ticks
    RetryAttempts,  \* retries after the first attempt
    RetryDelay,     \* retry_delay_ms, in ticks
    StopDelays,     \* stop_delay_ms, in ticks: 0 stops at once
    MaxRequests     \* bound: requests sent under one lease

ASSUME LLMAssumption ==
    /\ NoModel \notin Models /\ NoTimer \notin Timers
    /\ Callers \cap Timers = {}
    /\ Caps \subseteq Nat /\ StopDelays \subseteq Nat
    /\ Cooldown \in Nat /\ RetryAttempts \in Nat /\ RetryDelay \in Nat
    /\ MaxRequests \in Nat \ {0}
    /\ IsFiniteSet(Callers) /\ IsFiniteSet(Timers)

VARIABLES
    pc,       \* where each process stands
    model,    \* the model a process works for
    left,     \* ticks a process still sleeps, or an armed timer still runs
    tries,    \* retries of the current request
    used,     \* requests sent under the current lease
    stopping, \* processes whose request is the stop of their model
    gap,      \* ticks since gate.lastFinish, up to Cooldown
    slots,    \* holders of gate.slots (of every process inside, when unlimited)
    counts,   \* backendUseRegistry.counts
    pending,  \* backendUseRegistry.pending
    cap,      \* the configuration, fixed while the program runs
    stopDelay

vars == <<pc, model, left, tries, used, stopping, gap, slots, counts, pending, cap, stopDelay>>
gateVars == <<gap, slots>>
leaseVars == <<counts, pending>>
config == <<cap, stopDelay>>

Procs == Callers \cup Timers
Inside == {"cool", "sleep", "sent", "retry"}   \* in RoundTrip, past the slot
Reset(procs, f, v) == [p \in DOMAIN f |-> IF p \in procs THEN v ELSE f[p]]
Least(a, b) == IF a < b THEN a ELSE b

Init ==
    /\ pc = [p \in Procs |-> "idle"]
    /\ model = [p \in Procs |-> NoModel]
    /\ left = [p \in Procs |-> 0]
    /\ tries = [p \in Procs |-> 0]
    /\ used = [c \in Callers |-> 0]
    /\ stopping = {}
    /\ gap = Cooldown
    /\ slots = {}
    /\ counts = [m \in Models |-> 0]
    /\ pending = [m \in Models |-> NoTimer]
    /\ cap \in Caps
    /\ stopDelay \in StopDelays

-------------------------------------------------------------------------------
(* The leases (backendUseRegistry)                                             *)

(* begin: one more user; a scheduled stop of the model is cancelled.  Stop()   *)
(* has no effect on a timer whose goroutine already runs.                      *)
Begin(c, m) ==
    LET stopped == {t \in {pending[m]} \cap Timers : pc[t] = "armed"} IN
    /\ pc[c] = "idle"
    /\ counts' = [counts EXCEPT ![m] = @ + 1]
    /\ pending' = [pending EXCEPT ![m] = NoTimer]
    /\ pc' = Reset(stopped, [pc EXCEPT ![c] = "leased"], "idle")
    /\ model' = Reset(stopped, [model EXCEPT ![c] = m], NoModel)
    /\ left' = Reset(stopped, left, 0)
    /\ UNCHANGED <<tries, used, stopping, gateVars, config>>

(* A client that takes no lease: BeginBackendUse gives a no-op release.        *)
BeginUnleased(c) ==
    /\ pc[c] = "idle"
    /\ pc' = [pc EXCEPT ![c] = "leased"]
    /\ UNCHANGED <<model, used, left, tries, stopping, gateVars, leaseVars, config>>

Free(p) ==
    /\ pc' = [pc EXCEPT ![p] = "idle"]
    /\ model' = [model EXCEPT ![p] = NoModel]

ReleaseUnleased(c) ==
    /\ pc[c] = "leased" /\ model[c] = NoModel
    /\ Free(c)
    /\ used' = [used EXCEPT ![c] = 0]
    /\ UNCHANGED <<left, tries, stopping, gateVars, leaseVars, config>>

Lower(m) == counts' = [counts EXCEPT ![m] = @ - 1]

(* release: not the last user of its model.                                    *)
ReleaseShared(c) ==
    /\ pc[c] = "leased" /\ model[c] # NoModel /\ counts[model[c]] > 1
    /\ Lower(model[c])
    /\ Free(c)
    /\ used' = [used EXCEPT ![c] = 0]
    /\ UNCHANGED <<stopping, left, tries, pending, gateVars, config>>

(* release: the last user; the releasing goroutine stops the model itself.     *)
ReleaseAndStop(c) ==
    /\ pc[c] = "leased" /\ model[c] # NoModel /\ counts[model[c]] = 1
    /\ stopDelay = 0
    /\ Lower(model[c])
    /\ pc' = [pc EXCEPT ![c] = "acquire"]
    /\ stopping' = stopping \cup {c}
    /\ used' = [used EXCEPT ![c] = 0]
    /\ UNCHANGED <<model, left, tries, pending, gateVars, config>>

(* release: the last user; a timer is armed for the stop.                      *)
ReleaseAndArm(c, t) ==
    /\ pc[c] = "leased" /\ model[c] # NoModel /\ counts[model[c]] = 1
    /\ stopDelay > 0 /\ pc[t] = "idle"
    /\ Lower(model[c])
    /\ pending' = [pending EXCEPT ![model[c]] = t]
    /\ pc' = [pc EXCEPT ![c] = "idle", ![t] = "armed"]
    /\ model' = [model EXCEPT ![c] = NoModel, ![t] = model[c]]
    /\ left' = [left EXCEPT ![t] = stopDelay]
    /\ used' = [used EXCEPT ![c] = 0]
    /\ UNCHANGED <<tries, stopping, gateVars, config>>

Fire(t) ==
    /\ pc[t] = "armed" /\ left[t] = 0
    /\ pc' = [pc EXCEPT ![t] = "fired"]
    /\ UNCHANGED <<model, left, tries, used, stopping, gateVars, leaseVars, config>>

\* Mutant: the entry is deleted before it is looked for.
Recheck_DeletesFirst(t) ==
    /\ pc[t] = "fired"
    /\ pending' = [pending EXCEPT ![model[t]] = NoTimer]
    /\ Free(t)
    /\ UNCHANGED <<left, tries, used, stopping, counts, gateVars, config>>

(* The timer's function: give up if no stop is pending for the model, else     *)
(* take the pending entry - whoever put it there - and send the stop.          *)
Recheck(t) ==
    /\ pc[t] = "fired"
    /\ IF pending[model[t]] = NoTimer
         THEN Free(t) /\ UNCHANGED <<pending, stopping>>
         ELSE /\ pending' = [pending EXCEPT ![model[t]] = NoTimer]
              /\ stopping' = stopping \cup {t}
              /\ pc' = [pc EXCEPT ![t] = "acquire"]
              /\ UNCHANGED model
    /\ UNCHANGED <<left, tries, used, counts, gateVars, config>>

-------------------------------------------------------------------------------
(* The gate (throttledTransport.RoundTrip)                                     *)

(* A client builds a request and hands it to the transport.                    *)
Call(c) ==
    /\ pc[c] = "leased" /\ used[c] < MaxRequests
    /\ used' = [used EXCEPT ![c] = @ + 1]
    /\ pc' = [pc EXCEPT ![c] = "acquire"]
    /\ UNCHANGED <<model, left, tries, stopping, gateVars, leaseVars, config>>

\* Mutant: a channel with one place too many.
AcquireSlot_OneMore(p) ==
    /\ pc[p] = "acquire"
    /\ cap > 0 => Cardinality(slots) <= cap
    /\ slots' = slots \cup {p}
    /\ pc' = [pc EXCEPT ![p] = "cool"]
    /\ UNCHANGED <<stopping, model, left, tries, used, gap, leaseVars, config>>

AcquireSlot(p) ==
    /\ pc[p] = "acquire"
    /\ cap > 0 => Cardinality(slots) < cap
    /\ slots' = slots \cup {p}
    /\ pc' = [pc EXCEPT ![p] = "cool"]
    /\ UNCHANGED <<stopping, model, left, tries, used, gap, leaseVars, config>>

\* Mutant: the gap is not waited for.
ReadCooldown_NoWait(p) ==
    /\ pc[p] = "cool"
    /\ pc' = [pc EXCEPT ![p] = "sleep"]
    /\ UNCHANGED <<model, left, tries, used, stopping, gateVars, leaseVars, config>>

(* lastFinish is read once; the sleep is without the lock.                     *)
ReadCooldown(p) ==
    /\ pc[p] = "cool"
    /\ left' = [left EXCEPT ![p] = Cooldown - gap]
    /\ pc' = [pc EXCEPT ![p] = "sleep"]
    /\ UNCHANGED <<model, tries, used, stopping, gateVars, leaseVars, config>>

Attempt(p, from) ==
    /\ pc[p] = from /\ left[p] = 0
    /\ pc' = [pc EXCEPT ![p] = "sent"]
    /\ UNCHANGED <<model, left, tries, used, stopping, gateVars, leaseVars, config>>

SendFirst(p) == Attempt(p, "sleep")
SendAgain(p) == Attempt(p, "retry")

(* A connection error, 429 or 5xx with attempts left.                          *)
Retry(p) ==
    /\ pc[p] = "sent" /\ tries[p] < RetryAttempts
    /\ tries' = [tries EXCEPT ![p] = @ + 1]
    /\ left' = [left EXCEPT ![p] = RetryDelay]
    /\ pc' = [pc EXCEPT ![p] = "retry"]
    /\ UNCHANGED <<model, used, stopping, gateVars, leaseVars, config>>

(* The deferred end of RoundTrip, with an answer or after the last attempt.    *)
Finish(p) ==
    /\ pc[p] = "sent"
    /\ gap' = 0
    /\ slots' = slots \ {p}
    /\ IF p \in stopping
         THEN Free(p)
         ELSE pc' = [pc EXCEPT ![p] = "leased"] /\ UNCHANGED model
    /\ stopping' = stopping \ {p}
    /\ tries' = [tries EXCEPT ![p] = 0]
    /\ UNCHANGED <<left, used, leaseVars, config>>

Tick ==
    /\ gap' = Least(gap + 1, Cooldown)
    /\ left' = [p \in Procs |-> IF left[p] > 0 THEN left[p] - 1 ELSE 0]
    /\ UNCHANGED <<stopping, pc, model, tries, used, slots, leaseVars, config>>

-------------------------------------------------------------------------------
Use(c) ==
    \/ \E m \in Models : Begin(c, m)
    \/ BeginUnleased(c)
    \/ Call(c)

Release(c) ==
    \/ ReleaseUnleased(c)
    \/ ReleaseShared(c)
    \/ ReleaseAndStop(c)
    \/ \E t \in Timers : ReleaseAndArm(c, t)

Send(p) == SendFirst(p) \/ SendAgain(p)

Next ==
    \/ \E c \in Callers : Use(c) \/ Release(c)
    \/ \E t \in Timers : Fire(t) \/ Recheck(t)
    \/ \E p \in Procs :
          AcquireSlot(p) \/ ReadCooldown(p) \/ Send(p) \/ Retry(p) \/ Finish(p)
    \/ Tick

(* Goroutines run, time passes, the backend answers every attempt in the end   *)
(* (the client has no timeout of its own), and the senders blocked on the      *)
(* slots channel are served in turn.  Nobody has to call or to lease.          *)
Fairness ==
    /\ \A c \in Callers : WF_vars(Release(c))
    /\ \A t \in Timers : WF_vars(Fire(t)) /\ WF_vars(Recheck(t))
    /\ \A p \in Procs :
          /\ SF_vars(AcquireSlot(p))
          /\ WF_vars(ReadCooldown(p)) /\ WF_vars(Send(p))
          /\ WF_vars(Retry(p) \/ Finish(p))
    /\ WF_vars(Tick)

Spec == Init /\ [][Next]_vars /\ Fairness
-------------------------------------------------------------------------------
TypeOK ==
    /\ pc \in [Procs -> {"idle", "leased", "armed", "fired", "acquire"} \cup Inside]
    /\ model \in [Procs -> Models \cup {NoModel}]
    /\ left \in [Procs -> Nat]
    /\ tries \in [Procs -> 0 .. RetryAttempts]
    /\ used \in [Callers -> 0 .. MaxRequests]
    /\ stopping \in SUBSET Procs
    /\ gap \in 0 .. Cooldown
    /\ slots = {p \in Procs : pc[p] \in Inside}
    /\ counts \in [Models -> Nat]
    /\ pending \in [Models -> Timers \cup {NoTimer}]
    /\ cap \in Caps /\ stopDelay \in StopDelays

(* The backend never works on more requests than max_concurrency, the stop     *)
(* requests and the requests that sleep between two attempts included          *)
(* (gate.go:14 "an optional concurrency cap"; config.default.toml:56).         *)
SlotBound ==
    cap > 0 => Cardinality({p \in Procs : pc[p] \in Inside}) <= cap

(* A process that works for a model under a lease.                             *)
Leased(c, m) ==
    /\ c \in Callers /\ model[c] = m /\ c \notin stopping
    /\ pc[c] \notin {"idle"}

(* The registry counts exactly the open leases, a model with a lease has no    *)
(* stop scheduled (backend.go:80 "cancels any scheduled idle-stop"), and the   *)
(* timer scheduled for a model is one of that model that can still fire.       *)
LeasesCounted ==
    \A m \in Models :
       /\ counts[m] = Cardinality({c \in Callers : Leased(c, m)})
       /\ counts[m] > 0 => pending[m] = NoTimer
       /\ pending[m] # NoTimer =>
             pc[pending[m]] \in {"armed", "fired"} /\ model[pending[m]] = m

(* With one slot, the first attempt of a request starts no sooner than the     *)
(* cooldown after the end of the request before it (gate.go:15 "an optional    *)
(* minimum gap between the end of one request and the start of the next").     *)
CooldownKept ==
    [][\A p \in Procs : cap = 1 /\ SendFirst(p) => gap = Cooldown]_vars

(* A model left by its last user is stopped in the end, unless it is leased    *)
(* again: the scheduled stop is never lost (backend.go:112).                   *)
IdleIsStopped ==
    \A m \in Models :
       pending[m] # NoTimer ~>
          counts[m] > 0 \/ \E p \in stopping : model[p] = m /\ pc[p] = "sent"

(* The stop of a model never falls between two attempts of a request under a   *)
(* lease (config.default.toml:69 "the model is NEVER stopped between retry     *)
(* attempts of a transcription").  It does when more than one slot is open.    *)
NeverBetweenAttempts ==
    [][\A p \in stopping, c \in Callers :
          SendFirst(p) /\ Leased(c, model[p]) => pc[c] # "retry"]_vars
===============================================================================
